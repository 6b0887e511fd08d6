SPECIFICATION FairSpec
CONSTANTS
    Sessions = {s1, s2}
    MaxPos = 1
    Radius = 0
    Stalled = {s2}
INVARIANTS PacketsBalanceTables UndisturbedUpdateRepairs
PROPERTIES ClosedSessionLeaves
CHECK_DEADLOCK FALSE
