SPECIFICATION Spec
CONSTANTS
    Sessions = {s1, s2}
    MaxPos = 1
    ItemVisibilityRadius = 0
    ItemPickupDistance = 0
    InitialItems = 1
    MaxItems = 2
INVARIANTS ItemPacketsBalanceTables UndisturbedUpdateRepairs
CHECK_DEADLOCK FALSE
