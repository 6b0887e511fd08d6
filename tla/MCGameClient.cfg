SPECIFICATION FairSpec
CONSTANTS
    Tasks = {t1, t2}
    MaxSockets = 2
    Characters = {1, 2}
    MaxPackets = 2
    Logs = 2
    Registers = 1
    MaxChecks = 1
INVARIANTS StoppedShowsNobody Mirrors 
PROPERTIES AttemptsEnd StopReturns LossIsNoticed
CHECK_DEADLOCK FALSE
