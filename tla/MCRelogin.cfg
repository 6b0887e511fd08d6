SPECIFICATION Spec
CONSTANTS
    Tasks = {t1}
    MaxSockets = 2
    Characters = {1, 2}
    MaxPackets = 0
    Logs = 2
    Registers = 0
    MaxChecks = 1
INVARIANTS NeverTerminates
CHECK_DEADLOCK FALSE
