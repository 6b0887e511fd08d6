SPECIFICATION ServerSpec
CONSTANTS
    Sessions = {a, b}
    Logins = {l1, l2}
    Emails = {e1, e2}
    MaxRegisters = 2
    MaxFaults = 1
    Servers = {Main, Other}
    Main = Main
    MaxStartFaults = 2
INVARIANTS AnswersAreTrue  SchemaIsComplete
PROPERTIES EverybodyListens
CHECK_DEADLOCK FALSE
