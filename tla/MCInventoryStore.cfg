SPECIFICATION FairSpec
CONSTANTS
    Sessions = {a, b}
    Character <- OneCharacter
    NSlots = 2
    ammo = ammo
    Stacks = {ammo}
    Nothing = Nothing
    Starter <- MCStarter
    Guests = {b}
    MaxFaults = 2
    MaxChanges = 1
    Autosave = Autosave
    Stop = Stop
    Threads = {Autosave, Stop}
INVARIANTS OnlyOverlapsFail
PROPERTIES UndisturbedSaveIsExact RoundTriesEverybody LeavingEnds
CHECK_DEADLOCK FALSE
