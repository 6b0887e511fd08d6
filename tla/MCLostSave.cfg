SPECIFICATION Spec
CONSTANTS
    Sessions = {a}
    Character <- OneCharacter
    NSlots = 2
    ammo = ammo
    Stacks = {ammo}
    Nothing = Nothing
    Starter <- MCStarter
    Guests = {}
    MaxFaults = 0
    MaxChanges = 1
    Autosave = Autosave
    Stop = Stop
    Threads = {Autosave, Stop}
INVARIANTS SavedOnStopOrDisconnect

CHECK_DEADLOCK FALSE
