SPECIFICATION Spec
CONSTANTS
    Capacity = 2
    ammo = ammo
    armor = armor
    NoKind = NoKind
    Kinds <- MCKinds
    MaxStack <- MCMaxStack
    Sessions = {s1, s2}
    InitialLoot <- MCInitialLoot
    LoadedInventory <- MCLoadedInventory
    MaxObjectId = 6
INVARIANTS OneTaker UndoNeverRuns
PROPERTIES ImplementsLedger
CHECK_DEADLOCK FALSE
