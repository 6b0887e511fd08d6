SPECIFICATION InventorySpec
CONSTANTS
    Capacity = 3
    ammo = ammo
    armor = armor
    NoKind = NoKind
    Kinds <- MCKinds
    MaxStack <- MCMaxStack
    MaxRequest = 7
INVARIANTS AddStoresWhatFits LoopsMatchOperator CheckPredictsAdd
CHECK_DEADLOCK TRUE
