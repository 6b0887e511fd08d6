---------------------------- MODULE MCLootWorld ----------------------------
(* LootWorld with two sessions, two items on the ground and two-slot       *)
(* inventories: a stackable kind whose item only fits in part when one     *)
(* slot is in use, and a kind that does not stack.                         *)
EXTENDS LootWorld

CONSTANTS ammo, armor

MCKinds == {ammo, armor}
MCMaxStack == [k \in MCKinds |-> IF k = ammo THEN 2 ELSE 1]
MCInitialLoot == <<[kind |-> ammo, qty |-> 2], [kind |-> armor, qty |-> 1]>>
MCLoadedInventory == [s \in Slots |-> IF s = 0 THEN [kind |-> ammo, qty |-> 1] ELSE Empty]
=============================================================================
