-------------------------- MODULE MCInventoryStore --------------------------
(* InventoryStore with two slots and one kind of stack; every session plays *)
(* the same character.                                                     *)
EXTENDS InventoryStore

CONSTANTS ammo

MCStarter == [i \in Slots |-> IF i = 0 THEN ammo ELSE Nothing]
OneCharacter == [s \in Sessions |-> 1]
=============================================================================
