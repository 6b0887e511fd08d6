------------------------- MODULE MCPlayerInventory -------------------------
(* PlayerInventory with three slots, a kind that stacks to three and one   *)
(* that does not stack.                                                    *)
EXTENDS PlayerInventory

CONSTANTS ammo, armor

MCKinds == {ammo, armor}
MCMaxStack == [k \in MCKinds |-> IF k = ammo THEN 3 ELSE 1]

=============================================================================
