-------------------------- MODULE MCLootVisibility --------------------------
(* LootVisibility with two sessions on two positions that do not see each  *)
(* other, one item on the ground and one that can be dropped.              *)
EXTENDS LootVisibility
=============================================================================
