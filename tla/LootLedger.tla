----------------------------- MODULE LootLedger -----------------------------
(***************************************************************************)
(* What the world promises about loot, with every operation atomic: an     *)
(* item lies on the ground or its units are in one player's possession;    *)
(* picking up moves all of an item at once, dropping turns units into a    *)
(* new item.  Module LootWorld implements this.                            *)
(***************************************************************************)
EXTENDS Integers

CONSTANTS
    Sessions,       \* session ids
    ObjectIds,      \* ids the world hands out
    Kinds,          \* item kinds
    InitialGround,  \* items spawned when the server starts
    StartingUnits   \* units of each kind a player joins with

VARIABLES
    ground,     \* items that can be picked up: records [id, kind, qty]
    used,       \* ids handed out so far
    owns        \* units of each kind in each player's possession

vars == <<ground, used, owns>>

Nothing == [k \in Kinds |-> 0]

Init ==
    /\ ground = InitialGround
    /\ used = {g.id : g \in InitialGround}
    /\ owns = [s \in Sessions |-> Nothing]

\* A player enters the world with the units it starts with.
Join(s) ==
    /\ owns[s] = Nothing
    /\ \E id \in ObjectIds \ used : used' = used \cup {id}
    /\ owns' = [owns EXCEPT ![s] = StartingUnits]
    /\ UNCHANGED ground

\* All of an item goes from the ground to one player.
Pickup(s, g) ==
    /\ g \in ground
    /\ ground' = ground \ {g}
    /\ owns' = [owns EXCEPT ![s][g.kind] = @ + g.qty]
    /\ UNCHANGED used

\* Units a player has become one item under a new id.
Drop(s, k, n, id) ==
    /\ id \notin used
    /\ n > 0 /\ n <= owns[s][k]
    /\ ground' = ground \cup {[id |-> id, kind |-> k, qty |-> n]}
    /\ owns' = [owns EXCEPT ![s][k] = @ - n]
    /\ used' = used \cup {id}

Next ==
    \E s \in Sessions :
        \/ Join(s)
        \/ \E g \in ground : Pickup(s, g)
        \/ \E k \in Kinds, id \in ObjectIds :
              \E n \in 1 .. owns[s][k] : Drop(s, k, n, id)

Spec == Init /\ [][Next]_vars
=============================================================================
