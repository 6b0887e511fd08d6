------------------------------ MODULE LootWorld ------------------------------
(***************************************************************************)
(* Loot in StalkerOnline.Server/Game/GameWorld.cs, as the threads of       *)
(* several client sessions run it.  A session handles one packet at a      *)
(* time, so each session is one process; TryPickupWorldItem and            *)
(* TryDropItem take no lock of their own and interleave at every access    *)
(* to a shared object: the object dictionary, an item's IsActive flag, an  *)
(* item's quantity under the item's lock, an inventory under its lock.     *)
(* Distance is abstracted to "may be too far".                             *)
(***************************************************************************)
EXTENDS InventoryOps, Sequences

CONSTANTS
    Sessions,       \* session ids, each used by one connection
    InitialLoot,    \* the stacks the server spawns at start, in order
    LoadedInventory,\* the inventory a character is loaded with
    MaxObjectId     \* bound on the ids CreateWorldObjectId hands out

Ids == 1 .. MaxObjectId
InitialIds == 1 .. Len(InitialLoot)

ASSUME LootAssumption ==
    /\ InitialLoot \in Seq(Stacks)
    /\ MaxObjectId \in Nat
    /\ Len(InitialLoot) <= MaxObjectId
    /\ LoadedInventory \in Inventories

VARIABLES
    nextId,     \* _nextWorldObjectId
    objects,    \* keys of _objectsByWorldObjectId
    item,       \* every WorldItem object by id, still in the dictionary or not
    player,     \* _playersBySessionId: the player object id of a session, or 0
    left,       \* sessions whose player was removed from the world
    inv,        \* the players' inventories
    pc,         \* where the session's handler is
    target,     \* the item a pickup works on
    qty,        \* itemQuantity, then takenQuantity, of a pickup
    hand        \* droppedInventoryItem of a drop

vars == <<nextId, objects, item, player, left, inv, pc, target, qty, hand>>

NoItem == [stack |-> Empty, qty |-> 0, active |-> FALSE]
WorldItem(st) == [stack |-> st, qty |-> st.qty, active |-> TRUE]
IsItem(i) == item[i] # NoItem

Init ==
    /\ nextId = Len(InitialLoot)
    /\ objects = InitialIds
    /\ item = [i \in Ids |-> IF i \in InitialIds THEN WorldItem(InitialLoot[i]) ELSE NoItem]
    /\ player = [s \in Sessions |-> 0]
    /\ left = {}
    /\ inv = [s \in Sessions |-> EmptyInventory]
    /\ pc = [s \in Sessions |-> "idle"]
    /\ target = [s \in Sessions |-> 0]
    /\ qty = [s \in Sessions |-> 0]
    /\ hand = [s \in Sessions |-> Empty]

InWorld(s) == player[s] # 0

\* CreateWorldObjectId hands out nextId + 1; the runs stop at MaxObjectId.
IdAvailable == nextId < MaxObjectId

-----------------------------------------------------------------------------
(***************************************************************************)
(* Players.                                                                *)
(***************************************************************************)

\* AddPlayer: a new world object for the session's player.
AddPlayer(s) ==
    /\ ~InWorld(s) /\ s \notin left
    /\ IdAvailable
    /\ nextId' = nextId + 1
    /\ player' = [player EXCEPT ![s] = nextId']
    /\ objects' = objects \cup {nextId'}
    /\ inv' = [inv EXCEPT ![s] = LoadedInventory]
    /\ UNCHANGED <<item, left, pc, target, qty, hand>>

\* RemovePlayer, called by the session's own thread between two packets.
RemovePlayer(s) ==
    /\ InWorld(s) /\ pc[s] = "idle"
    /\ player' = [player EXCEPT ![s] = 0]
    /\ left' = left \cup {s}
    /\ objects' = objects \ {player[s]}
    /\ UNCHANGED <<nextId, item, inv, pc, target, qty, hand>>

-----------------------------------------------------------------------------
(***************************************************************************)
(* TryPickupWorldItem.                                                     *)
(***************************************************************************)

\* The player and the object are looked up; the object must be an item.
PickupFind(s, i) ==
    /\ InWorld(s) /\ pc[s] = "idle"
    /\ i \in objects /\ IsItem(i)
    /\ pc' = [pc EXCEPT ![s] = "found"]
    /\ target' = [target EXCEPT ![s] = i]
    /\ UNCHANGED <<nextId, objects, item, player, left, inv, qty, hand>>

\* IsActive is read without the item's lock.
PickupSeeActive(s) ==
    /\ pc[s] = "found"
    /\ item[target[s]].active
    /\ pc' = [pc EXCEPT ![s] = "near"]
    /\ UNCHANGED <<nextId, objects, item, player, left, inv, target, qty, hand>>

\* GetQuantitySnapshot under the item's lock, then CanFullyAddItem on it.
PickupFits(s) ==
    LET it == item[target[s]]
    IN  /\ pc[s] = "near"
        /\ CanFullyAddItem(inv[s], it.stack.kind, it.qty)
        /\ qty' = [qty EXCEPT ![s] = it.qty]
        /\ pc' = [pc EXCEPT ![s] = "fits"]
        /\ UNCHANGED <<nextId, objects, item, player, left, inv, target, hand>>

\* The test TryTakeAll makes, and the item it leaves.
\* Mutant: the test is dropped.
Takeable_Always(it) == TRUE
Takeable(it) == it.active /\ it.qty > 0
Taken(it) == [it EXCEPT !.qty = 0, !.active = FALSE]

\* TryTakeAll, under the item's lock.
TryTakeAll(s) ==
    LET it == item[target[s]]
    IN  /\ pc[s] = "fits"
        /\ Takeable(it)
        /\ qty' = [qty EXCEPT ![s] = it.qty]
        /\ item' = [item EXCEPT ![target[s]] = Taken(it)]
        /\ pc' = [pc EXCEPT ![s] = "taken"]
        /\ UNCHANGED <<nextId, objects, player, left, inv, target, hand>>

\* AddItem, and the test of its result.
PickupStore(s) ==
    LET k == item[target[s]].stack.kind
    IN  /\ pc[s] = "taken"
        /\ inv' = [inv EXCEPT ![s] = AddItem(@, k, qty[s])]
        /\ pc' = [pc EXCEPT ![s] = IF AddedQuantity(inv[s], k, qty[s]) = qty[s]
                                   THEN "stored" ELSE "refused"]
        /\ UNCHANGED <<nextId, objects, item, player, left, target, qty, hand>>

\* The end of a pickup: the item leaves the dictionary, or RestoreQuantity puts
\* everything back when the inventory did not take it all.
PickupFinish(s) ==
    LET i == target[s]
    IN  /\ pc[s] \in {"stored", "refused"}
        /\ IF pc[s] = "stored"
           THEN /\ objects' = objects \ {i}
                /\ UNCHANGED item
           ELSE /\ item' = [item EXCEPT ![i].qty = @ + qty[s], ![i].active = TRUE]
                /\ UNCHANGED objects
        /\ pc' = [pc EXCEPT ![s] = "idle"]
        /\ target' = [target EXCEPT ![s] = 0]
        /\ qty' = [qty EXCEPT ![s] = 0]
        /\ UNCHANGED <<nextId, player, left, inv, hand>>

\* The early returns after the lookup: inactive or too far; empty, or no room;
\* taken by someone else since.
PickupFail(s) ==
    LET it == item[target[s]]
    IN  /\ \/ pc[s] = "found"
           \/ pc[s] = "near" /\ ~CanFullyAddItem(inv[s], it.stack.kind, it.qty)
           \/ pc[s] = "fits" /\ ~Takeable(it)
        /\ pc' = [pc EXCEPT ![s] = "idle"]
        /\ target' = [target EXCEPT ![s] = 0]
        /\ qty' = [qty EXCEPT ![s] = 0]
        /\ UNCHANGED <<nextId, objects, item, player, left, inv, hand>>

-----------------------------------------------------------------------------
(***************************************************************************)
(* TryDropItem.                                                            *)
(***************************************************************************)

\* TakeItemFromSlot, under the inventory's lock.
DropTake(s, slot, n) ==
    /\ InWorld(s) /\ pc[s] = "idle"
    /\ inv[s][slot] # Empty
    /\ hand' = [hand EXCEPT ![s] = [kind |-> inv[s][slot].kind,
                                    qty |-> TakenQuantity(inv[s], slot, n)]]
    /\ inv' = [inv EXCEPT ![s] = TakeItemFromSlot(@, slot, n)]
    /\ pc' = [pc EXCEPT ![s] = "dropping"]
    /\ UNCHANGED <<nextId, objects, item, player, left, target, qty>>

\* SpawnWorldItem under a fresh id.
SpawnWorldItem(s) ==
    /\ pc[s] = "dropping"
    /\ IdAvailable
    /\ nextId' = nextId + 1
    /\ item' = [item EXCEPT ![nextId'] = WorldItem(hand[s])]
    /\ objects' = objects \cup {nextId'}
    /\ hand' = [hand EXCEPT ![s] = Empty]
    /\ pc' = [pc EXCEPT ![s] = "idle"]
    /\ UNCHANGED <<player, left, inv, target, qty>>

Session(s) ==
    \/ AddPlayer(s)
    \/ RemovePlayer(s)
    \/ \E i \in objects : PickupFind(s, i)
    \/ PickupSeeActive(s)
    \/ PickupFits(s)
    \/ TryTakeAll(s)
    \/ PickupStore(s)
    \/ PickupFinish(s)
    \/ PickupFail(s)
    \/ \E slot \in Slots : \E n \in 1 .. inv[s][slot].qty + 1 : DropTake(s, slot, n)
    \/ SpawnWorldItem(s)

Next == \E s \in Sessions : Session(s)

Spec == Init /\ [][Next]_vars

-----------------------------------------------------------------------------
(***************************************************************************)
(* Properties.                                                             *)
(***************************************************************************)
Places == {"idle", "found", "near", "fits", "taken", "stored", "refused", "dropping"}

TypeOK ==
    /\ nextId \in 0 .. MaxObjectId
    /\ objects \subseteq 1 .. nextId
    /\ item \in [Ids -> [stack : Stacks \cup {Empty}, qty : Nat, active : BOOLEAN]]
    /\ player \in [Sessions -> 0 .. nextId]
    /\ left \subseteq Sessions
    /\ inv \in [Sessions -> Inventories]
    /\ pc \in [Sessions -> Places]
    /\ target \in [Sessions -> 0 .. MaxObjectId]
    /\ qty \in [Sessions -> Nat]
    /\ hand \in [Sessions -> Stacks \cup {Empty}]

\* A session has emptied an item and has not finished with it.
Holds(s) == pc[s] \in {"taken", "stored", "refused"}

\* Two sessions never hold one item: the test and the clearing in TryTakeAll
\* are one step under the item's lock (WorldItem.cs:77-96).
OneTaker ==
    \A s, t \in Sessions : Holds(s) /\ Holds(t) /\ target[s] = target[t] => s = t

\* An item can be taken exactly while it has units, whoever works on it, and an
\* item that left the dictionary has none: a session that found it before
\* (GameWorld.cs:353) can no longer take it (GameWorld.cs:419).
TakeableIffUnits ==
    \A i \in Ids : IsItem(i) =>
        /\ item[i].active <=> item[i].qty > 0
        /\ i \notin objects => item[i].qty = 0
        /\ item[i].qty \in {0, item[i].stack.qty}

\* The undo branch of a pickup (GameWorld.cs:434-442) never runs: what
\* CanFullyAddItem allowed, AddItem does.  The undo would duplicate units: it
\* puts the whole item back after a partial AddItem.
UndoNeverRuns == \A s \in Sessions : pc[s] # "refused"

\* Every step is a step of the ledger, in which picking up and dropping are
\* atomic: no unit is lost, duplicated or given to two players.
Owned(s, k) ==
    Units(inv[s], k) + IF hand[s].kind = k THEN hand[s].qty ELSE 0

\* An item is on the ground until its units are in an inventory.
OnGround ==
    {[id |-> i, kind |-> item[i].stack.kind, qty |-> item[i].stack.qty] :
        i \in {j \in Ids : /\ IsItem(j)
                           /\ \/ item[j].qty > 0
                              \/ \E s \in Sessions : pc[s] \in {"taken", "refused"} /\ target[s] = j}}

Ledger == INSTANCE LootLedger WITH
    ObjectIds <- Ids,
    InitialGround <- {[id |-> i, kind |-> InitialLoot[i].kind, qty |-> InitialLoot[i].qty] :
                          i \in InitialIds},
    StartingUnits <- [k \in Kinds |-> Units(LoadedInventory, k)],
    ground <- OnGround,
    used <- 1 .. nextId,
    owns <- [s \in Sessions |-> [k \in Kinds |-> Owned(s, k)]]

ImplementsLedger == Ledger!Spec
=============================================================================
