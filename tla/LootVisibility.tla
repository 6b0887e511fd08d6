--------------------------- MODULE LootVisibility ---------------------------
(***************************************************************************)
(* Which loot each client is told of: the world-item tables of InterestManager  *)
(* and the broadcasts of GameServer that keep them up to date.  A move     *)
(* updates the mover's table; a drop updates the tables of all sessions,   *)
(* one concurrent update each; a pickup takes the item out of all tables.  *)
(* So one table can have several updates running, each with lists it read  *)
(* before the others' steps.                                               *)
(*                                                                         *)
(* What LootWorld details is one step here: a pickup or a drop succeeds.   *)
(* upd[s][o] is the update of o's table that s's handler runs; its packets *)
(* are SendPacketAsync tasks that end in any order.                        *)
(***************************************************************************)
EXTENDS Integers, FiniteSets

CONSTANTS
    Sessions,           \* session ids; a session joins the world at most once
    MaxPos,             \* positions are 0 .. MaxPos, on a line
    ItemVisibilityRadius,
    ItemPickupDistance,
    InitialItems,       \* the number of items the server spawns, at position 0
    MaxItems            \* bound on the items ever spawned

Positions == 0 .. MaxPos
Items == 1 .. MaxItems

ASSUME LootVisibilityAssumption ==
    /\ IsFiniteSet(Sessions)
    /\ {MaxPos, ItemVisibilityRadius, ItemPickupDistance, InitialItems, MaxItems} \subseteq Nat
    /\ InitialItems <= MaxItems

VARIABLES
    spawned,    \* the items spawned so far are 1 .. spawned
    objects,    \* those in the world
    at,         \* their positions
    player,     \* keys of GameWorld._playersBySessionId
    pos,        \* positions of the players
    open,       \* sessions that are not closed
    vis,        \* _visibleWorldItemsByObserverSessionId; a missing entry is {}
    pc,         \* where a session's handler is
    job,        \* what its last handler did
    picked,     \* the item its handler picked up
    upd,        \* the updates its handler runs
    sent,       \* spawns minus despawns written, by observer and item
    alone       \* no other handler has run since this one's began

world == <<spawned, objects, at, player, pos, open>>
vars == <<world, vis, pc, job, picked, upd, sent, alone>>

NoUpdate == [at |-> "none", near |-> {}, spawn |-> {}, despawn |-> {}, out |-> {}]
NewUpdate == [NoUpdate EXCEPT !.at = "look"]
Despawns(i) == [NoUpdate EXCEPT !.at = "despawn", !.out = {i}]
NoUpdates == [o \in Sessions |-> NoUpdate]

Within(p, q, d) == p - q <= d /\ q - p <= d

\* No items for a session without a player.
GetNearbyWorldItemsForPlayer(o) ==
    {i \in objects : o \in player /\ Within(pos[o], at[i], ItemVisibilityRadius)}

Init ==
    /\ spawned = InitialItems /\ objects = 1 .. InitialItems
    /\ at = [i \in Items |-> 0]
    /\ player = {} /\ open = Sessions
    /\ pos = [s \in Sessions |-> 0]
    /\ vis = [s \in Sessions |-> {}]
    /\ pc = [s \in Sessions |-> "out"]
    /\ job = [s \in Sessions |-> "none"]
    /\ picked = [s \in Sessions |-> 0]
    /\ upd = [s \in Sessions |-> NoUpdates]
    /\ sent = [s \in Sessions |-> [i \in Items |-> 0]]
    /\ alone = [s \in Sessions |-> FALSE]

\* The client of s is told nothing any more.
CloseClient(s) ==
    /\ open' = open \ {s}
    /\ sent' = [sent EXCEPT ![s] = [i \in Items |-> 0]]

\* A handler of s starts on its job.
Starts(s, place, work) ==
    /\ pc' = [pc EXCEPT ![s] = place]
    /\ job' = [job EXCEPT ![s] = work]
    /\ alone' = [t \in Sessions |->
                    t = s /\ \A u \in Sessions \ {s} : pc[u] \in {"out", "idle", "gone"}]

-----------------------------------------------------------------------------
(***************************************************************************)
(* Handlers.                                                               *)
(***************************************************************************)

\* A login ends (pc "out"), or a move request is handled.
JoinOrMove(s, p) ==
    /\ pc[s] \in {"out", "idle"} /\ s \in open
    /\ player' = player \cup {s}
    /\ pos' = [pos EXCEPT ![s] = p]
    /\ upd' = [upd EXCEPT ![s][s] = NewUpdate]
    /\ Starts(s, "update", "move")
    /\ UNCHANGED <<spawned, objects, at, open, vis, picked, sent>>

Drop(s) ==
    /\ pc[s] = "idle" /\ s \in open
    /\ spawned < MaxItems
    /\ spawned' = spawned + 1
    /\ objects' = objects \cup {spawned'}
    /\ at' = [at EXCEPT ![spawned'] = pos[s]]
    /\ Starts(s, "dropped", "drop")
    /\ UNCHANGED <<player, pos, open, vis, picked, upd, sent>>

Pickup(s, i) ==
    /\ pc[s] = "idle" /\ s \in open
    /\ Within(pos[s], at[i], ItemPickupDistance)
    /\ objects' = objects \ {i}
    /\ picked' = [picked EXCEPT ![s] = i]
    /\ Starts(s, "picked", "pickup")
    /\ UNCHANGED <<spawned, at, player, pos, open, vis, upd, sent>>

\* The sessions a drop is announced to.
\* Mutant: the dropper is left out.
DropObservers_Others(s) == (open \cap player) \ {s}
DropObservers(s) == open \cap player

BroadcastWorldItemDropped(s) ==
    /\ pc[s] = "dropped"
    /\ upd' = [upd EXCEPT ![s] =
                  [o \in Sessions |-> IF o \in DropObservers(s) THEN NewUpdate ELSE NoUpdate]]
    /\ pc' = [pc EXCEPT ![s] = "update"]
    /\ UNCHANGED <<world, vis, job, picked, sent, alone>>

\* RemoveVisibleWorldItemFromAll, then a despawn for each former observer.
BroadcastWorldItemPickedUp(s) ==
    LET i == picked[s]
    IN  /\ pc[s] = "picked"
        /\ vis' = [o \in Sessions |-> vis[o] \ {i}]
        /\ upd' = [upd EXCEPT ![s] =
                      [o \in Sessions |-> IF i \in vis[o] THEN Despawns(i) ELSE NoUpdate]]
        /\ picked' = [picked EXCEPT ![s] = 0]
        /\ pc' = [pc EXCEPT ![s] = "update"]
        /\ UNCHANGED <<world, job, sent, alone>>

\* Saving the inventory throws before the broadcast: the session ends.
SaveFails(s) ==
    /\ pc[s] \in {"dropped", "picked"}
    /\ CloseClient(s)
    /\ picked' = [picked EXCEPT ![s] = 0]
    /\ pc' = [pc EXCEPT ![s] = "idle"]
    /\ job' = [job EXCEPT ![s] = "none"]
    /\ UNCHANGED <<spawned, objects, at, player, pos, vis, upd, alone>>

HandlerEnds(s) ==
    /\ pc[s] = "update" /\ upd[s] = NoUpdates
    /\ pc' = [pc EXCEPT ![s] = "idle"]
    /\ UNCHANGED <<world, vis, job, picked, upd, sent, alone>>

Close(s) ==
    /\ s \in open /\ pc[s] # "out"
    /\ CloseClient(s)
    /\ UNCHANGED <<spawned, objects, at, player, pos, vis, pc, job, picked, upd, alone>>

UnregisterPlayer(s) ==
    /\ pc[s] = "idle" /\ s \notin open
    /\ vis' = [vis EXCEPT ![s] = {}]
    /\ Starts(s, "leaving", "none")
    /\ UNCHANGED <<world, picked, upd, sent>>

RemovePlayer(s) ==
    /\ pc[s] = "leaving"
    /\ player' = player \ {s}
    /\ pc' = [pc EXCEPT ![s] = "gone"]
    /\ UNCHANGED <<spawned, objects, at, pos, open, vis, job, picked, upd, sent, alone>>

-----------------------------------------------------------------------------
(***************************************************************************)
(* UpdateWorldItemInterestAsync for o, in a handler of s.                  *)
(***************************************************************************)
Others == <<world, pc, job, picked, alone>>

Look(s, o) ==
    /\ upd[s][o].at = "look"
    /\ upd' = [upd EXCEPT ![s][o].at = "refresh",
                          ![s][o].near = GetNearbyWorldItemsForPlayer(o)]
    /\ UNCHANGED <<Others, vis, sent>>

RefreshVisibleWorldItems(s, o) ==
    LET u == upd[s][o]
    IN  /\ u.at = "refresh"
        /\ vis' = [vis EXCEPT ![o] = u.near]
        /\ upd' = [upd EXCEPT ![s][o] = [NoUpdate EXCEPT !.at = "spawn",
                                                         !.spawn = u.near \ vis[o],
                                                         !.despawn = vis[o] \ u.near]]
        /\ UNCHANGED <<Others, sent>>

\* GetWorldItem and IsActive: an item that was picked up since is skipped.
\* Mutant: an item the client has already is skipped as well.
ItemsToSend_New(o, i) == IF i \in objects /\ sent[o][i] = 0 THEN {i} ELSE {}
ItemsToSend(o, i) == IF i \in objects THEN {i} ELSE {}

SendWorldItemSpawn(s, o) ==
    /\ upd[s][o].at = "spawn"
    /\ \E i \in upd[s][o].spawn :
          upd' = [upd EXCEPT ![s][o].spawn = @ \ {i},
                             ![s][o].out = @ \cup ItemsToSend(o, i)]
    /\ UNCHANGED <<Others, vis, sent>>

\* All spawns are sent; the despawns are started at once: nothing is looked up.
SendWorldItemDespawns(s, o) ==
    LET u == upd[s][o]
    IN  /\ u.at = "spawn" /\ u.spawn = {} /\ u.out = {}
        /\ upd' = [upd EXCEPT ![s][o] = [NoUpdate EXCEPT !.at = "despawn", !.out = u.despawn]]
        /\ UNCHANGED <<Others, vis, sent>>

UpdateEnds(s, o) ==
    /\ upd[s][o].at = "despawn" /\ upd[s][o].out = {}
    /\ upd' = [upd EXCEPT ![s][o] = NoUpdate]
    /\ UNCHANGED <<Others, vis, sent>>

\* A task ends: o's client reads the packet, unless o is closed.
SendPacket(s, o) ==
    \E i \in upd[s][o].out :
        /\ upd' = [upd EXCEPT ![s][o].out = @ \ {i}]
        /\ sent' = IF o \notin open THEN sent
                   ELSE [sent EXCEPT ![o][i] = IF upd[s][o].at = "spawn" THEN @ + 1 ELSE @ - 1]
        /\ UNCHANGED <<Others, vis>>

Next ==
    \E s \in Sessions :
        \/ \E p \in Positions : JoinOrMove(s, p)
        \/ Drop(s) \/ BroadcastWorldItemDropped(s)
        \/ \E i \in objects : Pickup(s, i)
        \/ BroadcastWorldItemPickedUp(s)
        \/ SaveFails(s) \/ HandlerEnds(s)
        \/ Close(s) \/ UnregisterPlayer(s) \/ RemovePlayer(s)
        \/ \E o \in Sessions :
              \/ Look(s, o) \/ RefreshVisibleWorldItems(s, o)
              \/ SendWorldItemSpawn(s, o) \/ SendWorldItemDespawns(s, o)
              \/ UpdateEnds(s, o)
              \/ SendPacket(s, o)

Spec == Init /\ [][Next]_vars

-----------------------------------------------------------------------------
(***************************************************************************)
(* Properties.                                                             *)
(***************************************************************************)
Updates == [at : {"none", "look", "refresh", "spawn", "despawn"}, near : SUBSET Items,
            spawn : SUBSET Items, despawn : SUBSET Items, out : SUBSET Items]

\* Only a handler that runs has updates, and only items ever spawned are in them.
TypeOK ==
    /\ spawned \in 0 .. MaxItems /\ objects \subseteq 1 .. spawned
    /\ at \in [Items -> Positions] /\ pos \in [Sessions -> Positions]
    /\ player \subseteq Sessions /\ open \subseteq Sessions
    /\ pc \in [Sessions -> {"out", "idle", "update", "dropped", "picked", "leaving", "gone"}]
    /\ job \in [Sessions -> {"none", "move", "drop", "pickup"}]
    /\ picked \in [Sessions -> 0 .. spawned]
    /\ upd \in [Sessions -> [Sessions -> Updates]]
    /\ \A s \in Sessions : pc[s] # "update" => upd[s] = NoUpdates
    /\ vis \in [Sessions -> SUBSET Items]
    /\ sent \in [Sessions -> [Items -> Int]] /\ alone \in [Sessions -> BOOLEAN]

\* Spawns minus despawns that handlers have still to write to o about i.
Pending(o, i) ==
    LET Coming(s) == \/ i \in upd[s][o].spawn
                     \/ upd[s][o].at = "spawn" /\ i \in upd[s][o].out
        Going(s) == \/ i \in upd[s][o].despawn
                    \/ upd[s][o].at = "despawn" /\ i \in upd[s][o].out
    IN  Cardinality({s \in Sessions : Coming(s)}) - Cardinality({s \in Sessions : Going(s)})

\* However the updates of one table overlap, an open session has been or will
\* be sent one more spawn than despawns of an item in the world exactly when
\* its table holds the item; of an item that was picked up it is never sent a
\* spawn too many (GameServer.cs:490-576, 578-610).
ItemPacketsBalanceTables ==
    TypeOK /\ \A o \in open : \A i \in Items :
        LET balance == sent[o][i] + Pending(o, i)
            held == IF i \in vis[o] THEN 1 ELSE 0
        IN  /\ balance <= held
            /\ i \in objects => balance = held

\* A handler that no other handler overlaps leaves the tables right, whatever
\* was left in them before: a move repairs the mover's table, a drop the tables
\* of all open sessions (GameServer.cs:490-515, 613-639).
UndisturbedUpdateRepairs ==
    \A s \in Sessions : alone[s] /\ pc[s] = "idle" =>
        /\ job[s] = "move" => vis[s] = GetNearbyWorldItemsForPlayer(s)
        /\ job[s] = "drop" =>
              \A o \in open \cap player : vis[o] = GetNearbyWorldItemsForPlayer(o)
=============================================================================
