------------------------ MODULE LootVisibilityProofs ------------------------
(***************************************************************************)
(* The item tables for any number of sessions, positions, distances and    *)
(* items.  Several updates of one table may run; each that has read the    *)
(* table once accounts for the difference it made, and this is all that    *)
(* the balance of packets and table needs.                                 *)
(***************************************************************************)
EXTENDS LootVisibility, FiniteSetTheorems, TLAPS

-----------------------------------------------------------------------------
(***************************************************************************)
(* The inductive invariant.                                                *)
(***************************************************************************)
NothingListed(u) == u.spawn = {} /\ u.despawn = {} /\ u.out = {}

\* What an update holds at each place: an item is to be sent or being sent.
ShapeOf(u) ==
    /\ u.at \in {"none", "look", "refresh"} => NothingListed(u)
    /\ u.at = "spawn" => u.spawn \cap u.out = {}
    /\ u.at = "despawn" => u.spawn = {} /\ u.despawn = {}
Shapes == \A s, o \in Sessions : ShapeOf(upd[s][o])

\* Nobody knows of an item before it was spawned.
OnlySpawned ==
    /\ \A o \in Sessions : vis[o] \subseteq 1 .. spawned
    /\ \A s, o \in Sessions :
          upd[s][o].near \cup upd[s][o].spawn \cup upd[s][o].despawn \cup upd[s][o].out \subseteq 1 .. spawned
    /\ \A o \in Sessions, i \in Items : i > spawned => sent[o][i] = 0

\* The parts of Pending.
Comes(u, i) == i \in u.spawn \/ (u.at = "spawn" /\ i \in u.out)
Goes(u, i) == i \in u.despawn \/ (u.at = "despawn" /\ i \in u.out)
One(b) == IF b THEN 1 ELSE 0

Balanced(o, i) ==
    /\ sent[o][i] + Pending(o, i) <= One(i \in vis[o])
    /\ i \in objects => sent[o][i] + Pending(o, i) = One(i \in vis[o])
Balance == \A o \in open : \A i \in Items : Balanced(o, i)

\* An update of o's table by a lone handler of s has looked at what is there,
\* or has written it into the table.
Follows(s, o) ==
    /\ upd[s][o].at = "refresh" => upd[s][o].near = GetNearbyWorldItemsForPlayer(o)
    /\ upd[s][o].at \in {"none", "spawn", "despawn"} => vis[o] = GetNearbyWorldItemsForPlayer(o)
Undisturbed(s) ==
    /\ \A u \in Sessions \ {s} : pc[u] \in {"out", "idle", "gone"}
    /\ pc[s] \in {"update", "idle"} =>
          /\ job[s] = "move" => Follows(s, s)
          /\ job[s] = "drop" => \A o \in open \cap player : Follows(s, o)
Alone == \A s \in Sessions : alone[s] => Undisturbed(s)

\* A handler that has dropped or picked up an item has that job.
Jobs ==
    \A s \in Sessions : /\ pc[s] = "dropped" => job[s] = "drop"
                        /\ pc[s] = "picked" => job[s] = "pickup"

Basics == TypeOK /\ Shapes /\ OnlySpawned /\ Jobs
VInv == Basics /\ Balance /\ Alone

-----------------------------------------------------------------------------
(***************************************************************************)
(* Updates.                                                                *)
(***************************************************************************)
LEMMA UpdateTypes ==
  /\ NoUpdate \in Updates /\ NewUpdate \in Updates
  /\ NoUpdate.at = "none" /\ NothingListed(NoUpdate) /\ NoUpdate.near = {}
  /\ NewUpdate.at = "look" /\ NothingListed(NewUpdate) /\ NewUpdate.near = {}
  /\ \A i \in Items : /\ Despawns(i) \in Updates
                      /\ Despawns(i).at = "despawn" /\ Despawns(i).out = {i}
                      /\ Despawns(i).near = {} /\ Despawns(i).spawn = {} /\ Despawns(i).despawn = {}
BY DEF NoUpdate, NewUpdate, Despawns, Updates, NothingListed

LEMMA NearbyItems ==
  ASSUME TypeOK, NEW o \in Sessions
  PROVE  /\ GetNearbyWorldItemsForPlayer(o) \subseteq 1 .. spawned
         /\ GetNearbyWorldItemsForPlayer(o) \subseteq Items
<1>1. MaxItems \in Nat /\ spawned \in 0 .. MaxItems /\ objects \subseteq 1 .. spawned
  BY LootVisibilityAssumption DEF TypeOK
<1>2. GetNearbyWorldItemsForPlayer(o) \subseteq objects
  BY DEF GetNearbyWorldItemsForPlayer
<1>3. 1 .. spawned \subseteq Items
  BY <1>1 DEF Items
<1>. QED
  BY <1>1, <1>2, <1>3

\* A step of an update is a step of a running handler, on one table, and the
\* world is left alone.
InterestStep(s, o) ==
    \/ Look(s, o) \/ RefreshVisibleWorldItems(s, o)
    \/ SendWorldItemSpawn(s, o) \/ SendWorldItemDespawns(s, o)
    \/ UpdateEnds(s, o) \/ SendPacket(s, o)

LEMMA RunningHandler ==
  ASSUME TypeOK, NEW s \in Sessions, NEW o \in Sessions, InterestStep(s, o)
  PROVE  pc[s] = "update" /\ UNCHANGED Others
<1>1. UNCHANGED Others
  BY DEF InterestStep, Look, RefreshVisibleWorldItems, SendWorldItemSpawn, SendWorldItemDespawns,
     UpdateEnds, SendPacket
<1>2. upd[s][o].at # "none" \/ upd[s][o].out # {}
  BY DEF InterestStep, Look, RefreshVisibleWorldItems, SendWorldItemSpawn, SendWorldItemDespawns,
     UpdateEnds, SendPacket
<1>3. upd[s] # NoUpdates
  BY <1>2, UpdateTypes DEF NoUpdates, NothingListed
<1>. QED
  BY <1>1, <1>3 DEF TypeOK

LEMMA OneUpdateChanges ==
  ASSUME TypeOK, NEW s \in Sessions, NEW o \in Sessions, NEW u \in Updates,
         upd' = [upd EXCEPT ![s][o] = u]
  PROVE  /\ upd' \in [Sessions -> [Sessions -> Updates]]
         /\ upd'[s][o] = u
         /\ \A t, q \in Sessions : t # s \/ q # o => upd'[t][q] = upd[t][q]
         /\ \A t \in Sessions : t # s => upd'[t] = upd[t]
BY DEF TypeOK

\* What each of these steps makes of its update.
LEMMA LookUpdate ==
  ASSUME TypeOK, NEW s \in Sessions, NEW o \in Sessions, Look(s, o)
  PROVE  \E u \in Updates :
            /\ upd' = [upd EXCEPT ![s][o] = u]
            /\ u.at = "refresh" /\ u.near = GetNearbyWorldItemsForPlayer(o)
            /\ u.spawn = upd[s][o].spawn /\ u.despawn = upd[s][o].despawn /\ u.out = upd[s][o].out
<1>. DEFINE u == [upd[s][o] EXCEPT !.at = "refresh", !.near = GetNearbyWorldItemsForPlayer(o)]
<1>1. upd[s][o] \in Updates
  BY DEF TypeOK
<1>2. u \in Updates
  BY <1>1, NearbyItems DEF Updates
<1>3. upd' = [upd EXCEPT ![s][o] = u]
  BY DEF Look, TypeOK
<1>4. /\ u.at = "refresh" /\ u.near = GetNearbyWorldItemsForPlayer(o)
      /\ u.spawn = upd[s][o].spawn /\ u.despawn = upd[s][o].despawn /\ u.out = upd[s][o].out
  BY <1>1 DEF Updates
<1>. QED
  BY <1>2, <1>3, <1>4

LEMMA RefreshUpdate ==
  ASSUME TypeOK, NEW s \in Sessions, NEW o \in Sessions, RefreshVisibleWorldItems(s, o)
  PROVE  \E u \in Updates :
            /\ upd' = [upd EXCEPT ![s][o] = u]
            /\ u.at = "spawn" /\ u.near = {} /\ u.out = {}
            /\ u.spawn = upd[s][o].near \ vis[o] /\ u.despawn = vis[o] \ upd[s][o].near
<1>. DEFINE u == [NoUpdate EXCEPT !.at = "spawn", !.spawn = upd[s][o].near \ vis[o],
                                  !.despawn = vis[o] \ upd[s][o].near]
<1>1. upd[s][o] \in Updates /\ vis[o] \subseteq Items
  BY DEF TypeOK
<1>2. u \in Updates
  BY <1>1 DEF Updates, NoUpdate
<1>3. upd' = [upd EXCEPT ![s][o] = u]
  BY DEF RefreshVisibleWorldItems
<1>4. /\ u.at = "spawn" /\ u.near = {} /\ u.out = {}
      /\ u.spawn = upd[s][o].near \ vis[o] /\ u.despawn = vis[o] \ upd[s][o].near
  BY DEF NoUpdate
<1>. QED
  BY <1>2, <1>3, <1>4

LEMMA SpawnUpdate ==
  ASSUME TypeOK, NEW s \in Sessions, NEW o \in Sessions, SendWorldItemSpawn(s, o)
  PROVE  \E i \in upd[s][o].spawn, u \in Updates :
            /\ upd' = [upd EXCEPT ![s][o] = u]
            /\ u.at = "spawn" /\ u.near = upd[s][o].near /\ u.despawn = upd[s][o].despawn
            /\ u.spawn = upd[s][o].spawn \ {i}
            /\ u.out = upd[s][o].out \cup (IF i \in objects THEN {i} ELSE {})
<1>1. PICK i \in upd[s][o].spawn :
          upd' = [upd EXCEPT ![s][o].spawn = @ \ {i}, ![s][o].out = @ \cup ItemsToSend(o, i)]
  BY DEF SendWorldItemSpawn
<1>. DEFINE u == [upd[s][o] EXCEPT !.spawn = @ \ {i}, !.out = @ \cup ItemsToSend(o, i)]
<1>2. upd[s][o] \in Updates /\ upd[s][o].at = "spawn"
  BY DEF TypeOK, SendWorldItemSpawn
<1>3. ItemsToSend(o, i) = (IF i \in objects THEN {i} ELSE {}) /\ i \in Items
  BY <1>2 DEF ItemsToSend, Updates
<1>4. u \in Updates
  BY <1>2, <1>3 DEF Updates
<1>5. upd' = [upd EXCEPT ![s][o] = u]
  BY <1>1 DEF TypeOK
<1>6. /\ u.at = "spawn" /\ u.near = upd[s][o].near /\ u.despawn = upd[s][o].despawn
      /\ u.spawn = upd[s][o].spawn \ {i}
      /\ u.out = upd[s][o].out \cup (IF i \in objects THEN {i} ELSE {})
  BY <1>2, <1>3 DEF Updates
<1>. QED
  BY <1>4, <1>5, <1>6

LEMMA DespawnsUpdate ==
  ASSUME TypeOK, NEW s \in Sessions, NEW o \in Sessions, SendWorldItemDespawns(s, o)
  PROVE  \E u \in Updates :
            /\ upd' = [upd EXCEPT ![s][o] = u]
            /\ u.at = "despawn" /\ u.near = {} /\ u.spawn = {} /\ u.despawn = {}
            /\ u.out = upd[s][o].despawn
<1>. DEFINE u == [NoUpdate EXCEPT !.at = "despawn", !.out = upd[s][o].despawn]
<1>1. upd[s][o] \in Updates
  BY DEF TypeOK
<1>2. u \in Updates
  BY <1>1 DEF Updates, NoUpdate
<1>3. upd' = [upd EXCEPT ![s][o] = u]
  BY DEF SendWorldItemDespawns
<1>4. /\ u.at = "despawn" /\ u.near = {} /\ u.spawn = {} /\ u.despawn = {}
      /\ u.out = upd[s][o].despawn
  BY DEF NoUpdate
<1>. QED
  BY <1>2, <1>3, <1>4

LEMMA SentUpdate ==
  ASSUME TypeOK, NEW s \in Sessions, NEW o \in Sessions, SendPacket(s, o)
  PROVE  \E i \in upd[s][o].out, u \in Updates :
            /\ upd' = [upd EXCEPT ![s][o] = u]
            /\ u.at = upd[s][o].at /\ u.near = upd[s][o].near
            /\ u.spawn = upd[s][o].spawn /\ u.despawn = upd[s][o].despawn
            /\ u.out = upd[s][o].out \ {i}
            /\ sent' = IF o \notin open THEN sent
                       ELSE [sent EXCEPT ![o][i] = IF upd[s][o].at = "spawn" THEN @ + 1 ELSE @ - 1]
<1>1. PICK i \in upd[s][o].out :
          /\ upd' = [upd EXCEPT ![s][o].out = @ \ {i}]
          /\ sent' = IF o \notin open THEN sent
                     ELSE [sent EXCEPT ![o][i] = IF upd[s][o].at = "spawn" THEN @ + 1 ELSE @ - 1]
  BY DEF SendPacket
<1>. DEFINE u == [upd[s][o] EXCEPT !.out = @ \ {i}]
<1>2. upd[s][o] \in Updates
  BY DEF TypeOK
<1>3. u \in Updates
  BY <1>2 DEF Updates
<1>4. upd' = [upd EXCEPT ![s][o] = u]
  BY <1>1 DEF TypeOK
<1>5. /\ u.at = upd[s][o].at /\ u.near = upd[s][o].near
      /\ u.spawn = upd[s][o].spawn /\ u.despawn = upd[s][o].despawn
      /\ u.out = upd[s][o].out \ {i}
  BY <1>2 DEF Updates
<1>. QED
  BY <1>1, <1>3, <1>4, <1>5

-----------------------------------------------------------------------------
(***************************************************************************)
(* Types, shapes, what was spawned and jobs.                               *)
(***************************************************************************)
LEMMA BasicsInit == Init => Basics
<1>. SUFFICES ASSUME Init PROVE Basics
  OBVIOUS
<1>1. \A i \in {InitialItems, MaxItems} : i \in Nat
  BY LootVisibilityAssumption
<1>2. spawned \in 0 .. MaxItems /\ objects \subseteq 1 .. spawned
  BY <1>1, LootVisibilityAssumption DEF Init
<1>3. at \in [Items -> Positions] /\ pos \in [Sessions -> Positions]
  BY LootVisibilityAssumption DEF Init, Positions
<1>4. upd \in [Sessions -> [Sessions -> Updates]]
  BY UpdateTypes DEF Init, NoUpdates
<1>5. TypeOK
  BY <1>1, <1>2, <1>3, <1>4 DEF Init, TypeOK
<1>6. \A s, o \in Sessions : upd[s][o] = NoUpdate
  BY DEF Init, NoUpdates
<1>7. Shapes
  BY <1>6, UpdateTypes DEF Shapes, ShapeOf
<1>8. OnlySpawned
  BY <1>6, UpdateTypes DEF Init, OnlySpawned, NothingListed
<1>9. Jobs
  BY DEF Init, Jobs
<1>. QED
  BY <1>5, <1>7, <1>8, <1>9 DEF Basics

\* A step of an update keeps the type, the shape and what was spawned.
LEMMA BasicsInterest ==
  ASSUME Basics, NEW s \in Sessions, NEW o \in Sessions, InterestStep(s, o)
  PROVE  Basics'
<1>. USE DEF Basics
<1>1. pc[s] = "update" /\ UNCHANGED Others
  BY RunningHandler
<1>2. Jobs'
  BY <1>1 DEF Jobs, Others
<1>a. ASSUME NEW u \in Updates, upd' = [upd EXCEPT ![s][o] = u],
             vis' \in [Sessions -> SUBSET Items], sent' \in [Sessions -> [Items -> Int]],
             ShapeOf(u), u.near \cup u.spawn \cup u.despawn \cup u.out \subseteq 1 .. spawned,
             \A q \in Sessions : vis'[q] \subseteq 1 .. spawned,
             \A q \in Sessions, i \in Items : i > spawned => sent'[q][i] = 0
      PROVE  Basics'
  <2>1. /\ upd' \in [Sessions -> [Sessions -> Updates]]
        /\ upd'[s][o] = u
        /\ \A t, q \in Sessions : t # s \/ q # o => upd'[t][q] = upd[t][q]
        /\ \A t \in Sessions : t # s => upd'[t] = upd[t]
    BY <1>a, OneUpdateChanges
  <2>2. TypeOK'
    BY <1>1, <1>a, <2>1 DEF TypeOK, Others, world
  <2>3. Shapes'
    BY <1>a, <2>1 DEF Shapes
  <2>4. \A t, q \in Sessions :
          upd'[t][q].near \cup upd'[t][q].spawn \cup upd'[t][q].despawn \cup upd'[t][q].out
             \subseteq 1 .. spawned
    BY <1>a, <2>1 DEF OnlySpawned
  <2>5. OnlySpawned'
    BY <1>1, <1>a, <2>4 DEF OnlySpawned, Others, world
  <2>. QED
    BY <1>2, <2>2, <2>3, <2>5
<1>b. /\ upd[s][o] \in Updates /\ ShapeOf(upd[s][o])
      /\ upd[s][o].near \cup upd[s][o].spawn \cup upd[s][o].despawn \cup upd[s][o].out
            \subseteq 1 .. spawned
      /\ \A q \in Sessions : vis[q] \subseteq 1 .. spawned /\ vis[q] \subseteq Items
      /\ \A q \in Sessions, i \in Items : i > spawned => sent[q][i] = 0
      /\ vis \in [Sessions -> SUBSET Items] /\ sent \in [Sessions -> [Items -> Int]]
  BY DEF TypeOK, Shapes, OnlySpawned
<1>3. CASE Look(s, o)
  <2>1. PICK u \in Updates :
            /\ upd' = [upd EXCEPT ![s][o] = u]
            /\ u.at = "refresh" /\ u.near = GetNearbyWorldItemsForPlayer(o)
            /\ u.spawn = upd[s][o].spawn /\ u.despawn = upd[s][o].despawn /\ u.out = upd[s][o].out
    BY <1>3, LookUpdate
  <2>2. UNCHANGED <<vis, sent>> /\ upd[s][o].at = "look"
    BY <1>3 DEF Look
  <2>3. ShapeOf(u)
    BY <1>b, <2>1, <2>2 DEF ShapeOf, NothingListed
  <2>. QED
    BY <1>a, <1>b, <2>1, <2>2, <2>3, NearbyItems
<1>4. CASE RefreshVisibleWorldItems(s, o)
  <2>1. PICK u \in Updates :
            /\ upd' = [upd EXCEPT ![s][o] = u]
            /\ u.at = "spawn" /\ u.near = {} /\ u.out = {}
            /\ u.spawn = upd[s][o].near \ vis[o] /\ u.despawn = vis[o] \ upd[s][o].near
    BY <1>4, RefreshUpdate
  <2>2. sent' = sent /\ vis' = [vis EXCEPT ![o] = upd[s][o].near]
    BY <1>4 DEF RefreshVisibleWorldItems
  <2>3. upd[s][o].near \subseteq Items /\ upd[s][o].near \subseteq 1 .. spawned
    BY <1>b DEF Updates
  <2>4. vis' \in [Sessions -> SUBSET Items] /\ \A q \in Sessions : vis'[q] \subseteq 1 .. spawned
    BY <1>b, <2>2, <2>3
  <2>5. ShapeOf(u)
    BY <2>1 DEF ShapeOf
  <2>. QED
    BY <1>a, <1>b, <2>1, <2>2, <2>3, <2>4, <2>5
<1>5. CASE SendWorldItemSpawn(s, o)
  <2>1. PICK i \in upd[s][o].spawn, u \in Updates :
            /\ upd' = [upd EXCEPT ![s][o] = u]
            /\ u.at = "spawn" /\ u.near = upd[s][o].near /\ u.despawn = upd[s][o].despawn
            /\ u.spawn = upd[s][o].spawn \ {i}
            /\ u.out = upd[s][o].out \cup (IF i \in objects THEN {i} ELSE {})
    BY <1>5, SpawnUpdate
  <2>2. UNCHANGED <<vis, sent>> /\ upd[s][o].at = "spawn"
    BY <1>5 DEF SendWorldItemSpawn
  <2>3. ShapeOf(u)
    BY <1>b, <2>1, <2>2 DEF ShapeOf
  <2>4. u.near \cup u.spawn \cup u.despawn \cup u.out \subseteq 1 .. spawned
    BY <1>b, <2>1
  <2>. QED
    BY <1>a, <1>b, <2>1, <2>2, <2>3, <2>4
<1>6. CASE SendWorldItemDespawns(s, o)
  <2>1. PICK u \in Updates :
            /\ upd' = [upd EXCEPT ![s][o] = u]
            /\ u.at = "despawn" /\ u.near = {} /\ u.spawn = {} /\ u.despawn = {}
            /\ u.out = upd[s][o].despawn
    BY <1>6, DespawnsUpdate
  <2>2. UNCHANGED <<vis, sent>>
    BY <1>6 DEF SendWorldItemDespawns
  <2>3. ShapeOf(u)
    BY <2>1 DEF ShapeOf
  <2>4. u.near \cup u.spawn \cup u.despawn \cup u.out \subseteq 1 .. spawned
    BY <1>b, <2>1
  <2>. QED
    BY <1>a, <1>b, <2>1, <2>2, <2>3, <2>4
<1>7. CASE UpdateEnds(s, o)
  <2>1. UNCHANGED <<vis, sent>> /\ upd' = [upd EXCEPT ![s][o] = NoUpdate]
    BY <1>7 DEF UpdateEnds
  <2>2. /\ NoUpdate \in Updates /\ ShapeOf(NoUpdate)
        /\ NoUpdate.near \cup NoUpdate.spawn \cup NoUpdate.despawn \cup NoUpdate.out \subseteq 1 .. spawned
    BY UpdateTypes DEF ShapeOf, NothingListed
  <2>. QED
    BY <1>a, <1>b, <2>1, <2>2
<1>8. CASE SendPacket(s, o)
  <2>1. PICK i \in upd[s][o].out, u \in Updates :
            /\ upd' = [upd EXCEPT ![s][o] = u]
            /\ u.at = upd[s][o].at /\ u.near = upd[s][o].near
            /\ u.spawn = upd[s][o].spawn /\ u.despawn = upd[s][o].despawn
            /\ u.out = upd[s][o].out \ {i}
            /\ sent' = IF o \notin open THEN sent
                       ELSE [sent EXCEPT ![o][i] = IF upd[s][o].at = "spawn" THEN @ + 1 ELSE @ - 1]
    BY <1>8, SentUpdate
  <2>2. vis' = vis
    BY <1>8 DEF SendPacket
  <2>3. i \in 1 .. spawned /\ i \in Items
    BY <1>b DEF Updates
  <2>4. sent' \in [Sessions -> [Items -> Int]]
    BY <1>b, <2>1, <2>3
  <2>5. \A q \in Sessions, j \in Items : j # i => sent'[q][j] = sent[q][j]
    BY <1>b, <2>1
  <2>6. spawned \in Int
    BY LootVisibilityAssumption DEF TypeOK
  <2>7. \A q \in Sessions, j \in Items : j > spawned => sent'[q][j] = 0
    BY <1>b, <2>3, <2>5, <2>6
  <2>8. ShapeOf(u)
    BY <1>b, <2>1 DEF ShapeOf, NothingListed
  <2>9. u.near \cup u.spawn \cup u.despawn \cup u.out \subseteq 1 .. spawned
    BY <1>b, <2>1
  <2>. QED
    BY <1>a, <1>b, <2>1, <2>2, <2>4, <2>7, <2>8, <2>9
<1>. QED
  BY <1>3, <1>4, <1>5, <1>6, <1>7, <1>8 DEF InterestStep

\* No update of a handler that does not run sends anything.
LEMMA RestingUpdates ==
  ASSUME TypeOK, NEW s \in Sessions, pc[s] # "update"
  PROVE  \A o \in Sessions : upd[s][o] = NoUpdate
BY DEF TypeOK, NoUpdates

\* A handler that sets its own updates: none of them has begun to send spawns.
LEMMA BasicsOwnUpdates ==
  ASSUME Basics, NEW s \in Sessions, NEW w \in [Sessions -> Updates],
         upd' = [upd EXCEPT ![s] = w], pc' = [pc EXCEPT ![s] = "update"],
         \A o \in Sessions : ShapeOf(w[o])
            /\ w[o].near \cup w[o].spawn \cup w[o].despawn \cup w[o].out \subseteq 1 .. spawned,
         UNCHANGED <<spawned, objects, at, open, sent>>,
         player' \subseteq Sessions, pos' \in [Sessions -> Positions],
         vis' \in [Sessions -> SUBSET Items], \A o \in Sessions : vis'[o] \subseteq vis[o],
         job' \in [Sessions -> {"none", "move", "drop", "pickup"}],
         \A t \in Sessions : t # s => job'[t] = job[t],
         picked' \in [Sessions -> 0 .. spawned], alone' \in [Sessions -> BOOLEAN]
  PROVE  Basics'
<1>. USE DEF Basics
<1>1. /\ upd' \in [Sessions -> [Sessions -> Updates]] /\ upd'[s] = w
      /\ \A t \in Sessions : t # s => upd'[t] = upd[t] /\ pc'[t] = pc[t]
      /\ pc'[s] = "update"
      /\ pc' \in [Sessions -> {"out", "idle", "update", "dropped", "picked", "leaving", "gone"}]
  BY DEF TypeOK
<1>2. TypeOK'
  BY <1>1 DEF TypeOK
<1>3. Shapes'
  BY <1>1 DEF Shapes
<1>4. OnlySpawned'
  <2>1. \A o \in Sessions : vis'[o] \subseteq 1 .. spawned
    BY DEF OnlySpawned
  <2>2. \A t, q \in Sessions :
          upd'[t][q].near \cup upd'[t][q].spawn \cup upd'[t][q].despawn \cup upd'[t][q].out
             \subseteq 1 .. spawned
    BY <1>1 DEF OnlySpawned
  <2>. QED
    BY <2>1, <2>2 DEF OnlySpawned
<1>5. Jobs'
  BY <1>1 DEF Jobs
<1>. QED
  BY <1>2, <1>3, <1>4, <1>5

LEMMA BasicsStep ==
  ASSUME Basics, [Next]_vars
  PROVE  Basics'
<1>. USE DEF Basics
<1>b. /\ spawned \in 0 .. MaxItems /\ MaxItems \in Nat /\ objects \subseteq 1 .. spawned
      /\ at \in [Items -> Positions] /\ pos \in [Sessions -> Positions]
      /\ player \subseteq Sessions /\ open \subseteq Sessions
      /\ pc \in [Sessions -> {"out", "idle", "update", "dropped", "picked", "leaving", "gone"}]
      /\ job \in [Sessions -> {"none", "move", "drop", "pickup"}]
      /\ picked \in [Sessions -> 0 .. spawned]
      /\ upd \in [Sessions -> [Sessions -> Updates]]
      /\ vis \in [Sessions -> SUBSET Items]
      /\ sent \in [Sessions -> [Items -> Int]] /\ alone \in [Sessions -> BOOLEAN]
  BY LootVisibilityAssumption DEF TypeOK
<1>1. CASE UNCHANGED vars
  BY <1>1 DEF vars, world, TypeOK, Shapes, OnlySpawned, Jobs
<1>2. ASSUME NEW s \in Sessions, NEW p \in Positions, JoinOrMove(s, p) PROVE Basics'
  <2>1. pc[s] # "update" /\ upd' = [upd EXCEPT ![s][s] = NewUpdate]
    BY <1>2 DEF JoinOrMove
  <2>. DEFINE w == [upd[s] EXCEPT ![s] = NewUpdate]
  <2>2. /\ w \in [Sessions -> Updates] /\ upd' = [upd EXCEPT ![s] = w]
        /\ w[s] = NewUpdate /\ \A o \in Sessions : o # s => w[o] = NoUpdate
    BY <2>1, <1>b, UpdateTypes, RestingUpdates
  <2>3. \A o \in Sessions : ShapeOf(w[o])
            /\ w[o].near \cup w[o].spawn \cup w[o].despawn \cup w[o].out \subseteq 1 .. spawned
    BY <2>2, UpdateTypes DEF ShapeOf, NothingListed
  <2>4. /\ pc' = [pc EXCEPT ![s] = "update"] /\ job' = [job EXCEPT ![s] = "move"]
        /\ UNCHANGED <<spawned, objects, at, open, vis, picked, sent>>
        /\ player' \subseteq Sessions /\ pos' \in [Sessions -> Positions]
        /\ alone' \in [Sessions -> BOOLEAN]
    BY <1>2, <1>b DEF JoinOrMove, Starts
  <2>. HIDE DEF w
  <2>. QED
    BY <1>b, <2>2, <2>3, <2>4, BasicsOwnUpdates
<1>3. ASSUME NEW s \in Sessions, Drop(s) PROVE Basics'
  <2>1. /\ spawned' = spawned + 1 /\ spawned < MaxItems
        /\ objects' = objects \cup {spawned'} /\ at' = [at EXCEPT ![spawned'] = pos[s]]
        /\ pc' = [pc EXCEPT ![s] = "dropped"] /\ job' = [job EXCEPT ![s] = "drop"]
        /\ alone' \in [Sessions -> BOOLEAN] /\ pc[s] = "idle"
        /\ UNCHANGED <<player, pos, open, vis, picked, upd, sent>>
    BY <1>3 DEF Drop, Starts
  <2>2. spawned' \in 0 .. MaxItems /\ objects' \subseteq 1 .. spawned' /\ at' \in [Items -> Positions]
    BY <1>b, <2>1 DEF Items
  <2>3. 1 .. spawned \subseteq 1 .. spawned' /\ 0 .. spawned \subseteq 0 .. spawned'
    BY <1>b, <2>1
  <2>4. /\ pc' \in [Sessions -> {"out", "idle", "update", "dropped", "picked", "leaving", "gone"}]
        /\ job' \in [Sessions -> {"none", "move", "drop", "pickup"}]
        /\ picked' \in [Sessions -> 0 .. spawned']
    BY <1>b, <2>1, <2>3
  <2>5. \A t \in Sessions : pc'[t] # "update" => upd'[t] = NoUpdates
    BY <1>b, <2>1 DEF TypeOK
  <2>6. TypeOK'
    BY <1>b, <2>1, <2>2, <2>4, <2>5 DEF TypeOK
  <2>7. Shapes' /\ Jobs'
    BY <1>b, <2>1 DEF Shapes, Jobs
  <2>8. OnlySpawned'
    <3>1. \A o \in Sessions : vis'[o] \subseteq 1 .. spawned'
      BY <2>1, <2>3 DEF OnlySpawned
    <3>2. \A t, q \in Sessions :
            upd'[t][q].near \cup upd'[t][q].spawn \cup upd'[t][q].despawn \cup upd'[t][q].out
               \subseteq 1 .. spawned'
      BY <2>1, <2>3 DEF OnlySpawned
    <3>3. \A o \in Sessions, i \in Items : i > spawned' => sent'[o][i] = 0
      BY <1>b, <2>1 DEF OnlySpawned, Items
    <3>. QED
      BY <3>1, <3>2, <3>3 DEF OnlySpawned
  <2>. QED
    BY <2>6, <2>7, <2>8
<1>4. ASSUME NEW s \in Sessions, NEW i \in objects, Pickup(s, i) PROVE Basics'
  <2>1. /\ objects' = objects \ {i} /\ picked' = [picked EXCEPT ![s] = i]
        /\ pc' = [pc EXCEPT ![s] = "picked"] /\ job' = [job EXCEPT ![s] = "pickup"]
        /\ alone' \in [Sessions -> BOOLEAN] /\ pc[s] = "idle"
        /\ UNCHANGED <<spawned, at, player, pos, open, vis, upd, sent>>
    BY <1>4 DEF Pickup, Starts
  <2>2. picked' \in [Sessions -> 0 .. spawned]
    BY <1>b, <2>1
  <2>3. TypeOK'
    BY <1>b, <2>1, <2>2 DEF TypeOK
  <2>. QED
    BY <1>b, <2>1, <2>3 DEF Shapes, OnlySpawned, Jobs
<1>5. ASSUME NEW s \in Sessions, BroadcastWorldItemDropped(s) PROVE Basics'
  <2>. DEFINE w == [o \in Sessions |-> IF o \in DropObservers(s) THEN NewUpdate ELSE NoUpdate]
  <2>1. /\ upd' = [upd EXCEPT ![s] = w] /\ pc' = [pc EXCEPT ![s] = "update"]
        /\ UNCHANGED <<world, vis, job, picked, sent, alone>>
    BY <1>5 DEF BroadcastWorldItemDropped
  <2>2. w \in [Sessions -> Updates] /\ \A o \in Sessions : w[o] \in {NewUpdate, NoUpdate}
    BY UpdateTypes
  <2>3. \A o \in Sessions : ShapeOf(w[o])
            /\ w[o].near \cup w[o].spawn \cup w[o].despawn \cup w[o].out \subseteq 1 .. spawned
    BY <2>2, UpdateTypes DEF ShapeOf, NothingListed
  <2>. HIDE DEF w
  <2>4. UNCHANGED <<spawned, objects, at, player, pos, open>>
    BY <2>1 DEF world
  <2>. QED
    BY <1>b, <2>1, <2>2, <2>3, <2>4, BasicsOwnUpdates
<1>6. ASSUME NEW s \in Sessions, BroadcastWorldItemPickedUp(s) PROVE Basics'
  <2>. DEFINE i == picked[s]
              w == [o \in Sessions |-> IF i \in vis[o] THEN Despawns(i) ELSE NoUpdate]
  <2>1. /\ upd' = [upd EXCEPT ![s] = w] /\ pc' = [pc EXCEPT ![s] = "update"]
        /\ vis' = [o \in Sessions |-> vis[o] \ {i}] /\ picked' = [picked EXCEPT ![s] = 0]
        /\ UNCHANGED <<world, job, sent, alone>>
    BY <1>6 DEF BroadcastWorldItemPickedUp
  <2>2. \A o \in Sessions : w[o] = NoUpdate \/ (i \in 1 .. spawned /\ i \in Items /\ w[o] = Despawns(i))
    BY <1>b DEF OnlySpawned
  <2>3. w \in [Sessions -> Updates]
    BY <2>2, UpdateTypes
  <2>4. \A o \in Sessions : ShapeOf(w[o])
            /\ w[o].near \cup w[o].spawn \cup w[o].despawn \cup w[o].out \subseteq 1 .. spawned
    BY <2>2, UpdateTypes DEF ShapeOf, NothingListed
  <2>5. /\ vis' \in [Sessions -> SUBSET Items] /\ \A o \in Sessions : vis'[o] \subseteq vis[o]
        /\ picked' \in [Sessions -> 0 .. spawned]
    BY <1>b, <2>1
  <2>6. UNCHANGED <<spawned, objects, at, player, pos, open>>
    BY <2>1 DEF world
  <2>. HIDE DEF w, i
  <2>. QED
    BY <1>b, <2>1, <2>3, <2>4, <2>5, <2>6, BasicsOwnUpdates
<1>7. ASSUME NEW s \in Sessions, SaveFails(s) \/ Close(s) PROVE Basics'
  <2>1. /\ open' = open \ {s} /\ sent' = [sent EXCEPT ![s] = [i \in Items |-> 0]]
        /\ UNCHANGED <<spawned, objects, at, player, pos, vis, upd, alone>>
    BY <1>7 DEF SaveFails, Close, CloseClient
  <2>2. /\ picked' \in [Sessions -> 0 .. spawned]
        /\ pc' \in [Sessions -> {"out", "idle", "update", "dropped", "picked", "leaving", "gone"}]
        /\ job' \in [Sessions -> {"none", "move", "drop", "pickup"}]
    <3>1. CASE SaveFails(s)
      BY <3>1, <1>b DEF SaveFails
    <3>2. CASE Close(s)
      BY <3>2, <1>b DEF Close
    <3>. QED
      BY <1>7, <3>1, <3>2
  <2>3. \A t \in Sessions : pc'[t] # "update" => pc[t] # "update"
    BY <1>7, <1>b DEF SaveFails, Close
  <2>4. sent' \in [Sessions -> [Items -> Int]]
    BY <1>b, <2>1
  <2>5. TypeOK'
    BY <1>b, <2>1, <2>2, <2>3, <2>4 DEF TypeOK
  <2>6. Shapes'
    BY <2>1 DEF Shapes
  <2>7. OnlySpawned'
    BY <1>b, <2>1 DEF OnlySpawned
  <2>8. Jobs'
    BY <1>7, <1>b DEF SaveFails, Close, Jobs
  <2>. QED
    BY <2>5, <2>6, <2>7, <2>8
<1>8. ASSUME NEW s \in Sessions, HandlerEnds(s) PROVE Basics'
  BY <1>8, <1>b DEF HandlerEnds, world, TypeOK, Shapes, OnlySpawned, Jobs
<1>9. ASSUME NEW s \in Sessions, UnregisterPlayer(s) PROVE Basics'
  <2>1. /\ vis' = [vis EXCEPT ![s] = {}] /\ pc' = [pc EXCEPT ![s] = "leaving"] /\ pc[s] = "idle"
        /\ job' = [job EXCEPT ![s] = "none"] /\ alone' \in [Sessions -> BOOLEAN]
        /\ UNCHANGED <<spawned, objects, at, player, pos, open, picked, upd, sent>>
    BY <1>9 DEF UnregisterPlayer, Starts, world
  <2>. QED
    BY <1>b, <2>1 DEF TypeOK, Shapes, OnlySpawned, Jobs
<1>10. ASSUME NEW s \in Sessions, RemovePlayer(s) PROVE Basics'
  BY <1>10, <1>b DEF RemovePlayer, TypeOK, Shapes, OnlySpawned, Jobs
<1>11. ASSUME NEW s \in Sessions, NEW o \in Sessions, InterestStep(s, o) PROVE Basics'
  BY <1>11, BasicsInterest
<1>. QED
  BY <1>1, <1>2, <1>3, <1>4, <1>5, <1>6, <1>7, <1>8, <1>9, <1>10, <1>11 DEF Next, InterestStep

-----------------------------------------------------------------------------
(***************************************************************************)
(* What updates have still to send: a count that changes by what one       *)
(* handler's update does.                                                  *)
(***************************************************************************)
LEMMA CountChange ==
  ASSUME NEW A \in SUBSET Sessions, NEW B \in SUBSET Sessions, NEW s \in Sessions,
         \A t \in Sessions : t # s => (t \in A <=> t \in B)
  PROVE  /\ Cardinality(A) \in Int /\ Cardinality(B) \in Int
         /\ Cardinality(B) = Cardinality(A) + One(s \in B) - One(s \in A)
<1>1. IsFiniteSet(A) /\ IsFiniteSet(B)
  BY LootVisibilityAssumption, FS_Subset
<1>2. Cardinality(A) \in Int /\ Cardinality(B) \in Int
  BY <1>1, FS_CardinalityType
<1>3. CASE s \in A <=> s \in B
  <2>1. A = B
    BY <1>3
  <2>. QED
    BY <1>2, <1>3, <2>1 DEF One
<1>4. CASE s \in B /\ s \notin A
  <2>1. B = A \cup {s}
    BY <1>4
  <2>2. Cardinality(B) = Cardinality(A) + 1
    BY <1>1, <1>4, <2>1, FS_AddElement
  <2>. QED
    BY <1>2, <1>4, <2>2 DEF One
<1>5. CASE s \in A /\ s \notin B
  <2>1. A = B \cup {s}
    BY <1>5
  <2>2. Cardinality(A) = Cardinality(B) + 1
    BY <1>1, <1>5, <2>1, FS_AddElement
  <2>. QED
    BY <1>2, <1>5, <2>2 DEF One
<1>. QED
  BY <1>3, <1>4, <1>5

\* What becoming u changes in what update a is due, and a table in its entries.
Shift(a, u, i) == One(Comes(u, i)) - One(Comes(a, i)) - One(Goes(u, i)) + One(Goes(a, i))
Gain(was, is, i) == One(i \in is) - One(i \in was)

LEMMA OneType ==
  /\ \A a, i : Shift(a, a, i) = 0
  /\ \A a, u, i : Shift(a, u, i) \in Int
  /\ \A was, is, i : Gain(was, is, i) \in Int
BY DEF One, Shift, Gain

\* Pending, of a table of updates.
Due(w, o, i) == Cardinality({s \in Sessions : Comes(w[s][o], i)})
              - Cardinality({s \in Sessions : Goes(w[s][o], i)})

LEMMA PendingIsDue ==
  /\ \A o, i : Pending(o, i) = Due(upd, o, i)
  /\ (\A o, i : Pending(o, i) = Due(upd, o, i))'
BY DEF Pending, Due, Comes, Goes

LEMMA DueType == \A w, o, i : Due(w, o, i) \in Int
<1>. SUFFICES ASSUME NEW w, NEW o, NEW i PROVE Due(w, o, i) \in Int
  OBVIOUS
<1>1. /\ IsFiniteSet({t \in Sessions : Comes(w[t][o], i)})
      /\ IsFiniteSet({t \in Sessions : Goes(w[t][o], i)})
  BY LootVisibilityAssumption, FS_Subset
<1>2. /\ Cardinality({t \in Sessions : Comes(w[t][o], i)}) \in Int
      /\ Cardinality({t \in Sessions : Goes(w[t][o], i)}) \in Int
  BY <1>1, FS_CardinalityType
<1>. QED
  BY <1>2 DEF Due

LEMMA DueChange ==
  ASSUME NEW w, NEW v, NEW s \in Sessions, NEW o, NEW i,
         \A t \in Sessions : t # s => v[t][o] = w[t][o]
  PROVE  Due(v, o, i) = Due(w, o, i) + Shift(w[s][o], v[s][o], i)
<1>. DEFINE C(x) == {t \in Sessions : Comes(x[t][o], i)}
            G(x) == {t \in Sessions : Goes(x[t][o], i)}
<1>1. /\ C(w) \subseteq Sessions /\ C(v) \subseteq Sessions
      /\ \A t \in Sessions : t # s => (t \in C(w) <=> t \in C(v))
  OBVIOUS
<1>2. /\ G(w) \subseteq Sessions /\ G(v) \subseteq Sessions
      /\ \A t \in Sessions : t # s => (t \in G(w) <=> t \in G(v))
  OBVIOUS
<1>3. /\ s \in C(w) <=> Comes(w[s][o], i)
      /\ s \in C(v) <=> Comes(v[s][o], i)
      /\ s \in G(w) <=> Goes(w[s][o], i)
      /\ s \in G(v) <=> Goes(v[s][o], i)
  OBVIOUS
<1>4. /\ Due(w, o, i) = Cardinality(C(w)) - Cardinality(G(w))
      /\ Due(v, o, i) = Cardinality(C(v)) - Cardinality(G(v))
  BY DEF Due
<1>. HIDE DEF C, G
<1>5. /\ Cardinality(C(w)) \in Int /\ Cardinality(C(v)) \in Int
      /\ Cardinality(C(v)) = Cardinality(C(w)) + One(s \in C(v)) - One(s \in C(w))
  BY <1>1, CountChange
<1>6. /\ Cardinality(G(w)) \in Int /\ Cardinality(G(v)) \in Int
      /\ Cardinality(G(v)) = Cardinality(G(w)) + One(s \in G(v)) - One(s \in G(w))
  BY <1>2, CountChange
<1>. QED
  BY <1>3, <1>4, <1>5, <1>6 DEF One, Shift

LEMMA PendingChange ==
  ASSUME NEW s \in Sessions, NEW o \in Sessions, NEW i \in Items,
         \A t \in Sessions : t # s => upd'[t][o] = upd[t][o]
  PROVE  Due(upd', o, i) = Due(upd, o, i) + Shift(upd[s][o], upd'[s][o], i)
BY DueChange

LEMMA NothingDue ==
  ASSUME NEW w, NEW o, NEW i, \A t \in Sessions : ~Comes(w[t][o], i) /\ ~Goes(w[t][o], i)
  PROVE  Due(w, o, i) = 0
<1>1. {t \in Sessions : Comes(w[t][o], i)} = {} /\ {t \in Sessions : Goes(w[t][o], i)} = {}
  OBVIOUS
<1>2. Cardinality({}) = 0
  BY FS_EmptySet
<1>. QED
  BY <1>1, <1>2 DEF Due

-----------------------------------------------------------------------------
(***************************************************************************)
(* The balance of packets and tables.                                      *)
(***************************************************************************)
LEMMA BalanceInit == Init => Balance
<1>. SUFFICES ASSUME Init PROVE Balance
  OBVIOUS
<1>1. \A s, o \in Sessions : upd[s][o] = NoUpdate
  BY DEF Init, NoUpdates
<1>2. \A s, o \in Sessions : \A i : ~Comes(upd[s][o], i) /\ ~Goes(upd[s][o], i)
  BY <1>1, UpdateTypes DEF Comes, Goes, NothingListed
<1>3. \A o \in Sessions : \A i \in Items :
        Pending(o, i) = 0 /\ sent[o][i] = 0 /\ i \notin vis[o]
  <2>. SUFFICES ASSUME NEW o \in Sessions, NEW i \in Items
                PROVE  Pending(o, i) = 0 /\ sent[o][i] = 0 /\ i \notin vis[o]
    OBVIOUS
  <2>1. Due(upd, o, i) = 0
    BY <1>2, NothingDue
  <2>. QED
    BY <2>1, PendingIsDue DEF Init
<1>4. open = Sessions
  BY DEF Init
<1>. QED
  BY <1>3, <1>4 DEF Balance, Balanced, One

\* The step of one update, of one table.
LEMMA BalanceTable ==
  ASSUME Basics, Basics', Balance, NEW s \in Sessions, NEW o \in Sessions, NEW u \in Updates,
         upd' = [upd EXCEPT ![s][o] = u], UNCHANGED <<open, objects>>,
         \A q \in Sessions : q # o => vis'[q] = vis[q] /\ sent'[q] = sent[q],
         \A i \in Items : o \in open =>
            /\ sent'[o][i] - sent[o][i] + Shift(upd[s][o], u, i) <= Gain(vis[o], vis'[o], i)
            /\ i \in objects =>
                  sent'[o][i] - sent[o][i] + Shift(upd[s][o], u, i) = Gain(vis[o], vis'[o], i)
  PROVE  Balance'
<1>1. /\ upd'[s][o] = u
      /\ \A t, q \in Sessions : t # s \/ q # o => upd'[t][q] = upd[t][q]
  BY ZenonT(60), OneUpdateChanges DEF Basics
<1>2. SUFFICES ASSUME NEW q \in open, NEW i \in Items
               PROVE  Balanced(q, i)'
  BY DEF Balance
<1>3. q \in Sessions /\ sent[q][i] \in Int /\ sent'[q][i] \in Int
  BY DEF Basics, TypeOK
<1>4. Pending(q, i) = Due(upd, q, i) /\ Pending(q, i)' = Due(upd', q, i)
  BY PendingIsDue
<1>5. Balanced(q, i)
  BY DEF Balance
<1>6. /\ Due(upd, q, i) \in Int /\ Due(upd', q, i) \in Int
      /\ Due(upd', q, i) = Due(upd, q, i) + Shift(upd[s][q], upd'[s][q], i)
  <2>1. \A t \in Sessions : t # s => upd'[t][q] = upd[t][q]
    BY <1>1, <1>3
  <2>2. Due(upd', q, i) = Due(upd, q, i) + Shift(upd[s][q], upd'[s][q], i)
    BY <2>1, <1>3, PendingChange
  <2>. QED
    BY <2>2, DueType
<1>7. CASE q # o
  <2>1. Due(upd', q, i) = Due(upd, q, i) /\ vis'[q] = vis[q] /\ sent'[q][i] = sent[q][i]
    BY <1>1, <1>3, <1>6, <1>7, OneType
  <2>. QED
    BY <1>4, <1>5, <2>1 DEF Balanced
<1>8. CASE q = o
  <2>1. upd'[s][q] = u
    BY <1>1, <1>8
  <2>2. /\ sent'[q][i] - sent[q][i] + Shift(upd[s][q], u, i) <= Gain(vis[q], vis'[q], i)
        /\ i \in objects =>
              sent'[q][i] - sent[q][i] + Shift(upd[s][q], u, i) = Gain(vis[q], vis'[q], i)
    BY <1>8
  <2>3. /\ sent[q][i] + Due(upd, q, i) <= One(i \in vis[q])
        /\ i \in objects => sent[q][i] + Due(upd, q, i) = One(i \in vis[q])
    BY <1>4, <1>5 DEF Balanced
  <2>4. /\ One(i \in vis[q]) \in Int /\ One(i \in vis'[q]) \in Int
        /\ Gain(vis[q], vis'[q], i) = One(i \in vis'[q]) - One(i \in vis[q])
        /\ Shift(upd[s][q], u, i) \in Int
    BY OneType DEF One, Gain
  <2>5. Due(upd', q, i) = Due(upd, q, i) + Shift(upd[s][q], u, i)
    BY <1>6, <2>1
  <2>6. /\ sent'[q][i] + Due(upd', q, i) <= One(i \in vis'[q])
        /\ i \in objects => sent'[q][i] + Due(upd', q, i) = One(i \in vis'[q])
    <3>. DEFINE a == sent[q][i] b == Due(upd, q, i) c == sent'[q][i] d == Due(upd', q, i)
                h == One(i \in vis[q]) k == One(i \in vis'[q])
                g == Gain(vis[q], vis'[q], i) x == Shift(upd[s][q], u, i)
    <3>1. /\ a \in Int /\ b \in Int /\ c \in Int /\ d \in Int /\ h \in Int /\ k \in Int /\ x \in Int
          /\ c - a + x <= g /\ a + b <= h /\ g = k - h /\ d = b + x
      BY <1>3, <1>6, <2>2, <2>3, <2>4, <2>5
    <3>2. i \in objects => c - a + x = g /\ a + b = h
      BY <2>2, <2>3
    <3>. HIDE DEF a, b, c, d, h, k, g, x
    <3>3. c + d <= k
      BY <3>1
    <3>4. ASSUME i \in objects PROVE c + d = k
      <4>1. c - a + x = g /\ a + b = h
        BY <3>2, <3>4
      <4>. QED
        BY <3>1, <4>1
    <3>. QED
      BY <3>3, <3>4 DEF c, d, k
  <2>. QED
    BY <1>4, <2>6 DEF Balanced
<1>. QED
  BY <1>7, <1>8

LEMMA BalanceInterest ==
  ASSUME Basics, Basics', Balance, NEW s \in Sessions, NEW o \in Sessions, InterestStep(s, o)
  PROVE  Balance'
<1>1. UNCHANGED <<open, objects>>
  BY RunningHandler DEF Basics, Others, world
<1>2. /\ upd[s][o] \in Updates /\ ShapeOf(upd[s][o])
      /\ vis \in [Sessions -> SUBSET Items] /\ sent \in [Sessions -> [Items -> Int]]
      /\ \A i \in Items : sent[o][i] \in Int
  BY DEF Basics, TypeOK, Shapes
<1>3. CASE Look(s, o)
  <2>1. PICK u \in Updates :
            /\ upd' = [upd EXCEPT ![s][o] = u]
            /\ u.at = "refresh" /\ u.near = GetNearbyWorldItemsForPlayer(o)
            /\ u.spawn = upd[s][o].spawn /\ u.despawn = upd[s][o].despawn /\ u.out = upd[s][o].out
    BY <1>3, LookUpdate DEF Basics
  <2>2. UNCHANGED <<vis, sent>> /\ upd[s][o].at = "look"
    BY <1>3 DEF Look
  <2>3. \A i : /\ ~Comes(u, i) /\ ~Goes(u, i)
               /\ ~Comes(upd[s][o], i) /\ ~Goes(upd[s][o], i)
    BY <1>2, <2>1, <2>2 DEF ShapeOf, NothingListed, Comes, Goes
  <2>4. \A i \in Items : sent'[o][i] - sent[o][i] + Shift(upd[s][o], u, i) = Gain(vis[o], vis'[o], i)
    BY <1>2, <2>2, <2>3 DEF One, Shift, Gain
  <2>8. \A i \in Items : o \in open =>
            /\ sent'[o][i] - sent[o][i] + Shift(upd[s][o], u, i) <= Gain(vis[o], vis'[o], i)
            /\ i \in objects =>
                  sent'[o][i] - sent[o][i] + Shift(upd[s][o], u, i) = Gain(vis[o], vis'[o], i)
    BY <2>4, OneType
  <2>9. \A q \in Sessions : q # o => vis'[q] = vis[q] /\ sent'[q] = sent[q]
    BY <1>2, <2>2, <2>1
  <2>. QED
    BY <1>1, <2>1, <2>8, <2>9, BalanceTable
<1>4. CASE RefreshVisibleWorldItems(s, o)
  <2>1. PICK u \in Updates :
            /\ upd' = [upd EXCEPT ![s][o] = u]
            /\ u.at = "spawn" /\ u.near = {} /\ u.out = {}
            /\ u.spawn = upd[s][o].near \ vis[o] /\ u.despawn = vis[o] \ upd[s][o].near
    BY <1>4, RefreshUpdate DEF Basics
  <2>2. /\ sent' = sent /\ vis' = [vis EXCEPT ![o] = upd[s][o].near]
        /\ upd[s][o].at = "refresh"
    BY <1>4 DEF RefreshVisibleWorldItems
  <2>3. /\ vis'[o] = upd[s][o].near
        /\ \A q \in Sessions : q # o => vis'[q] = vis[q] /\ sent'[q] = sent[q]
    BY <1>2, <2>2
  <2>4. \A i : /\ Comes(u, i) <=> i \in vis'[o] /\ i \notin vis[o]
               /\ Goes(u, i) <=> i \in vis[o] /\ i \notin vis'[o]
               /\ ~Comes(upd[s][o], i) /\ ~Goes(upd[s][o], i)
    BY <1>2, <2>1, <2>2, <2>3 DEF ShapeOf, NothingListed, Comes, Goes
  <2>5. \A i \in Items : sent'[o][i] - sent[o][i] + Shift(upd[s][o], u, i) = Gain(vis[o], vis'[o], i)
    BY <1>2, <2>2, <2>4 DEF One, Shift, Gain
  <2>8. \A i \in Items : o \in open =>
            /\ sent'[o][i] - sent[o][i] + Shift(upd[s][o], u, i) <= Gain(vis[o], vis'[o], i)
            /\ i \in objects =>
                  sent'[o][i] - sent[o][i] + Shift(upd[s][o], u, i) = Gain(vis[o], vis'[o], i)
    BY <2>5, OneType
  <2>9. \A q \in Sessions : q # o => vis'[q] = vis[q] /\ sent'[q] = sent[q]
    BY <1>2, <2>2, <2>1
  <2>. QED
    BY ZenonT(60), <1>1, <2>1, <2>8, <2>9, BalanceTable
<1>5. CASE SendWorldItemSpawn(s, o)
  <2>1. PICK j \in upd[s][o].spawn, u \in Updates :
            /\ upd' = [upd EXCEPT ![s][o] = u]
            /\ u.at = "spawn" /\ u.near = upd[s][o].near /\ u.despawn = upd[s][o].despawn
            /\ u.spawn = upd[s][o].spawn \ {j}
            /\ u.out = upd[s][o].out \cup (IF j \in objects THEN {j} ELSE {})
    BY <1>5, SpawnUpdate DEF Basics
  <2>2. UNCHANGED <<vis, sent>> /\ upd[s][o].at = "spawn"
    BY <1>5 DEF SendWorldItemSpawn
  <2>3. \A i : /\ Comes(u, i) => Comes(upd[s][o], i)
               /\ i \in objects => (Comes(u, i) <=> Comes(upd[s][o], i))
               /\ Goes(u, i) <=> Goes(upd[s][o], i)
    BY <2>1, <2>2 DEF Comes, Goes
  <2>4. \A i \in Items :
            /\ sent'[o][i] - sent[o][i] + Shift(upd[s][o], u, i) <= Gain(vis[o], vis'[o], i)
            /\ i \in objects =>
                  sent'[o][i] - sent[o][i] + Shift(upd[s][o], u, i) = Gain(vis[o], vis'[o], i)
    BY <1>2, <2>2, <2>3 DEF One, Shift, Gain
  <2>8. \A i \in Items : o \in open =>
            /\ sent'[o][i] - sent[o][i] + Shift(upd[s][o], u, i) <= Gain(vis[o], vis'[o], i)
            /\ i \in objects =>
                  sent'[o][i] - sent[o][i] + Shift(upd[s][o], u, i) = Gain(vis[o], vis'[o], i)
    BY <2>4
  <2>9. \A q \in Sessions : q # o => vis'[q] = vis[q] /\ sent'[q] = sent[q]
    BY <1>2, <2>2, <2>1
  <2>. QED
    BY <1>1, <2>1, <2>8, <2>9, BalanceTable
<1>6. CASE SendWorldItemDespawns(s, o)
  <2>1. PICK u \in Updates :
            /\ upd' = [upd EXCEPT ![s][o] = u]
            /\ u.at = "despawn" /\ u.near = {} /\ u.spawn = {} /\ u.despawn = {}
            /\ u.out = upd[s][o].despawn
    BY <1>6, DespawnsUpdate DEF Basics
  <2>2. UNCHANGED <<vis, sent>> /\ upd[s][o].at = "spawn" /\ upd[s][o].spawn = {} /\ upd[s][o].out = {}
    BY <1>6 DEF SendWorldItemDespawns
  <2>3. \A i : /\ ~Comes(u, i) /\ ~Comes(upd[s][o], i)
               /\ Goes(u, i) <=> Goes(upd[s][o], i)
    BY <2>1, <2>2 DEF Comes, Goes
  <2>4. \A i \in Items : sent'[o][i] - sent[o][i] + Shift(upd[s][o], u, i) = Gain(vis[o], vis'[o], i)
    BY <1>2, <2>2, <2>3 DEF One, Shift, Gain
  <2>8. \A i \in Items : o \in open =>
            /\ sent'[o][i] - sent[o][i] + Shift(upd[s][o], u, i) <= Gain(vis[o], vis'[o], i)
            /\ i \in objects =>
                  sent'[o][i] - sent[o][i] + Shift(upd[s][o], u, i) = Gain(vis[o], vis'[o], i)
    BY <2>4, OneType
  <2>9. \A q \in Sessions : q # o => vis'[q] = vis[q] /\ sent'[q] = sent[q]
    BY <1>2, <2>2, <2>1
  <2>. QED
    BY <1>1, <2>1, <2>8, <2>9, BalanceTable
<1>7. CASE UpdateEnds(s, o)
  <2>1. /\ UNCHANGED <<vis, sent>> /\ upd' = [upd EXCEPT ![s][o] = NoUpdate]
        /\ upd[s][o].at = "despawn" /\ upd[s][o].out = {}
    BY <1>7 DEF UpdateEnds
  <2>2. \A i : /\ ~Comes(NoUpdate, i) /\ ~Goes(NoUpdate, i)
               /\ ~Comes(upd[s][o], i) /\ ~Goes(upd[s][o], i)
    BY <1>2, <2>1, UpdateTypes DEF ShapeOf, NothingListed, Comes, Goes
  <2>3. \A i \in Items :
          sent'[o][i] - sent[o][i] + Shift(upd[s][o], NoUpdate, i) = Gain(vis[o], vis'[o], i)
    BY <1>2, <2>1, <2>2 DEF One, Shift, Gain
  <2>4. NoUpdate \in Updates
    BY UpdateTypes
  <2>8. \A i \in Items : o \in open =>
            /\ sent'[o][i] - sent[o][i] + Shift(upd[s][o], NoUpdate, i) <= Gain(vis[o], vis'[o], i)
            /\ i \in objects =>
                  sent'[o][i] - sent[o][i] + Shift(upd[s][o], NoUpdate, i) = Gain(vis[o], vis'[o], i)
    BY <2>3, OneType
  <2>9. \A q \in Sessions : q # o => vis'[q] = vis[q] /\ sent'[q] = sent[q]
    BY <1>2, <2>2, <2>1
  <2>. QED
    BY <1>1, <2>1, <2>4, <2>8, <2>9, BalanceTable
<1>8. CASE SendPacket(s, o)
  <2>1. PICK j \in upd[s][o].out, u \in Updates :
            /\ upd' = [upd EXCEPT ![s][o] = u]
            /\ u.at = upd[s][o].at /\ u.near = upd[s][o].near
            /\ u.spawn = upd[s][o].spawn /\ u.despawn = upd[s][o].despawn
            /\ u.out = upd[s][o].out \ {j}
            /\ sent' = IF o \notin open THEN sent
                       ELSE [sent EXCEPT ![o][j] = IF upd[s][o].at = "spawn" THEN @ + 1 ELSE @ - 1]
    BY <1>8, SentUpdate DEF Basics
  <2>2. vis' = vis
    BY <1>8 DEF SendPacket
  <2>3. j \in Items /\ upd[s][o].at \in {"spawn", "despawn"}
    BY <1>2 DEF Updates, ShapeOf, NothingListed
  <2>4. \A q \in Sessions : q # o => sent'[q] = sent[q]
    BY <1>2, <2>1
  <2>5. \A i \in Items : i # j => /\ Comes(u, i) <=> Comes(upd[s][o], i)
                                  /\ Goes(u, i) <=> Goes(upd[s][o], i)
                                  /\ sent'[o][i] = sent[o][i]
    BY <1>2, <2>1 DEF Comes, Goes
  <2>6. o \in open => sent'[o][j] - sent[o][j] = One(upd[s][o].at = "spawn") - One(upd[s][o].at = "despawn")
    BY <1>2, <2>1, <2>3 DEF One
  <2>7. /\ Comes(upd[s][o], j) <=> upd[s][o].at = "spawn"
        /\ ~Comes(u, j)
        /\ upd[s][o].at = "despawn" => Goes(upd[s][o], j) /\ ~Goes(u, j)
        /\ upd[s][o].at = "spawn" => (Goes(upd[s][o], j) <=> Goes(u, j))
    BY <1>2, <2>1, <2>3 DEF Comes, Goes, ShapeOf
  <2>8. \A i \in Items : o \in open =>
          sent'[o][i] - sent[o][i] + Shift(upd[s][o], u, i) = 0
    <3>. SUFFICES ASSUME NEW i \in Items, o \in open
                  PROVE  sent'[o][i] - sent[o][i] + Shift(upd[s][o], u, i) = 0
      OBVIOUS
    <3>1. CASE i # j
      BY <1>2, <2>5, <3>1 DEF One, Shift
    <3>2. CASE i = j
      BY <2>3, <2>6, <2>7, <3>2 DEF One, Shift
    <3>. QED
      BY <3>1, <3>2
  <2>9. \A i \in Items : Gain(vis[o], vis'[o], i) = 0
    BY <2>2 DEF One, Gain
  <2>11. \A i \in Items : o \in open =>
            /\ sent'[o][i] - sent[o][i] + Shift(upd[s][o], u, i) <= Gain(vis[o], vis'[o], i)
            /\ i \in objects =>
                  sent'[o][i] - sent[o][i] + Shift(upd[s][o], u, i) = Gain(vis[o], vis'[o], i)
    BY <2>8, <2>9
  <2>12. \A q \in Sessions : q # o => vis'[q] = vis[q] /\ sent'[q] = sent[q]
    BY <1>2, <2>2, <2>4
  <2>. QED
    BY <1>1, <2>1, <2>11, <2>12, BalanceTable
<1>. QED
  BY <1>3, <1>4, <1>5, <1>6, <1>7, <1>8 DEF InterestStep

\* A step that sends nothing, leaves the tables of open sessions alone and
\* begins or ends nothing that is due.
LEMMA BalanceQuiet ==
  ASSUME Basics, Balance, NEW s \in Sessions,
         open' \subseteq open, objects' \subseteq objects,
         \A q \in open' : sent'[q] = sent[q] /\ vis'[q] = vis[q],
         \A t, q \in Sessions : t # s => upd'[t][q] = upd[t][q],
         \A q \in Sessions, i \in Items : Shift(upd[s][q], upd'[s][q], i) = 0
  PROVE  Balance'
<1>. SUFFICES ASSUME NEW q \in open', NEW i \in Items
              PROVE  Balanced(q, i)'
  BY DEF Balance
<1>1. q \in Sessions /\ q \in open
  BY DEF Basics, TypeOK
<1>2. \A t \in Sessions : t # s => upd'[t][q] = upd[t][q]
  BY <1>1
<1>3. Due(upd', q, i) = Due(upd, q, i) + Shift(upd[s][q], upd'[s][q], i)
  BY <1>1, <1>2, PendingChange
<1>4. Due(upd', q, i) = Due(upd, q, i)
  BY <1>1, <1>3, DueType
<1>5. Pending(q, i) = Due(upd, q, i) /\ Pending(q, i)' = Due(upd', q, i)
  BY PendingIsDue
<1>6. Balanced(q, i)
  BY <1>1 DEF Balance
<1>. QED
  BY <1>4, <1>5, <1>6 DEF Balanced

LEMMA QuietUpdates ==
  /\ \A i : /\ ~Comes(NoUpdate, i) /\ ~Goes(NoUpdate, i)
            /\ ~Comes(NewUpdate, i) /\ ~Goes(NewUpdate, i)
            /\ Shift(NoUpdate, NewUpdate, i) = 0
  /\ \A i \in Items : \A j : /\ ~Comes(Despawns(i), j)
                             /\ Goes(Despawns(i), j) <=> j = i
<1>1. \A i : /\ ~Comes(NoUpdate, i) /\ ~Goes(NoUpdate, i)
             /\ ~Comes(NewUpdate, i) /\ ~Goes(NewUpdate, i)
  BY UpdateTypes DEF Comes, Goes, NothingListed
<1>2. \A i : Shift(NoUpdate, NewUpdate, i) = 0
  BY <1>1 DEF Shift, One
<1>3. \A i \in Items : \A j : ~Comes(Despawns(i), j) /\ (Goes(Despawns(i), j) <=> j = i)
  BY UpdateTypes DEF Comes, Goes
<1>. QED
  BY <1>1, <1>2, <1>3, OneType

LEMMA BalancePickedUp ==
  ASSUME Basics, Basics', Balance, NEW s \in Sessions, BroadcastWorldItemPickedUp(s)
  PROVE  Balance'
<1>. DEFINE j == picked[s]
            w == [o \in Sessions |-> IF j \in vis[o] THEN Despawns(j) ELSE NoUpdate]
<1>1. /\ upd' = [upd EXCEPT ![s] = w] /\ pc[s] = "picked"
      /\ vis' = [o \in Sessions |-> vis[o] \ {j}]
      /\ UNCHANGED <<world, sent>>
  BY DEF BroadcastWorldItemPickedUp
<1>. SUFFICES ASSUME NEW q \in open, NEW i \in Items
              PROVE  Balanced(q, i)'
  BY <1>1 DEF Balance, world
<1>2. /\ q \in Sessions /\ vis[q] \subseteq Items /\ upd[s][q] = NoUpdate
      /\ sent[q][i] \in Int
  <2>1. q \in Sessions /\ vis[q] \subseteq Items /\ sent[q][i] \in Int
    BY DEF Basics, TypeOK
  <2>2. TypeOK /\ pc[s] # "update"
    BY <1>1 DEF Basics
  <2>. QED
    BY <2>1, <2>2, RestingUpdates
<1>3. \A t \in Sessions : t # s => upd'[t][q] = upd[t][q]
  BY <1>1 DEF Basics, TypeOK
<1>4. upd'[s][q] = (IF j \in vis[q] THEN Despawns(j) ELSE NoUpdate)
  <2>1. upd'[s] = w
    BY <1>1 DEF Basics, TypeOK
  <2>. QED
    BY <1>2, <2>1
<1>5. vis'[q] = vis[q] \ {j} /\ sent'[q][i] = sent[q][i] /\ objects' = objects
  BY <1>1, <1>2 DEF world
<1>. HIDE DEF j, w
<1>6. Due(upd', q, i) = Due(upd, q, i) + Shift(upd[s][q], upd'[s][q], i)
  BY <1>2, <1>3, PendingChange
<1>7. Shift(upd[s][q], upd'[s][q], i) = One(i \in vis'[q]) - One(i \in vis[q])
  <2>1. CASE j \in vis[q]
    <3>1. j \in Items /\ upd'[s][q] = Despawns(j)
      BY <1>2, <1>4, <2>1
    <3>2. ~Comes(upd'[s][q], i) /\ (Goes(upd'[s][q], i) <=> i = j)
      BY <3>1, QuietUpdates
    <3>3. ~Comes(upd[s][q], i) /\ ~Goes(upd[s][q], i)
      BY <1>2, QuietUpdates
    <3>. QED
      BY <1>5, <2>1, <3>2, <3>3 DEF Shift, One
  <2>2. CASE j \notin vis[q]
    <3>1. upd'[s][q] = upd[s][q] /\ vis'[q] = vis[q]
      BY <1>2, <1>4, <1>5, <2>2
    <3>. QED
      BY <3>1, OneType DEF One
  <2>. QED
    BY <2>1, <2>2
<1>8. Pending(q, i) = Due(upd, q, i) /\ Pending(q, i)' = Due(upd', q, i)
  BY PendingIsDue
<1>9. Balanced(q, i) /\ Due(upd, q, i) \in Int
  BY DueType DEF Balance
<1>10. /\ sent[q][i] + Due(upd, q, i) <= One(i \in vis[q])
       /\ i \in objects => sent[q][i] + Due(upd, q, i) = One(i \in vis[q])
  BY <1>8, <1>9 DEF Balanced
<1>11. /\ sent[q][i] + Due(upd', q, i) <= One(i \in vis'[q])
       /\ i \in objects => sent[q][i] + Due(upd', q, i) = One(i \in vis'[q])
  <2>1. One(i \in vis[q]) \in Int /\ One(i \in vis'[q]) \in Int
    BY DEF One
  <2>2. Due(upd', q, i) = Due(upd, q, i) + One(i \in vis'[q]) - One(i \in vis[q])
    BY <1>6, <1>7, <1>9, <2>1
  <2>. DEFINE a == sent[q][i] b == Due(upd, q, i) d == Due(upd', q, i)
              h == One(i \in vis[q]) k == One(i \in vis'[q])
  <2>3. /\ a \in Int /\ b \in Int /\ h \in Int /\ k \in Int
        /\ d = b + k - h /\ a + b <= h
    BY <1>2, <1>9, <1>10, <2>1, <2>2
  <2>4. i \in objects => a + b = h
    BY <1>10
  <2>. HIDE DEF a, b, d, h, k
  <2>5. a + d <= k
    BY <2>3
  <2>6. ASSUME i \in objects PROVE a + d = k
    <3>1. a + b = h
      BY <2>4, <2>6
    <3>. QED
      BY <2>3, <3>1
  <2>. QED
    BY <2>5, <2>6 DEF a, d, k
<1>. QED
  BY <1>5, <1>8, <1>11 DEF Balanced

LEMMA BalanceDrop ==
  ASSUME Basics, Basics', Balance, NEW s \in Sessions, Drop(s)
  PROVE  Balance'
<1>1. /\ spawned' = spawned + 1 /\ objects' = objects \cup {spawned + 1}
      /\ UNCHANGED <<open, vis, upd, sent>>
  BY DEF Drop
<1>. SUFFICES ASSUME NEW q \in open, NEW i \in Items
              PROVE  Balanced(q, i)'
  BY <1>1 DEF Balance
<1>2. Balanced(q, i) /\ q \in Sessions /\ spawned \in Int
  BY LootVisibilityAssumption DEF Balance, Basics, TypeOK
<1>3. Pending(q, i) = Due(upd, q, i) /\ Pending(q, i)' = Due(upd, q, i)
  BY <1>1, PendingIsDue
<1>4. CASE i # spawned + 1
  <2>1. i \in objects' <=> i \in objects
    BY <1>1, <1>4
  <2>. QED
    BY <1>1, <1>2, <1>3, <2>1 DEF Balanced
<1>5. CASE i = spawned + 1
  <2>1. i > spawned /\ i \notin 1 .. spawned
    BY <1>2, <1>5
  <2>2. sent[q][i] = 0 /\ i \notin vis[q]
    BY <1>2, <2>1 DEF Basics, OnlySpawned
  <2>3. \A t \in Sessions : ~Comes(upd[t][q], i) /\ ~Goes(upd[t][q], i)
    BY <1>2, <2>1 DEF Basics, OnlySpawned, Comes, Goes
  <2>4. Due(upd, q, i) = 0
    BY <2>3, NothingDue
  <2>5. One(i \in vis[q]) = 0
    BY <2>2 DEF One
  <2>. QED
    BY <1>1, <1>3, <2>2, <2>4, <2>5 DEF Balanced
<1>. QED
  BY <1>4, <1>5

LEMMA BalanceStep ==
  ASSUME Basics, Basics', Balance, [Next]_vars
  PROVE  Balance'
<1>b. /\ open \subseteq Sessions /\ open' \subseteq Sessions
      /\ vis \in [Sessions -> SUBSET Items] /\ sent \in [Sessions -> [Items -> Int]]
      /\ upd \in [Sessions -> [Sessions -> Updates]]
  BY DEF Basics, TypeOK
<1>1. CASE UNCHANGED vars
  BY <1>1, PendingIsDue DEF vars, world, Balance, Balanced
<1>2. ASSUME NEW s \in Sessions, NEW p \in Positions, JoinOrMove(s, p) PROVE Balance'
  <2>1. /\ pc[s] # "update" /\ upd' = [upd EXCEPT ![s][s] = NewUpdate]
        /\ UNCHANGED <<objects, open, vis, sent>>
    BY <1>2 DEF JoinOrMove
  <2>2. \A q \in Sessions : upd[s][q] = NoUpdate /\ upd'[s][q] \in {NoUpdate, NewUpdate}
    BY <1>b, <2>1, RestingUpdates DEF Basics
  <2>3. \A q \in Sessions, i \in Items : Shift(upd[s][q], upd'[s][q], i) = 0
    BY <2>2, QuietUpdates, OneType
  <2>4. \A t, q \in Sessions : t # s => upd'[t][q] = upd[t][q]
    BY <1>b, <2>1
  <2>. QED
    BY <2>1, <2>3, <2>4, BalanceQuiet
<1>3. ASSUME NEW s \in Sessions, BroadcastWorldItemDropped(s) PROVE Balance'
  <2>1. /\ pc[s] # "update" /\ UNCHANGED <<world, vis, sent>>
        /\ upd' = [upd EXCEPT ![s] =
              [o \in Sessions |-> IF o \in DropObservers(s) THEN NewUpdate ELSE NoUpdate]]
    BY <1>3 DEF BroadcastWorldItemDropped
  <2>2. \A q \in Sessions : upd[s][q] = NoUpdate /\ upd'[s][q] \in {NoUpdate, NewUpdate}
    BY <1>b, <2>1, RestingUpdates DEF Basics
  <2>3. \A q \in Sessions, i \in Items : Shift(upd[s][q], upd'[s][q], i) = 0
    BY <2>2, QuietUpdates, OneType
  <2>4. \A t, q \in Sessions : t # s => upd'[t][q] = upd[t][q]
    BY <1>b, <2>1
  <2>5. UNCHANGED <<objects, open, vis, sent>>
    BY <2>1 DEF world
  <2>. QED
    BY <2>3, <2>4, <2>5, BalanceQuiet
<1>4. ASSUME NEW s \in Sessions,
             \/ SaveFails(s) \/ Close(s) \/ HandlerEnds(s)
             \/ UnregisterPlayer(s) \/ RemovePlayer(s)
             \/ \E i \in objects : Pickup(s, i)
      PROVE  Balance'
  <2>1. upd' = upd /\ open' \subseteq open /\ objects' \subseteq objects
    BY <1>4 DEF SaveFails, Close, CloseClient, HandlerEnds, UnregisterPlayer, RemovePlayer, Pickup, world
  <2>2. \A q \in open' : sent'[q] = sent[q] /\ vis'[q] = vis[q]
    <3>1. CASE SaveFails(s) \/ Close(s)
      BY <1>b, <3>1 DEF SaveFails, Close, CloseClient
    <3>2. CASE HandlerEnds(s) \/ RemovePlayer(s) \/ \E i \in objects : Pickup(s, i)
      BY <3>2 DEF HandlerEnds, RemovePlayer, Pickup, world
    <3>3. CASE UnregisterPlayer(s)
      BY <1>b, <3>3 DEF UnregisterPlayer, world
    <3>. QED
      BY <1>4, <3>1, <3>2, <3>3
  <2>3. \A q \in Sessions, i \in Items : Shift(upd[s][q], upd'[s][q], i) = 0
    BY <2>1, OneType
  <2>. QED
    BY <2>1, <2>2, <2>3, BalanceQuiet
<1>5. ASSUME NEW s \in Sessions, Drop(s) PROVE Balance'
  BY <1>5, BalanceDrop
<1>6. ASSUME NEW s \in Sessions, BroadcastWorldItemPickedUp(s) PROVE Balance'
  BY <1>6, BalancePickedUp
<1>7. ASSUME NEW s \in Sessions, NEW o \in Sessions, InterestStep(s, o) PROVE Balance'
  BY <1>7, BalanceInterest
<1>. QED
  BY <1>1, <1>2, <1>3, <1>4, <1>5, <1>6, <1>7 DEF Next, InterestStep

-----------------------------------------------------------------------------
(***************************************************************************)
(* Updates that no other handler overlaps.                                 *)
(***************************************************************************)
\* A handler that starts is alone if all others rest, and has not looked yet.
LEMMA AloneStarts ==
  ASSUME Basics, Basics', Alone, NEW s \in Sessions, NEW place, NEW work, Starts(s, place, work),
         place = "update" => work = "move" /\ upd'[s][s].at = "look",
         place # "idle"
  PROVE  Alone'
<1>. SUFFICES ASSUME NEW t \in Sessions, alone'[t]
              PROVE  Undisturbed(t)'
  BY DEF Alone
<1>1. t = s /\ \A u \in Sessions \ {s} : pc[u] \in {"out", "idle", "gone"}
  BY DEF Starts
<1>2. /\ pc' = [pc EXCEPT ![s] = place] /\ job' = [job EXCEPT ![s] = work]
      /\ pc \in [Sessions -> {"out", "idle", "update", "dropped", "picked", "leaving", "gone"}]
      /\ job \in [Sessions -> {"none", "move", "drop", "pickup"}]
  BY DEF Starts, Basics, TypeOK
<1>3. /\ \A u \in Sessions \ {s} : pc'[u] \in {"out", "idle", "gone"}
      /\ pc'[s] = place /\ job'[s] = work
  BY <1>1, <1>2
<1>4. CASE place = "update"
  <2>1. Follows(s, s)'
    BY <1>4 DEF Follows
  <2>. QED
    BY <1>1, <1>3, <1>4, <2>1 DEF Undisturbed
<1>5. CASE place # "update"
  BY <1>1, <1>3, <1>5 DEF Undisturbed
<1>. QED
  BY <1>4, <1>5

\* A step of a running handler: the handler that is alone is this one.
LEMMA AloneRuns ==
  ASSUME Basics, Alone, NEW s \in Sessions, pc[s] \notin {"out", "idle", "gone"},
         alone' = alone, NEW t \in Sessions, alone'[t]
  PROVE  t = s /\ Undisturbed(s)
BY DEF Alone, Undisturbed

\* The update of o's table in a handler of s goes on following the world.
LEMMA FollowsInterest ==
  ASSUME Basics, Basics', NEW s \in Sessions, NEW o \in Sessions, InterestStep(s, o), Follows(s, o)
  PROVE  Follows(s, o)'
<1>. DEFINE near == GetNearbyWorldItemsForPlayer(o)
<1>1. UNCHANGED world
  BY RunningHandler DEF Basics, Others
<1>2. GetNearbyWorldItemsForPlayer(o)' = near
  BY <1>1 DEF world, GetNearbyWorldItemsForPlayer
<1>3. /\ upd[s][o].at = "refresh" => upd[s][o].near = near
      /\ upd[s][o].at \in {"none", "spawn", "despawn"} => vis[o] = near
      /\ vis \in [Sessions -> SUBSET Items]
  BY DEF Follows, Basics, TypeOK
<1>. HIDE DEF near
<1>a. ASSUME NEW u \in Updates, upd' = [upd EXCEPT ![s][o] = u],
             u.at = "refresh" => u.near = near,
             u.at \in {"none", "spawn", "despawn"} => vis'[o] = near
      PROVE  Follows(s, o)'
  <2>1. upd'[s][o] = u
    BY <1>a, OneUpdateChanges DEF Basics
  <2>. QED
    BY <1>2, <1>a, <2>1 DEF Follows
<1>4. CASE Look(s, o)
  <2>1. PICK u \in Updates :
            /\ upd' = [upd EXCEPT ![s][o] = u]
            /\ u.at = "refresh" /\ u.near = GetNearbyWorldItemsForPlayer(o)
    BY <1>4, LookUpdate DEF Basics
  <2>2. u.near = near
    BY <2>1 DEF near
  <2>. QED
    BY <1>a, <2>1, <2>2
<1>5. CASE RefreshVisibleWorldItems(s, o)
  <2>1. PICK u \in Updates : upd' = [upd EXCEPT ![s][o] = u] /\ u.at = "spawn"
    BY <1>5, RefreshUpdate DEF Basics
  <2>2. vis' = [vis EXCEPT ![o] = upd[s][o].near] /\ upd[s][o].at = "refresh"
    BY <1>5 DEF RefreshVisibleWorldItems
  <2>3. vis'[o] = near
    BY <1>3, <2>2
  <2>. QED
    BY <1>a, <2>1, <2>3
<1>6. CASE SendWorldItemSpawn(s, o)
  <2>1. PICK u \in Updates : upd' = [upd EXCEPT ![s][o] = u] /\ u.at = "spawn"
    BY <1>6, SpawnUpdate DEF Basics
  <2>2. vis' = vis /\ upd[s][o].at = "spawn"
    BY <1>6 DEF SendWorldItemSpawn
  <2>. QED
    BY <1>3, <1>a, <2>1, <2>2
<1>7. CASE SendWorldItemDespawns(s, o)
  <2>1. PICK u \in Updates : upd' = [upd EXCEPT ![s][o] = u] /\ u.at = "despawn"
    BY <1>7, DespawnsUpdate DEF Basics
  <2>2. vis' = vis /\ upd[s][o].at = "spawn"
    BY <1>7 DEF SendWorldItemDespawns
  <2>. QED
    BY <1>3, <1>a, <2>1, <2>2
<1>8. CASE UpdateEnds(s, o)
  <2>1. vis' = vis /\ upd[s][o].at = "despawn" /\ upd' = [upd EXCEPT ![s][o] = NoUpdate]
    BY <1>8 DEF UpdateEnds
  <2>. QED
    BY <1>3, <1>a, <2>1, UpdateTypes
<1>9. CASE SendPacket(s, o)
  <2>1. PICK u \in Updates :
            upd' = [upd EXCEPT ![s][o] = u] /\ u.at = upd[s][o].at /\ u.near = upd[s][o].near
    BY <1>9, SentUpdate DEF Basics
  <2>2. vis' = vis
    BY <1>9 DEF SendPacket
  <2>. QED
    BY <1>3, <1>a, <2>1, <2>2
<1>. QED
  BY <1>4, <1>5, <1>6, <1>7, <1>8, <1>9 DEF InterestStep

LEMMA AloneInterest ==
  ASSUME Basics, Basics', Alone, NEW s \in Sessions, NEW o \in Sessions, InterestStep(s, o)
  PROVE  Alone'
<1>1. /\ pc[s] = "update" /\ UNCHANGED Others
      /\ UNCHANGED world /\ UNCHANGED <<pc, job, alone>>
  BY RunningHandler DEF Basics, Others
<1>. SUFFICES ASSUME NEW t \in Sessions, alone'[t]
              PROVE  Undisturbed(t)'
  BY DEF Alone
<1>2. t = s /\ Undisturbed(s)
  BY <1>1, AloneRuns
<1>3. \A q \in Sessions : Follows(s, q) => Follows(s, q)'
  <2>. SUFFICES ASSUME NEW q \in Sessions, Follows(s, q) PROVE Follows(s, q)'
    OBVIOUS
  <2>1. CASE q = o
    BY <2>1, FollowsInterest
  <2>2. CASE q # o
    <3>1. \E u \in Updates : upd' = [upd EXCEPT ![s][o] = u]
      BY LookUpdate, RefreshUpdate, SpawnUpdate, DespawnsUpdate, SentUpdate, UpdateTypes
         DEF InterestStep, UpdateEnds, Basics
    <3>2. upd'[s][q] = upd[s][q]
      BY <2>2, <3>1, OneUpdateChanges DEF Basics
    <3>3. vis'[q] = vis[q]
      BY <2>2 DEF InterestStep, Look, RefreshVisibleWorldItems, SendWorldItemSpawn,
         SendWorldItemDespawns, UpdateEnds, SendPacket, Basics, TypeOK
    <3>4. GetNearbyWorldItemsForPlayer(q)' = GetNearbyWorldItemsForPlayer(q)
      BY <1>1 DEF world, GetNearbyWorldItemsForPlayer
    <3>. QED
      BY <3>2, <3>3, <3>4 DEF Follows
  <2>. QED
    BY <2>1, <2>2
<1>4. open \subseteq Sessions /\ UNCHANGED <<open, player>>
  BY <1>1 DEF Basics, TypeOK, world
<1>. QED
  BY <1>1, <1>2, <1>3, <1>4 DEF Undisturbed

LEMMA AloneStep ==
  ASSUME Basics, Basics', Alone, [Next]_vars
  PROVE  Alone'
<1>b. /\ pc \in [Sessions -> {"out", "idle", "update", "dropped", "picked", "leaving", "gone"}]
      /\ job \in [Sessions -> {"none", "move", "drop", "pickup"}]
      /\ upd \in [Sessions -> [Sessions -> Updates]]
      /\ open \subseteq Sessions /\ alone \in [Sessions -> BOOLEAN]
  BY DEF Basics, TypeOK
<1>1. CASE UNCHANGED vars
  BY <1>1 DEF vars, world, Alone, Undisturbed, Follows, GetNearbyWorldItemsForPlayer
<1>2. ASSUME NEW s \in Sessions, NEW p \in Positions, JoinOrMove(s, p) PROVE Alone'
  <2>1. Starts(s, "update", "move") /\ upd' = [upd EXCEPT ![s][s] = NewUpdate]
    BY <1>2 DEF JoinOrMove
  <2>2. upd'[s][s].at = "look"
    BY <1>b, <2>1, UpdateTypes
  <2>. QED
    BY <2>1, <2>2, AloneStarts
<1>3. ASSUME NEW s \in Sessions, Drop(s) PROVE Alone'
  <2>1. Starts(s, "dropped", "drop")
    BY <1>3 DEF Drop
  <2>. QED
    BY <2>1, AloneStarts
<1>4. ASSUME NEW s \in Sessions, NEW i \in objects, Pickup(s, i) PROVE Alone'
  <2>1. Starts(s, "picked", "pickup")
    BY <1>4 DEF Pickup
  <2>. QED
    BY <2>1, AloneStarts
<1>5. ASSUME NEW s \in Sessions, UnregisterPlayer(s) PROVE Alone'
  <2>1. Starts(s, "leaving", "none")
    BY <1>5 DEF UnregisterPlayer
  <2>. QED
    BY <2>1, AloneStarts
<1>6. ASSUME NEW s \in Sessions, BroadcastWorldItemDropped(s) PROVE Alone'
  <2>1. /\ pc[s] = "dropped" /\ pc' = [pc EXCEPT ![s] = "update"]
        /\ UNCHANGED <<world, vis, job, picked, sent, alone>>
        /\ upd' = [upd EXCEPT ![s] =
              [o \in Sessions |-> IF o \in DropObservers(s) THEN NewUpdate ELSE NoUpdate]]
    BY <1>6 DEF BroadcastWorldItemDropped
  <2>. SUFFICES ASSUME NEW t \in Sessions, alone'[t]
                PROVE  Undisturbed(t)'
    BY DEF Alone
  <2>2. t = s /\ Undisturbed(s)
    BY <2>1, AloneRuns
  <2>3. job'[s] = "drop" /\ UNCHANGED <<open, player>>
    <3>1. Jobs /\ pc[s] = "dropped"
      BY <2>1 DEF Basics
    <3>2. job[s] = "drop"
      BY <3>1 DEF Jobs
    <3>. QED
      BY <2>1, <3>2 DEF world
  <2>4. \A o \in open \cap player : upd'[s][o].at = "look"
    BY <1>b, <2>1, UpdateTypes DEF DropObservers
  <2>5. \A o \in open \cap player : Follows(s, o)'
    BY <2>4 DEF Follows
  <2>6. \A u \in Sessions \ {s} : pc'[u] \in {"out", "idle", "gone"}
    BY <1>b, <2>1, <2>2 DEF Undisturbed
  <2>. QED
    BY <2>2, <2>3, <2>5, <2>6 DEF Undisturbed
<1>7. ASSUME NEW s \in Sessions, BroadcastWorldItemPickedUp(s) \/ SaveFails(s) \/ RemovePlayer(s)
      PROVE  Alone'
  <2>1. /\ pc[s] \in {"dropped", "picked", "leaving"} /\ alone' = alone
        /\ \E place \in {"update", "idle", "gone"} : pc' = [pc EXCEPT ![s] = place]
    BY <1>7 DEF BroadcastWorldItemPickedUp, SaveFails, RemovePlayer
  <2>2. pc'[s] \in {"update", "idle"} => job'[s] \in {"none", "pickup"}
    <3>1. CASE BroadcastWorldItemPickedUp(s)
      BY <3>1 DEF BroadcastWorldItemPickedUp, Basics, Jobs
    <3>2. CASE SaveFails(s)
      BY <1>b, <3>2 DEF SaveFails
    <3>3. CASE RemovePlayer(s)
      BY <1>b, <3>3 DEF RemovePlayer
    <3>. QED
      BY <1>7, <3>1, <3>2, <3>3
  <2>. SUFFICES ASSUME NEW t \in Sessions, alone'[t]
                PROVE  Undisturbed(t)'
    BY DEF Alone
  <2>3. t = s /\ Undisturbed(s)
    BY <2>1, AloneRuns
  <2>4. \A u \in Sessions \ {s} : pc'[u] \in {"out", "idle", "gone"}
    BY <1>b, <2>1, <2>3 DEF Undisturbed
  <2>. QED
    BY <2>2, <2>3, <2>4 DEF Undisturbed
<1>8. ASSUME NEW s \in Sessions, HandlerEnds(s) PROVE Alone'
  <2>1. /\ pc[s] = "update" /\ pc' = [pc EXCEPT ![s] = "idle"]
        /\ UNCHANGED <<world, vis, job, picked, upd, sent, alone>>
    BY <1>8 DEF HandlerEnds
  <2>. SUFFICES ASSUME NEW t \in Sessions, alone'[t]
                PROVE  Undisturbed(t)'
    BY DEF Alone
  <2>2. t = s /\ Undisturbed(s)
    BY <2>1, AloneRuns
  <2>3. \A o \in Sessions : Follows(s, o) => Follows(s, o)'
    BY <2>1 DEF Follows, GetNearbyWorldItemsForPlayer, world
  <2>4. UNCHANGED <<open, player, job>> /\ pc'[s] = "idle"
        /\ \A u \in Sessions \ {s} : pc'[u] \in {"out", "idle", "gone"}
    BY <1>b, <2>1, <2>2 DEF Undisturbed, world
  <2>. QED
    BY <1>b, <2>1, <2>2, <2>3, <2>4 DEF Undisturbed
<1>9. ASSUME NEW s \in Sessions, Close(s) PROVE Alone'
  <2>1. /\ open' = open \ {s}
        /\ UNCHANGED <<spawned, objects, at, player, pos, vis, pc, job, picked, upd, alone>>
    BY <1>9 DEF Close, CloseClient
  <2>. SUFFICES ASSUME NEW t \in Sessions, alone'[t]
                PROVE  Undisturbed(t)'
    BY DEF Alone
  <2>2. Undisturbed(t)
    BY <2>1 DEF Alone
  <2>3. \A o \in Sessions : Follows(t, o) => Follows(t, o)'
    BY <2>1 DEF Follows, GetNearbyWorldItemsForPlayer
  <2>. QED
    BY <1>b, <2>1, <2>2, <2>3 DEF Undisturbed
<1>10. ASSUME NEW s \in Sessions, NEW o \in Sessions, InterestStep(s, o) PROVE Alone'
  BY <1>10, AloneInterest
<1>. QED
  BY <1>1, <1>2, <1>3, <1>4, <1>5, <1>6, <1>7, <1>8, <1>9, <1>10 DEF Next, InterestStep

-----------------------------------------------------------------------------
(***************************************************************************)
(* The theorems.                                                           *)
(***************************************************************************)
LEMMA VInvInit == Init => VInv
<1>1. Init => Alone
  BY DEF Init, Alone
<1>. QED
  BY <1>1, BasicsInit, BalanceInit DEF VInv

LEMMA VInvStep == VInv /\ [Next]_vars => VInv'
BY BasicsStep, BalanceStep, AloneStep DEF VInv

\* The inductive invariant: the types, the shapes of the updates, the balance
\* of what was sent with the tables, and what a lone handler has done
\* (GameServer.cs:490-639).
THEOREM ItemVisibilityInvariant == Spec => []VInv
BY VInvInit, VInvStep, PTL DEF Spec

\* For any number of sessions and items, and however the updates of one table
\* overlap: an open session has been or will be sent one more spawn than
\* despawns of an item in the world exactly when its table holds the item, and
\* no spawn too many of an item that is gone (GameServer.cs:490-576, 578-610).
THEOREM ItemPacketsBalance == Spec => []ItemPacketsBalanceTables
<1>1. VInv => ItemPacketsBalanceTables
  BY DEF VInv, Basics, Balance, Balanced, One, ItemPacketsBalanceTables
<1>. QED
  BY <1>1, ItemVisibilityInvariant, PTL

\* A move or a drop that no other handler overlaps leaves the tables it updates
\* with exactly the items nearby, for any world (GameServer.cs:490-515, 613-639).
THEOREM LoneItemUpdatesRepair == Spec => []UndisturbedUpdateRepairs
<1>1. VInv => UndisturbedUpdateRepairs
  <2>. SUFFICES ASSUME VInv, NEW s \in Sessions, alone[s], pc[s] = "idle"
                PROVE  /\ job[s] = "move" => vis[s] = GetNearbyWorldItemsForPlayer(s)
                       /\ job[s] = "drop" => \A o \in open \cap player :
                             vis[o] = GetNearbyWorldItemsForPlayer(o)
    BY DEF UndisturbedUpdateRepairs
  <2>1. Undisturbed(s) /\ open \subseteq Sessions /\ TypeOK
    BY DEF VInv, Basics, TypeOK, Alone
  <2>2. \A o \in Sessions : upd[s][o].at = "none"
    BY <2>1, RestingUpdates, UpdateTypes
  <2>. QED
    BY <2>1, <2>2 DEF Undisturbed, Follows
<1>. QED
  BY <1>1, ItemVisibilityInvariant, PTL
===============================================================================
