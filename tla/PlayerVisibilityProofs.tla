----------------------- MODULE PlayerVisibilityProofs -----------------------
(***************************************************************************)
(* The interest tables for any number of sessions, positions and radius.   *)
(* The handlers' lists and tasks are described by where each handler is;   *)
(* what they still have to send makes up the difference between a table    *)
(* and what its session was told; and an update nobody overlaps is         *)
(* followed from its look around to its end.                               *)
(***************************************************************************)
EXTENDS PlayerVisibility, FiniteSetTheorems, TLAPS

-----------------------------------------------------------------------------
(***************************************************************************)
(* The inductive invariant.                                                *)
(***************************************************************************)
Roles ==
    /\ player = {s \in Sessions : pc[s] \notin {"out", "removed", "gone"}}
    /\ online = {s \in Sessions : pc[s] # "gone"}
    /\ \A s \in Sessions : pc[s] \in Leaving => s \in closed

\* Nobody is in his own lists, and who is in a list has joined.
Lists ==
    \A s \in Sessions :
        /\ pc[s] # "spawn" => toSpawn[s] = {}
        /\ pc[s] \notin {"spawn", "despawn"} => toDespawn[s] = {}
        /\ s \notin vis[s] /\ s \notin nearby[s] /\ s \notin todo[s]
        /\ s \notin toSpawn[s] /\ s \notin toDespawn[s]
        /\ \A t \in vis[s] : pc[t] # "out"
        /\ \A t \in nearby[s] : pc[t] # "out"
        /\ \A t \in toSpawn[s] : pc[t] # "out"
        /\ \A t \in toDespawn[s] : pc[t] # "out"

\* What a handler has started to send is of its present part, and not what is
\* still on that part's list.
Tasks ==
    \A s \in Sessions :
        /\ pc[s] \notin {"spawn", "despawn", "tell", "forget", "end", "leaving"} => tasks[s] = {}
        /\ pc[s] = "spawn" => \A p \in tasks[s] :
              p.to = s /\ p.type = "spawn" /\ p.about \notin toSpawn[s]
        /\ pc[s] = "despawn" => \A p \in tasks[s] :
              p.to = s /\ p.type = "despawn" /\ p.about \notin toDespawn[s]
        /\ pc[s] = "tell" => \A p \in tasks[s] :
              p.about = s /\ p.type = "spawn" /\ p.to \notin todo[s]
        /\ pc[s] = "forget" => \A p \in tasks[s] :
              p.about = s /\ (p.type = "despawn" => p.to \notin todo[s])
        /\ pc[s] = "end" => \A p \in tasks[s] : p.about = s /\ p.type = "position"
        /\ pc[s] = "leaving" => \A p \in tasks[s] : p.about = s

\* Pending, of the two handlers that send packets to o about t.
One(b) == IF b THEN 1 ELSE 0
Due(o, t) ==
      One(SpawnPacket(o, t) \in tasks[o]) + One(SpawnPacket(o, t) \in tasks[t])
    - One(DespawnPacket(o, t) \in tasks[o]) - One(DespawnPacket(o, t) \in tasks[t])
    + One(t \in toSpawn[o]) - One(t \in toDespawn[o])

Balance ==
    \A o, t \in Sessions :
        IF o = t THEN sent[o][t] = 0
        ELSE o \notin closed /\ pc[t] \notin Leaving =>
                sent[o][t] + Due(o, t) = One(t \in vis[o])

\* Everyone else is between packets, and the tables follow the update.
Mutual(s) == \A t \in player \ {s} : s \in vis[t] <=> t \in vis[s]

Undisturbed(s) ==
    /\ \A u \in Sessions \ {s} : pc[u] \in {"out", "idle", "gone"}
    /\ pc[s] \in {"refresh", "spawn", "despawn", "tell", "forget"} =>
          nearby[s] = GetNearbyPlayerSessionIds(s)
    /\ pc[s] \in {"spawn", "despawn", "tell", "forget", "end", "idle"} =>
          vis[s] = GetNearbyPlayerSessionIds(s)
    /\ pc[s] = "tell" => \A o \in nearby[s] \ todo[s] : s \in vis[o]
    /\ pc[s] = "forget" =>
          /\ todo[s] \cap nearby[s] = {}
          /\ \A o \in nearby[s] : s \in vis[o]
          /\ \A o \in player \ nearby[s] : s \in vis[o] => o \in todo[s]
    /\ pc[s] \in {"end", "idle"} => Mutual(s)

Alone == \A s \in Sessions : alone[s] => Undisturbed(s)

VInv == TypeOK /\ Roles /\ Lists /\ Tasks /\ Balance /\ Alone

-----------------------------------------------------------------------------
(***************************************************************************)
(* Packets.                                                                *)
(***************************************************************************)
LEMMA PacketFields ==
  ASSUME NEW o \in Sessions, NEW t \in Sessions
  PROVE  /\ SpawnPacket(o, t).to = o /\ SpawnPacket(o, t).about = t
         /\ SpawnPacket(o, t).type = "spawn"
         /\ DespawnPacket(o, t).to = o /\ DespawnPacket(o, t).about = t
         /\ DespawnPacket(o, t).type = "despawn"
         /\ PositionPacket(o, t).to = o /\ PositionPacket(o, t).about = t
         /\ PositionPacket(o, t).type = "position"
         /\ o # t => /\ SpawnPacket(o, t) \in Packet
                     /\ DespawnPacket(o, t) \in Packet
                     /\ PositionPacket(o, t) \in Packet
BY DEF SpawnPacket, DespawnPacket, PositionPacket, Packet

LEMMA PacketForms ==
  ASSUME NEW p \in Packet
  PROVE  /\ p.to \in Sessions /\ p.about \in Sessions /\ p.to # p.about
         /\ p.type \in {"spawn", "despawn", "position"}
         /\ p.type = "spawn" => p = SpawnPacket(p.to, p.about)
         /\ p.type = "despawn" => p = DespawnPacket(p.to, p.about)
         /\ p.type = "position" => p = PositionPacket(p.to, p.about)
BY DEF SpawnPacket, DespawnPacket, PositionPacket, Packet

Basics == TypeOK /\ Roles /\ Lists /\ Tasks

-----------------------------------------------------------------------------
(***************************************************************************)
(* Types, roles and lists.                                                 *)
(***************************************************************************)
LEMMA RolesStep ==
  ASSUME TypeOK, Roles, [Next]_vars
  PROVE  Roles'
<1>. USE DEF TypeOK, Roles, Leaving
<1>1. CASE UNCHANGED vars
  BY <1>1 DEF vars, world
<1>2. ASSUME NEW s \in Sessions, NEW p \in Positions, Join(s, p) \/ Move(s, p)
      PROVE  Roles'
  BY <1>2 DEF Join, Move, Goto
<1>3. ASSUME NEW s \in Sessions, Close(s) PROVE Roles'
  BY <1>3 DEF Close
<1>4. ASSUME NEW s \in Sessions,
             Look(s) \/ RefreshVisiblePlayers(s) \/ SpawnsSent(s) \/ DespawnsSent(s)
             \/ NearTold(s) \/ FarForgotten(s) \/ HandlerEnds(s)
      PROVE  Roles'
  <2>1. /\ UNCHANGED <<player, online, closed>>
        /\ pc[s] \in {"look", "refresh", "spawn", "despawn", "tell", "forget", "end"}
        /\ \E place \in {"refresh", "spawn", "despawn", "tell", "forget", "end", "idle"} :
              pc' = [pc EXCEPT ![s] = place]
    BY <1>4 DEF Look, RefreshVisiblePlayers, SpawnsSent, DespawnsSent, NearTold, FarForgotten,
       HandlerEnds, Goto, world
  <2>. QED
    BY <2>1
<1>5. ASSUME NEW s \in Sessions,
             SendSpawn(s) \/ SendDespawn(s) \/ TellNear(s) \/ ForgetFar(s) \/ SendPacket(s)
      PROVE  Roles'
  <2>1. UNCHANGED <<player, online, closed, pc>>
    BY <1>5 DEF SendSpawn, SendDespawn, TellNear, ForgetFar, SendPacket, EndSend, world
  <2>. QED
    BY <2>1
<1>6. ASSUME NEW s \in Sessions,
             BeginLeave(s) \/ UnregisterPlayer(s) \/ RemovePlayer(s) \/ RemoveSession(s)
      PROVE  Roles'
  BY ZenonT(60), <1>6 DEF BeginLeave, UnregisterPlayer, RemovePlayer, RemoveSession, Goto, world
<1>. QED
  BY <1>1, <1>2, <1>3, <1>4, <1>5, <1>6 DEF Next, Run

LEMMA ListsStep ==
  ASSUME TypeOK, Roles, Lists, [Next]_vars
  PROVE  Lists'
<1>. USE DEF TypeOK, Lists
<1>1. CASE UNCHANGED vars
  BY <1>1 DEF vars, world, lists
<1>2. ASSUME NEW s \in Sessions, NEW p \in Positions, Join(s, p) \/ Move(s, p)
      PROVE  Lists'
  BY SMTT(30), <1>2 DEF Join, Move, Goto
<1>3. ASSUME NEW s \in Sessions, Close(s) PROVE Lists'
  BY <1>3 DEF Close, lists
<1>4. ASSUME NEW s \in Sessions, Look(s) PROVE Lists'
  <2>1. \A t \in GetNearbyPlayerSessionIds(s) : t # s /\ pc[t] # "out"
    BY DEF GetNearbyPlayerSessionIds, Roles
  <2>. QED
    BY <1>4, <2>1 DEF Look, Goto
<1>5. ASSUME NEW s \in Sessions, RefreshVisiblePlayers(s) PROVE Lists'
  BY <1>5 DEF RefreshVisiblePlayers, Goto
<1>6. ASSUME NEW s \in Sessions, SpawnsSent(s) \/ DespawnsSent(s) \/ FarForgotten(s) \/ HandlerEnds(s)
      PROVE  Lists'
  BY SMTT(30), <1>6 DEF SpawnsSent, DespawnsSent, FarForgotten, HandlerEnds, Goto, lists
<1>7. ASSUME NEW s \in Sessions, NearTold(s) PROVE Lists'
  <2>1. s \notin FarObservers(s)
    BY DEF FarObservers, GetObserversSeeingPlayer
  <2>. QED
    BY <1>7, <2>1 DEF NearTold, Goto
<1>8. ASSUME NEW s \in Sessions, SendSpawn(s) \/ SendDespawn(s) PROVE Lists'
  BY <1>8 DEF SendSpawn, SendDespawn
<1>9. ASSUME NEW s \in Sessions, TellNear(s) PROVE Lists'
  <2>1. PICK o \in todo[s] :
          /\ todo' = [todo EXCEPT ![s] = @ \ {o}]
          /\ vis' = [vis EXCEPT ![o] = @ \cup {s}] \/ vis' = vis
    BY <1>9 DEF TellNear
  <2>2. o \in Sessions /\ o # s /\ pc[s] = "tell"
    BY <1>9, <2>1 DEF TellNear
  <2>. QED
    BY <1>9, <2>1, <2>2 DEF TellNear
<1>10. ASSUME NEW s \in Sessions, ForgetFar(s) PROVE Lists'
  BY <1>10 DEF ForgetFar
<1>11. ASSUME NEW s \in Sessions, SendPacket(s) PROVE Lists'
  BY <1>11 DEF SendPacket, EndSend, lists
<1>12. ASSUME NEW s \in Sessions,
             BeginLeave(s) \/ UnregisterPlayer(s) \/ RemovePlayer(s) \/ RemoveSession(s)
      PROVE  Lists'
  BY <1>12 DEF BeginLeave, UnregisterPlayer, RemovePlayer, RemoveSession, Goto, lists
<1>. QED
  BY <1>1, <1>2, <1>3, <1>4, <1>5, <1>6, <1>7, <1>8, <1>9, <1>10, <1>11, <1>12 DEF Next, Run

LEMMA TypesStep ==
  ASSUME TypeOK, Roles, Lists, [Next]_vars
  PROVE  TypeOK'
<1>. USE DEF TypeOK
<1>1. CASE UNCHANGED vars
  BY <1>1 DEF vars, world, lists, wire
<1>2. ASSUME NEW s \in Sessions, NEW p \in Positions, Join(s, p) \/ Move(s, p)
      PROVE  TypeOK'
  <2>1. alone' \in [Sessions -> BOOLEAN]
    BY <1>2 DEF Join, Move, StartsAlone
  <2>2. player' \subseteq Sessions /\ pos' \in [Sessions -> Positions]
        /\ moved' \in [Sessions -> BOOLEAN] /\ pc' = [pc EXCEPT ![s] = "look"]
    <3>1. pos' = [pos EXCEPT ![s] = p] /\ pc' = [pc EXCEPT ![s] = "look"]
      BY <1>2 DEF Join, Move, Goto
    <3>2. player' = player \cup {s} \/ player' = player
      BY <1>2 DEF Join, Move
    <3>3. moved' = [moved EXCEPT ![s] = FALSE] \/ moved' = [moved EXCEPT ![s] = TRUE]
      BY <1>2 DEF Join, Move
    <3>4. moved' \in [Sessions -> BOOLEAN]
      BY <3>3
    <3>. QED
      BY <3>1, <3>2, <3>4
  <2>3. UNCHANGED <<online, closed, vis, nearby, toSpawn, toDespawn, todo, tasks, wire>>
    BY <1>2 DEF Join, Move
  <2>. QED
    BY <2>1, <2>2, <2>3 DEF wire
<1>3. ASSUME NEW s \in Sessions, Close(s) PROVE TypeOK'
  BY <1>3 DEF Close, lists
<1>4. ASSUME NEW s \in Sessions, Look(s) PROVE TypeOK'
  <2>1. GetNearbyPlayerSessionIds(s) \subseteq Sessions
    BY DEF GetNearbyPlayerSessionIds
  <2>. QED
    BY <1>4, <2>1 DEF Look, Goto, world, wire
<1>5. ASSUME NEW s \in Sessions, RefreshVisiblePlayers(s) PROVE TypeOK'
  BY <1>5 DEF RefreshVisiblePlayers, Goto, world, wire
<1>6. ASSUME NEW s \in Sessions, SpawnsSent(s) \/ DespawnsSent(s) \/ HandlerEnds(s)
      PROVE  TypeOK'
  <2>1. todo' \in [Sessions -> SUBSET Sessions]
    BY <1>6 DEF SpawnsSent, DespawnsSent, HandlerEnds, lists
  <2>2. \E place \in {"despawn", "tell", "idle"} : pc' = [pc EXCEPT ![s] = place]
    BY <1>6 DEF SpawnsSent, DespawnsSent, HandlerEnds, Goto
  <2>3. UNCHANGED <<world, vis, nearby, toSpawn, toDespawn, moved, tasks, wire, alone>>
    BY <1>6 DEF SpawnsSent, DespawnsSent, HandlerEnds, lists
  <2>. QED
    BY <2>1, <2>2, <2>3 DEF world, wire
<1>7. ASSUME NEW s \in Sessions, NearTold(s) PROVE TypeOK'
  <2>1. FarObservers(s) \subseteq Sessions
    BY DEF FarObservers, GetObserversSeeingPlayer
  <2>. QED
    BY <1>7, <2>1 DEF NearTold, Goto, world, wire
<1>8. ASSUME NEW s \in Sessions, NEW t \in Sessions, t # s
      PROVE  {SpawnPacket(s, t), DespawnPacket(s, t), SpawnPacket(t, s), DespawnPacket(t, s),
              PositionPacket(t, s)} \subseteq Packet
  BY <1>8, PacketFields
<1>9. ASSUME NEW s \in Sessions, SendSpawn(s) PROVE TypeOK'
  <2>1. PICK t \in toSpawn[s] :
          /\ toSpawn' = [toSpawn EXCEPT ![s] = @ \ {t}]
          /\ tasks' = [tasks EXCEPT ![s] = @ \cup SpawnsFor(s, t)]
    BY <1>9 DEF SendSpawn
  <2>2. t \in Sessions /\ t # s
    BY DEF Lists
  <2>3. SpawnsFor(s, t) \subseteq Packet
    BY <1>8, <2>2 DEF SpawnsFor
  <2>. QED
    BY <1>9, <2>1, <2>3 DEF SendSpawn, world, wire
<1>10. ASSUME NEW s \in Sessions, SendDespawn(s) PROVE TypeOK'
  <2>1. PICK t \in toDespawn[s] :
          /\ toDespawn' = [toDespawn EXCEPT ![s] = @ \ {t}]
          /\ tasks' = [tasks EXCEPT ![s] = @ \cup IF t \in player THEN {DespawnPacket(s, t)} ELSE {}]
    BY <1>10 DEF SendDespawn
  <2>2. t \in Sessions /\ t # s
    BY DEF Lists
  <2>3. DespawnPacket(s, t) \in Packet
    BY <1>8, <2>2
  <2>. QED
    BY <1>10, <2>1, <2>3 DEF SendDespawn, world, wire
<1>11. ASSUME NEW s \in Sessions, TellNear(s) \/ ForgetFar(s) PROVE TypeOK'
  <2>1. PICK o \in todo[s] :
          /\ todo' = [todo EXCEPT ![s] = @ \ {o}]
          /\ \/ /\ vis' = [vis EXCEPT ![o] = @ \cup {s}]
                /\ tasks' = [tasks EXCEPT ![s] = @ \cup {SpawnPacket(o, s)}]
             \/ /\ vis' = [vis EXCEPT ![o] = @ \ {s}]
                /\ tasks' = [tasks EXCEPT ![s] = @ \cup {DespawnPacket(o, s)}]
             \/ UNCHANGED <<vis, tasks>>
    BY <1>11 DEF TellNear, ForgetFar
  <2>2. UNCHANGED <<world, pc, nearby, toSpawn, toDespawn, moved, wire, alone>>
    BY <1>11 DEF TellNear, ForgetFar
  <2>3. o \in Sessions /\ o # s
    BY DEF Lists
  <2>4. SpawnPacket(o, s) \in Packet /\ DespawnPacket(o, s) \in Packet
    BY <1>8, <2>3
  <2>5. vis' \in [Sessions -> SUBSET Sessions] /\ todo' \in [Sessions -> SUBSET Sessions]
    BY <2>1, <2>3
  <2>6. tasks' \in [Sessions -> SUBSET Packet]
    BY <2>1, <2>4
  <2>. QED
    BY <2>2, <2>5, <2>6 DEF world, wire
<1>12. ASSUME NEW s \in Sessions, FarForgotten(s) PROVE TypeOK'
  <2>1. {PositionPacket(o, s) : o \in GetObserversSeeingPlayer(s) \cap online} \subseteq Packet
    BY <1>8 DEF GetObserversSeeingPlayer, Lists
  <2>. QED
    BY <1>12, <2>1 DEF FarForgotten, Goto, world, wire
<1>13. ASSUME NEW s \in Sessions, SendPacket(s) PROVE TypeOK'
  <2>1. PICK p \in tasks[s] :
          /\ tasks' = [tasks EXCEPT ![s] = @ \ {p}]
          /\ \/ UNCHANGED wire
             \/ /\ shown' = [shown EXCEPT ![p.to] = HandlePacket(@, p)]
                /\ sent' = [sent EXCEPT ![p.to][p.about] = @ + Delta(p)]
    BY <1>13 DEF SendPacket, EndSend
  <2>2. p \in Packet
    BY <2>1
  <2>3. p.to \in Sessions /\ p.about \in Sessions /\ Delta(p) \in Int
    BY <2>2, PacketForms DEF Delta
  <2>4. shown' \in [Sessions -> SUBSET Sessions]
    BY <2>1, <2>3 DEF wire, HandlePacket
  <2>5. sent' \in [Sessions -> [Sessions -> Int]]
    <3>1. sent[p.to] \in [Sessions -> Int]
      BY <2>3
    <3>2. [sent[p.to] EXCEPT ![p.about] = sent[p.to][p.about] + Delta(p)] \in [Sessions -> Int]
      BY <2>3, <3>1
    <3>3. sent' = sent
          \/ sent' = [sent EXCEPT ![p.to] =
                         [sent[p.to] EXCEPT ![p.about] = sent[p.to][p.about] + Delta(p)]]
      BY <2>1 DEF wire
    <3>. QED
      BY SMTT(30), <2>3, <3>2, <3>3
  <2>6. tasks' \in [Sessions -> SUBSET Packet]
    BY <2>1
  <2>7. UNCHANGED <<world, vis, pc, lists, alone>>
    BY <1>13 DEF SendPacket, EndSend
  <2>. QED
    BY <2>4, <2>5, <2>6, <2>7 DEF world, lists
<1>14. ASSUME NEW s \in Sessions, BeginLeave(s) PROVE TypeOK'
  <2>1. {DespawnPacket(o, s) : o \in GetObserversSeeingPlayer(s) \cap online} \subseteq Packet
    BY <1>8 DEF GetObserversSeeingPlayer, Lists
  <2>. QED
    BY <1>14, <2>1 DEF BeginLeave, Goto, StartsAlone, world, lists, wire, Leaving
<1>15. ASSUME NEW s \in Sessions, UnregisterPlayer(s) \/ RemovePlayer(s) \/ RemoveSession(s)
       PROVE  TypeOK'
  <2>1. vis' \in [Sessions -> SUBSET Sessions]
    BY <1>15 DEF UnregisterPlayer, RemovePlayer, RemoveSession
  <2>2. \E place \in {"unregistered", "removed", "gone"} : pc' = [pc EXCEPT ![s] = place]
    BY <1>15 DEF UnregisterPlayer, RemovePlayer, RemoveSession, Goto
  <2>3. player' \subseteq Sessions /\ online' \subseteq Sessions
        /\ UNCHANGED <<pos, closed, lists, tasks, wire, alone>>
    BY <1>15 DEF UnregisterPlayer, RemovePlayer, RemoveSession, world
  <2>. QED
    BY <2>1, <2>2, <2>3 DEF lists, wire, Leaving
<1>. QED
  BY <1>1, <1>2, <1>3, <1>4, <1>5, <1>6, <1>7, <1>9, <1>10, <1>11, <1>12, <1>13, <1>14, <1>15
     DEF Next, Run

-----------------------------------------------------------------------------
(***************************************************************************)
(* Tasks.                                                                  *)
(***************************************************************************)
LEMMA TasksStep ==
  ASSUME TypeOK, Lists, Tasks, [Next]_vars
  PROVE  Tasks'
<1>. USE DEF Tasks
<1>0. /\ \A s \in Sessions : tasks[s] \subseteq Packet
      /\ pc \in [Sessions -> {"out", "idle", "look", "refresh", "spawn", "despawn", "tell",
                              "forget", "end"} \cup Leaving]
      /\ tasks \in [Sessions -> SUBSET Packet]
      /\ toSpawn \in [Sessions -> SUBSET Sessions] /\ toDespawn \in [Sessions -> SUBSET Sessions]
      /\ todo \in [Sessions -> SUBSET Sessions] /\ vis \in [Sessions -> SUBSET Sessions]
  BY DEF TypeOK
<1>. USE <1>0
<1>1. CASE UNCHANGED vars
  BY <1>1 DEF vars, world, lists
<1>2. ASSUME NEW s \in Sessions, NEW p \in Positions, Join(s, p) \/ Move(s, p)
      PROVE  Tasks'
  <2>1. /\ pc' = [pc EXCEPT ![s] = "look"] /\ tasks[s] = {}
        /\ UNCHANGED <<tasks, toSpawn, toDespawn, todo>>
    BY <1>2 DEF Join, Move, Goto
  <2>. QED
    BY <2>1
<1>3. ASSUME NEW s \in Sessions, Close(s) PROVE Tasks'
  BY <1>3 DEF Close, lists
<1>4. ASSUME NEW s \in Sessions, Look(s) PROVE Tasks'
  BY <1>4 DEF Look, Goto
<1>5. ASSUME NEW s \in Sessions, RefreshVisiblePlayers(s) PROVE Tasks'
  <2>1. /\ tasks[s] = {} /\ pc' = [pc EXCEPT ![s] = "spawn"] /\ UNCHANGED <<tasks, todo>>
        /\ \A u \in Sessions \ {s} : toSpawn'[u] = toSpawn[u] /\ toDespawn'[u] = toDespawn[u]
    BY <1>5 DEF RefreshVisiblePlayers, Goto
  <2>. QED
    BY <2>1
<1>6. ASSUME NEW s \in Sessions, SpawnsSent(s) \/ DespawnsSent(s) PROVE Tasks'
  <2>1. /\ tasks[s] = {} /\ UNCHANGED <<tasks, toSpawn, toDespawn>>
        /\ \A u \in Sessions \ {s} : todo'[u] = todo[u] /\ pc'[u] = pc[u]
    BY <1>6 DEF SpawnsSent, DespawnsSent, Goto, lists
  <2>. QED
    BY <2>1
<1>7. ASSUME NEW s \in Sessions, NearTold(s) PROVE Tasks'
  <2>1. /\ \A p \in tasks[s] : p.about = s /\ p.type = "spawn"
        /\ UNCHANGED <<tasks, toSpawn, toDespawn>> /\ pc'[s] = "forget"
        /\ \A u \in Sessions \ {s} : todo'[u] = todo[u] /\ pc'[u] = pc[u]
    BY <1>7 DEF NearTold, Goto
  <2>. QED
    BY <2>1
<1>8. ASSUME NEW s \in Sessions, SendSpawn(s) PROVE Tasks'
  <2>1. PICK t \in toSpawn[s] :
          /\ toSpawn' = [toSpawn EXCEPT ![s] = @ \ {t}]
          /\ tasks' = [tasks EXCEPT ![s] = @ \cup SpawnsFor(s, t)]
    BY <1>8 DEF SendSpawn
  <2>2. pc[s] = "spawn" /\ UNCHANGED <<pc, toDespawn, todo>>
    BY <1>8 DEF SendSpawn
  <2>3. \A p \in SpawnsFor(s, t) : p.to = s /\ p.type = "spawn" /\ p.about = t
    BY PacketFields DEF SpawnsFor
  <2>. QED
    BY <2>1, <2>2, <2>3
<1>9. ASSUME NEW s \in Sessions, SendDespawn(s) PROVE Tasks'
  <2>1. PICK t \in toDespawn[s] :
          /\ toDespawn' = [toDespawn EXCEPT ![s] = @ \ {t}]
          /\ tasks' = [tasks EXCEPT ![s] = @ \cup IF t \in player THEN {DespawnPacket(s, t)} ELSE {}]
    BY <1>9 DEF SendDespawn
  <2>2. pc[s] = "despawn" /\ UNCHANGED <<pc, toSpawn, todo>>
    BY <1>9 DEF SendDespawn
  <2>3. DespawnPacket(s, t).to = s /\ DespawnPacket(s, t).type = "despawn" /\ DespawnPacket(s, t).about = t
    BY PacketFields
  <2>. QED
    BY <2>1, <2>2, <2>3
<1>10. ASSUME NEW s \in Sessions, TellNear(s) PROVE Tasks'
  <2>1. PICK o \in todo[s] :
          /\ todo' = [todo EXCEPT ![s] = @ \ {o}]
          /\ tasks' = tasks \/ tasks' = [tasks EXCEPT ![s] = @ \cup {SpawnPacket(o, s)}]
    BY <1>10 DEF TellNear
  <2>2. pc[s] = "tell" /\ UNCHANGED <<pc, toSpawn, toDespawn>>
    BY <1>10 DEF TellNear
  <2>3. SpawnPacket(o, s).to = o /\ SpawnPacket(o, s).type = "spawn" /\ SpawnPacket(o, s).about = s
    BY PacketFields
  <2>. QED
    BY <2>1, <2>2, <2>3
<1>11. ASSUME NEW s \in Sessions, ForgetFar(s) PROVE Tasks'
  <2>1. PICK o \in todo[s] :
          /\ todo' = [todo EXCEPT ![s] = @ \ {o}]
          /\ tasks' = tasks \/ tasks' = [tasks EXCEPT ![s] = @ \cup {DespawnPacket(o, s)}]
    BY <1>11 DEF ForgetFar
  <2>2. pc[s] = "forget" /\ UNCHANGED <<pc, toSpawn, toDespawn>>
    BY <1>11 DEF ForgetFar
  <2>3. DespawnPacket(o, s).to = o /\ DespawnPacket(o, s).type = "despawn" /\ DespawnPacket(o, s).about = s
    BY PacketFields
  <2>. QED
    BY <2>1, <2>2, <2>3
<1>12. ASSUME NEW s \in Sessions, FarForgotten(s) PROVE Tasks'
  <2>1. \A o \in Sessions : PositionPacket(o, s).about = s /\ PositionPacket(o, s).type = "position"
    BY PacketFields
  <2>2. \A p \in tasks'[s] : p.about = s /\ p.type = "position"
    BY <1>12, <2>1 DEF FarForgotten, GetObserversSeeingPlayer
  <2>3. /\ pc'[s] = "end" /\ UNCHANGED <<toSpawn, toDespawn, todo>>
        /\ \A u \in Sessions \ {s} : tasks'[u] = tasks[u] /\ pc'[u] = pc[u]
    BY <1>12 DEF FarForgotten, Goto
  <2>. QED
    BY <2>2, <2>3
<1>13. ASSUME NEW s \in Sessions, HandlerEnds(s) PROVE Tasks'
  BY <1>13 DEF HandlerEnds, Goto, lists
<1>14. ASSUME NEW s \in Sessions, SendPacket(s) PROVE Tasks'
  <2>1. /\ \A u \in Sessions : tasks'[u] \subseteq tasks[u]
        /\ UNCHANGED <<pc, toSpawn, toDespawn, todo>>
    BY <1>14 DEF SendPacket, EndSend, lists
  <2>. QED
    BY <2>1
<1>15. ASSUME NEW s \in Sessions, BeginLeave(s) PROVE Tasks'
  <2>1. \A o \in Sessions : DespawnPacket(o, s).about = s
    BY PacketFields
  <2>2. \A p \in tasks'[s] : p.about = s
    BY <1>15, <2>1 DEF BeginLeave, GetObserversSeeingPlayer
  <2>3. /\ pc'[s] = "leaving" /\ UNCHANGED <<toSpawn, toDespawn, todo>>
        /\ \A u \in Sessions \ {s} : tasks'[u] = tasks[u] /\ pc'[u] = pc[u]
    BY <1>15 DEF BeginLeave, Goto, lists
  <2>. QED
    BY <2>2, <2>3
<1>16. ASSUME NEW s \in Sessions, UnregisterPlayer(s) \/ RemovePlayer(s) \/ RemoveSession(s)
       PROVE  Tasks'
  <2>1. /\ tasks[s] = {} /\ UNCHANGED <<tasks, toSpawn, toDespawn, todo>>
        /\ \A u \in Sessions \ {s} : pc'[u] = pc[u]
    BY <1>16 DEF UnregisterPlayer, RemovePlayer, RemoveSession, Goto, lists
  <2>. QED
    BY <2>1
<1>. QED
  BY <1>1, <1>2, <1>3, <1>4, <1>5, <1>6, <1>7, <1>8, <1>9, <1>10, <1>11, <1>12, <1>13, <1>14,
     <1>15, <1>16 DEF Next, Run

-----------------------------------------------------------------------------
(***************************************************************************)
(* The balance of tables and packets, for one observer and one target.     *)
(***************************************************************************)
LEMMA DifferentPackets ==
  ASSUME NEW o \in Sessions, NEW t \in Sessions, NEW p \in Sessions, NEW q \in Sessions
  PROVE  /\ SpawnPacket(o, t) = SpawnPacket(p, q) <=> o = p /\ t = q
         /\ DespawnPacket(o, t) = DespawnPacket(p, q) <=> o = p /\ t = q
         /\ SpawnPacket(o, t) # DespawnPacket(p, q)
         /\ SpawnPacket(o, t) # PositionPacket(p, q)
         /\ DespawnPacket(o, t) # PositionPacket(p, q)
BY PacketFields

\* Nothing that the balance of o and t counts changes.
Same(o, t) ==
    /\ sent'[o][t] = sent[o][t] /\ (t \in vis'[o] <=> t \in vis[o])
    /\ t \in toSpawn'[o] <=> t \in toSpawn[o]
    /\ t \in toDespawn'[o] <=> t \in toDespawn[o]
    /\ SpawnPacket(o, t) \in tasks'[o] <=> SpawnPacket(o, t) \in tasks[o]
    /\ SpawnPacket(o, t) \in tasks'[t] <=> SpawnPacket(o, t) \in tasks[t]
    /\ DespawnPacket(o, t) \in tasks'[o] <=> DespawnPacket(o, t) \in tasks[o]
    /\ DespawnPacket(o, t) \in tasks'[t] <=> DespawnPacket(o, t) \in tasks[t]

Balanced(o, t) == sent[o][t] + Due(o, t) = One(t \in vis[o])

LEMMA SameBalance ==
  ASSUME NEW o, NEW t, Balanced(o, t), Same(o, t)
  PROVE  Balanced(o, t)'
BY DEF Balanced, Same, Due, One

LEMMA RefreshBalance ==
  ASSUME TypeOK, Lists, Tasks, NEW o \in Sessions, NEW t \in Sessions, o # t, Balanced(o, t),
         NEW s \in Sessions, RefreshVisiblePlayers(s)
  PROVE  Balanced(o, t)'
<1>1. /\ toSpawn' = [toSpawn EXCEPT ![s] = nearby[s] \ vis[s]]
      /\ toDespawn' = [toDespawn EXCEPT ![s] = vis[s] \ nearby[s]]
      /\ vis' = [vis EXCEPT ![s] = nearby[s]]
      /\ UNCHANGED <<tasks, sent>>
      /\ pc[s] = "refresh"
  BY DEF RefreshVisiblePlayers, wire
<1>2. vis \in [Sessions -> SUBSET Sessions] /\ toSpawn \in [Sessions -> SUBSET Sessions]
      /\ toDespawn \in [Sessions -> SUBSET Sessions] /\ sent[o][t] \in Int
  BY DEF TypeOK
<1>3. CASE o # s
  BY <1>1, <1>2, <1>3, SameBalance DEF Same
<1>4. CASE o = s
  <2>1. t \notin toSpawn[o] /\ t \notin toDespawn[o]
    BY <1>1, <1>4 DEF Lists
  <2>2. /\ t \in toSpawn'[o] <=> t \in nearby[o] /\ t \notin vis[o]
        /\ t \in toDespawn'[o] <=> t \in vis[o] /\ t \notin nearby[o]
        /\ t \in vis'[o] <=> t \in nearby[o]
    BY <1>1, <1>2, <1>4
  <2>. QED
    BY <1>1, <1>2, <2>1, <2>2 DEF Balanced, Due, One
<1>. QED
  BY <1>3, <1>4

LEMMA SpawnBalance ==
  ASSUME TypeOK, Roles, Lists, Tasks, NEW o \in Sessions, NEW t \in Sessions, o # t, Balanced(o, t),
         pc[t] \notin Leaving, NEW s \in Sessions, SendSpawn(s)
  PROVE  Balanced(o, t)'
<1>1. PICK u \in toSpawn[s] :
         /\ toSpawn' = [toSpawn EXCEPT ![s] = @ \ {u}]
         /\ tasks' = [tasks EXCEPT ![s] = @ \cup SpawnsFor(s, u)]
  BY DEF SendSpawn
<1>2. pc[s] = "spawn" /\ UNCHANGED <<vis, toDespawn, sent>>
  BY DEF SendSpawn, wire
<1>3. toSpawn \in [Sessions -> SUBSET Sessions] /\ tasks \in [Sessions -> SUBSET Packet]
      /\ sent[o][t] \in Int /\ u \in Sessions /\ u # s
  BY DEF TypeOK, Lists
<1>4. CASE o = s /\ t = u
  <2>1. t \in player
    BY <1>4 DEF Roles, Lists, Leaving
  <2>2. SpawnPacket(o, t) \notin tasks[o]
    BY <1>1, <1>2, <1>4, PacketFields DEF Tasks
  <2>3. tasks' = [tasks EXCEPT ![o] = @ \cup {SpawnPacket(o, t)}]
    BY <1>1, <1>4, <2>1 DEF SpawnsFor
  <2>4. /\ SpawnPacket(o, t) \in tasks'[o]
        /\ SpawnPacket(o, t) \in tasks'[t] <=> SpawnPacket(o, t) \in tasks[t]
        /\ DespawnPacket(o, t) \in tasks'[o] <=> DespawnPacket(o, t) \in tasks[o]
        /\ DespawnPacket(o, t) \in tasks'[t] <=> DespawnPacket(o, t) \in tasks[t]
    BY <1>3, <2>3, DifferentPackets
  <2>5. t \in toSpawn[o] /\ t \notin toSpawn'[o]
    BY <1>1, <1>3, <1>4
  <2>. QED
    BY <1>2, <1>3, <2>2, <2>4, <2>5 DEF Balanced, Due, One
<1>5. CASE ~(o = s /\ t = u)
  <2>1. SpawnPacket(o, t) \notin SpawnsFor(s, u) /\ DespawnPacket(o, t) \notin SpawnsFor(s, u)
    BY <1>3, <1>5, DifferentPackets DEF SpawnsFor
  <2>. QED
    BY <1>1, <1>2, <1>3, <1>5, <2>1, SameBalance DEF Same
<1>. QED
  BY <1>4, <1>5

LEMMA DespawnBalance ==
  ASSUME TypeOK, Roles, Lists, Tasks, NEW o \in Sessions, NEW t \in Sessions, o # t, Balanced(o, t),
         pc[t] \notin Leaving, NEW s \in Sessions, SendDespawn(s)
  PROVE  Balanced(o, t)'
<1>. DEFINE D(u) == IF u \in player THEN {DespawnPacket(s, u)} ELSE {}
<1>1. PICK u \in toDespawn[s] :
         /\ toDespawn' = [toDespawn EXCEPT ![s] = @ \ {u}]
         /\ tasks' = [tasks EXCEPT ![s] = @ \cup D(u)]
  BY DEF SendDespawn
<1>2. pc[s] = "despawn" /\ UNCHANGED <<vis, toSpawn, sent>>
  BY DEF SendDespawn, wire
<1>3. toDespawn \in [Sessions -> SUBSET Sessions] /\ tasks \in [Sessions -> SUBSET Packet]
      /\ sent[o][t] \in Int /\ u \in Sessions /\ u # s
  BY DEF TypeOK, Lists
<1>4. CASE o = s /\ t = u
  <2>1. t \in player
    BY <1>4 DEF Roles, Lists, Leaving
  <2>2. DespawnPacket(o, t) \notin tasks[o]
    BY <1>1, <1>2, <1>4, PacketFields DEF Tasks
  <2>3. tasks' = [tasks EXCEPT ![o] = @ \cup {DespawnPacket(o, t)}]
    BY <1>1, <1>4, <2>1
  <2>4. /\ DespawnPacket(o, t) \in tasks'[o]
        /\ DespawnPacket(o, t) \in tasks'[t] <=> DespawnPacket(o, t) \in tasks[t]
        /\ SpawnPacket(o, t) \in tasks'[o] <=> SpawnPacket(o, t) \in tasks[o]
        /\ SpawnPacket(o, t) \in tasks'[t] <=> SpawnPacket(o, t) \in tasks[t]
    BY <1>3, <2>3, DifferentPackets
  <2>5. t \in toDespawn[o] /\ t \notin toDespawn'[o]
    BY <1>1, <1>3, <1>4
  <2>. QED
    BY <1>2, <1>3, <2>2, <2>4, <2>5 DEF Balanced, Due, One
<1>5. CASE ~(o = s /\ t = u)
  <2>1. SpawnPacket(o, t) \notin D(u) /\ DespawnPacket(o, t) \notin D(u)
    BY <1>3, <1>5, DifferentPackets
  <2>. HIDE DEF D
  <2>. QED
    BY <1>1, <1>2, <1>3, <1>5, <2>1, SameBalance DEF Same
<1>. QED
  BY <1>4, <1>5

LEMMA TellBalance ==
  ASSUME TypeOK, Lists, Tasks, NEW o \in Sessions, NEW t \in Sessions, o # t, Balanced(o, t),
         NEW s \in Sessions, TellNear(s)
  PROVE  Balanced(o, t)'
<1>1. PICK u \in todo[s] :
         IF u \in online /\ s \notin vis[u]
         THEN /\ vis' = [vis EXCEPT ![u] = @ \cup {s}]
              /\ tasks' = [tasks EXCEPT ![s] = @ \cup {SpawnPacket(u, s)}]
         ELSE UNCHANGED <<vis, tasks>>
  BY DEF TellNear
<1>2. pc[s] = "tell" /\ UNCHANGED <<toSpawn, toDespawn, sent>>
  BY DEF TellNear, wire
<1>3. vis \in [Sessions -> SUBSET Sessions] /\ tasks \in [Sessions -> SUBSET Packet]
      /\ sent[o][t] \in Int /\ u \in Sessions /\ u # s
  BY DEF TypeOK, Lists
<1>4. CASE UNCHANGED <<vis, tasks>>
  BY <1>2, <1>4, SameBalance DEF Same
<1>5. CASE /\ s \notin vis[u]
           /\ vis' = [vis EXCEPT ![u] = @ \cup {s}]
           /\ tasks' = [tasks EXCEPT ![s] = @ \cup {SpawnPacket(u, s)}]
  <2>1. CASE o = u /\ t = s
    <3>1. SpawnPacket(o, t) \notin tasks[t]
      BY <1>1, <1>2, <2>1, PacketFields DEF Tasks
    <3>2. /\ SpawnPacket(o, t) \in tasks'[t]
          /\ SpawnPacket(o, t) \in tasks'[o] <=> SpawnPacket(o, t) \in tasks[o]
          /\ DespawnPacket(o, t) \in tasks'[o] <=> DespawnPacket(o, t) \in tasks[o]
          /\ DespawnPacket(o, t) \in tasks'[t] <=> DespawnPacket(o, t) \in tasks[t]
      BY <1>3, <1>5, <2>1, DifferentPackets
    <3>3. t \notin vis[o] /\ t \in vis'[o]
      BY <1>3, <1>5, <2>1
    <3>. QED
      BY <1>2, <1>3, <3>1, <3>2, <3>3 DEF Balanced, Due, One
  <2>2. CASE ~(o = u /\ t = s)
    <3>1. SpawnPacket(o, t) # SpawnPacket(u, s) /\ DespawnPacket(o, t) # SpawnPacket(u, s)
      BY <1>3, <2>2, DifferentPackets
    <3>. QED
      BY <1>2, <1>3, <1>5, <2>2, <3>1, SameBalance DEF Same
  <2>. QED
    BY <2>1, <2>2
<1>. QED
  BY <1>1, <1>4, <1>5

LEMMA ForgetBalance ==
  ASSUME TypeOK, Lists, Tasks, NEW o \in Sessions, NEW t \in Sessions, o # t, Balanced(o, t),
         NEW s \in Sessions, ForgetFar(s)
  PROVE  Balanced(o, t)'
<1>1. PICK u \in todo[s] :
         IF u \in online /\ s \in vis[u]
         THEN /\ vis' = [vis EXCEPT ![u] = @ \ {s}]
              /\ tasks' = [tasks EXCEPT ![s] = @ \cup {DespawnPacket(u, s)}]
         ELSE UNCHANGED <<vis, tasks>>
  BY DEF ForgetFar
<1>2. pc[s] = "forget" /\ UNCHANGED <<toSpawn, toDespawn, sent>>
  BY DEF ForgetFar, wire
<1>3. vis \in [Sessions -> SUBSET Sessions] /\ tasks \in [Sessions -> SUBSET Packet]
      /\ sent[o][t] \in Int /\ u \in Sessions /\ u # s
  BY DEF TypeOK, Lists
<1>4. CASE UNCHANGED <<vis, tasks>>
  BY <1>2, <1>4, SameBalance DEF Same
<1>5. CASE /\ s \in vis[u]
           /\ vis' = [vis EXCEPT ![u] = @ \ {s}]
           /\ tasks' = [tasks EXCEPT ![s] = @ \cup {DespawnPacket(u, s)}]
  <2>1. CASE o = u /\ t = s
    <3>1. DespawnPacket(o, t) \notin tasks[t]
      BY <1>1, <1>2, <2>1, PacketFields DEF Tasks
    <3>2. /\ DespawnPacket(o, t) \in tasks'[t]
          /\ DespawnPacket(o, t) \in tasks'[o] <=> DespawnPacket(o, t) \in tasks[o]
          /\ SpawnPacket(o, t) \in tasks'[o] <=> SpawnPacket(o, t) \in tasks[o]
          /\ SpawnPacket(o, t) \in tasks'[t] <=> SpawnPacket(o, t) \in tasks[t]
      BY <1>3, <1>5, <2>1, DifferentPackets
    <3>3. t \in vis[o] /\ t \notin vis'[o]
      BY <1>3, <1>5, <2>1
    <3>. QED
      BY <1>2, <1>3, <3>1, <3>2, <3>3 DEF Balanced, Due, One
  <2>2. CASE ~(o = u /\ t = s)
    <3>1. SpawnPacket(o, t) # DespawnPacket(u, s) /\ DespawnPacket(o, t) # DespawnPacket(u, s)
      BY <1>3, <2>2, DifferentPackets
    <3>. QED
      BY <1>2, <1>3, <1>5, <2>2, <3>1, SameBalance DEF Same
  <2>. QED
    BY <2>1, <2>2
<1>. QED
  BY <1>1, <1>4, <1>5

LEMMA FarForgottenBalance ==
  ASSUME TypeOK, NEW o \in Sessions, NEW t \in Sessions, Balanced(o, t),
         NEW s \in Sessions, FarForgotten(s)
  PROVE  Balanced(o, t)'
<1>1. tasks[s] = {} /\ UNCHANGED <<vis, toSpawn, toDespawn, sent>>
  BY DEF FarForgotten, wire
<1>2. \A u \in Sessions : SpawnPacket(o, t) # PositionPacket(u, s)
                          /\ DespawnPacket(o, t) # PositionPacket(u, s)
  BY DifferentPackets
<1>3. SpawnPacket(o, t) \notin tasks'[s] /\ DespawnPacket(o, t) \notin tasks'[s]
  BY <1>2 DEF FarForgotten, GetObserversSeeingPlayer, TypeOK
<1>4. \A u \in Sessions \ {s} : tasks'[u] = tasks[u]
  BY DEF FarForgotten, TypeOK
<1>. QED
  BY <1>1, <1>3, <1>4, SameBalance DEF Same

\* A packet ends: the handler of its receiver or of its subject sent it.
LEMMA SendBalance ==
  ASSUME TypeOK, Tasks, NEW o \in Sessions, NEW t \in Sessions, o # t, Balanced(o, t),
         o \notin closed, NEW s \in Sessions, SendPacket(s)
  PROVE  Balanced(o, t)'
<1>1. PICK p \in tasks[s] :
         /\ tasks' = [tasks EXCEPT ![s] = @ \ {p}]
         /\ IF p.to \in closed THEN UNCHANGED wire
            ELSE sent' = [sent EXCEPT ![p.to][p.about] = @ + Delta(p)]
  BY DEF SendPacket, EndSend
<1>2. UNCHANGED <<vis, toSpawn, toDespawn>>
  BY DEF SendPacket, EndSend, lists
<1>3. tasks \in [Sessions -> SUBSET Packet] /\ sent \in [Sessions -> [Sessions -> Int]] /\ p \in Packet
  BY DEF TypeOK
<1>4. /\ p.to \in Sessions /\ p.about \in Sessions /\ p.to # p.about
      /\ p.type \in {"spawn", "despawn", "position"}
      /\ p.type = "spawn" => p = SpawnPacket(p.to, p.about)
      /\ p.type = "despawn" => p = DespawnPacket(p.to, p.about)
  BY <1>3, PacketForms
<1>5. p.to = s \/ p.about = s
  <2>1. pc[s] \in {"spawn", "despawn", "tell", "forget", "end", "leaving"}
    BY DEF Tasks
  <2>. QED
    BY <2>1 DEF Tasks
<1>6. CASE o = p.to /\ t = p.about
  <2>1. sent'[o][t] = sent[o][t] + Delta(p)
    BY <1>1, <1>3, <1>4, <1>6
  <2>2. CASE p.type = "spawn"
    <3>1. p = SpawnPacket(o, t) /\ Delta(p) = 1 /\ sent[o][t] \in Int
      BY <1>3, <1>4, <1>6, <2>2 DEF Delta
    <3>2. DespawnPacket(o, t) # p
      BY <3>1, DifferentPackets
    <3>. QED
      BY <1>1, <1>2, <1>3, <1>5, <1>6, <2>1, <3>1, <3>2 DEF Balanced, Due, One
  <2>3. CASE p.type = "despawn"
    <3>1. p = DespawnPacket(o, t) /\ Delta(p) = -1 /\ sent[o][t] \in Int
      BY <1>3, <1>4, <1>6, <2>3 DEF Delta
    <3>2. SpawnPacket(o, t) # p
      BY <3>1, DifferentPackets
    <3>. QED
      BY <1>1, <1>2, <1>3, <1>5, <1>6, <2>1, <3>1, <3>2 DEF Balanced, Due, One
  <2>4. CASE p.type = "position"
    <3>1. Delta(p) = 0 /\ sent[o][t] \in Int
      BY <1>3, <2>4 DEF Delta
    <3>2. SpawnPacket(o, t) # p /\ DespawnPacket(o, t) # p
      BY <2>4, PacketFields
    <3>. QED
      BY <1>1, <1>2, <1>3, <2>1, <3>1, <3>2, SameBalance DEF Same
  <2>. QED
    BY <1>4, <2>2, <2>3, <2>4
<1>7. CASE ~(o = p.to /\ t = p.about)
  <2>1. SpawnPacket(o, t) # p /\ DespawnPacket(o, t) # p
    BY <1>7, PacketFields
  <2>2. sent'[o][t] = sent[o][t]
    BY <1>1, <1>3, <1>4, <1>7 DEF wire
  <2>. QED
    BY <1>1, <1>2, <1>3, <2>1, <2>2, SameBalance DEF Same
<1>. QED
  BY <1>6, <1>7

LEMMA LeaveBalance ==
  ASSUME TypeOK, Roles, NEW o \in Sessions, NEW t \in Sessions, Balanced(o, t),
         o \notin closed, pc'[t] \notin Leaving,
         NEW s \in Sessions, BeginLeave(s) \/ UnregisterPlayer(s)
  PROVE  Balanced(o, t)'
<1>1. o # s
  BY DEF BeginLeave, UnregisterPlayer, Roles, Leaving
<1>2. t # s
  BY DEF BeginLeave, UnregisterPlayer, Goto, TypeOK, Leaving
<1>3. UNCHANGED <<toSpawn, toDespawn, sent>>
  BY DEF BeginLeave, UnregisterPlayer, lists, wire
<1>4. tasks'[o] = tasks[o] /\ tasks'[t] = tasks[t] /\ (t \in vis'[o] <=> t \in vis[o])
  BY <1>1, <1>2 DEF BeginLeave, UnregisterPlayer, TypeOK
<1>. QED
  BY <1>3, <1>4, SameBalance DEF Same

LEMMA LeavingStays ==
  ASSUME TypeOK, [Next]_vars, NEW t \in Sessions, pc[t] \in Leaving
  PROVE  pc'[t] \in Leaving
<1>. USE DEF Leaving
<1>1. pc \in [Sessions -> {"out", "idle", "look", "refresh", "spawn", "despawn", "tell",
                           "forget", "end"} \cup Leaving]
  BY DEF TypeOK
<1>2. CASE UNCHANGED pc
  BY <1>2
<1>3. ASSUME NEW s \in Sessions, UnregisterPlayer(s) \/ RemovePlayer(s) \/ RemoveSession(s)
      PROVE  pc'[t] \in Leaving
  BY <1>1, <1>3 DEF UnregisterPlayer, RemovePlayer, RemoveSession, Goto
<1>4. ASSUME NEW s \in Sessions,
             \/ Look(s) \/ RefreshVisiblePlayers(s) \/ SpawnsSent(s) \/ DespawnsSent(s)
             \/ NearTold(s) \/ FarForgotten(s) \/ HandlerEnds(s) \/ BeginLeave(s)
             \/ \E p \in Positions : Join(s, p) \/ Move(s, p)
      PROVE  s # t /\ pc'[t] = pc[t]
  <2>1. /\ pc[s] \in {"out", "idle", "look", "refresh", "spawn", "despawn", "tell", "forget", "end"}
        /\ \A u \in Sessions \ {s} : pc'[u] = pc[u]
    BY <1>1, <1>4 DEF Look, RefreshVisiblePlayers, SpawnsSent, DespawnsSent, NearTold, FarForgotten,
       HandlerEnds, BeginLeave, Join, Move, Goto
  <2>. QED
    BY <2>1
<1>5. ASSUME NEW s \in Sessions,
             Close(s) \/ SendSpawn(s) \/ SendDespawn(s) \/ TellNear(s) \/ ForgetFar(s) \/ SendPacket(s)
      PROVE  UNCHANGED pc
  BY <1>5 DEF Close, SendSpawn, SendDespawn, TellNear, ForgetFar, SendPacket, EndSend
<1>6. UNCHANGED vars => UNCHANGED pc
  BY DEF vars
<1>. QED
  BY <1>2, <1>3, <1>4, <1>5, <1>6 DEF Next, Run

LEMMA BalanceStep ==
  ASSUME Basics, Balance, [Next]_vars
  PROVE  Balance'
<1>. SUFFICES ASSUME NEW o \in Sessions, NEW t \in Sessions
              PROVE  /\ o = t => sent'[o][t] = 0
                     /\ o # t /\ o \notin closed' /\ pc'[t] \notin Leaving => Balanced(o, t)'
  BY DEF Balance, Balanced
<1>. USE DEF Basics
<1>0. pc \in [Sessions -> {"out", "idle", "look", "refresh", "spawn", "despawn", "tell",
                           "forget", "end"} \cup Leaving]
      /\ sent \in [Sessions -> [Sessions -> Int]]
  BY DEF TypeOK
<1>1. ASSUME o = t PROVE sent'[o][t] = 0
  <2>1. sent[o][o] = 0
    BY DEF Balance
  <2>2. CASE sent' = sent
    BY <1>1, <2>1, <2>2
  <2>3. ASSUME NEW s \in Sessions, Close(s) PROVE sent'[o][t] = 0
    BY <1>0, <1>1, <2>1, <2>3 DEF Close
  <2>4. ASSUME NEW s \in Sessions, SendPacket(s) PROVE sent'[o][t] = 0
    <3>1. PICK p \in tasks[s] :
            \/ sent' = sent
            \/ sent' = [sent EXCEPT ![p.to][p.about] = @ + Delta(p)]
      BY <2>4 DEF SendPacket, EndSend, wire
    <3>2. p \in Packet
      BY DEF TypeOK
    <3>3. p.to \in Sessions /\ p.about \in Sessions /\ p.to # p.about
      BY <3>2, PacketForms
    <3>. QED
      BY <1>0, <1>1, <2>1, <3>1, <3>3
  <2>5. (\E s \in Sessions : Close(s) \/ SendPacket(s)) \/ sent' = sent
    BY DEF Next, Run, vars, wire, Join, Move, Look, RefreshVisiblePlayers, SpawnsSent,
       DespawnsSent, NearTold, FarForgotten, HandlerEnds, SendSpawn, SendDespawn, TellNear,
       ForgetFar, BeginLeave, UnregisterPlayer, RemovePlayer, RemoveSession
  <2>. QED
    BY <2>2, <2>3, <2>4, <2>5
<1>2. ASSUME o # t, o \notin closed', pc'[t] \notin Leaving PROVE Balanced(o, t)'
  <2>1. closed \subseteq closed'
    BY DEF Next, Run, vars, world, Join, Move, Close, Look, RefreshVisiblePlayers, SpawnsSent,
       DespawnsSent, NearTold, FarForgotten, HandlerEnds, SendSpawn, SendDespawn, TellNear,
       ForgetFar, SendPacket, EndSend, BeginLeave, UnregisterPlayer, RemovePlayer, RemoveSession
  <2>2. pc[t] \notin Leaving
    BY <1>2, LeavingStays
  <2>3. Balanced(o, t)
    BY <1>2, <2>1, <2>2 DEF Balance, Balanced
  <2>4. o \notin closed
    BY <1>2, <2>1
  <2>5. CASE UNCHANGED <<vis, toSpawn, toDespawn, tasks, sent>>
    BY <2>3, <2>5, SameBalance DEF Same
  <2>6. ASSUME NEW s \in Sessions, Close(s) PROVE Balanced(o, t)'
    <3>1. o # s
      BY <1>2, <2>6 DEF Close
    <3>. QED
      BY <1>0, <2>3, <2>6, <3>1, SameBalance DEF Same, Close, lists
  <2>7. ASSUME NEW s \in Sessions,
               \/ Look(s) \/ SpawnsSent(s) \/ DespawnsSent(s) \/ NearTold(s) \/ HandlerEnds(s)
               \/ RemovePlayer(s) \/ RemoveSession(s) \/ \E p \in Positions : Join(s, p) \/ Move(s, p)
        PROVE  UNCHANGED <<vis, toSpawn, toDespawn, tasks, sent>>
    BY <2>7 DEF Look, SpawnsSent, DespawnsSent, NearTold, HandlerEnds, RemovePlayer, RemoveSession,
       Join, Move, lists, wire
  <2>8. UNCHANGED vars => UNCHANGED <<vis, toSpawn, toDespawn, tasks, sent>>
    BY DEF vars, lists, wire
  <2>9. ASSUME NEW s \in Sessions,
               RefreshVisiblePlayers(s) \/ SendSpawn(s) \/ SendDespawn(s) \/ TellNear(s)
               \/ ForgetFar(s) \/ FarForgotten(s) \/ SendPacket(s)
        PROVE  Balanced(o, t)'
    BY <1>2, <2>2, <2>3, <2>4, <2>9, RefreshBalance, SpawnBalance, DespawnBalance, TellBalance,
       ForgetBalance, FarForgottenBalance, SendBalance
  <2>10. ASSUME NEW s \in Sessions, BeginLeave(s) \/ UnregisterPlayer(s) PROVE Balanced(o, t)'
    BY <1>2, <2>3, <2>4, <2>10, LeaveBalance
  <2>. QED
    BY <2>5, <2>6, <2>7, <2>8, <2>9, <2>10 DEF Next, Run
<1>. QED
  BY <1>1, <1>2

-----------------------------------------------------------------------------
(***************************************************************************)
(* The update nobody overlaps.                                             *)
(***************************************************************************)

\* A handler that starts ends every other claim to be alone.
LEMMA StartAlone ==
  ASSUME TypeOK, NEW s \in Sessions, StartsAlone(s), NEW place \in {"look", "leaving"},
         pc' = [pc EXCEPT ![s] = place]
  PROVE  Alone'
<1>. SUFFICES ASSUME NEW t \in Sessions, alone'[t]
              PROVE  Undisturbed(t)'
  BY DEF Alone
<1>1. t = s /\ \A u \in Sessions \ {s} : pc[u] \in {"out", "idle", "gone"}
  BY DEF StartsAlone
<1>2. pc'[s] \in {"look", "leaving"} /\ \A u \in Sessions \ {s} : pc'[u] = pc[u]
  BY DEF TypeOK
<1>. QED
  BY <1>1, <1>2 DEF Undisturbed

\* A step that leaves a lone handler's surroundings and its place as they were.
LEMMA SameAlone ==
  ASSUME Alone, UNCHANGED <<player, pos, vis, pc, nearby, todo, alone>>
  PROVE  Alone'
BY DEF Alone, Undisturbed, Mutual, GetNearbyPlayerSessionIds

\* The others are between packets: who runs is the lone handler itself.
LEMMA OnlyTheLoneRuns ==
  ASSUME Basics, NEW s \in Sessions, Undisturbed(s), NEW u \in Sessions,
         \/ Look(u) \/ RefreshVisiblePlayers(u) \/ SpawnsSent(u) \/ DespawnsSent(u)
         \/ TellNear(u) \/ NearTold(u) \/ ForgetFar(u) \/ FarForgotten(u) \/ HandlerEnds(u)
         \/ UnregisterPlayer(u) \/ RemovePlayer(u) \/ RemoveSession(u)
  PROVE  u = s
<1>1. pc[u] \notin {"out", "idle", "gone"}
  BY DEF Look, RefreshVisiblePlayers, SpawnsSent, DespawnsSent, TellNear, NearTold, ForgetFar,
     FarForgotten, HandlerEnds, UnregisterPlayer, RemovePlayer, RemoveSession
<1>. QED
  BY <1>1 DEF Undisturbed

\* The places of a handler in which nothing is claimed of its tables.
LEMMA AfterLeaving ==
  ASSUME Basics, NEW s \in Sessions, Undisturbed(s),
         UnregisterPlayer(s) \/ RemovePlayer(s) \/ RemoveSession(s)
  PROVE  Undisturbed(s)'
<1>1. \E place \in {"unregistered", "removed", "gone"} : pc' = [pc EXCEPT ![s] = place]
  BY DEF UnregisterPlayer, RemovePlayer, RemoveSession, Goto
<1>2. pc'[s] \in {"unregistered", "removed", "gone"} /\ \A u \in Sessions \ {s} : pc'[u] = pc[u]
  BY <1>1 DEF Basics, TypeOK
<1>. QED
  BY <1>2 DEF Undisturbed

\* Looking around, taking it over, and sending to the own session.
LEMMA LookAlone ==
  ASSUME Basics, NEW s \in Sessions, Undisturbed(s),
         Look(s) \/ RefreshVisiblePlayers(s) \/ SpawnsSent(s) \/ DespawnsSent(s)
  PROVE  Undisturbed(s)'
<1>0. /\ pc \in [Sessions -> {"out", "idle", "look", "refresh", "spawn", "despawn", "tell",
                             "forget", "end"} \cup Leaving]
      /\ vis \in [Sessions -> SUBSET Sessions] /\ nearby \in [Sessions -> SUBSET Sessions]
      /\ todo \in [Sessions -> SUBSET Sessions]
  BY DEF Basics, TypeOK
<1>1. UNCHANGED <<player, pos>> /\ GetNearbyPlayerSessionIds(s)' = GetNearbyPlayerSessionIds(s)
  BY DEF Look, RefreshVisiblePlayers, SpawnsSent, DespawnsSent, world, GetNearbyPlayerSessionIds
<1>2. \A u \in Sessions \ {s} : pc'[u] = pc[u]
  BY <1>0 DEF Look, RefreshVisiblePlayers, SpawnsSent, DespawnsSent, Goto
<1>3. CASE Look(s)
  <2>1. pc'[s] = "refresh" /\ nearby'[s] = GetNearbyPlayerSessionIds(s)
    BY <1>0, <1>3 DEF Look, Goto
  <2>. QED
    BY <1>1, <1>2, <2>1 DEF Undisturbed
<1>4. CASE RefreshVisiblePlayers(s)
  <2>1. pc[s] = "refresh" /\ pc'[s] = "spawn" /\ nearby' = nearby /\ vis'[s] = nearby[s]
    BY <1>0, <1>4 DEF RefreshVisiblePlayers, Goto
  <2>. QED
    BY <1>1, <1>2, <2>1 DEF Undisturbed
<1>5. CASE SpawnsSent(s)
  <2>1. pc[s] = "spawn" /\ pc'[s] = "despawn" /\ nearby' = nearby /\ vis' = vis
    BY <1>0, <1>5 DEF SpawnsSent, Goto, lists
  <2>. QED
    BY <1>1, <1>2, <2>1 DEF Undisturbed
<1>6. CASE DespawnsSent(s)
  <2>1. pc[s] = "despawn" /\ pc'[s] = "tell" /\ nearby' = nearby /\ vis' = vis /\ todo'[s] = nearby[s]
    BY <1>0, <1>6 DEF DespawnsSent, Goto
  <2>. QED
    BY <1>1, <1>2, <2>1 DEF Undisturbed
<1>. QED
  BY <1>3, <1>4, <1>5, <1>6

\* Telling those near, and taking out those who are not.
LEMMA TellAlone ==
  ASSUME Basics, NEW s \in Sessions, Undisturbed(s), TellNear(s) \/ ForgetFar(s)
  PROVE  Undisturbed(s)'
<1>0. /\ vis \in [Sessions -> SUBSET Sessions] /\ todo \in [Sessions -> SUBSET Sessions]
      /\ nearby \in [Sessions -> SUBSET Sessions] /\ player \subseteq Sessions
      /\ player \subseteq online
  BY DEF Basics, TypeOK, Roles
<1>1. UNCHANGED <<player, pos, pc, nearby>>
      /\ GetNearbyPlayerSessionIds(s)' = GetNearbyPlayerSessionIds(s)
  BY DEF TellNear, ForgetFar, world, GetNearbyPlayerSessionIds
<1>2. CASE TellNear(s)
  <2>1. PICK o \in todo[s] :
          /\ todo' = [todo EXCEPT ![s] = @ \ {o}]
          /\ IF o \in online /\ s \notin vis[o] THEN vis' = [vis EXCEPT ![o] = @ \cup {s}]
             ELSE vis' = vis
    BY <1>2 DEF TellNear
  <2>2. pc[s] = "tell" /\ o \in Sessions /\ o # s
    BY <1>2 DEF TellNear, Basics, TypeOK, Lists
  <2>3. vis'[s] = vis[s] /\ \A u \in Sessions : s \in vis[u] => s \in vis'[u]
    BY <1>0, <2>1, <2>2
  <2>4. o \in nearby[s] => s \in vis'[o]
    BY <1>0, <2>1, <2>2 DEF Undisturbed, GetNearbyPlayerSessionIds
  <2>5. todo'[s] = todo[s] \ {o}
    BY <1>0, <2>1
  <2>. QED
    BY <1>0, <1>1, <2>2, <2>3, <2>4, <2>5 DEF Undisturbed
<1>3. CASE ForgetFar(s)
  <2>1. PICK o \in todo[s] :
          /\ todo' = [todo EXCEPT ![s] = @ \ {o}]
          /\ IF o \in online /\ s \in vis[o] THEN vis' = [vis EXCEPT ![o] = @ \ {s}]
             ELSE vis' = vis
    BY <1>3 DEF ForgetFar
  <2>2. pc[s] = "forget" /\ o \in Sessions /\ o # s /\ o \notin nearby[s]
    BY <1>3 DEF ForgetFar, Basics, TypeOK, Lists, Undisturbed
  <2>3. vis'[s] = vis[s] /\ \A u \in Sessions \ {o} : vis'[u] = vis[u]
    BY <1>0, <2>1, <2>2
  <2>4. o \in player => s \notin vis'[o]
    BY <1>0, <2>1, <2>2
  <2>5. todo'[s] = todo[s] \ {o}
    BY <1>0, <2>1
  <2>. QED
    BY <1>0, <1>1, <2>2, <2>3, <2>4, <2>5 DEF Undisturbed
<1>. QED
  BY <1>2, <1>3

\* Between the two loops, and the end.
LEMMA EndAlone ==
  ASSUME Basics, NEW s \in Sessions, Undisturbed(s), NearTold(s) \/ FarForgotten(s) \/ HandlerEnds(s)
  PROVE  Undisturbed(s)'
<1>0. /\ pc \in [Sessions -> {"out", "idle", "look", "refresh", "spawn", "despawn", "tell",
                             "forget", "end"} \cup Leaving]
      /\ vis \in [Sessions -> SUBSET Sessions] /\ nearby \in [Sessions -> SUBSET Sessions]
      /\ todo \in [Sessions -> SUBSET Sessions] /\ player \subseteq Sessions
  BY DEF Basics, TypeOK
<1>1. UNCHANGED <<player, pos, vis>>
      /\ GetNearbyPlayerSessionIds(s)' = GetNearbyPlayerSessionIds(s)
  BY DEF NearTold, FarForgotten, HandlerEnds, world, GetNearbyPlayerSessionIds
<1>2. \A u \in Sessions \ {s} : pc'[u] = pc[u]
  BY <1>0 DEF NearTold, FarForgotten, HandlerEnds, Goto
<1>3. CASE NearTold(s)
  <2>1. pc[s] = "tell" /\ todo[s] = {} /\ pc'[s] = "forget" /\ nearby' = nearby
        /\ todo'[s] = {o \in Sessions : s \in vis[o]} \ nearby[s]
    BY <1>0, <1>3 DEF NearTold, Goto, FarObservers, GetObserversSeeingPlayer
  <2>. QED
    BY <1>0, <1>1, <1>2, <2>1 DEF Undisturbed
<1>4. CASE FarForgotten(s)
  <2>1. pc[s] = "forget" /\ todo[s] = {} /\ pc'[s] = "end"
    BY <1>0, <1>4 DEF FarForgotten, Goto
  <2>2. nearby[s] = GetNearbyPlayerSessionIds(s) /\ vis[s] = nearby[s]
    BY <2>1 DEF Undisturbed
  <2>3. \A t \in player \ {s} : s \in vis[t] <=> t \in nearby[s]
    BY <2>1 DEF Undisturbed
  <2>4. Mutual(s)'
    BY <1>1, <2>2, <2>3 DEF Mutual
  <2>. QED
    BY <1>1, <1>2, <2>1, <2>2, <2>4 DEF Undisturbed
<1>5. CASE HandlerEnds(s)
  <2>1. pc[s] = "end" /\ pc'[s] = "idle"
    BY <1>0, <1>5 DEF HandlerEnds, Goto
  <2>2. Mutual(s)'
    BY <1>1, <2>1 DEF Mutual, Undisturbed
  <2>. QED
    BY <1>1, <1>2, <2>1, <2>2 DEF Undisturbed
<1>. QED
  BY <1>3, <1>4, <1>5

LEMMA AloneStep ==
  ASSUME Basics, Alone, [Next]_vars
  PROVE  Alone'
<1>1. CASE UNCHANGED <<player, pos, vis, pc, nearby, todo, alone>>
  BY <1>1, SameAlone
<1>2. ASSUME NEW u \in Sessions, BeginLeave(u) \/ \E p \in Positions : Join(u, p) \/ Move(u, p)
      PROVE  Alone'
  <2>1. StartsAlone(u) /\ \E place \in {"look", "leaving"} : pc' = [pc EXCEPT ![u] = place]
    BY <1>2 DEF Join, Move, BeginLeave, Goto
  <2>. QED
    BY <2>1, StartAlone DEF Basics
<1>3. ASSUME NEW u \in Sessions,
             \/ Look(u) \/ RefreshVisiblePlayers(u) \/ SpawnsSent(u) \/ DespawnsSent(u)
             \/ TellNear(u) \/ NearTold(u) \/ ForgetFar(u) \/ FarForgotten(u) \/ HandlerEnds(u)
             \/ UnregisterPlayer(u) \/ RemovePlayer(u) \/ RemoveSession(u)
      PROVE  Alone'
  <2>1. alone' = alone
    BY <1>3 DEF Look, RefreshVisiblePlayers, SpawnsSent, DespawnsSent, TellNear, NearTold,
       ForgetFar, FarForgotten, HandlerEnds, UnregisterPlayer, RemovePlayer, RemoveSession
  <2>2. SUFFICES ASSUME NEW s \in Sessions, alone[s] PROVE Undisturbed(s)'
    BY <2>1 DEF Alone
  <2>3. Undisturbed(s)
    BY <2>2 DEF Alone
  <2>4. u = s
    BY <1>3, <2>3, OnlyTheLoneRuns
  <2>. QED
    BY <1>3, <2>3, <2>4, AfterLeaving, LookAlone, TellAlone, EndAlone
<1>4. ASSUME NEW u \in Sessions, Close(u) \/ SendSpawn(u) \/ SendDespawn(u) \/ SendPacket(u)
      PROVE  UNCHANGED <<player, pos, vis, pc, nearby, todo, alone>>
  BY <1>4 DEF Close, SendSpawn, SendDespawn, SendPacket, EndSend, world, lists
<1>5. UNCHANGED vars => UNCHANGED <<player, pos, vis, pc, nearby, todo, alone>>
  BY DEF vars, world, lists
<1>. QED
  BY <1>1, <1>2, <1>3, <1>4, <1>5 DEF Next, Run

-----------------------------------------------------------------------------
(***************************************************************************)
(* The results.                                                            *)
(***************************************************************************)
LEMMA InitHolds == Init => VInv
<1>. SUFFICES ASSUME Init PROVE VInv
  OBVIOUS
<1>. USE DEF Init
<1>1. TypeOK
  BY VisibilityAssumption DEF TypeOK, Positions, Leaving
<1>2. Roles /\ Lists /\ Tasks
  BY DEF Roles, Lists, Tasks, Leaving
<1>3. Balance
  BY DEF Balance, Due, One
<1>4. Alone
  BY DEF Alone
<1>. QED
  BY <1>1, <1>2, <1>3, <1>4 DEF VInv

LEMMA StepHolds == VInv /\ [Next]_vars => VInv'
BY RolesStep, ListsStep, TypesStep, TasksStep, BalanceStep, AloneStep DEF VInv, Basics

\* Wherever the handlers of all sessions stand, membership follows the handlers'
\* places, lists and started packets are those of the part the handler is in,
\* the tables are what was and will be told, and an update that is alone has
\* done its parts so far completely (GameServer.cs:287-368, 470-655).
THEOREM VisibilityInvariant == Spec => []VInv
BY InitHolds, StepHolds, PTL DEF Spec

\* The packets of all handlers that concern one pair are in two handlers' tasks.
LEMMA PendingIsDue ==
  ASSUME TypeOK, Tasks, NEW o \in Sessions, NEW t \in Sessions, o # t
  PROVE  Pending(o, t) = Due(o, t)
<1>1. ASSUME NEW p \in Packet, p.to = o, p.about = t
      PROVE  Cardinality({s \in Sessions : p \in tasks[s]}) = One(p \in tasks[o]) + One(p \in tasks[t])
  <2>1. \A s \in Sessions : p \in tasks[s] => s \in {o, t}
    <3>. SUFFICES ASSUME NEW s \in Sessions, p \in tasks[s] PROVE s \in {o, t}
      OBVIOUS
    <3>1. pc[s] \in {"spawn", "despawn", "tell", "forget", "end", "leaving"}
      BY DEF Tasks
    <3>. QED
      BY <1>1, <3>1 DEF Tasks
  <2>2. CASE p \in tasks[o] /\ p \in tasks[t]
    <3>1. {s \in Sessions : p \in tasks[s]} = {o, t}
      BY <2>1, <2>2
    <3>2. {o, t} = {o} \cup {t} /\ t \notin {o}
      OBVIOUS
    <3>3. IsFiniteSet({o}) /\ Cardinality({o}) = 1
      BY FS_Singleton
    <3>4. Cardinality({o} \cup {t}) = 2
      BY <3>2, <3>3, FS_AddElement
    <3>. QED
      BY <2>2, <3>1, <3>2, <3>4 DEF One
  <2>3. CASE p \in tasks[o] /\ p \notin tasks[t]
    <3>1. {s \in Sessions : p \in tasks[s]} = {o}
      BY <2>1, <2>3
    <3>. QED
      BY <2>3, <3>1, FS_Singleton DEF One
  <2>4. CASE p \notin tasks[o] /\ p \in tasks[t]
    <3>1. {s \in Sessions : p \in tasks[s]} = {t}
      BY <2>1, <2>4
    <3>. QED
      BY <2>4, <3>1, FS_Singleton DEF One
  <2>5. CASE p \notin tasks[o] /\ p \notin tasks[t]
    <3>1. {s \in Sessions : p \in tasks[s]} = {}
      BY <2>1, <2>5
    <3>. QED
      BY <2>5, <3>1, FS_EmptySet DEF One
  <2>. QED
    BY <2>2, <2>3, <2>4, <2>5
<1>2. ASSUME NEW S
      PROVE  Cardinality({s \in {o} : t \in S}) = One(t \in S)
  <2>1. CASE t \in S
    <3>1. {s \in {o} : t \in S} = {o}
      BY <2>1
    <3>. QED
      BY <2>1, <3>1, FS_Singleton DEF One
  <2>2. CASE t \notin S
    <3>1. {s \in {o} : t \in S} = {}
      BY <2>2
    <3>. QED
      BY <2>2, <3>1, FS_EmptySet DEF One
  <2>. QED
    BY <2>1, <2>2
<1>3. /\ Cardinality({s \in Sessions : SpawnPacket(o, t) \in tasks[s]})
           = One(SpawnPacket(o, t) \in tasks[o]) + One(SpawnPacket(o, t) \in tasks[t])
      /\ Cardinality({s \in Sessions : DespawnPacket(o, t) \in tasks[s]})
           = One(DespawnPacket(o, t) \in tasks[o]) + One(DespawnPacket(o, t) \in tasks[t])
  BY <1>1, PacketFields
<1>4. {s \in {o} : t \in toSpawn[s]} = {s \in {o} : t \in toSpawn[o]}
      /\ {s \in {o} : t \in toDespawn[s]} = {s \in {o} : t \in toDespawn[o]}
  OBVIOUS
<1>5. Cardinality({s \in {o} : t \in toSpawn[s]}) = One(t \in toSpawn[o])
      /\ Cardinality({s \in {o} : t \in toDespawn[s]}) = One(t \in toDespawn[o])
  BY <1>2, <1>4
<1>. QED
  BY <1>3, <1>5 DEF Pending, Due, One

\* Nothing is pending to anybody about himself.
LEMMA NothingPendingToSelf ==
  ASSUME TypeOK, Lists, NEW o \in Sessions
  PROVE  Pending(o, o) = 0
<1>1. SpawnPacket(o, o) \notin Packet /\ DespawnPacket(o, o) \notin Packet
  BY PacketFields DEF Packet
<1>2. /\ {s \in Sessions : SpawnPacket(o, o) \in tasks[s]} = {}
      /\ {s \in Sessions : DespawnPacket(o, o) \in tasks[s]} = {}
  BY <1>1 DEF TypeOK
<1>3. {s \in {o} : o \in toSpawn[s]} = {} /\ {s \in {o} : o \in toDespawn[s]} = {}
  BY DEF Lists
<1>4. Cardinality({}) = 0
  BY FS_EmptySet
<1>5. Pending(o, o) = 0 - 0 + 0 - 0
  BY <1>2, <1>3, <1>4, Zenon DEF Pending
<1>. QED
  BY <1>5

\* For any number of sessions, whatever their handlers interleave: the spawns
\* and despawns written to an open session and those still on their way differ
\* by one exactly for the players in its table, as long as they stay
\* (GameServer.cs:301-316, 334-361).
THEOREM BroadcastsBalanceTables == Spec => []PacketsBalanceTables
<1>1. VInv => PacketsBalanceTables
  <2>. SUFFICES ASSUME VInv, NEW o \in Sessions, NEW t \in Sessions,
                       o \notin closed, pc[t] \notin Leaving
                PROVE  sent[o][t] + Pending(o, t) = IF t \in vis[o] THEN 1 ELSE 0
    BY DEF PacketsBalanceTables, VInv
  <2>1. CASE o = t
    <3>1. sent[o][t] = 0 /\ t \notin vis[o]
      BY <2>1 DEF VInv, Balance, Lists
    <3>. QED
      BY <2>1, <3>1, NothingPendingToSelf DEF VInv
  <2>2. CASE o # t
    BY <2>2, PendingIsDue DEF VInv, Balance, One
  <2>. QED
    BY <2>1, <2>2
<1>. QED
  BY <1>1, VisibilityInvariant, PTL

\* For any number of sessions, positions and radius: when an update ran from
\* its look around to its end without another handler's step between, its
\* player sees exactly the players near it and exactly they see it
\* (GameServer.cs:287-368).
THEOREM LoneUpdatesRepair == Spec => []UndisturbedUpdateRepairs
<1>1. VInv => UndisturbedUpdateRepairs
  BY DEF VInv, Alone, Undisturbed, Mutual, UndisturbedUpdateRepairs
<1>. QED
  BY <1>1, VisibilityInvariant, PTL
===============================================================================
