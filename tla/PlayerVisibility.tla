-------------------------- MODULE PlayerVisibility --------------------------
(***************************************************************************)
(* Who sees whom: InterestManager and the broadcasts of GameServer that    *)
(* keep it up to date, run by the handlers of all sessions at once.  Each  *)
(* call of InterestManager is one step under its lock; the handler's own   *)
(* lists (the nearby players, what is still to be sent) are read before    *)
(* and used after other handlers' steps.                                   *)
(*                                                                         *)
(* A packet is a started SendPacketAsync task; tasks end in any order, and *)
(* a handler awaits all of its own (Task.WhenAll).  `shown' is the map of  *)
(* remote players of a client that has read everything written to it.  A   *)
(* missing entry of _visiblePlayersByObserverSessionId is an empty set.    *)
(***************************************************************************)
EXTENDS Integers, FiniteSets

CONSTANTS
    Sessions,   \* session ids; a session joins the world at most once
    MaxPos,     \* positions are 0 .. MaxPos, on a line
    Radius,     \* SpawnBroadcastRadius
    Stalled     \* sessions whose client stops reading at some time

Positions == 0 .. MaxPos

ASSUME VisibilityAssumption == MaxPos \in Nat /\ Radius \in Nat /\ Stalled \subseteq Sessions

VARIABLES
    player,     \* keys of GameWorld._playersBySessionId
    pos,        \* positions of the players
    online,     \* keys of GameServer._sessions
    closed,     \* sessions that are closed
    vis,        \* _visiblePlayersByObserverSessionId
    pc,         \* where a session's handler is
    nearby,     \* nearbySessionIds of the handler
    toSpawn,    \* PlayersToSpawn not looked up yet
    toDespawn,  \* PlayersToDespawn not looked up yet
    todo,       \* sessions the handler's current loop has left
    moved,      \* the handler ends with a position broadcast
    tasks,      \* packets the handler has started to send
    shown,      \* _remotePlayersByCharacterId of the session's client
    sent,       \* spawns minus despawns written, by observer and target
    alone       \* no other handler has run since this one's update began

world == <<player, pos, online, closed>>
lists == <<nearby, toSpawn, toDespawn, todo, moved>>
wire == <<shown, sent>>
vars == <<world, vis, pc, lists, tasks, wire, alone>>

\* Nobody is told about himself.
Packet == {p \in [to : Sessions, type : {"spawn", "despawn", "position"}, about : Sessions] :
              p.to # p.about}
SpawnPacket(o, t) == [to |-> o, type |-> "spawn", about |-> t]
DespawnPacket(o, t) == [to |-> o, type |-> "despawn", about |-> t]
PositionPacket(o, t) == [to |-> o, type |-> "position", about |-> t]

Near(p, q) == p - q <= Radius /\ q - p <= Radius
GetNearbyPlayerSessionIds(s) == {t \in player \ {s} : Near(pos[s], pos[t])}
GetObserversSeeingPlayer(s) == {o \in Sessions : s \in vis[o]}

Init ==
    /\ player = {} /\ closed = {} /\ online = Sessions
    /\ pos = [s \in Sessions |-> 0]
    /\ vis = [s \in Sessions |-> {}]
    /\ pc = [s \in Sessions |-> "out"]
    /\ nearby = [s \in Sessions |-> {}]
    /\ toSpawn = [s \in Sessions |-> {}]
    /\ toDespawn = [s \in Sessions |-> {}]
    /\ todo = [s \in Sessions |-> {}]
    /\ moved = [s \in Sessions |-> FALSE]
    /\ tasks = [s \in Sessions |-> {}]
    /\ shown = [s \in Sessions |-> {}]
    /\ sent = [s \in Sessions |-> [t \in Sessions |-> 0]]
    /\ alone = [s \in Sessions |-> FALSE]

Goto(s, place) == pc' = [pc EXCEPT ![s] = place]

\* A handler of s starts: it is alone if every other session is between packets.
StartsAlone(s) ==
    alone' = [t \in Sessions |->
                 t = s /\ \A u \in Sessions \ {s} : pc[u] \in {"out", "idle", "gone"}]

-----------------------------------------------------------------------------
(***************************************************************************)
(* Joining and moving: UpdatePlayerInterestAsync.                          *)
(***************************************************************************)

\* The end of a login, by then perhaps of a closed session: AddPlayer, then
\* HandlePlayerJoinedWorldAsync.
Join(s, p) ==
    /\ pc[s] = "out"
    /\ player' = player \cup {s}
    /\ pos' = [pos EXCEPT ![s] = p]
    /\ moved' = [moved EXCEPT ![s] = FALSE]
    /\ Goto(s, "look")
    /\ StartsAlone(s)
    /\ UNCHANGED <<online, closed, vis, nearby, toSpawn, toDespawn, todo, tasks, wire>>

\* A move request: ApplyMovement, then BroadcastPlayerPositionAsync.
Move(s, p) ==
    /\ pc[s] = "idle" /\ s \notin closed
    /\ pos' = [pos EXCEPT ![s] = p]
    /\ moved' = [moved EXCEPT ![s] = TRUE]
    /\ Goto(s, "look")
    /\ StartsAlone(s)
    /\ UNCHANGED <<player, online, closed, vis, nearby, toSpawn, toDespawn, todo, tasks, wire>>

Look(s) ==
    /\ pc[s] = "look"
    /\ nearby' = [nearby EXCEPT ![s] = GetNearbyPlayerSessionIds(s)]
    /\ Goto(s, "refresh")
    /\ UNCHANGED <<world, vis, toSpawn, toDespawn, todo, moved, tasks, wire, alone>>

RefreshVisiblePlayers(s) ==
    /\ pc[s] = "refresh"
    \* nearby never holds s itself, which the code removes again
    /\ toSpawn' = [toSpawn EXCEPT ![s] = nearby[s] \ vis[s]]
    /\ toDespawn' = [toDespawn EXCEPT ![s] = vis[s] \ nearby[s]]
    /\ vis' = [vis EXCEPT ![s] = nearby[s]]
    /\ Goto(s, "spawn")
    /\ UNCHANGED <<world, nearby, todo, moved, tasks, wire, alone>>

\* SendSpawnPacketsToObserverAsync: a target that is no player any more is skipped.
\* Mutant: so is a target that sees the observer already.
SpawnsFor_Unseen(s, t) == IF t \in player /\ s \notin vis[t] THEN {SpawnPacket(s, t)} ELSE {}
SpawnsFor(s, t) == IF t \in player THEN {SpawnPacket(s, t)} ELSE {}

SendSpawn(s) ==
    /\ pc[s] = "spawn"
    /\ \E t \in toSpawn[s] :
        /\ toSpawn' = [toSpawn EXCEPT ![s] = @ \ {t}]
        /\ tasks' = [tasks EXCEPT ![s] = @ \cup SpawnsFor(s, t)]
    /\ UNCHANGED <<world, vis, pc, nearby, toDespawn, todo, moved, wire, alone>>

SpawnsSent(s) ==
    /\ pc[s] = "spawn" /\ toSpawn[s] = {} /\ tasks[s] = {}
    /\ Goto(s, "despawn")
    /\ UNCHANGED <<world, vis, lists, tasks, wire, alone>>

\* SendDespawnPacketsToObserverAsync skips departed targets too.
SendDespawn(s) ==
    /\ pc[s] = "despawn"
    /\ \E t \in toDespawn[s] :
        /\ toDespawn' = [toDespawn EXCEPT ![s] = @ \ {t}]
        /\ tasks' = [tasks EXCEPT ![s] =
                        @ \cup IF t \in player THEN {DespawnPacket(s, t)} ELSE {}]
    /\ UNCHANGED <<world, vis, pc, nearby, toSpawn, todo, moved, wire, alone>>

DespawnsSent(s) ==
    /\ pc[s] = "despawn" /\ toDespawn[s] = {} /\ tasks[s] = {}
    /\ todo' = [todo EXCEPT ![s] = nearby[s]]
    /\ Goto(s, "tell")
    /\ UNCHANGED <<world, vis, nearby, toSpawn, toDespawn, moved, tasks, wire, alone>>

(***************************************************************************)
(* UpdateOtherPlayersInterestForSourceAsync.                               *)
(***************************************************************************)

\* AddVisiblePlayer at a nearby session, which is sent a spawn if it is new.
TellNear(s) ==
    /\ pc[s] = "tell"
    /\ \E o \in todo[s] :
        /\ todo' = [todo EXCEPT ![s] = @ \ {o}]
        /\ IF o \in online /\ s \notin vis[o]
           THEN /\ vis' = [vis EXCEPT ![o] = @ \cup {s}]
                /\ tasks' = [tasks EXCEPT ![s] = @ \cup {SpawnPacket(o, s)}]
           ELSE UNCHANGED <<vis, tasks>>
    /\ UNCHANGED <<world, pc, nearby, toSpawn, toDespawn, moved, wire, alone>>

\* The observers of before that are not near any more.
\* Mutant: those of the observers it sees itself.
FarObservers_Mutual(s) == (GetObserversSeeingPlayer(s) \ nearby[s]) \cap vis[s]
FarObservers(s) == GetObserversSeeingPlayer(s) \ nearby[s]

NearTold(s) ==
    /\ pc[s] = "tell" /\ todo[s] = {}
    /\ todo' = [todo EXCEPT ![s] = FarObservers(s)]
    /\ Goto(s, "forget")
    /\ UNCHANGED <<world, vis, nearby, toSpawn, toDespawn, moved, tasks, wire, alone>>

\* RemoveVisiblePlayer at such an observer, which is sent a despawn.
ForgetFar(s) ==
    /\ pc[s] = "forget"
    /\ \E o \in todo[s] :
        /\ todo' = [todo EXCEPT ![s] = @ \ {o}]
        /\ IF o \in online /\ s \in vis[o]
           THEN /\ vis' = [vis EXCEPT ![o] = @ \ {s}]
                /\ tasks' = [tasks EXCEPT ![s] = @ \cup {DespawnPacket(o, s)}]
           ELSE UNCHANGED <<vis, tasks>>
    /\ UNCHANGED <<world, pc, nearby, toSpawn, toDespawn, moved, wire, alone>>

\* The end of the update, and of its lists; a move is broadcast to the observers.
FarForgotten(s) ==
    /\ pc[s] = "forget" /\ todo[s] = {} /\ tasks[s] = {}
    /\ tasks' = [tasks EXCEPT ![s] =
                    IF moved[s]
                    THEN {PositionPacket(o, s) : o \in GetObserversSeeingPlayer(s) \cap online}
                    ELSE {}]
    /\ nearby' = [nearby EXCEPT ![s] = {}]
    /\ moved' = [moved EXCEPT ![s] = FALSE]
    /\ Goto(s, "end")
    /\ UNCHANGED <<world, vis, toSpawn, toDespawn, todo, wire, alone>>

HandlerEnds(s) ==
    /\ pc[s] = "end" /\ tasks[s] = {}
    /\ Goto(s, "idle")
    /\ UNCHANGED <<world, vis, lists, tasks, wire, alone>>

-----------------------------------------------------------------------------
(***************************************************************************)
(* Packets.                                                                *)
(***************************************************************************)

\* What a client does with a packet: a spawn and a position make an entry.
HandlePacket(views, p) ==
    IF p.type = "despawn" THEN views \ {p.about} ELSE views \cup {p.about}

Delta(p) == CASE p.type = "spawn" -> 1 [] p.type = "despawn" -> -1 [] OTHER -> 0

\* SendPacketAsync has no timeout: a write, and whoever waits for the lock behind
\* it, lasts until the receiver reads.  Close closes the stream, which ends both.
\* Mutant: it only marks the session as closed.
MustEnd_IfRead(p) == p.to \notin Stalled
MustEnd(p) == p.to \notin Stalled \/ p.to \in closed

\* A task of s's handler ends: written, or dropped because the receiver is closed.
\* The first packets to a client that does not read still fit into buffers.
EndSend(s, p) ==
    /\ tasks' = [tasks EXCEPT ![s] = @ \ {p}]
    /\ IF p.to \in closed
       THEN UNCHANGED wire
       ELSE /\ shown' = [shown EXCEPT ![p.to] = HandlePacket(@, p)]
            /\ sent' = [sent EXCEPT ![p.to][p.about] = @ + Delta(p)]
    /\ UNCHANGED <<world, vis, pc, lists, alone>>

SendPacket(s) == \E p \in tasks[s] : EndSend(s, p)

-----------------------------------------------------------------------------
(***************************************************************************)
(* Leaving.                                                                *)
(***************************************************************************)

\* The connection ends: a timeout, a rate limit, the peer, or an error.
Close(s) ==
    /\ s \notin closed
    /\ closed' = closed \cup {s}
    /\ shown' = [shown EXCEPT ![s] = {}]
    /\ sent' = [sent EXCEPT ![s] = [t \in Sessions |-> 0]]
    /\ UNCHANGED <<player, pos, online, vis, pc, lists, tasks, alone>>

\* RunAsync leaves its loop; BroadcastPlayerDespawnAsync starts.
BeginLeave(s) ==
    /\ pc[s] = "idle" /\ s \in closed
    /\ tasks' = [tasks EXCEPT ![s] =
                    {DespawnPacket(o, s) : o \in GetObserversSeeingPlayer(s) \cap online}]
    /\ Goto(s, "leaving")
    /\ StartsAlone(s)
    /\ UNCHANGED <<world, vis, lists, wire>>

UnregisterPlayer(s) ==
    /\ pc[s] = "leaving" /\ tasks[s] = {}
    /\ vis' = [o \in Sessions |-> IF o = s THEN {} ELSE vis[o] \ {s}]
    /\ Goto(s, "unregistered")
    /\ UNCHANGED <<world, lists, tasks, wire, alone>>

RemovePlayer(s) ==
    /\ pc[s] = "unregistered"
    /\ player' = player \ {s}
    /\ Goto(s, "removed")
    /\ UNCHANGED <<pos, online, closed, vis, lists, tasks, wire, alone>>

RemoveSession(s) ==
    /\ pc[s] = "removed"
    /\ online' = online \ {s}
    /\ Goto(s, "gone")
    /\ UNCHANGED <<player, pos, closed, vis, lists, tasks, wire, alone>>

\* The steps of a handler that runs.
Run(s) ==
    \/ Look(s) \/ RefreshVisiblePlayers(s)
    \/ SendSpawn(s) \/ SpawnsSent(s) \/ SendDespawn(s) \/ DespawnsSent(s)
    \/ TellNear(s) \/ NearTold(s) \/ ForgetFar(s) \/ FarForgotten(s) \/ HandlerEnds(s)
    \/ BeginLeave(s) \/ UnregisterPlayer(s) \/ RemovePlayer(s) \/ RemoveSession(s)

Next ==
    \E s \in Sessions :
        \/ \E p \in Positions : Join(s, p) \/ Move(s, p)
        \/ Close(s)
        \/ Run(s)
        \/ SendPacket(s)

Spec == Init /\ [][Next]_vars

\* A started handler runs on, and what must end ends; nobody has to move or to close.
FairSpec ==
    /\ Spec
    /\ \A s \in Sessions :
          WF_vars(Run(s)) /\ WF_vars(\E p \in tasks[s] : MustEnd(p) /\ EndSend(s, p))

-----------------------------------------------------------------------------
(***************************************************************************)
(* Properties.                                                             *)
(***************************************************************************)
Leaving == {"leaving", "unregistered", "removed", "gone"}

TypeOK ==
    /\ player \subseteq Sessions /\ online \subseteq Sessions /\ closed \subseteq Sessions
    /\ pos \in [Sessions -> Positions]
    /\ pc \in [Sessions -> {"out", "idle", "look", "refresh", "spawn", "despawn", "tell",
                            "forget", "end"} \cup Leaving]
    /\ {vis, nearby, toSpawn, toDespawn, todo, shown} \subseteq [Sessions -> SUBSET Sessions]
    /\ moved \in [Sessions -> BOOLEAN] /\ alone \in [Sessions -> BOOLEAN]
    /\ tasks \in [Sessions -> SUBSET Packet]
    /\ sent \in [Sessions -> [Sessions -> Int]]

\* Spawns minus despawns that handlers have still to write to o about t.
Pending(o, t) ==
      Cardinality({s \in Sessions : SpawnPacket(o, t) \in tasks[s]})
    - Cardinality({s \in Sessions : DespawnPacket(o, t) \in tasks[s]})
    + Cardinality({s \in {o} : t \in toSpawn[s]})
    - Cardinality({s \in {o} : t \in toDespawn[s]})

\* Whatever the handlers interleave, an open session has been or will be sent
\* one more spawn than despawns of a player that stays exactly when its table
\* holds that player: Refresh in the session's handler and Add and Remove in
\* the other player's never announce a change twice or lose one
\* (GameServer.cs:301-316, 334-361).
PacketsBalanceTables ==
    TypeOK /\ \A o, t \in Sessions : o \notin closed /\ pc[t] \notin Leaving =>
        sent[o][t] + Pending(o, t) = IF t \in vis[o] THEN 1 ELSE 0

\* An update that no other handler overlaps repairs the tables about its player
\* in both directions, whatever earlier interleavings left in them: it sees
\* exactly the players near it, and exactly they see it (GameServer.cs:287-368).
UndisturbedUpdateRepairs ==
    \A s \in Sessions : alone[s] /\ pc[s] = "idle" =>
        /\ vis[s] = GetNearbyPlayerSessionIds(s)
        /\ \A t \in player \ {s} : s \in vis[t] <=> t \in vis[s]

\* A handler that waits for an open session whose client does not read.
HeldUp(s) == \E p \in tasks[s] : p.to \in Stalled \ closed

\* A player whose session is closed, in whatever it does, leaves the world and
\* the server, or is held up for ever by a client that does not read; no other
\* handler, and no session that closes meanwhile, keeps it (GameServer.cs:278,
\* 668, ClientSession.cs:594-617, 625-661).
ClosedSessionLeaves ==
    \A s \in Sessions : s \in closed /\ pc[s] # "out" ~> pc[s] = "gone" \/ []HeldUp(s)
=============================================================================
