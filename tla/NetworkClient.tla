---------------------------- MODULE NetworkClient ----------------------------
(***************************************************************************)
(* The game client's network layer, used by several threads at once: the   *)
(* connection and its flags, sending, the thread that receives, what the   *)
(* packets make the client show, and Stop.  Every step of a method is an   *)
(* action of the thread that calls it; a lock is held within one step.     *)
(* The server's end of each connection is external: it answers requests,   *)
(* sends packets and closes when it likes.                                 *)
(***************************************************************************)
EXTENDS Integers, FiniteSets

CONSTANTS
    Tasks,          \* threads that a button started
    MaxSockets,     \* bound: handles, taken in order; 0 is INVALID_SOCKET
    Characters,
    MaxPackets      \* bound: packets besides answers and first snapshots

Sockets == 1 .. MaxSockets
Threads == {"main", "receiver"} \cup Tasks
ASSUME ClientAssumption ==
    /\ Tasks \cap {"main", "receiver"} = {} /\ MaxSockets \in Nat /\ 0 \notin Characters /\ MaxPackets \in Nat

VARIABLES
    net,        \* _socket, _connected, _receiveLoopRunning
    at,         \* where each thread is
    awaits,     \* the request a task waits for the answer of, or "none"
    on,         \* the socket its recv waits on, 0 for none
    got,        \* the packet it has received and not handled
    return,     \* where it goes on when Stop returns
    shown,      \* the snapshots
    peer,       \* the server's end of each socket
    packets,
    crashed     \* std::terminate

network == <<net, at, awaits, on, got, return, shown, peer, packets, crashed>>

Nothing == [type |-> "none", who |-> 0]
NobodyShown == [own |-> 0, bag |-> 0, remotes |-> {}, items |-> {}]
\* "told" is what the server has spawned and not despawned on a connection,
\* "hidden" whom it spawned while the client still took them for the player;
\* "stage" counts the login answer and the two snapshots after it.
Unused == [line |-> "unused", asks |-> "none", who |-> 0, stage |-> 0, told |-> {}, hidden |-> {}, items |-> {}]

NetworkInit ==
    /\ net = [socket |-> 0, connected |-> FALSE, running |-> FALSE]
    /\ at = [t \in Threads |-> IF t = "main" THEN "start" ELSE IF t = "receiver" THEN "none" ELSE "idle"]
    /\ awaits = [t \in Threads |-> "none"] /\ on = [t \in Threads |-> 0]
    /\ got = [t \in Threads |-> Nothing] /\ return = [t \in Threads |-> "none"]
    /\ shown = NobodyShown /\ peer = [s \in Sockets |-> Unused]
    /\ packets = 0 /\ crashed = FALSE

Goes(t, place) == at' = [at EXCEPT ![t] = place]

-----------------------------------------------------------------------------
(* Connecting and sending. *)

\* What CloseSocket makes of the connections: the one at hand is gone.
Closed(peers) == IF net.socket = 0 THEN peers ELSE [peers EXCEPT ![net.socket] = [Unused EXCEPT !.line = "gone"]]

\* Connect's end: the new socket takes the place of whatever was there.
Connects(s) ==
    /\ peer[s].line = "unused" /\ \A r \in 1 .. s - 1 : peer[r].line # "unused"
    /\ peer' = [peer EXCEPT ![s] = [Unused EXCEPT !.line = "up"]]
    /\ net' = [net EXCEPT !.socket = s, !.connected = TRUE]

\* SendPacket sends nothing without a connection; a send that fails closes
\* it; one to a server that has closed may still be taken.
CanSend == net.connected /\ net.socket # 0
SendFails ==
    /\ CanSend /\ peer[net.socket].line # "up"
    /\ net' = [net EXCEPT !.connected = FALSE, !.socket = 0] /\ peer' = Closed(peer)

\* A packet whose answer nobody waits for: a move, a pickup, a drop, a pong.
SendPacket == SendFails \/ UNCHANGED <<net, peer>>

\* Login and Register: the request, and what the caller waits for.
Requests(t, request) ==
    /\ at[t] = "request"
    /\ \/ SendFails /\ Goes(t, "lost") /\ awaits' = awaits
       \/ /\ CanSend /\ Goes(t, "loop") /\ awaits' = [awaits EXCEPT ![t] = request] /\ net' = net
          /\ peer' = IF peer[net.socket].line = "up" THEN [peer EXCEPT ![net.socket].asks = request] ELSE peer
       \/ ~CanSend /\ Goes(t, "lost") /\ UNCHANGED <<awaits, net, peer>>
    /\ UNCHANGED <<on, got, return, shown, packets, crashed>>

-----------------------------------------------------------------------------
(* Receiving. *)

\* Login, Register and ReceiveLoop, after a packet they do not wait for.
Loop(t) ==
    /\ at[t] = "loop"
    /\ Goes(t, IF net.connected /\ (t = "receiver" => net.running) THEN "recv" ELSE "lost")
    /\ UNCHANGED <<net, awaits, on, got, return, shown, peer, packets, crashed>>

\* ReceiveAll takes the socket there is now.
Recv(t) ==
    /\ at[t] = "recv"
    /\ IF net.socket = 0 THEN Goes(t, "lost") /\ net' = [net EXCEPT !.connected = FALSE] /\ on' = on
                         ELSE Goes(t, "blocked") /\ net' = net /\ on' = [on EXCEPT ![t] = net.socket]
    /\ UNCHANGED <<awaits, got, return, shown, peer, packets, crashed>>

\* The socket was closed, here or there.
RecvFails(t) ==
    /\ at[t] = "blocked" /\ peer[on[t]].line # "up"
    /\ Goes(t, "lost") /\ on' = [on EXCEPT ![t] = 0] /\ net' = [net EXCEPT !.connected = FALSE]
    /\ UNCHANGED <<awaits, got, return, shown, peer, packets, crashed>>

Responses(request) ==
    CASE request = "login" -> {"login accepted", "login refused"}
      [] request = "register" -> {"register accepted", "register refused"}
      [] OTHER -> {}

\* What the server may send, and its end of the connection afterwards.
Answers(p) ==
    IF p.asks = "register"
    THEN {[packet |-> [type |-> type, who |-> 0], peer |-> [p EXCEPT !.asks = "none"]] : type \in Responses("register")}
    ELSE {[packet |-> [type |-> "login refused", who |-> 0], peer |-> [p EXCEPT !.asks = "none"]]}
         \cup {[packet |-> [type |-> "login accepted", who |-> c],
                peer |-> [p EXCEPT !.asks = "none", !.who = c, !.stage = 1]] : c \in Characters}
Snapshots(p) ==
    {[packet |-> [type |-> IF p.stage = 1 THEN "state" ELSE "inventory", who |-> p.who],
      peer |-> [p EXCEPT !.stage = @ + 1]]}
Sights(p) ==
    {[packet |-> [type |-> "spawn", who |-> c],
      peer |-> [p EXCEPT !.told = @ \cup {c}, !.hidden = IF c = shown.own THEN @ \cup {c} ELSE @]] :
        c \in Characters \ (p.told \cup {p.who})}
    \cup {[packet |-> [type |-> "moved", who |-> c], peer |-> p] : c \in p.told}
    \cup {[packet |-> [type |-> "despawn", who |-> c], peer |-> [p EXCEPT !.told = @ \ {c}]] : c \in p.told}
    \cup IF p.items = {} THEN {[packet |-> [type |-> "item spawn", who |-> 0], peer |-> [p EXCEPT !.items = {"item"}]]}
         ELSE {[packet |-> [type |-> type, who |-> 0], peer |-> [p EXCEPT !.items = {}]] :
                  type \in {"item despawn", "picked up"}}
AnyTime(p) == {[packet |-> [type |-> type, who |-> 0], peer |-> p] : type \in {"ping", "kick", "text"}}

Deliver(t) ==
    /\ at[t] = "blocked" /\ peer[on[t]].line = "up"
    /\ LET p == peer[on[t]]
           free == AnyTime(p) \cup IF p.stage > 0 THEN Sights(p) ELSE {}
           due == (IF p.asks # "none" THEN Answers(p) ELSE {}) \cup (IF p.stage \in {1, 2} THEN Snapshots(p) ELSE {})
       IN  \E sent \in due \cup IF packets < MaxPackets THEN free ELSE {} :
               /\ got' = [got EXCEPT ![t] = sent.packet] /\ peer' = [peer EXCEPT ![on[t]] = sent.peer]
               /\ packets' = IF sent \in due THEN packets ELSE packets + 1
    /\ Goes(t, "handle") /\ on' = [on EXCEPT ![t] = 0]
    /\ UNCHANGED <<net, awaits, return, shown, crashed>>

\* Mutant: the player's own state empties the table of the others.
BecomesOwn_Alone(v, c) == [v EXCEPT !.own = c, !.remotes = {}]
BecomesOwn(v, c) == [v EXCEPT !.own = c, !.remotes = @ \ {c}]

\* What a packet makes of the snapshots: one's own character is never among
\* the others, as far as the client knows it.
Shows(v, m) ==
    CASE m.type = "state" -> BecomesOwn(v, m.who)
      [] m.type = "inventory" -> [v EXCEPT !.bag = m.who]
      [] m.type \in {"spawn", "moved"} -> IF v.own = m.who THEN v ELSE [v EXCEPT !.remotes = @ \cup {m.who}]
      [] m.type = "despawn" -> [v EXCEPT !.remotes = @ \ {m.who}]
      [] m.type = "item spawn" -> [v EXCEPT !.items = {"item"}]
      [] m.type \in {"item despawn", "picked up"} -> [v EXCEPT !.items = {}]
      [] OTHER -> v

\* A packet that Login or Register waits for ends the waiting.
HandlePacket(t) ==
    /\ at[t] = "handle" /\ got[t].type \notin Responses(awaits[t])
    /\ shown' = Shows(shown, got[t]) /\ got' = [got EXCEPT ![t] = Nothing]
    /\ IF got[t].type = "kick" THEN Goes(t, "flags") /\ return' = [return EXCEPT ![t] = "loop"]
                               ELSE Goes(t, "loop") /\ return' = return
    /\ IF got[t].type = "ping" THEN SendPacket ELSE UNCHANGED <<net, peer>>
    /\ UNCHANGED <<awaits, on, packets, crashed>>

\* Closing at the server's end.
PeerEnds(s) ==
    /\ peer[s].line = "up" /\ peer' = [peer EXCEPT ![s] = [Unused EXCEPT !.line = "ended"]]
    /\ UNCHANGED <<net, at, awaits, on, got, return, shown, packets, crashed>>

\* StartReceiveLoop: a thread that was not joined cannot be replaced.
StartReceiveLoop(t, place) ==
    /\ IF ~net.connected \/ net.running THEN Goes(t, place) /\ UNCHANGED <<net, crashed>>
       ELSE /\ net' = [net EXCEPT !.running = TRUE]
            /\ IF at["receiver"] = "none"
               THEN at' = [at EXCEPT ![t] = place, !["receiver"] = "loop"] /\ UNCHANGED crashed
               ELSE crashed' = TRUE /\ at' = at
    /\ UNCHANGED <<awaits, on, got, return, shown, peer, packets>>

\* The end of ReceiveLoop.
ReceiveLoopEnds ==
    /\ \/ at["receiver"] = "lost" /\ Goes("receiver", "ending") /\ net' = [net EXCEPT !.connected = FALSE]
       \/ at["receiver"] = "ending" /\ Goes("receiver", "done") /\ net' = [net EXCEPT !.running = FALSE]
    /\ UNCHANGED <<awaits, on, got, return, shown, peer, packets, crashed>>

-----------------------------------------------------------------------------
(* Stop: flags, CloseSocket, join, clear; then back to where it was called. *)

\* Mutants: the snapshots are cleared first, the thread is joined first, or
\* not at all.
StopStep_ClearFirst(place, back) ==
    CASE place = "flags" -> "clear" [] place = "clear" -> "close" [] place = "close" -> "join" [] OTHER -> back
StopStep_JoinFirst(place, back) ==
    CASE place = "flags" -> "join" [] place = "join" -> "close" [] place = "close" -> "clear" [] OTHER -> back
StopStep_NoJoin(place, back) ==
    CASE place = "flags" -> "close" [] place = "close" -> "clear" [] OTHER -> back
StopStep(place, back) ==
    CASE place = "flags" -> "close" [] place = "close" -> "join" [] place = "join" -> "clear" [] OTHER -> back

Cleared(v) == [v EXCEPT !.remotes = {}, !.items = {}]

InStop(t) == at[t] \in {"flags", "close", "join", "clear"}

Stop(t) ==
    /\ InStop(t) /\ Goes(t, StopStep(at[t], return[t]))
    /\ net' = CASE at[t] = "flags" -> [net EXCEPT !.running = FALSE, !.connected = FALSE]
                [] at[t] = "close" -> [net EXCEPT !.socket = 0]
                [] OTHER -> net
    /\ peer' = IF at[t] = "close" THEN Closed(peer) ELSE peer
    /\ shown' = IF at[t] = "clear" THEN Cleared(shown) ELSE shown
    /\ (at[t] = "join" /\ t # "receiver") => at["receiver"] = "none"
    /\ UNCHANGED <<awaits, on, got, return, packets, crashed>>

\* join() returns when the thread has ended; a thread does not join itself.
\* Two threads joining at once is undefined: one may be told of an error.
Join(t) ==
    /\ at[t] = "join" /\ t # "receiver" /\ at["receiver"] = "done"
    /\ \/ at' = [at EXCEPT !["receiver"] = "none"] /\ UNCHANGED crashed
       \/ (\E u \in Threads \ {t, "receiver"} : at[u] = "join") /\ crashed' = TRUE /\ UNCHANGED at
    /\ UNCHANGED <<net, awaits, on, got, return, shown, peer, packets>>

Receives(t) == Loop(t) \/ Recv(t) \/ RecvFails(t) \/ Deliver(t) \/ HandlePacket(t)
==============================================================================
