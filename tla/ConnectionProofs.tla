-------------------------- MODULE ConnectionProofs --------------------------
(***************************************************************************)
(* Both ends of a connection.  First GameClient: for any number of         *)
(* characters, logins, buttons pressed and frames, the snapshots follow    *)
(* the server, Stop clears the screen and the program ends clean.  Then    *)
(* PacketFraming: for any senders, lengths and buffers, packets arrive     *)
(* whole and in the order of the send lock.                                *)
(***************************************************************************)
EXTENDS GameClient, PacketFraming, SequenceTheorems, TLAPS

-----------------------------------------------------------------------------
(***************************************************************************)
(* GameClient: the inductive invariant.  Strong relates the threads, the   *)
(* flags, the sockets and what the server has said on them; it holds until *)
(* one of the mishaps, the rest of Inv always.                             *)
(***************************************************************************)
MainPlaces ==
    {"start", "device", "pump", "notice", "screen", "flags", "close", "join", "clear",
     "forget", "destroy", "reset", "ended"}
TaskPlaces ==
    {"idle", "connect", "request", "loop", "recv", "blocked", "handle", "lost", "free", "start",
     "flags", "close", "join", "clear"}
ReceiverPlaces ==
    {"none", "loop", "recv", "blocked", "handle", "lost", "ending", "done", "flags", "close", "join", "clear"}
Asks == {"none", "login", "register"}
Peers ==
    [line : {"unused", "up", "ended", "gone"}, asks : Asks, who : {0} \cup Characters, stage : 0 .. 3,
     told : SUBSET Characters, hidden : SUBSET Characters, items : SUBSET {"item"}]

\* Every thread is at a place of its own kind, and Stop returns to one.
PlacesType ==
    /\ DOMAIN at = Threads /\ DOMAIN return = Threads
    /\ at["main"] \in MainPlaces /\ at["receiver"] \in ReceiverPlaces
    /\ \A t \in Tasks : at[t] \in TaskPlaces
    /\ \A t \in Tasks : InStop(t) => return[t] \in {"idle", "loop"}
    /\ InStop("receiver") => return["receiver"] = "loop"
    /\ InStop("main") => return["main"] \in {"forget", "destroy", "reset"}
WaitingType ==
    /\ DOMAIN awaits = Threads /\ \A t \in Threads : awaits[t] \in Asks
    /\ DOMAIN on = Threads /\ \A t \in Threads : at[t] = "blocked" => on[t] \in Sockets
    /\ DOMAIN got = Threads
IsView(v) == DOMAIN v = {"own", "bag", "remotes", "items"}
NetType ==
    /\ net \in [socket : {0} \cup Sockets, connected : BOOLEAN, running : BOOLEAN]
    /\ peer \in [Sockets -> Peers]
    /\ IsView(shown)
TypeInv == PlacesType /\ WaitingType /\ NetType

Up(s) == peer[s].line = "up"
Alive == at["receiver"] \notin {"none", "done"}
Forgetting == at["main"] = "forget" \/ (InStop("main") /\ return["main"] = "forget")

\* One button's thread at a time, and while it is at work the thread that
\* receives is not.
Alone == \A t, u \in Tasks : at[t] # "idle" /\ at[u] # "idle" => t = u
Rests == \A t \in Tasks : at[t] \notin {"idle", "connect"} => ~Alive

\* One thread reads from the server: so it is until a mishap, which is as far
\* as the behaviours of this model go.
OneReader ==
    \A t, u \in Threads \ {"main"} :
        at[t] \in {"recv", "blocked", "handle"} /\ at[u] \in {"recv", "blocked", "handle"} => t = u

\* A thread that receives on a connection belongs to a login.
Reads ==
    /\ \A t \in Tasks : at[t] = "connect" /\ Alive => ~net.connected
    /\ Alive /\ net.connected => authenticated /\ net.running

\* Who is logged in, or is logging out, has no button to press.
Login ==
    /\ authenticated \/ Forgetting => \A t \in Tasks : at[t] \in {"idle", "free", "start"}
    /\ \A t \in Tasks : at[t] \in {"free", "start"} /\ net.connected => authenticated

\* Where a thread has found or made the end of the connection there is none.
Cut == \A t \in Threads : at[t] \in {"close", "join", "clear", "lost", "ending"} => ~net.connected

\* How far Stop has come on the main thread, and what is left after it.
Stopped ==
    /\ at["main"] \in {"forget", "destroy", "reset"} \/ (at["main"] = "flags" /\ return["main"] = "reset")
           => ~net.connected
    /\ at["main"] \in {"join", "clear", "forget", "destroy", "reset"}
           \/ (at["main"] \in {"flags", "close"} /\ return["main"] = "reset") => net.socket = 0
    /\ at["main"] \in {"clear", "forget", "destroy", "reset"} \/ (InStop("main") /\ return["main"] = "reset")
           => at["receiver"] = "none"
    /\ at["main"] = "destroy" => return["main"] = "destroy"
    /\ at["main"] = "reset" => return["main"] = "reset"

\* Before the first frame there is no connection and no button.
Before ==
    at["main"] \in {"start", "device"} =>
        /\ net.socket = 0 /\ at["receiver"] = "none" /\ drawer = NoScene
        /\ \A t \in Tasks : at[t] = "idle"
        /\ at["main"] = "start" => gpu = NoGpu

\* Only the socket at hand is open; one without a connection is being closed.
Line ==
    /\ \A s \in Sockets : Up(s) => s = net.socket
    /\ net.connected => net.socket # 0
    /\ net.socket # 0 /\ Up(net.socket) /\ ~net.connected => \E t \in Threads : at[t] = "close"
    /\ \A t \in Threads : at[t] = "blocked" /\ net.socket # 0 => on[t] = net.socket

\* What the server has said on an open connection while a button's thread is
\* at work: nothing of the world before the login's answer.
Fresh(p, n) == p.stage = n /\ p.told = {} /\ p.items = {}
Asking(t) ==
    at[t] \in {"request", "loop", "recv", "blocked", "handle"} \/ (InStop(t) /\ return[t] = "loop")
Accepted(t) == at[t] = "handle" /\ got[t].type = "login accepted"
Answered(t) == at[t] = "handle" /\ got[t].type \in Responses(awaits[t])
Served(t) ==
    /\ at[t] = "connect" \/ Asking(t) => awaits[t] \in {"login", "register"}
    /\ at[t] = "handle" => got[t].type \in {"ping", "kick", "text"} \cup Responses(awaits[t])
    /\ Asking(t) /\ ~Accepted(t) =>
           \A s \in Sockets : Up(s) => Fresh(peer[s], 0) /\ peer[s].asks \in {"none", awaits[t]}
    /\ Accepted(t) \/ at[t] \in {"free", "start"} => \A s \in Sockets : Up(s) => Fresh(peer[s], 1)
    /\ Answered(t) \/ at[t] \in {"request", "free", "start"} =>
           \A s \in Sockets : Up(s) => peer[s].asks = "none"
Serving == \A t \in Tasks : Served(t)
Asked ==
    net.connected => \A s \in Sockets : Up(s) =>
        /\ peer[s].asks # "none" => \E t \in Tasks : Asking(t) /\ at[t] # "request"
        /\ peer[s].stage # 0 => authenticated \/ \E t \in Tasks : Accepted(t)
        /\ peer[s].stage = 0 => Fresh(peer[s], 0)

\* Somebody else is shown only while the thread that receives has not been
\* joined, or by then a Stop is about to clear.
Tidy ==
    shown.remotes # {} \/ shown.items # {} =>
        at["receiver"] # "none" \/ \E t \in Threads : at[t] \in {"join", "clear"}

\* What is shown, or will be once the packet at hand is handled, is what the
\* server has told.
Mirror(v, p) ==
    /\ v.items = p.items /\ v.remotes \subseteq p.told /\ p.told \ v.remotes \subseteq p.hidden
    /\ p.who \notin p.told
    /\ p.stage > 1 => v.own = p.who
    /\ p.stage > 2 => v.bag = p.who
Following ==
    net.connected => \A s \in Sockets : Up(s) =>
        /\ at["receiver"] \in {"loop", "recv", "blocked"} => Mirror(shown, peer[s])
        /\ at["receiver"] = "handle" => Mirror(Shows(shown, got["receiver"]), peer[s])

Strong ==
    /\ Alone /\ Rests /\ Reads /\ Login /\ Cut /\ Stopped /\ Before /\ Line
    /\ Serving /\ Asked /\ Tidy /\ Following

-----------------------------------------------------------------------------
(***************************************************************************)
(* GameClient: steps that several actions have in common.                  *)
(***************************************************************************)
\* The threads of the client: the window's, the one that receives, and those of
\* the buttons (NetworkClient.cpp:290-304, main.cpp:520-656).
LEMMA ThreadKinds ==
  /\ "main" \in Threads /\ "receiver" \in Threads /\ "main" \notin Tasks /\ "receiver" \notin Tasks
  /\ Tasks \subseteq Threads /\ \A t \in Threads : t = "main" \/ t = "receiver" \/ t \in Tasks
BY ClientAssumption DEF Threads

\* A handle of 0 stands for INVALID_SOCKET (NetworkClient.cpp:14-26).
LEMMA SocketKinds == Sockets \subseteq Nat /\ 0 \notin Sockets
BY ClientAssumption DEF Sockets

\* A step moves one thread, and the others stay where they are.
LEMMA Moved ==
  ASSUME PlacesType, NEW t \in Threads, NEW place, Goes(t, place)
  PROVE  at'[t] = place /\ (\A u \in Threads : u # t => at'[u] = at[u]) /\ DOMAIN at' = Threads
BY DEF PlacesType, Goes

\* A send that fails closes the connection, and leaves none open
\* (NetworkClient.cpp:385-410, 444-468).
LEMMA HangsUp ==
  ASSUME NetType, Line, SendFails
  PROVE  /\ net.connected /\ ~net'.connected /\ net'.socket = 0
         /\ net' \in [socket : {0} \cup Sockets, connected : BOOLEAN, running : BOOLEAN] /\ peer' \in [Sockets -> Peers]
         /\ \A s \in Sockets : peer'[s].line # "up"
<1>1. net.connected /\ net.socket \in Sockets /\ peer[net.socket].line # "up"
  BY DEF SendFails, CanSend, NetType
<1>2. net' = [net EXCEPT !.connected = FALSE, !.socket = 0] /\ peer' = Closed(peer)
  BY DEF SendFails
<1>3. net' \in [socket : {0} \cup Sockets, connected : BOOLEAN, running : BOOLEAN] /\ ~net'.connected /\ net'.socket = 0
  BY <1>2 DEF NetType
<1>4. [Unused EXCEPT !.line = "gone"] \in Peers /\ [Unused EXCEPT !.line = "gone"].line = "gone"
  BY DEF Unused, Peers, Asks
<1>5. peer' \in [Sockets -> Peers]
  BY <1>1, <1>2, <1>4, SocketKinds DEF Closed, NetType
<1>6. \A s \in Sockets : peer'[s].line # "up"
  BY <1>1, <1>2, <1>4, SocketKinds DEF Closed, NetType, Line, Up
<1>. QED
  BY <1>1, <1>3, <1>5, <1>6

\* What a packet changes of the snapshots, field by field
\* (NetworkClient.cpp:635-816), and what Stop clears (NetworkClient.cpp:319-323).
LEMMA ShowsField ==
  ASSUME NEW v, IsView(v), NEW m
  PROVE  /\ IsView(Shows(v, m)) /\ IsView(Cleared(v))
         /\ Cleared(v).remotes = {} /\ Cleared(v).items = {}
         /\ Shows(v, m).own = IF m.type = "state" THEN m.who ELSE v.own
         /\ Shows(v, m).bag = IF m.type = "inventory" THEN m.who ELSE v.bag
         /\ Shows(v, m).remotes =
                IF m.type \in {"state", "despawn"} THEN v.remotes \ {m.who}
                ELSE IF m.type \in {"spawn", "moved"} /\ v.own # m.who THEN v.remotes \cup {m.who} ELSE v.remotes
         /\ Shows(v, m).items =
                IF m.type = "item spawn" THEN {"item"}
                ELSE IF m.type \in {"item despawn", "picked up"} THEN {} ELSE v.items
         /\ m.type \in {"ping", "kick", "text"} => Shows(v, m) = v
<1>1. CASE m.type = "state"
  BY <1>1 DEF Shows, BecomesOwn, Cleared, IsView
<1>2. CASE m.type = "inventory"
  BY <1>2 DEF Shows, Cleared, IsView
<1>3. CASE m.type \in {"spawn", "moved"}
  BY <1>3 DEF Shows, Cleared, IsView
<1>4. CASE m.type = "despawn"
  BY <1>4 DEF Shows, Cleared, IsView
<1>5. CASE m.type = "item spawn"
  BY <1>5 DEF Shows, Cleared, IsView
<1>6. CASE m.type \in {"item despawn", "picked up"}
  BY <1>6 DEF Shows, Cleared, IsView
<1>7. CASE m.type \notin {"state", "inventory", "spawn", "moved", "despawn", "item spawn", "item despawn", "picked up"}
  BY <1>7 DEF Shows, Cleared, IsView
<1>. QED
  BY <1>1, <1>2, <1>3, <1>4, <1>5, <1>6, <1>7

\* A task is served as before where nothing of it changes but the ends of
\* connections, and where it goes on asking.
LEMMA SameServed ==
  ASSUME NEW u \in Tasks, Served(u), at'[u] = at[u], awaits'[u] = awaits[u], got'[u] = got[u],
         return'[u] = return[u],
         \A s \in Sockets : peer'[s].line = "up" => peer'[s] = peer[s]
  PROVE  Served(u)'
BY DEF Served, Up, Fresh, Asking, Accepted, Answered, InStop

\* A button's thread that leaves the connection, or only goes on asking on it,
\* asks for nothing else there.
LEMMA LeftServed ==
  ASSUME NEW u \in Tasks, Served(u), awaits'[u] = awaits[u],
         at'[u] \notin {"connect", "request", "handle", "free", "start"},
         Asking(u)' => Asking(u) /\ ~Accepted(u),
         \A s \in Sockets : peer'[s].line = "up" => peer'[s] = peer[s]
  PROVE  Served(u)'
<1>1. ~Accepted(u)' /\ ~Answered(u)'
  BY DEF Accepted, Answered
<1>2. Asking(u)' => awaits'[u] \in {"login", "register"}
         /\ \A s \in Sockets : peer'[s].line = "up" =>
                Fresh(peer'[s], 0) /\ peer'[s].asks \in {"none", awaits'[u]}
  BY DEF Served, Up, Fresh
<1>. QED
  BY <1>1, <1>2 DEF Served, Up, Fresh

\* A turn of the receiving loop reads the flags (NetworkClient.cpp:494-520).
LEMMA LoopKeeps ==
  ASSUME TypeInv, Strong, NEW t \in Tasks \cup {"receiver"}, Loop(t), UNCHANGED others
  PROVE  TypeInv' /\ Strong'
<1>. USE ThreadKinds
<1>1. UNCHANGED <<net, awaits, on, got, return, shown, peer, gpu, drawer, authenticated>>
  BY DEF Loop, others, mains
<1>2. at[t] = "loop" /\ (\A u \in Threads : u # t => at'[u] = at[u]) /\ DOMAIN at' = Threads
  BY Moved DEF Loop, TypeInv
<1>3. at'[t] = "recv" \/ (at'[t] = "lost" /\ ~net.connected)
  BY Moved DEF Loop, TypeInv, Strong, Reads, Alive
<1>10. PlacesType'
  BY <1>1, <1>2, <1>3 DEF TypeInv, PlacesType, InStop, MainPlaces, TaskPlaces, ReceiverPlaces
<1>11. WaitingType'
  BY <1>1, <1>2, <1>3 DEF TypeInv, PlacesType, WaitingType, Asks
<1>12. NetType'
  BY <1>1, <1>2, <1>3 DEF TypeInv, NetType
<1>13. Alone'
  BY <1>1, <1>2, <1>3 DEF Strong, Alone
<1>14. Rests'
  BY <1>1, <1>2, <1>3 DEF Strong, Rests, Alive
<1>15. Reads'
  BY <1>1, <1>2, <1>3 DEF Strong, Reads, Alive, TypeInv, NetType
<1>16. Login'
  BY <1>1, <1>2, <1>3 DEF Strong, Login, Forgetting, InStop, TypeInv, PlacesType
<1>17. Cut'
  BY <1>1, <1>2, <1>3 DEF Strong, Cut, TypeInv, PlacesType, NetType
<1>18. Stopped'
  BY <1>1, <1>2, <1>3 DEF Strong, Stopped, InStop, TypeInv, PlacesType, NetType
<1>19. Before'
  BY <1>1, <1>2, <1>3 DEF Strong, Before, TypeInv, PlacesType, NetType
<1>20. Line'
  BY <1>1, <1>2, <1>3 DEF Strong, Line, Up, TypeInv, NetType
<1>21. Asked'
  BY <1>1, <1>2, <1>3 DEF Strong, Asked, Up, Asking, Accepted, InStop, TypeInv, NetType
<1>22. Serving'
  <2>. SUFFICES ASSUME NEW u \in Tasks PROVE Served(u)'
    BY DEF Serving
  <2>1. CASE u = t
    BY <1>1, <1>2, <1>3, <2>1 DEF Strong, Serving, Served, Up, Fresh, Asking, Accepted, Answered, InStop
  <2>2. CASE u # t /\ t \in Tasks
    <3>1. at'[u] = "idle"
      BY <1>1, <1>2, <1>3, <2>2 DEF Strong, Alone
    <3>. QED
      BY <3>1 DEF Served, Asking, Accepted, Answered, InStop
  <2>3. CASE t = "receiver"
    <3>1. at'[u] \in {"idle", "connect"} /\ at'[u] = at[u]
      BY <1>1, <1>2, <1>3, <2>3 DEF Strong, Rests, Alive
    <3>. QED
      BY <1>1, <1>2, <1>3, <3>1 DEF Strong, Serving, Served, Asking, Accepted, Answered, InStop
  <2>. QED
    BY <2>1, <2>2, <2>3
<1>23. Tidy'
  BY <1>1, <1>2, <1>3 DEF Strong, Tidy, TypeInv, PlacesType
<1>24. Following'
  BY <1>1, <1>2, <1>3 DEF Strong, Following, Up, TypeInv, NetType
<1>. QED
  BY <1>10, <1>11, <1>12, <1>13, <1>14, <1>15, <1>16, <1>17, <1>18, <1>19, <1>20, <1>21, <1>22, <1>23,
     <1>24 DEF TypeInv, Strong

\* Where a packet is to be received, the socket is looked up
\* (NetworkClient.cpp:412-492).
LEMMA RecvKeeps ==
  ASSUME TypeInv, Strong, NEW t \in Tasks \cup {"receiver"}, Recv(t), UNCHANGED others
  PROVE  TypeInv' /\ Strong'
<1>. USE ThreadKinds
<1>1. UNCHANGED <<awaits, got, return, shown, peer, gpu, drawer, authenticated>>
  BY DEF Recv, others, mains
<1>2. at[t] = "recv" /\ (\A u \in Threads : u # t => at'[u] = at[u]) /\ DOMAIN at' = Threads
  BY Moved DEF Recv, TypeInv
<1>3. (net' = [net EXCEPT !.connected = FALSE] /\ net.socket = 0) \/ net' = net
  BY DEF Recv
<1>4. /\ DOMAIN on' = Threads /\ (\A u \in Threads : u # t => on'[u] = on[u])
     /\ \/ at'[t] = "lost" /\ ~net'.connected
        \/ at'[t] = "blocked" /\ on'[t] = net.socket /\ net.socket \in Sockets
  BY Moved DEF Recv, TypeInv, WaitingType, NetType
<1>10. PlacesType'
  BY <1>1, <1>2, <1>3, <1>4 DEF TypeInv, PlacesType, InStop, MainPlaces, TaskPlaces, ReceiverPlaces
<1>11. WaitingType'
  BY <1>1, <1>2, <1>3, <1>4 DEF TypeInv, PlacesType, WaitingType, Asks
<1>12. NetType'
  BY <1>1, <1>2, <1>3, <1>4 DEF TypeInv, NetType
<1>13. Alone'
  BY <1>1, <1>2, <1>3, <1>4 DEF Strong, Alone
<1>14. Rests'
  BY <1>1, <1>2, <1>3, <1>4 DEF Strong, Rests, Alive
<1>15. Reads'
  BY <1>1, <1>2, <1>3, <1>4 DEF Strong, Reads, Alive, TypeInv, NetType
<1>16. Login'
  BY <1>1, <1>2, <1>3, <1>4 DEF Strong, Login, Forgetting, InStop, TypeInv, PlacesType, NetType
<1>17. Cut'
  BY <1>1, <1>2, <1>3, <1>4 DEF Strong, Cut, TypeInv, PlacesType, NetType
<1>18. Stopped'
  BY <1>1, <1>2, <1>3, <1>4 DEF Strong, Stopped, InStop, TypeInv, PlacesType, NetType
<1>19. Before'
  BY <1>1, <1>2, <1>3, <1>4 DEF Strong, Before, TypeInv, PlacesType, NetType
<1>20. Line'
  BY <1>1, <1>2, <1>3, <1>4 DEF Strong, Line, Up, TypeInv, NetType
<1>21. Asked'
  BY ZenonT(60), <1>1, <1>2, <1>3, <1>4 DEF Strong, Asked, Up, Asking, Accepted, InStop, TypeInv, NetType
<1>22. Serving'
  <2>. SUFFICES ASSUME NEW u \in Tasks PROVE Served(u)'
    BY DEF Serving
  <2>1. CASE u = t
    BY <1>1, <1>2, <1>3, <1>4, <2>1 DEF Strong, Serving, Served, Up, Fresh, Asking, Accepted, Answered,
       InStop
  <2>2. CASE u # t /\ t \in Tasks
    <3>1. at'[u] = "idle"
      BY <1>1, <1>2, <1>3, <1>4, <2>2 DEF Strong, Alone
    <3>. QED
      BY <3>1 DEF Served, Asking, Accepted, Answered, InStop
  <2>3. CASE t = "receiver"
    <3>1. at'[u] \in {"idle", "connect"} /\ at'[u] = at[u]
      BY <1>1, <1>2, <1>3, <1>4, <2>3 DEF Strong, Rests, Alive
    <3>. QED
      BY <1>1, <1>2, <1>3, <1>4, <3>1 DEF Strong, Serving, Served, Asking, Accepted, Answered, InStop
  <2>. QED
    BY <2>1, <2>2, <2>3
<1>23. Tidy'
  BY <1>1, <1>2, <1>3, <1>4 DEF Strong, Tidy, TypeInv, PlacesType
<1>24. Following'
  BY <1>1, <1>2, <1>3, <1>4 DEF Strong, Following, Up, TypeInv, NetType
<1>. QED
  BY <1>10, <1>11, <1>12, <1>13, <1>14, <1>15, <1>16, <1>17, <1>18, <1>19, <1>20, <1>21, <1>22, <1>23,
     <1>24 DEF TypeInv, Strong

\* A receive that ends with the connection leaves for "lost"
\* (NetworkClient.cpp:470-492).
LEMMA RecvFailsKeeps ==
  ASSUME TypeInv, Strong, NEW t \in Tasks \cup {"receiver"}, RecvFails(t), UNCHANGED others
  PROVE  TypeInv' /\ Strong'
<1>. USE ThreadKinds
<1>1. UNCHANGED <<awaits, got, return, shown, peer, gpu, drawer, authenticated>>
  BY DEF RecvFails, others, mains
<1>2. at[t] = "blocked" /\ (\A u \in Threads : u # t => at'[u] = at[u]) /\ at'[t] = "lost" /\ DOMAIN at' = Threads
  BY Moved DEF RecvFails, TypeInv
<1>3. /\ net' = [net EXCEPT !.connected = FALSE] /\ on' = [on EXCEPT ![t] = 0]
     /\ ~Up(on[t]) /\ on[t] \in Sockets
  BY <1>2 DEF RecvFails, TypeInv, WaitingType, Up
<1>10. PlacesType'
  BY <1>1, <1>2, <1>3 DEF TypeInv, PlacesType, InStop, MainPlaces, TaskPlaces, ReceiverPlaces
<1>11. WaitingType'
  BY <1>1, <1>2, <1>3 DEF TypeInv, PlacesType, WaitingType, Asks
<1>12. NetType'
  BY <1>1, <1>2, <1>3 DEF TypeInv, NetType
<1>13. Alone'
  BY <1>1, <1>2, <1>3 DEF Strong, Alone
<1>14. Rests'
  BY <1>1, <1>2, <1>3 DEF Strong, Rests, Alive
<1>15. Reads'
  BY <1>1, <1>2, <1>3 DEF Strong, Reads, Alive, TypeInv, NetType
<1>16. Login'
  BY <1>1, <1>2, <1>3 DEF Strong, Login, Forgetting, InStop, TypeInv, PlacesType
<1>17. Cut'
  BY <1>1, <1>2, <1>3 DEF Strong, Cut, TypeInv, PlacesType, NetType
<1>18. Stopped'
  BY <1>1, <1>2, <1>3 DEF Strong, Stopped, InStop, TypeInv, PlacesType, NetType
<1>19. Before'
  BY <1>1, <1>2, <1>3 DEF Strong, Before, TypeInv, PlacesType, NetType
<1>20. Line'
  BY <1>1, <1>2, <1>3 DEF Strong, Line, Up, TypeInv, NetType
<1>21. Asked'
  BY <1>1, <1>2, <1>3 DEF Strong, Asked, Up, Asking, Accepted, InStop, TypeInv, NetType
<1>22. Serving'
  <2>. SUFFICES ASSUME NEW u \in Tasks PROVE Served(u)'
    BY DEF Serving
  <2>1. CASE u = t
    BY <1>1, <1>2, <1>3, <2>1 DEF Strong, Serving, Served, Up, Fresh, Asking, Accepted, Answered, InStop
  <2>2. CASE u # t /\ t \in Tasks
    <3>1. at'[u] = "idle"
      BY <1>1, <1>2, <1>3, <2>2 DEF Strong, Alone
    <3>. QED
      BY <3>1 DEF Served, Asking, Accepted, Answered, InStop
  <2>3. CASE t = "receiver"
    <3>1. at'[u] \in {"idle", "connect"} /\ at'[u] = at[u]
      BY <1>1, <1>2, <1>3, <2>3 DEF Strong, Rests, Alive
    <3>. QED
      BY <1>1, <1>2, <1>3, <3>1 DEF Strong, Serving, Served, Asking, Accepted, Answered, InStop
  <2>. QED
    BY <2>1, <2>2, <2>3
<1>23. Tidy'
  BY <1>1, <1>2, <1>3 DEF Strong, Tidy, TypeInv, PlacesType
<1>24. Following'
  BY <1>1, <1>2, <1>3 DEF Strong, Following, Up, TypeInv, NetType
<1>. QED
  BY <1>10, <1>11, <1>12, <1>13, <1>14, <1>15, <1>16, <1>17, <1>18, <1>19, <1>20, <1>21, <1>22, <1>23,
     <1>24 DEF TypeInv, Strong

\* The thread that receives ends, and leaves the connection to others
\* (NetworkClient.cpp:494-520).
LEMMA EndingKeeps ==
  ASSUME TypeInv, Strong, ReceiveLoopEnds, UNCHANGED others
  PROVE  TypeInv' /\ Strong'
<1>. USE ThreadKinds
<1>1. UNCHANGED <<awaits, on, got, return, shown, peer, gpu, drawer, authenticated>>
  BY DEF ReceiveLoopEnds, others, mains
<1>2. (\A u \in Threads : u # "receiver" => at'[u] = at[u]) /\ DOMAIN at' = Threads
  BY Moved DEF ReceiveLoopEnds, TypeInv
<1>3. /\ ~net.connected
     /\ \/ at["receiver"] = "lost" /\ at'["receiver"] = "ending" /\ net' = [net EXCEPT !.connected = FALSE]
        \/ at["receiver"] = "ending" /\ at'["receiver"] = "done" /\ net' = [net EXCEPT !.running = FALSE]
  BY Moved DEF ReceiveLoopEnds, TypeInv, Strong, Cut
<1>4. at'["main"] = at["main"] /\ ~net'.connected
  BY <1>2, <1>3 DEF TypeInv, NetType
<1>10. PlacesType'
  BY <1>1, <1>2, <1>3, <1>4 DEF TypeInv, PlacesType, InStop, MainPlaces, TaskPlaces, ReceiverPlaces
<1>11. WaitingType'
  BY <1>1, <1>2, <1>3, <1>4 DEF TypeInv, PlacesType, WaitingType, Asks
<1>12. NetType'
  BY <1>1, <1>2, <1>3, <1>4 DEF TypeInv, NetType
<1>13. Alone'
  BY <1>1, <1>2, <1>3, <1>4 DEF Strong, Alone
<1>14. Rests'
  BY <1>1, <1>2, <1>3, <1>4 DEF Strong, Rests, Alive
<1>15. Reads'
  BY <1>1, <1>2, <1>3, <1>4 DEF Strong, Reads, Alive, TypeInv, NetType
<1>16. Login'
  BY <1>1, <1>2, <1>3, <1>4 DEF Strong, Login, Forgetting, InStop
<1>17. Cut'
  BY <1>1, <1>2, <1>3, <1>4 DEF Strong, Cut, TypeInv, PlacesType, NetType
<1>18. Stopped'
  BY <1>1, <1>2, <1>3, <1>4 DEF Strong, Stopped, InStop, TypeInv, PlacesType, NetType
<1>19. Before'
  BY <1>1, <1>2, <1>3, <1>4 DEF Strong, Before, TypeInv, PlacesType, NetType
<1>20. Line'
  BY <1>1, <1>2, <1>3, <1>4 DEF Strong, Line, Up, TypeInv, NetType
<1>21. Asked'
  BY <1>1, <1>2, <1>3, <1>4 DEF Strong, Asked, Up, Asking, Accepted, InStop, TypeInv, NetType
<1>22. Serving'
  <2>. SUFFICES ASSUME NEW u \in Tasks PROVE Served(u)'
    BY DEF Serving
  <2>. QED
    BY <1>1, <1>2, <1>3, <1>4 DEF Strong, Serving, Served, Up, Fresh, Asking, Accepted, Answered, InStop
<1>23. Tidy'
  BY <1>1, <1>2, <1>3, <1>4 DEF Strong, Tidy, TypeInv, PlacesType
<1>24. Following'
  BY <1>1, <1>2, <1>3, <1>4 DEF Strong, Following, Up, TypeInv, NetType
<1>. QED
  BY <1>10, <1>11, <1>12, <1>13, <1>14, <1>15, <1>16, <1>17, <1>18, <1>19, <1>20, <1>21, <1>22, <1>23,
     <1>24 DEF TypeInv, Strong

\* The server may close a connection at any time.
LEMMA PeerEndsKeeps ==
  ASSUME TypeInv, Strong, NEW s \in Sockets, PeerEnds(s), UNCHANGED others
  PROVE  TypeInv' /\ Strong'
<1>. USE ThreadKinds
<1>1. UNCHANGED <<net, at, awaits, on, got, return, shown, gpu, drawer, authenticated>>
  BY DEF PeerEnds, others, mains
<1>2. peer' = [peer EXCEPT ![s] = [Unused EXCEPT !.line = "ended"]] /\ ~Up(s)' /\ \A r \in Sockets : r # s => peer'[r] = peer[r]
  BY DEF PeerEnds, TypeInv, NetType, Unused, Up
<1>3. \A r \in Sockets : peer'[r].line = "up" => peer'[r] = peer[r]
  BY <1>2 DEF Up
<1>10. PlacesType'
  BY <1>1, <1>2, <1>3 DEF TypeInv, PlacesType, InStop, MainPlaces, TaskPlaces, ReceiverPlaces
<1>11. WaitingType'
  BY <1>1, <1>2, <1>3 DEF TypeInv, PlacesType, WaitingType, Asks
<1>12. NetType'
  BY <1>1, <1>2, <1>3 DEF TypeInv, NetType, Peers, Unused, Asks
<1>13. Alone'
  BY <1>1, <1>2, <1>3 DEF Strong, Alone
<1>14. Rests'
  BY <1>1, <1>2, <1>3 DEF Strong, Rests, Alive
<1>15. Reads'
  BY <1>1, <1>2, <1>3 DEF Strong, Reads, Alive, TypeInv, NetType
<1>16. Login'
  BY <1>1, <1>2, <1>3 DEF Strong, Login, Forgetting, InStop, TypeInv, PlacesType
<1>17. Cut'
  BY <1>1, <1>2, <1>3 DEF Strong, Cut, TypeInv, PlacesType, NetType
<1>18. Stopped'
  BY <1>1, <1>2, <1>3 DEF Strong, Stopped, InStop, TypeInv, PlacesType, NetType
<1>19. Before'
  BY <1>1, <1>2, <1>3 DEF Strong, Before, TypeInv, PlacesType, NetType
<1>20. Line'
  BY <1>1, <1>2, <1>3 DEF Strong, Line, Up, TypeInv, NetType
<1>21. Asked'
  BY <1>1, <1>2, <1>3 DEF Strong, Asked, Up, Asking, Accepted, InStop, TypeInv, NetType
<1>22. Serving'
  <2>. SUFFICES ASSUME NEW u \in Tasks PROVE Served(u)'
    BY DEF Serving
  <2>. QED
    BY ZenonT(60), <1>1, <1>3 DEF Strong, Serving, Served, Up, Fresh, Asking, Accepted, Answered, InStop
<1>23. Tidy'
  BY <1>1, <1>2, <1>3 DEF Strong, Tidy, TypeInv, PlacesType
<1>24. Following'
  BY <1>1, <1>2, <1>3 DEF Strong, Following, Up, TypeInv, NetType
<1>. QED
  BY <1>10, <1>11, <1>12, <1>13, <1>14, <1>15, <1>16, <1>17, <1>18, <1>19, <1>20, <1>21, <1>22, <1>23,
     <1>24 DEF TypeInv, Strong

\* The packet at hand is shown, as the server told it, or it is a kick and Stop
\* begins (NetworkClient.cpp:522-633).
LEMMA HandleKeeps ==
  ASSUME TypeInv, Strong, NEW t \in Tasks \cup {"receiver"}, HandlePacket(t), UNCHANGED others
  PROVE  TypeInv' /\ Strong'
<1>. USE ThreadKinds
<1>1. UNCHANGED <<awaits, on, gpu, drawer, authenticated>>
  BY DEF HandlePacket, others, mains
<1>2. /\ at[t] = "handle" /\ (\A u \in Threads : u # t => at'[u] = at[u]) /\ DOMAIN at' = Threads
      /\ (at'[t] = "flags" \/ at'[t] = "loop")
  BY Moved DEF HandlePacket, TypeInv
<1>3. /\ DOMAIN return' = Threads /\ (\A u \in Threads : u # t => return'[u] = return[u])
      /\ at'[t] = "flags" => return'[t] = "loop"
  BY Moved DEF HandlePacket, TypeInv, PlacesType
<1>4. \/ UNCHANGED <<net, peer>>
      \/ /\ ~net'.connected /\ net'.socket = 0 /\ \A s \in Sockets : peer'[s].line # "up"
         /\ net' \in [socket : {0} \cup Sockets, connected : BOOLEAN, running : BOOLEAN]
         /\ peer' \in [Sockets -> Peers]
  BY HangsUp DEF HandlePacket, SendPacket, TypeInv, Strong
<1>5. /\ shown' = Shows(shown, got[t]) /\ DOMAIN got' = Threads /\ \A u \in Threads : u # t => got'[u] = got[u]
  BY DEF HandlePacket, TypeInv, WaitingType
<1>6. IsView(shown')
  BY <1>5, ShowsField DEF TypeInv, NetType
<1>7. t \in Tasks => got[t].type \in {"ping", "kick", "text"}
  BY <1>2 DEF HandlePacket, Strong, Serving, Served
<1>8. t \in Tasks => ~Alive /\ ~Accepted(t) /\ shown' = shown
  BY <1>2, <1>5, <1>7, ShowsField DEF Strong, Rests, Accepted, TypeInv, NetType
<1>9. t \in Tasks => Asking(t) /\ Asking(t)' /\ ~Accepted(t)
  BY <1>2, <1>3, <1>7 DEF Asking, Accepted, InStop
<1>10. PlacesType'
  BY <1>1, <1>2, <1>3, <1>4, <1>5, <1>6, <1>7, <1>8, <1>9 DEF TypeInv, PlacesType, InStop, MainPlaces,
     TaskPlaces, ReceiverPlaces
<1>11. WaitingType'
  BY <1>1, <1>2, <1>3, <1>4, <1>5, <1>6, <1>7, <1>8, <1>9 DEF TypeInv, PlacesType, WaitingType, Asks
<1>12. NetType'
  BY <1>1, <1>2, <1>3, <1>4, <1>5, <1>6, <1>7, <1>8, <1>9 DEF TypeInv, NetType
<1>13. Alone'
  BY <1>1, <1>2, <1>3, <1>4, <1>5, <1>6, <1>7, <1>8, <1>9 DEF Strong, Alone
<1>14. Rests'
  BY <1>1, <1>2, <1>3, <1>4, <1>5, <1>6, <1>7, <1>8, <1>9 DEF Strong, Rests, Alive
<1>15. Reads'
  BY <1>1, <1>2, <1>3, <1>4, <1>5, <1>6, <1>7, <1>8, <1>9 DEF Strong, Reads, Alive, TypeInv, NetType
<1>16. Login'
  <2>1. authenticated' \/ Forgetting' => \A u \in Tasks : at'[u] \in {"idle", "free", "start"}
    BY <1>1, <1>2, <1>3, <1>4 DEF Strong, Login, Forgetting, InStop, TypeInv, PlacesType
  <2>2. \A u \in Tasks : at'[u] \in {"free", "start"} /\ net'.connected => authenticated'
    BY <1>1, <1>2, <1>3, <1>4 DEF Strong, Login, Forgetting, InStop, TypeInv, PlacesType
  <2>. QED
    BY <2>1, <2>2 DEF Login
<1>17. Cut'
  BY <1>1, <1>2, <1>3, <1>4, <1>5, <1>6, <1>7, <1>8, <1>9 DEF Strong, Cut, TypeInv, PlacesType, NetType
<1>18. Stopped'
  <2>1. at'["main"] \in {"forget", "destroy", "reset"}
           \/ (at'["main"] = "flags" /\ return'["main"] = "reset") => ~net'.connected
    BY <1>1, <1>2, <1>3, <1>4 DEF Strong, Stopped, InStop, TypeInv, PlacesType, NetType
  <2>2. at'["main"] \in {"join", "clear", "forget", "destroy", "reset"}
           \/ (at'["main"] \in {"flags", "close"} /\ return'["main"] = "reset") => net'.socket = 0
    BY <1>1, <1>2, <1>3, <1>4 DEF Strong, Stopped, InStop, TypeInv, PlacesType, NetType
  <2>3. at'["main"] \in {"clear", "forget", "destroy", "reset"}
           \/ (InStop("main")' /\ return'["main"] = "reset") => at'["receiver"] = "none"
    BY <1>1, <1>2, <1>3, <1>4 DEF Strong, Stopped, InStop, TypeInv, PlacesType, NetType
  <2>4. at'["main"] = "destroy" => return'["main"] = "destroy"
    BY <1>1, <1>2, <1>3, <1>4 DEF Strong, Stopped, InStop, TypeInv, PlacesType, NetType
  <2>5. at'["main"] = "reset" => return'["main"] = "reset"
    BY <1>1, <1>2, <1>3, <1>4 DEF Strong, Stopped, InStop, TypeInv, PlacesType, NetType
  <2>. QED
    BY <2>1, <2>2, <2>3, <2>4, <2>5 DEF Stopped
<1>19. Before'
  BY <1>1, <1>2, <1>3, <1>4, <1>5, <1>6, <1>7, <1>8, <1>9 DEF Strong, Before, TypeInv, PlacesType, NetType
<1>20. Line'
  BY <1>1, <1>2, <1>3, <1>4, <1>5, <1>6, <1>7, <1>8, <1>9 DEF Strong, Line, Up, TypeInv, NetType
<1>21. Asked'
  <2>1. ASSUME NEW s \in Sockets, net'.connected, peer'[s].line = "up", peer'[s].asks # "none"
        PROVE  \E u \in Tasks : Asking(u)' /\ at'[u] # "request"
    <3>1. PICK u \in Tasks : Asking(u) /\ at[u] # "request"
      BY <1>4, <2>1 DEF Strong, Asked, Up
    <3>2. CASE u = t
      BY <1>2, <1>9, <3>1, <3>2
    <3>3. CASE u # t
      BY <1>2, <1>3, <3>1, <3>3 DEF Asking, InStop
    <3>. QED
      BY <3>2, <3>3
  <2>2. \A s \in Sockets : net'.connected /\ Up(s)' /\ peer'[s].stage # 0 => authenticated' \/ \E u \in Tasks : Accepted(u)'
    BY ZenonT(60), <1>1, <1>2, <1>4, <1>5, <1>7, <1>8, <1>9 DEF Strong, Asked, Up, Asking, Accepted, InStop, TypeInv,
       NetType
  <2>3. \A s \in Sockets : net'.connected /\ Up(s)' /\ peer'[s].stage = 0 => Fresh(peer[s], 0)'
    BY <1>1, <1>2, <1>4, <1>5, <1>7, <1>8, <1>9 DEF Strong, Asked, Up, Asking, Accepted, InStop, TypeInv,
       NetType
  <2>. QED
    BY <2>1, <2>2, <2>3 DEF Asked, Up
<1>22. Serving'
  <2>. SUFFICES ASSUME NEW u \in Tasks PROVE Served(u)'
    BY DEF Serving
  <2>1. CASE u = t
    BY <1>1, <1>2, <1>4, <1>9, <2>1, LeftServed DEF Strong, Serving
  <2>2. CASE u # t /\ t \in Tasks
    <3>1. at'[u] = "idle"
      BY <1>1, <1>2, <1>3, <1>4, <1>7, <1>8, <1>9, <2>2 DEF Strong, Alone
    <3>. QED
      BY <3>1 DEF Served, Asking, Accepted, Answered, InStop
  <2>3. CASE t = "receiver"
    <3>1. at'[u] \in {"idle", "connect"} /\ at'[u] = at[u]
      BY <1>1, <1>2, <1>3, <1>4, <1>7, <1>8, <1>9, <2>3 DEF Strong, Rests, Alive
    <3>. QED
      BY <1>1, <1>2, <1>3, <1>4, <1>7, <1>8, <1>9, <3>1 DEF Strong, Serving, Served, Asking, Accepted,
         Answered, InStop
  <2>. QED
    BY <2>1, <2>2, <2>3
<1>23. Tidy'
  BY <1>1, <1>2, <1>3, <1>4, <1>5, <1>6, <1>7, <1>8, <1>9 DEF Strong, Tidy, TypeInv, PlacesType, Alive
<1>24. Following'
  BY <1>1, <1>2, <1>3, <1>4, <1>5, <1>6, <1>7, <1>8, <1>9 DEF Strong, Following, Up, TypeInv, NetType, Alive
<1>. QED
  BY <1>10, <1>11, <1>12, <1>13, <1>14, <1>15, <1>16, <1>17, <1>18, <1>19, <1>20, <1>21, <1>22, <1>23,
     <1>24 DEF TypeInv, Strong

\* Stop puts the flags down, closes the socket, joins and clears the snapshots
\* (NetworkClient.cpp:306-324).
LEMMA StopKeeps ==
  ASSUME TypeInv, Strong, NEW t \in Threads, Stop(t), UNCHANGED others
  PROVE  TypeInv' /\ Strong'
<1>. USE ThreadKinds
<1>1. UNCHANGED <<awaits, on, got, return, gpu, drawer, authenticated>>
  BY DEF Stop, others, mains
<1>2. (\A u \in Threads : u # t => at'[u] = at[u]) /\ DOMAIN at' = Threads /\ InStop(t)
  BY Moved DEF Stop, TypeInv
<1>3. at'[t] = StopStep(at[t], return[t])
  BY Moved DEF Stop, TypeInv
<1>4. /\ net' \in [socket : {0} \cup Sockets, connected : BOOLEAN, running : BOOLEAN] /\ ~net'.connected
      /\ net'.socket = IF at[t] = "close" THEN 0 ELSE net.socket
  BY DEF Stop, TypeInv, NetType, Strong, Cut, InStop
<1>5. /\ peer' \in [Sockets -> Peers] /\ \A s \in Sockets : peer'[s].line = "up" => peer'[s] = peer[s]
      /\ at[t] = "close" => \A s \in Sockets : peer'[s].line # "up"
  <2>1. [Unused EXCEPT !.line = "gone"] \in Peers /\ [Unused EXCEPT !.line = "gone"].line = "gone"
    BY DEF Unused, Peers, Asks
  <2>. QED
    BY <2>1, SocketKinds DEF Stop, Closed, TypeInv, NetType, Strong, Line, Up
<1>6. /\ shown' = IF at[t] = "clear" THEN Cleared(shown) ELSE shown
      /\ IsView(shown')
  BY ShowsField DEF Stop, TypeInv, NetType
<1>7. \/ at[t] = "flags" /\ at'[t] = "close"
      \/ at[t] = "close" /\ at'[t] = "join"
      \/ at[t] = "join" /\ at'[t] = "clear" /\ (t # "receiver" => at["receiver"] = "none")
      \/ at[t] = "clear" /\ at'[t] = return[t] /\ shown'.remotes = {} /\ shown'.items = {}
  BY <1>2, <1>3, <1>6, ShowsField DEF StopStep, InStop, Stop, TypeInv, NetType
<1>10. PlacesType'
  BY <1>1, <1>2, <1>3, <1>4, <1>5, <1>6, <1>7 DEF TypeInv, PlacesType, InStop, MainPlaces, TaskPlaces,
     ReceiverPlaces
<1>11. WaitingType'
  BY <1>1, <1>2, <1>3, <1>4, <1>5, <1>6, <1>7 DEF TypeInv, PlacesType, WaitingType, Asks
<1>12. NetType'
  <2>1. net' \in [socket : {0} \cup Sockets, connected : BOOLEAN, running : BOOLEAN]
    BY <1>4, <1>5, <1>6 DEF TypeInv, NetType
  <2>2. peer' \in [Sockets -> Peers]
    BY <1>4, <1>5, <1>6 DEF TypeInv, NetType
  <2>3. IsView(shown')
    BY <1>4, <1>5, <1>6 DEF TypeInv, NetType
  <2>. QED
    BY <2>1, <2>2, <2>3 DEF NetType
<1>13. Alone'
  BY <1>1, <1>2, <1>3, <1>4, <1>5, <1>6, <1>7 DEF Strong, Alone
<1>14. Rests'
  BY <1>1, <1>2, <1>3, <1>4, <1>5, <1>6, <1>7 DEF Strong, Rests, Alive
<1>15. Reads'
  BY <1>1, <1>2, <1>3, <1>4, <1>5, <1>6, <1>7 DEF Strong, Reads, Alive, TypeInv, NetType
<1>16. Login'
  BY <1>1, <1>2, <1>3, <1>4, <1>5, <1>6, <1>7 DEF Strong, Login, Forgetting, InStop, TypeInv, PlacesType
<1>17. Cut'
  BY <1>1, <1>2, <1>3, <1>4, <1>5, <1>6, <1>7 DEF Strong, Cut, TypeInv, PlacesType, NetType
<1>18. Stopped'
  BY <1>1, <1>2, <1>3, <1>4, <1>5, <1>6, <1>7 DEF Strong, Stopped, InStop, TypeInv, PlacesType, NetType
<1>19. Before'
  BY <1>1, <1>2, <1>3, <1>4, <1>5, <1>6, <1>7 DEF Strong, Before, TypeInv, PlacesType, NetType
<1>20. Line'
  <2>1. \A s \in Sockets : Up(s)' => s = net'.socket
    BY <1>1, <1>2, <1>4, <1>5, <1>7 DEF Strong, Line, Up, TypeInv, NetType, PlacesType, InStop
  <2>2. net'.connected => net'.socket # 0
    BY <1>1, <1>2, <1>4, <1>5, <1>7 DEF Strong, Line, Up, TypeInv, NetType, PlacesType, InStop
  <2>3. net'.socket # 0 /\ peer'[net'.socket].line = "up" => \E u \in Threads : at'[u] = "close"
    <3>1. CASE at[t] = "flags"
      BY <1>7, <3>1
    <3>2. CASE at[t] # "flags"
      <4>1. at[t] = "close" => net'.socket = 0
        BY <1>4
      <4>2. at[t] # "close" => net'.socket = net.socket /\ ~net.connected
        BY <1>2, <1>4, <3>2 DEF Strong, Cut, InStop
      <4>3. net'.socket # 0 /\ peer'[net'.socket].line = "up" => \E u \in Threads : at[u] = "close" /\ u # t
        BY <1>5, <4>1, <4>2 DEF Strong, Line, Up, TypeInv, NetType
      <4>. QED
        BY <1>2, <4>3
    <3>. QED
      BY <3>1, <3>2
  <2>4. \A u \in Threads : at'[u] = "blocked" /\ net'.socket # 0 => on'[u] = net'.socket
    BY <1>1, <1>2, <1>4, <1>5, <1>7 DEF Strong, Line, Up, TypeInv, NetType, PlacesType, InStop
  <2>. QED
    BY <2>1, <2>2, <2>3, <2>4 DEF Line, Up
<1>21. Asked'
  BY <1>1, <1>2, <1>3, <1>4, <1>5, <1>6, <1>7 DEF Strong, Asked, Up, Asking, Accepted, InStop, TypeInv,
     NetType
<1>22. Serving'
  <2>. SUFFICES ASSUME NEW u \in Tasks PROVE Served(u)'
    BY DEF Serving
  <2>1. CASE u = t
    <3>1. at'[u] \in {"idle", "loop", "close", "join", "clear"}
      BY <1>2, <1>7, <2>1 DEF InStop, TypeInv, PlacesType
    <3>2. Asking(u)' => return[u] = "loop"
      BY <1>1, <1>2, <1>7, <2>1, <3>1 DEF Asking, InStop, TypeInv, PlacesType
    <3>3. return[u] = "loop" => Asking(u) /\ ~Accepted(u)
      BY <1>2, <2>1 DEF Asking, Accepted, InStop
    <3>. QED
      BY <1>1, <1>5, <2>1, <3>1, <3>2, <3>3, LeftServed DEF Strong, Serving
  <2>2. CASE u # t
    BY <1>1, <1>2, <1>5, <2>2, SameServed DEF Strong, Serving
  <2>. QED
    BY <2>1, <2>2
<1>23. Tidy'
  BY <1>1, <1>2, <1>3, <1>4, <1>5, <1>6, <1>7 DEF Strong, Tidy, TypeInv, PlacesType
<1>24. Following'
  BY <1>1, <1>2, <1>3, <1>4, <1>5, <1>6, <1>7 DEF Strong, Following, Up, TypeInv, NetType
<1>. QED
  BY <1>10, <1>11, <1>12, <1>13, <1>14, <1>15, <1>16, <1>17, <1>18, <1>19, <1>20, <1>21, <1>22, <1>23,
     <1>24 DEF TypeInv, Strong

\* The server answers what was asked, once, and tells nothing of the world.
LEMMA AnswerSent ==
  ASSUME NEW p \in Peers, p.line = "up", p.asks # "none", NEW sent \in Answers(p)
  PROVE  /\ sent.peer \in Peers /\ sent.peer.line = "up" /\ sent.peer.asks = "none"
         /\ sent.peer.told = p.told /\ sent.peer.items = p.items
         /\ sent.packet.type \in Responses(p.asks)
         /\ sent.peer.stage = IF sent.packet.type = "login accepted" THEN 1 ELSE p.stage
<1>1. CASE p.asks = "register"
  <2>1. PICK type \in Responses("register") :
            sent = [packet |-> [type |-> type, who |-> 0], peer |-> [p EXCEPT !.asks = "none"]]
    BY <1>1 DEF Answers
  <2>. QED
    BY <1>1, <2>1 DEF Peers, Asks, Responses
<1>2. CASE p.asks # "register"
  <2>0. p.asks = "login"
    BY <1>2 DEF Peers, Asks
  <2>1. CASE sent = [packet |-> [type |-> "login refused", who |-> 0], peer |-> [p EXCEPT !.asks = "none"]]
    BY <2>0, <2>1 DEF Peers, Asks, Responses
  <2>2. CASE \E c \in Characters :
                sent = [packet |-> [type |-> "login accepted", who |-> c],
                        peer |-> [p EXCEPT !.asks = "none", !.who = c, !.stage = 1]]
    <3>0. PICK c \in Characters :
              sent = [packet |-> [type |-> "login accepted", who |-> c],
                      peer |-> [p EXCEPT !.asks = "none", !.who = c, !.stage = 1]]
      BY <2>2
    <3>1. sent.packet.type = "login accepted" /\ sent.peer = [p EXCEPT !.asks = "none", !.who = c, !.stage = 1]
      BY <3>0
    <3>2. sent.peer \in Peers /\ sent.peer.stage = 1
      <4>1. [p EXCEPT !.asks = "none", !.who = c] \in Peers
        BY DEF Peers, Asks
      <4>2. \A r \in Peers : [r EXCEPT !.stage = 1] \in Peers /\ [r EXCEPT !.stage = 1].stage = 1
        BY DEF Peers
      <4>3. sent.peer = [[p EXCEPT !.asks = "none", !.who = c] EXCEPT !.stage = 1]
        BY <3>1
      <4>. QED
        BY <4>1, <4>2, <4>3
    <3>3. sent.peer.line = "up" /\ sent.peer.asks = "none" /\ sent.peer.told = p.told /\ sent.peer.items = p.items
      BY <3>1 DEF Peers
    <3>. QED
      BY <2>0, <3>1, <3>2, <3>3 DEF Responses
  <2>. QED
    BY <1>2, <2>1, <2>2 DEF Answers
<1>. QED
  BY <1>1, <1>2

\* From the login on the server keeps to what the client then shows: the next
\* snapshot, a spawn, a move or a despawn.
LEMMA WorldSent ==
  ASSUME NEW p \in Peers, p.line = "up", IsView(shown), p.stage > 0, NEW sent,
         sent \in (IF p.stage \in {1, 2} THEN Snapshots(p) ELSE {}) \cup Sights(p)
  PROVE  /\ sent.peer \in Peers /\ sent.peer.line = "up" /\ sent.peer.asks = p.asks
         /\ sent.peer.stage > 0
         /\ Mirror(shown, p) => Mirror(Shows(shown, sent.packet), sent.peer)
<1>. DEFINE m == sent.packet
            q == sent.peer
            w == Shows(shown, m)
<1>0. /\ w.own = IF m.type = "state" THEN m.who ELSE shown.own
      /\ w.bag = IF m.type = "inventory" THEN m.who ELSE shown.bag
      /\ w.remotes =
            IF m.type \in {"state", "despawn"} THEN shown.remotes \ {m.who}
            ELSE IF m.type \in {"spawn", "moved"} /\ shown.own # m.who THEN shown.remotes \cup {m.who} ELSE shown.remotes
      /\ w.items =
            IF m.type = "item spawn" THEN {"item"}
            ELSE IF m.type \in {"item despawn", "picked up"} THEN {} ELSE shown.items
  BY ShowsField
<1>1. CASE sent \in (IF p.stage \in {1, 2} THEN Snapshots(p) ELSE {})
  <2>1. /\ p.stage \in {1, 2} /\ sent.peer = [p EXCEPT !.stage = p.stage + 1]
        /\ sent.packet = [type |-> IF p.stage = 1 THEN "state" ELSE "inventory", who |-> p.who]
    BY <1>1 DEF Snapshots
  <2>2. sent.peer \in Peers /\ sent.peer.line = "up" /\ sent.peer.asks = p.asks /\ sent.peer.stage = p.stage + 1
    BY <2>1 DEF Peers
  <2>3. sent.peer.who = p.who /\ sent.peer.told = p.told /\ sent.peer.hidden = p.hidden /\ sent.peer.items = p.items
    BY <2>1 DEF Peers
  <2>4. Mirror(shown, p) => Mirror(Shows(shown, sent.packet), sent.peer)
    <3>1. /\ m.who = p.who /\ w.items = shown.items
          /\ p.stage = 1 => w.own = p.who /\ w.remotes = shown.remotes \ {p.who}
          /\ p.stage = 2 => w.own = shown.own /\ w.remotes = shown.remotes /\ w.bag = p.who
      BY <1>0, <2>1
    <3>2. Mirror(shown, p) => Mirror(w, q)
      <4>. HIDE DEF w
      <4>. QED
        BY <2>1, <2>2, <2>3, <3>1 DEF Mirror
    <3>. QED
      BY <3>2
  <2>. QED
    BY <2>1, <2>2, <2>4
<1>2. CASE \E c \in Characters \ (p.told \cup {p.who}) :
              sent = [packet |-> [type |-> "spawn", who |-> c],
                      peer |-> [p EXCEPT !.told = @ \cup {c}, !.hidden = IF c = shown.own THEN @ \cup {c} ELSE @]]
  <2>1. PICK c \in Characters \ (p.told \cup {p.who}) :
              sent = [packet |-> [type |-> "spawn", who |-> c],
                      peer |-> [p EXCEPT !.told = @ \cup {c}, !.hidden = IF c = shown.own THEN @ \cup {c} ELSE @]]
    BY <1>2
  <2>2. sent.peer \in Peers /\ sent.peer.line = "up" /\ sent.peer.asks = p.asks /\ sent.peer.stage = p.stage
    BY <2>1 DEF Peers
  <2>3. /\ sent.peer.who = p.who /\ sent.peer.told = p.told \cup {c} /\ sent.peer.items = p.items
        /\ sent.peer.hidden = IF c = shown.own THEN p.hidden \cup {c} ELSE p.hidden
    BY <2>1 DEF Peers
  <2>4. sent.packet.type = "spawn" /\ sent.packet.who = c
    BY <2>1
  <2>5. /\ w.own = shown.own /\ w.bag = shown.bag /\ w.items = shown.items
        /\ w.remotes = IF shown.own # c THEN shown.remotes \cup {c} ELSE shown.remotes
    BY <1>0, <2>4
  <2>9. Mirror(shown, p) => Mirror(w, q)
    <3>. HIDE DEF w
    <3>. QED
      BY <2>1, <2>2, <2>3, <2>5 DEF Mirror
  <2>. QED
    BY <2>1, <2>2, <2>9
<1>3. CASE \E c \in p.told : sent = [packet |-> [type |-> "moved", who |-> c], peer |-> p]
  <2>1. PICK c \in p.told : q = p /\ m.type = "moved" /\ m.who = c
    BY <1>3
  <2>2. /\ w.own = shown.own /\ w.bag = shown.bag /\ w.items = shown.items
        /\ w.remotes = IF shown.own # c THEN shown.remotes \cup {c} ELSE shown.remotes
    BY <1>0, <2>1
  <2>9. Mirror(shown, p) => Mirror(w, q)
    <3>. HIDE DEF w
    <3>. QED
      BY <2>1, <2>2 DEF Mirror
  <2>. QED
    BY <2>1, <2>2, <2>9
<1>4. CASE \E c \in p.told : sent = [packet |-> [type |-> "despawn", who |-> c], peer |-> [p EXCEPT !.told = @ \ {c}]]
  <2>1. PICK c \in p.told : sent = [packet |-> [type |-> "despawn", who |-> c], peer |-> [p EXCEPT !.told = @ \ {c}]]
    BY <1>4
  <2>2. sent.peer \in Peers /\ sent.peer.line = "up" /\ sent.peer.asks = p.asks /\ sent.peer.stage = p.stage
    BY <2>1 DEF Peers
  <2>3. /\ sent.peer.who = p.who /\ sent.peer.told = p.told \ {c} /\ sent.peer.items = p.items
        /\ sent.peer.hidden = p.hidden
    BY <2>1 DEF Peers
  <2>4. /\ w.own = shown.own /\ w.bag = shown.bag /\ w.items = shown.items
        /\ w.remotes = shown.remotes \ {c}
    BY <1>0, <2>1
  <2>9. Mirror(shown, p) => Mirror(w, q)
    <3>. HIDE DEF w
    <3>. QED
      BY <2>2, <2>3, <2>4 DEF Mirror
  <2>. QED
    BY <2>1, <2>2, <2>9
<1>5. CASE \E type \in {"item spawn", "item despawn", "picked up"} :
              sent = [packet |-> [type |-> type, who |-> 0],
                      peer |-> [p EXCEPT !.items = IF type = "item spawn" THEN {"item"} ELSE {}]]
  <2>1. PICK type \in {"item spawn", "item despawn", "picked up"} :
              sent = [packet |-> [type |-> type, who |-> 0],
                      peer |-> [p EXCEPT !.items = IF type = "item spawn" THEN {"item"} ELSE {}]]
    BY <1>5
  <2>2. sent.peer \in Peers /\ sent.peer.line = "up" /\ sent.peer.asks = p.asks /\ sent.peer.stage = p.stage
    BY <2>1 DEF Peers
  <2>3. /\ sent.peer.who = p.who /\ sent.peer.told = p.told /\ sent.peer.hidden = p.hidden
        /\ sent.peer.items = IF type = "item spawn" THEN {"item"} ELSE {}
    BY <2>1 DEF Peers
  <2>4. /\ w.own = shown.own /\ w.bag = shown.bag /\ w.remotes = shown.remotes
        /\ w.items = IF type = "item spawn" THEN {"item"} ELSE {}
    BY <1>0, <2>1
  <2>9. Mirror(shown, p) => Mirror(w, q)
    <3>. HIDE DEF w
    <3>. QED
      BY <2>2, <2>3, <2>4 DEF Mirror
  <2>. QED
    BY <2>1, <2>2, <2>9
<1>. QED
  BY <1>1, <1>2, <1>3, <1>4, <1>5 DEF Sights

\* A packet from the server is received; to show it keeps the snapshots in step.
LEMMA DeliverKeeps ==
  ASSUME TypeInv, Strong, NEW t \in Tasks \cup {"receiver"}, Deliver(t), UNCHANGED others
  PROVE  TypeInv' /\ Strong'
<1>. USE ThreadKinds
<1>. DEFINE hand == net.socket
            p == peer[hand]
<1>1. UNCHANGED <<net, awaits, return, shown, gpu, drawer, authenticated>>
  BY DEF Deliver, others, mains
<1>2. /\ at[t] = "blocked" /\ at'[t] = "handle" /\ (\A u \in Threads : u # t => at'[u] = at[u])
      /\ DOMAIN at' = Threads /\ DOMAIN on' = Threads /\ \A u \in Threads : u # t => on'[u] = on[u]
  BY Moved DEF Deliver, TypeInv, WaitingType
<1>3. on[t] = hand /\ hand \in Sockets /\ p \in Peers /\ p.line = "up"
  BY <1>2 DEF Deliver, TypeInv, WaitingType, NetType, Strong, Line, Up
<1>4. PICK sent \in (IF p.asks # "none" THEN Answers(p) ELSE {}) \cup (IF p.stage \in {1, 2} THEN Snapshots(p) ELSE {})
                    \cup AnyTime(p) \cup IF p.stage > 0 THEN Sights(p) ELSE {} :
          got' = [got EXCEPT ![t] = sent.packet] /\ peer' = [peer EXCEPT ![hand] = sent.peer]
  BY <1>3 DEF Deliver
<1>. DEFINE m == sent.packet
            q == sent.peer
<1>. HIDE DEF hand, p
<1>5. /\ got'[t] = m /\ DOMAIN got' = Threads /\ (\A u \in Threads : u # t => got'[u] = got[u])
      /\ peer'[hand] = q /\ DOMAIN peer' = Sockets /\ \A r \in Sockets : r # hand => peer'[r] = peer[r] /\ peer[r].line # "up"
  BY <1>3, <1>4 DEF TypeInv, WaitingType, NetType, Strong, Line, Up, hand
<1>6. \/ q = p /\ m.type \in {"ping", "kick", "text"}
      \/ p.asks # "none" /\ sent \in Answers(p)
      \/ p.stage > 0 /\ sent \in (IF p.stage \in {1, 2} THEN Snapshots(p) ELSE {}) \cup Sights(p)
  <2>1. CASE sent \in AnyTime(p)
    BY <2>1 DEF AnyTime
  <2>2. CASE p.stage \in {1, 2} /\ sent \in Snapshots(p)
    BY <2>2
  <2>. QED
    BY <1>4, <2>1, <2>2
<1>. HIDE DEF m, q
<1>7. q \in Peers /\ q.line = "up"
  BY <1>3, <1>6, AnswerSent, WorldSent DEF TypeInv, NetType, m, q
<1>8. t \in Tasks => /\ ~Alive /\ awaits[t] \in {"login", "register"}
                     /\ m.type = "login accepted" => Fresh(q, 1)
                     /\ m.type # "login accepted" => Fresh(q, 0)
                     /\ q.asks \in {"none", awaits[t]} /\ m.type \in {"ping", "kick", "text"} \cup Responses(awaits[t])
                     /\ m.type \in Responses(awaits[t]) => q.asks = "none"
  <2>. SUFFICES ASSUME t \in Tasks
       PROVE  /\ ~Alive /\ awaits[t] \in {"login", "register"}
              /\ m.type = "login accepted" => Fresh(q, 1)
              /\ m.type # "login accepted" => Fresh(q, 0)
              /\ q.asks \in {"none", awaits[t]} /\ m.type \in {"ping", "kick", "text"} \cup Responses(awaits[t])
              /\ m.type \in Responses(awaits[t]) => q.asks = "none"
    OBVIOUS
  <2>1. ~Alive
    BY <1>2 DEF Strong, Rests
  <2>2. Fresh(p, 0) /\ p.asks \in {"none", awaits[t]} /\ awaits[t] \in {"login", "register"}
    BY <1>2, <1>3 DEF Strong, Serving, Served, Asking, Accepted, Up, p
  <2>3. CASE q = p /\ m.type \in {"ping", "kick", "text"}
    BY <2>1, <2>2, <2>3 DEF Responses
  <2>4. CASE p.asks # "none" /\ sent \in Answers(p)
    BY ZenonT(60), <1>3, <2>1, <2>2, <2>4, AnswerSent DEF Fresh, m, q, Responses
  <2>5. ~(p.stage > 0)
    BY <2>2 DEF Fresh
  <2>. QED
    BY <1>6, <2>3, <2>4, <2>5
<1>9. t = "receiver" /\ net.connected => p.asks = "none" /\ q.asks = "none" /\ (p.stage # 0 \/ q = p)
  <2>. SUFFICES ASSUME t = "receiver", net.connected PROVE p.asks = "none" /\ q.asks = "none" /\ (p.stage # 0 \/ q = p)
    OBVIOUS
  <2>1. \A u \in Tasks : ~(Asking(u) /\ at[u] # "request")
    BY <1>2 DEF Strong, Rests, Alive, Asking, InStop
  <2>2. p.asks = "none"
    BY <1>3, <2>1 DEF Strong, Asked, Up, p
  <2>. QED
    BY <1>3, <1>6, <2>2, WorldSent DEF TypeInv, NetType, q
<1>10. PlacesType'
  BY <1>1, <1>2 DEF TypeInv, PlacesType, InStop, MainPlaces, TaskPlaces, ReceiverPlaces
<1>11. WaitingType'
  BY <1>1, <1>2, <1>5 DEF TypeInv, PlacesType, WaitingType, Asks
<1>12. NetType'
  BY <1>1, <1>3, <1>4, <1>7 DEF TypeInv, NetType, q
<1>13. Alone'
  BY <1>1, <1>2, <1>3, <1>4, <1>5 DEF Strong, Alone
<1>14. Rests'
  BY <1>1, <1>2, <1>3, <1>4, <1>5 DEF Strong, Rests, Alive
<1>15. Reads'
  BY <1>1, <1>2, <1>3, <1>4, <1>5 DEF Strong, Reads, Alive, TypeInv, NetType
<1>16. Login'
  BY <1>1, <1>2, <1>3, <1>4, <1>5 DEF Strong, Login, Forgetting, InStop, TypeInv, PlacesType
<1>17. Cut'
  BY <1>1, <1>2, <1>3, <1>4, <1>5 DEF Strong, Cut, TypeInv, PlacesType, NetType
<1>18. Stopped'
  BY <1>1, <1>2, <1>3, <1>4, <1>5 DEF Strong, Stopped, InStop, TypeInv, PlacesType, NetType
<1>19. Before'
  BY <1>1, <1>2, <1>3, <1>4, <1>5 DEF Strong, Before, TypeInv, PlacesType, NetType
<1>20. Line'
  <2>1. \A r \in Sockets : peer'[r].line = peer[r].line
    BY <1>3, <1>5, <1>7 DEF p
  <2>. QED
    BY <1>1, <1>2, <2>1 DEF Strong, Line, Up, TypeInv, NetType
<1>21. Asked'
  <2>. SUFFICES ASSUME net.connected
       PROVE  /\ q.asks # "none" => \E u \in Tasks : Asking(u)' /\ at'[u] # "request"
              /\ q.stage # 0 => authenticated' \/ \E u \in Tasks : Accepted(u)'
              /\ q.stage = 0 => Fresh(q, 0)
    BY <1>1, <1>5 DEF Asked, Up, Fresh
  <2>1. CASE t \in Tasks
    BY <1>2, <1>5, <1>8, <2>1 DEF Asking, Accepted, Fresh
  <2>2. CASE t = "receiver"
    <3>1. authenticated' /\ q.asks = "none"
      BY <1>1, <1>2, <1>9, <2>2 DEF Strong, Reads, Alive
    <3>2. q.stage = 0 => q = p
      BY <1>3, <1>6, <1>9, <2>2, WorldSent DEF TypeInv, NetType, q
    <3>3. p.stage = 0 => Fresh(p, 0)
      BY <1>3 DEF Strong, Asked, Up, p
    <3>. QED
      BY <3>1, <3>2, <3>3
  <2>. QED
    BY <2>1, <2>2
<1>22. Serving'
  <2>. SUFFICES ASSUME NEW u \in Tasks PROVE Served(u)'
    BY DEF Serving
  <2>1. CASE u = t
    <3>1. ~InStop(u)' /\ (Accepted(u)' <=> m.type = "login accepted") /\ (Answered(u)' <=> m.type \in Responses(awaits[t]))
      BY <1>1, <1>2, <1>5, <2>1 DEF InStop, Accepted, Answered
    <3>2. \A r \in Sockets : peer'[r].line = "up" => peer'[r] = q
      BY <1>5
    <3>. QED
      BY <1>1, <1>2, <1>5, <1>8, <2>1, <3>1, <3>2 DEF Served, Up, Fresh
  <2>2. CASE u # t /\ t \in Tasks
    <3>1. at'[u] = "idle"
      BY <1>2, <2>2 DEF Strong, Alone
    <3>. QED
      BY <3>1 DEF Served, Asking, Accepted, Answered, InStop
  <2>3. CASE t = "receiver"
    <3>1. at'[u] \in {"idle", "connect"} /\ at'[u] = at[u]
      BY <1>2, <2>3 DEF Strong, Rests, Alive
    <3>. QED
      BY <1>1, <3>1 DEF Strong, Serving, Served, Asking, Accepted, Answered, InStop
  <2>. QED
    BY <2>1, <2>2, <2>3
<1>23. Tidy'
  BY <1>1, <1>2, <1>3, <1>4, <1>5 DEF Strong, Tidy, TypeInv, PlacesType
<1>24. Following'
  <2>1. CASE t \in Tasks
    <3>1. at'["receiver"] \notin {"loop", "recv", "blocked", "handle"}
      BY <1>2, <1>8, <2>1 DEF Alive
    <3>. QED
      BY <3>1 DEF Following
  <2>2. CASE t = "receiver"
    <3>. SUFFICES ASSUME net.connected PROVE Mirror(Shows(shown, m), q)
      BY <1>1, <1>2, <1>5, <2>2 DEF Following, Up
    <3>1. Mirror(shown, p)
      BY <1>2, <1>3, <2>2 DEF Strong, Following, Up, p
    <3>2. CASE q = p /\ m.type \in {"ping", "kick", "text"}
      BY <3>1, <3>2, ShowsField DEF TypeInv, NetType
    <3>3. CASE p.stage > 0 /\ sent \in (IF p.stage \in {1, 2} THEN Snapshots(p) ELSE {}) \cup Sights(p)
      BY <1>3, <3>1, <3>3, WorldSent DEF TypeInv, NetType, m, q
    <3>. QED
      BY <1>6, <1>9, <2>2, <3>2, <3>3
  <2>. QED
    BY <2>1, <2>2
<1>. QED
  BY <1>10, <1>11, <1>12, <1>13, <1>14, <1>15, <1>16, <1>17, <1>18, <1>19, <1>20, <1>21, <1>22, <1>23,
     <1>24 DEF TypeInv, Strong

\* Stop goes on when the thread that receives has ended
\* (NetworkClient.cpp:313-317).
LEMMA JoinKeeps ==
  ASSUME TypeInv, Strong, NEW t \in Threads, Join(t), UNCHANGED others
  PROVE  TypeInv' /\ Strong'
<1>. USE ThreadKinds
<1>1. UNCHANGED <<net, awaits, on, got, return, shown, peer, gpu, drawer, authenticated>>
  BY DEF Join, others, mains
<1>2. /\ at[t] = "join" /\ t # "receiver" /\ at["receiver"] = "done"
      /\ \/ at' = at
         \/ /\ at'["receiver"] = "none" /\ DOMAIN at' = Threads /\ \A u \in Threads : u # "receiver" => at'[u] = at[u]
  BY DEF Join, TypeInv, PlacesType
<1>10. PlacesType'
  BY <1>1, <1>2 DEF TypeInv, PlacesType, InStop, MainPlaces, TaskPlaces, ReceiverPlaces
<1>11. WaitingType'
  BY <1>1, <1>2 DEF TypeInv, PlacesType, WaitingType, Asks
<1>12. NetType'
  BY <1>1, <1>2 DEF TypeInv, NetType
<1>13. Alone'
  BY <1>1, <1>2 DEF Strong, Alone
<1>14. Rests'
  BY <1>1, <1>2 DEF Strong, Rests, Alive
<1>15. Reads'
  BY <1>1, <1>2 DEF Strong, Reads, Alive, TypeInv, NetType
<1>16. Login'
  BY <1>1, <1>2 DEF Strong, Login, Forgetting, InStop, TypeInv, PlacesType
<1>17. Cut'
  BY <1>1, <1>2 DEF Strong, Cut, TypeInv, PlacesType, NetType
<1>18. Stopped'
  BY <1>1, <1>2 DEF Strong, Stopped, InStop, TypeInv, PlacesType, NetType
<1>19. Before'
  BY <1>1, <1>2 DEF Strong, Before, TypeInv, PlacesType, NetType
<1>20. Line'
  BY <1>1, <1>2 DEF Strong, Line, Up, TypeInv, NetType
<1>21. Asked'
  BY ZenonT(60), <1>1, <1>2 DEF Strong, Asked, Up, Asking, Accepted, InStop, TypeInv, NetType
<1>22. Serving'
  <2>. SUFFICES ASSUME NEW u \in Tasks PROVE Served(u)'
    BY DEF Serving
  <2>. QED
    BY <1>1, <1>2, SameServed DEF Strong, Serving
<1>23. Tidy'
  BY <1>1, <1>2 DEF Strong, Tidy, TypeInv, PlacesType
<1>24. Following'
  BY <1>1, <1>2 DEF Strong, Following, Up, TypeInv, NetType
<1>. QED
  BY <1>10, <1>11, <1>12, <1>13, <1>14, <1>15, <1>16, <1>17, <1>18, <1>19, <1>20, <1>21, <1>22, <1>23,
     <1>24 DEF TypeInv, Strong

\* A button's thread sends its request (NetworkClient.cpp:102-206), or cannot and
\* hangs up.
LEMMA RequestKeeps ==
  ASSUME TypeInv, Strong, NEW t \in Tasks, Request(t)
  PROVE  TypeInv' /\ Strong'
<1>. USE ThreadKinds
<1>1. UNCHANGED <<on, got, return, shown, gpu, drawer, authenticated>>
  BY DEF Request, Requests, mains
<1>2. at[t] = "request" /\ (\A u \in Threads : u # t => at'[u] = at[u]) /\ DOMAIN at' = Threads
  BY Moved DEF Request, Requests, TypeInv
<1>3. DOMAIN awaits' = Threads /\ \A u \in Threads : awaits'[u] = awaits[u]
  BY <1>2 DEF Request, Requests, TypeInv, WaitingType
<1>4. /\ net' \in [socket : {0} \cup Sockets, connected : BOOLEAN, running : BOOLEAN] /\ peer' \in [Sockets -> Peers]
      /\ \/ /\ at'[t] = "lost" /\ ~net'.connected
            /\ \/ UNCHANGED <<net, peer>>
               \/ net'.socket = 0 /\ \A s \in Sockets : peer'[s].line # "up"
         \/ /\ at'[t] = "loop" /\ net' = net /\ net.connected
            /\ \A s \in Sockets : /\ peer'[s].line = peer[s].line /\ peer'[s].stage = peer[s].stage
                                  /\ peer'[s].told = peer[s].told /\ peer'[s].items = peer[s].items
                                  /\ peer'[s].asks \in {"none", awaits[t]} \/ peer'[s].asks = peer[s].asks
  <2>1. CASE SendFails /\ Goes(t, "lost")
    BY <2>1, HangsUp, Moved DEF TypeInv, Strong
  <2>2. CASE ~CanSend /\ Goes(t, "lost") /\ UNCHANGED <<net, peer>>
    BY <2>2, Moved DEF CanSend, TypeInv, NetType, Strong, Line
  <2>3. CASE CanSend /\ Goes(t, "loop") /\ net' = net
                  /\ peer' = IF peer[net.socket].line = "up"
                             THEN [peer EXCEPT ![net.socket].asks = awaits[t]] ELSE peer
    <3>1. net.connected /\ net.socket \in Sockets /\ awaits[t] \in Asks
      BY <2>3 DEF CanSend, TypeInv, NetType, WaitingType
    <3>2. [peer[net.socket] EXCEPT !.asks = awaits[t]] \in Peers
      BY <3>1 DEF TypeInv, NetType, Peers
    <3>3. peer' \in [Sockets -> Peers]
      BY <2>3, <3>1, <3>2 DEF TypeInv, NetType
    <3>4. \A s \in Sockets : /\ peer'[s].line = peer[s].line /\ peer'[s].stage = peer[s].stage
                             /\ peer'[s].told = peer[s].told /\ peer'[s].items = peer[s].items
                             /\ peer'[s].asks \in {"none", awaits[t]} \/ peer'[s].asks = peer[s].asks
      BY <2>3, <3>1 DEF TypeInv, NetType, Peers
    <3>. QED
      BY <2>3, <3>1, <3>3, <3>4, Moved DEF TypeInv, NetType
  <2>. QED
    BY <2>1, <2>2, <2>3 DEF Request, Requests
<1>10. PlacesType'
  BY <1>1, <1>2, <1>3, <1>4 DEF TypeInv, PlacesType, InStop, MainPlaces, TaskPlaces, ReceiverPlaces
<1>11. WaitingType'
  BY <1>1, <1>2, <1>3, <1>4 DEF TypeInv, PlacesType, WaitingType, Asks
<1>12. NetType'
  BY <1>1, <1>2, <1>3, <1>4 DEF TypeInv, NetType
<1>13. Alone'
  BY <1>1, <1>2, <1>3, <1>4 DEF Strong, Alone
<1>14. Rests'
  BY <1>1, <1>2, <1>3, <1>4 DEF Strong, Rests, Alive
<1>15. Reads'
  BY <1>1, <1>2, <1>3, <1>4 DEF Strong, Reads, Alive, TypeInv, NetType
<1>16. Login'
  BY <1>1, <1>2, <1>3, <1>4 DEF Strong, Login, Forgetting, InStop, TypeInv, PlacesType
<1>17. Cut'
  BY <1>1, <1>2, <1>3, <1>4 DEF Strong, Cut, TypeInv, PlacesType, NetType
<1>18. Stopped'
  BY <1>1, <1>2, <1>3, <1>4 DEF Strong, Stopped, InStop, TypeInv, PlacesType, NetType
<1>19. Before'
  BY <1>1, <1>2, <1>3, <1>4 DEF Strong, Before, TypeInv, PlacesType, NetType
<1>20. Line'
  BY <1>1, <1>2, <1>3, <1>4 DEF Strong, Line, Up, TypeInv, NetType
<1>21. Asked'
  <2>. SUFFICES ASSUME NEW s \in Sockets, net'.connected, peer'[s].line = "up"
       PROVE  /\ \E u \in Tasks : Asking(u)' /\ at'[u] # "request"
              /\ peer'[s].stage = 0 /\ Fresh(peer'[s], 0)
    BY DEF Asked, Up, Fresh
  <2>1. at'[t] = "loop" /\ Asking(t)'
    BY <1>4 DEF Asking
  <2>2. Fresh(peer[s], 0)
    BY <1>2, <1>4, <2>1 DEF Strong, Serving, Served, Asking, Accepted, Up
  <2>. QED
    BY <1>4, <2>1, <2>2 DEF Fresh
<1>22. Serving'
  <2>. SUFFICES ASSUME NEW u \in Tasks PROVE Served(u)'
    BY DEF Serving
  <2>1. CASE u = t
    <3>1. Served(t) /\ ~Accepted(t) /\ Asking(t) /\ ~Accepted(t)' /\ ~Answered(t)'
      BY <1>2, <1>4 DEF Strong, Serving, Accepted, Asking, Answered
    <3>. QED
      BY <1>2, <1>3, <1>4, <2>1, <3>1 DEF Served, Up, Fresh
  <2>2. CASE u # t
    <3>1. at'[u] = "idle"
      BY <1>2, <2>2 DEF Strong, Alone
    <3>. QED
      BY <3>1 DEF Served, Asking, Accepted, Answered, InStop
  <2>. QED
    BY <2>1, <2>2
<1>23. Tidy'
  BY <1>1, <1>2, <1>3, <1>4 DEF Strong, Tidy, TypeInv, PlacesType
<1>24. Following'
  <2>1. at'["receiver"] \notin {"loop", "recv", "blocked", "handle"}
    BY <1>2 DEF Strong, Rests, Alive
  <2>. QED
    BY <2>1 DEF Following
<1>. QED
  BY <1>10, <1>11, <1>12, <1>13, <1>14, <1>15, <1>16, <1>17, <1>18, <1>19, <1>20, <1>21, <1>22, <1>23,
     <1>24 DEF TypeInv, Strong

\* A login or registration that fails calls Stop (main.cpp:552-560).
LEMMA FailsKeeps ==
  ASSUME TypeInv, Strong, NEW t \in Tasks, Fails(t)
  PROVE  TypeInv' /\ Strong'
<1>. USE ThreadKinds
<1>1. UNCHANGED <<net, on, shown, peer, gpu, drawer>>
  BY DEF Fails, mains
<1>2. at'[t] = "flags" /\ (\A u \in Threads : u # t => at'[u] = at[u]) /\ DOMAIN at' = Threads
  BY Moved DEF Fails, TypeInv
<1>3. return'[t] = "idle" /\ DOMAIN return' = Threads /\ \A u \in Threads : u # t => return'[u] = return[u]
  BY DEF Fails, TypeInv, PlacesType
<1>4. /\ DOMAIN got' = Threads /\ \A u \in Threads : u # t => got'[u] = got[u] /\ awaits'[u] = awaits[u]
      /\ DOMAIN awaits' = Threads /\ awaits'[t] = "none"
  BY DEF Fails, TypeInv, WaitingType
<1>5. /\ at[t] \in {"lost", "handle"} /\ ~authenticated /\ ~authenticated' /\ ~Alive
      /\ at[t] = "handle" => ~Accepted(t) /\ Answered(t)
  BY DEF Fails, Strong, Login, Rests, Accepted, Answered
<1>10. PlacesType'
  BY <1>1, <1>2, <1>3, <1>4, <1>5 DEF TypeInv, PlacesType, InStop, MainPlaces, TaskPlaces, ReceiverPlaces
<1>11. WaitingType'
  BY <1>1, <1>2, <1>3, <1>4, <1>5 DEF TypeInv, PlacesType, WaitingType, Asks
<1>12. NetType'
  BY <1>1, <1>2, <1>3, <1>4, <1>5 DEF TypeInv, NetType
<1>13. Alone'
  BY <1>1, <1>2, <1>3, <1>4, <1>5 DEF Strong, Alone
<1>14. Rests'
  BY <1>1, <1>2, <1>3, <1>4, <1>5 DEF Strong, Rests, Alive
<1>15. Reads'
  BY <1>1, <1>2, <1>3, <1>4, <1>5 DEF Strong, Reads, Alive, TypeInv, NetType
<1>16. Login'
  BY <1>1, <1>2, <1>3, <1>4, <1>5 DEF Strong, Login, Forgetting, InStop, TypeInv, PlacesType
<1>17. Cut'
  BY <1>1, <1>2, <1>3, <1>4, <1>5 DEF Strong, Cut, TypeInv, PlacesType, NetType
<1>18. Stopped'
  BY <1>1, <1>2, <1>3, <1>4, <1>5 DEF Strong, Stopped, InStop, TypeInv, PlacesType, NetType
<1>19. Before'
  BY <1>1, <1>2, <1>3, <1>4, <1>5 DEF Strong, Before, TypeInv, PlacesType, NetType
<1>20. Line'
  BY <1>1, <1>2, <1>3, <1>4, <1>5 DEF Strong, Line, Up, TypeInv, NetType
<1>21. Asked'
  <2>1. ASSUME NEW s \in Sockets, net.connected, Up(s)
        PROVE  peer[s].asks = "none" /\ Fresh(peer[s], 0)
    BY <1>1, <1>5, <2>1 DEF Strong, Serving, Served, Asking, Accepted, Answered, Cut
  <2>. QED
    BY <1>1, <2>1 DEF Asked, Up, Fresh
<1>22. Serving'
  <2>. SUFFICES ASSUME NEW u \in Tasks PROVE Served(u)'
    BY DEF Serving
  <2>1. CASE u = t
    BY <1>2, <1>3, <2>1 DEF Served, Asking, Accepted, Answered, InStop
  <2>2. CASE u # t
    BY <1>1, <1>2, <1>3, <1>4, <2>2, SameServed DEF Strong, Serving
  <2>. QED
    BY <2>1, <2>2
<1>23. Tidy'
  BY <1>1, <1>2, <1>3, <1>4, <1>5 DEF Strong, Tidy, TypeInv, PlacesType
<1>24. Following'
  BY <1>1, <1>2, <1>3, <1>4, <1>5 DEF Strong, Following, Up, TypeInv, NetType
<1>. QED
  BY <1>10, <1>11, <1>12, <1>13, <1>14, <1>15, <1>16, <1>17, <1>18, <1>19, <1>20, <1>21, <1>22, <1>23,
     <1>24 DEF TypeInv, Strong

\* A registration that was answered is over, and its connection is closed
\* (main.cpp:572-656).
LEMMA RegisteredKeeps ==
  ASSUME TypeInv, Strong, NEW t \in Tasks, Registered(t)
  PROVE  TypeInv' /\ Strong'
<1>. USE ThreadKinds
<1>1. UNCHANGED <<net, on, return, shown, peer, gpu, drawer, authenticated>>
  BY DEF Registered, mains
<1>2. at'[t] = "idle" /\ at[t] = "handle" /\ (\A u \in Threads : u # t => at'[u] = at[u]) /\ DOMAIN at' = Threads
  BY Moved DEF Registered, TypeInv
<1>3. /\ DOMAIN got' = Threads /\ \A u \in Threads : u # t => got'[u] = got[u] /\ awaits'[u] = awaits[u]
      /\ DOMAIN awaits' = Threads /\ awaits'[t] = "none"
  BY DEF Registered, TypeInv, WaitingType
<1>4. ~Accepted(t) /\ Answered(t) /\ ~authenticated /\ ~Alive
  BY <1>2 DEF Registered, Strong, Login, Rests, Accepted, Answered, Responses
<1>10. PlacesType'
  BY <1>1, <1>2, <1>3, <1>4 DEF TypeInv, PlacesType, InStop, MainPlaces, TaskPlaces, ReceiverPlaces
<1>11. WaitingType'
  BY <1>1, <1>2, <1>3, <1>4 DEF TypeInv, PlacesType, WaitingType, Asks
<1>12. NetType'
  BY <1>1, <1>2, <1>3, <1>4 DEF TypeInv, NetType
<1>13. Alone'
  BY <1>1, <1>2, <1>3, <1>4 DEF Strong, Alone
<1>14. Rests'
  BY <1>1, <1>2, <1>3, <1>4 DEF Strong, Rests, Alive
<1>15. Reads'
  BY <1>1, <1>2, <1>3, <1>4 DEF Strong, Reads, Alive, TypeInv, NetType
<1>16. Login'
  BY <1>1, <1>2, <1>3, <1>4 DEF Strong, Login, Forgetting, InStop, TypeInv, PlacesType
<1>17. Cut'
  BY <1>1, <1>2, <1>3, <1>4 DEF Strong, Cut, TypeInv, PlacesType, NetType
<1>18. Stopped'
  BY <1>1, <1>2, <1>3, <1>4 DEF Strong, Stopped, InStop, TypeInv, PlacesType, NetType
<1>19. Before'
  BY <1>1, <1>2, <1>3, <1>4 DEF Strong, Before, TypeInv, PlacesType, NetType
<1>20. Line'
  BY <1>1, <1>2, <1>3, <1>4 DEF Strong, Line, Up, TypeInv, NetType
<1>21. Asked'
  <2>1. ASSUME NEW s \in Sockets, net.connected, Up(s)
        PROVE  peer[s].asks = "none" /\ Fresh(peer[s], 0)
    BY <1>2, <1>4, <2>1 DEF Strong, Serving, Served, Asking, Accepted, Answered
  <2>. QED
    BY <1>1, <2>1 DEF Asked, Up, Fresh
<1>22. Serving'
  <2>. SUFFICES ASSUME NEW u \in Tasks PROVE Served(u)'
    BY DEF Serving
  <2>1. CASE u = t
    BY <1>2, <2>1 DEF Served, Asking, Accepted, Answered, InStop
  <2>2. CASE u # t
    BY <1>1, <1>2, <1>3, <2>2, SameServed DEF Strong, Serving
  <2>. QED
    BY <2>1, <2>2
<1>23. Tidy'
  BY <1>1, <1>2, <1>3, <1>4 DEF Strong, Tidy, TypeInv, PlacesType
<1>24. Following'
  BY <1>1, <1>2, <1>3, <1>4 DEF Strong, Following, Up, TypeInv, NetType
<1>. QED
  BY <1>10, <1>11, <1>12, <1>13, <1>14, <1>15, <1>16, <1>17, <1>18, <1>19, <1>20, <1>21, <1>22, <1>23,
     <1>24 DEF TypeInv, Strong

\* A login that was accepted (main.cpp:562-568).
LEMMA LoggedInKeeps ==
  ASSUME TypeInv, Strong, NEW t \in Tasks, LoggedIn(t)
  PROVE  TypeInv' /\ Strong'
<1>. USE ThreadKinds
<1>1. UNCHANGED <<net, on, return, shown, peer, gpu, drawer>> /\ authenticated'
  BY DEF LoggedIn, mains
<1>2. at'[t] = "free" /\ at[t] = "handle" /\ (\A u \in Threads : u # t => at'[u] = at[u]) /\ DOMAIN at' = Threads
  BY Moved DEF LoggedIn, TypeInv
<1>3. /\ DOMAIN got' = Threads /\ \A u \in Threads : u # t => got'[u] = got[u] /\ awaits'[u] = awaits[u]
      /\ DOMAIN awaits' = Threads /\ awaits'[t] = "none"
  BY DEF LoggedIn, TypeInv, WaitingType
<1>4. Accepted(t) /\ Answered(t) /\ ~Alive /\ \A u \in Tasks : u # t => at[u] = "idle"
  BY <1>2 DEF LoggedIn, Strong, Rests, Alone, Accepted, Answered, Responses
<1>10. PlacesType'
  BY <1>1, <1>2, <1>3, <1>4 DEF TypeInv, PlacesType, InStop, MainPlaces, TaskPlaces, ReceiverPlaces
<1>11. WaitingType'
  BY <1>1, <1>2, <1>3, <1>4 DEF TypeInv, PlacesType, WaitingType, Asks
<1>12. NetType'
  BY <1>1, <1>2, <1>3, <1>4 DEF TypeInv, NetType
<1>13. Alone'
  BY <1>1, <1>2, <1>3, <1>4 DEF Strong, Alone
<1>14. Rests'
  BY <1>1, <1>2, <1>3, <1>4 DEF Strong, Rests, Alive
<1>15. Reads'
  BY <1>1, <1>2, <1>3, <1>4 DEF Strong, Reads, Alive, TypeInv, NetType
<1>16. Login'
  BY <1>1, <1>2, <1>3, <1>4 DEF Strong, Login, Forgetting, InStop, TypeInv, PlacesType
<1>17. Cut'
  BY <1>1, <1>2, <1>3, <1>4 DEF Strong, Cut, TypeInv, PlacesType, NetType
<1>18. Stopped'
  BY <1>1, <1>2, <1>3, <1>4 DEF Strong, Stopped, InStop, TypeInv, PlacesType, NetType
<1>19. Before'
  BY <1>1, <1>2, <1>3, <1>4 DEF Strong, Before, TypeInv, PlacesType, NetType
<1>20. Line'
  BY <1>1, <1>2, <1>3, <1>4 DEF Strong, Line, Up, TypeInv, NetType
<1>21. Asked'
  <2>1. ASSUME NEW s \in Sockets, net.connected, Up(s)
        PROVE  peer[s].asks = "none" /\ Fresh(peer[s], 1)
    BY <1>2, <1>4, <2>1 DEF Strong, Serving, Served, Asking, Accepted, Answered
  <2>. QED
    BY <1>1, <2>1 DEF Asked, Up, Fresh
<1>22. Serving'
  <2>. SUFFICES ASSUME NEW u \in Tasks PROVE Served(u)'
    BY DEF Serving
  <2>1. CASE u = t
    BY <1>1, <1>2, <1>4, <2>1 DEF Strong, Serving, Served, Asking, Accepted, Answered, InStop, Up, Fresh
  <2>2. CASE u # t
    BY <1>1, <1>2, <1>3, <2>2, SameServed DEF Strong, Serving
  <2>. QED
    BY <2>1, <2>2
<1>23. Tidy'
  BY <1>1, <1>2, <1>3, <1>4 DEF Strong, Tidy, TypeInv, PlacesType
<1>24. Following'
  BY <1>1, <1>2, <1>3, <1>4 DEF Strong, Following, Up, TypeInv, NetType
<1>. QED
  BY <1>10, <1>11, <1>12, <1>13, <1>14, <1>15, <1>16, <1>17, <1>18, <1>19, <1>20, <1>21, <1>22, <1>23,
     <1>24 DEF TypeInv, Strong

\* ... lets the next button be pressed (main.cpp:563),
LEMMA FreesKeeps ==
  ASSUME TypeInv, Strong, NEW t \in Tasks, Frees(t)
  PROVE  TypeInv' /\ Strong'
<1>. USE ThreadKinds
<1>1. UNCHANGED <<net, awaits, on, got, return, shown, peer, gpu, drawer, authenticated>>
  BY DEF Frees, MovesTo, mains
<1>2. at'[t] = "start" /\ at[t] = "free" /\ (\A u \in Threads : u # t => at'[u] = at[u]) /\ DOMAIN at' = Threads
  BY Moved DEF Frees, MovesTo, TypeInv
<1>10. PlacesType'
  BY <1>1, <1>2 DEF TypeInv, PlacesType, InStop, MainPlaces, TaskPlaces, ReceiverPlaces
<1>11. WaitingType'
  BY <1>1, <1>2 DEF TypeInv, PlacesType, WaitingType, Asks
<1>12. NetType'
  BY <1>1, <1>2 DEF TypeInv, NetType
<1>13. Alone'
  BY <1>1, <1>2 DEF Strong, Alone
<1>14. Rests'
  BY <1>1, <1>2 DEF Strong, Rests, Alive
<1>15. Reads'
  BY <1>1, <1>2 DEF Strong, Reads, Alive, TypeInv, NetType
<1>16. Login'
  BY <1>1, <1>2 DEF Strong, Login, Forgetting, InStop, TypeInv, PlacesType
<1>17. Cut'
  BY <1>1, <1>2 DEF Strong, Cut, TypeInv, PlacesType, NetType
<1>18. Stopped'
  BY <1>1, <1>2 DEF Strong, Stopped, InStop, TypeInv, PlacesType, NetType
<1>19. Before'
  BY <1>1, <1>2 DEF Strong, Before, TypeInv, PlacesType, NetType
<1>20. Line'
  BY <1>1, <1>2 DEF Strong, Line, Up, TypeInv, NetType
<1>21. Asked'
  BY <1>1, <1>2 DEF Strong, Asked, Up, Asking, Accepted, InStop, TypeInv, NetType
<1>22. Serving'
  <2>. SUFFICES ASSUME NEW u \in Tasks PROVE Served(u)'
    BY DEF Serving
  <2>1. CASE u = t
    BY <1>1, <1>2, <2>1 DEF Strong, Serving, Served, Asking, Accepted, Answered, InStop, Up, Fresh
  <2>2. CASE u # t
    BY <1>1, <1>2, <2>2, SameServed DEF Strong, Serving
  <2>. QED
    BY <2>1, <2>2
<1>23. Tidy'
  BY <1>1, <1>2 DEF Strong, Tidy, TypeInv, PlacesType
<1>24. Following'
  BY <1>1, <1>2 DEF Strong, Following, Up, TypeInv, NetType
<1>. QED
  BY <1>10, <1>11, <1>12, <1>13, <1>14, <1>15, <1>16, <1>17, <1>18, <1>19, <1>20, <1>21, <1>22, <1>23,
     <1>24 DEF TypeInv, Strong

\* ... and starts the thread that receives (main.cpp:567-569).
LEMMA ListensKeeps ==
  ASSUME TypeInv, Strong, NEW t \in Tasks, Listens(t)
  PROVE  TypeInv' /\ Strong'
<1>. USE ThreadKinds
<1>1. UNCHANGED <<awaits, on, got, return, shown, peer, gpu, drawer, authenticated>>
  BY DEF Listens, StartReceiveLoop, mains
<1>2. at[t] = "start" /\ ~Alive /\ DOMAIN at' = Threads /\ \A u \in Tasks : u # t => at[u] = "idle"
  BY Moved DEF Listens, StartReceiveLoop, TypeInv, PlacesType, Strong, Rests, Alone
<1>3. \/ at' = at /\ net.connected
      \/ at'[t] = "idle" /\ net' = net /\ \A u \in Threads : u # t => at'[u] = at[u]
      \/ /\ at'[t] = "idle" /\ at["receiver"] = "none" /\ at'["receiver"] = "loop" /\ net.connected /\ net'.running
         /\ \A u \in Threads : u # t /\ u # "receiver" => at'[u] = at[u]
  BY Moved DEF Listens, StartReceiveLoop, TypeInv, PlacesType, NetType
<1>4. /\ net' \in [socket : {0} \cup Sockets, connected : BOOLEAN, running : BOOLEAN]
      /\ net'.socket = net.socket /\ net'.connected = net.connected
  BY Moved DEF Listens, StartReceiveLoop, TypeInv, NetType
<1>10. PlacesType'
  BY <1>1, <1>2, <1>3, <1>4 DEF TypeInv, PlacesType, InStop, MainPlaces, TaskPlaces, ReceiverPlaces
<1>11. WaitingType'
  BY <1>1, <1>2, <1>3, <1>4 DEF TypeInv, PlacesType, WaitingType, Asks
<1>12. NetType'
  BY <1>1, <1>2, <1>3, <1>4 DEF TypeInv, NetType
<1>13. Alone'
  BY <1>1, <1>2, <1>3, <1>4 DEF Strong, Alone
<1>14. Rests'
  BY <1>1, <1>2, <1>3, <1>4 DEF Strong, Rests, Alive
<1>15. Reads'
  <2>1. net.connected => authenticated
    BY <1>2 DEF Strong, Login
  <2>2. \A u \in Tasks : at'[u] # "connect"
    BY <1>2, <1>3
  <2>3. net.connected /\ Alive' => net'.running
    BY <1>2, <1>3 DEF Alive
  <2>. QED
    BY <1>1, <1>4, <2>1, <2>2, <2>3 DEF Reads
<1>16. Login'
  BY <1>1, <1>2, <1>3, <1>4 DEF Strong, Login, Forgetting, InStop, TypeInv, PlacesType
<1>17. Cut'
  BY <1>1, <1>2, <1>3, <1>4 DEF Strong, Cut, TypeInv, PlacesType, NetType
<1>18. Stopped'
  <2>1. at'["main"] = at["main"] /\ (at'["receiver"] = at["receiver"] \/ net.connected)
    BY <1>2, <1>3
  <2>2. net.connected => at["main"] \notin {"close", "join", "clear"}
    BY DEF Strong, Cut
  <2>. QED
    BY <1>1, <1>4, <2>1, <2>2 DEF Strong, Stopped, InStop
<1>19. Before'
  BY <1>1, <1>2, <1>3, <1>4 DEF Strong, Before, TypeInv, PlacesType, NetType
<1>20. Line'
  BY <1>1, <1>2, <1>3, <1>4 DEF Strong, Line, Up, TypeInv, NetType
<1>21. Asked'
  BY <1>1, <1>2, <1>3, <1>4 DEF Strong, Asked, Up, Asking, Accepted, InStop, TypeInv, NetType
<1>22. Serving'
  <2>. SUFFICES ASSUME NEW u \in Tasks PROVE Served(u)'
    BY DEF Serving
  <2>1. CASE at'[u] = "idle"
    BY <2>1 DEF Served, Asking, Accepted, Answered, InStop
  <2>2. CASE at'[u] = at[u]
    BY <1>1, <2>2, SameServed DEF Strong, Serving
  <2>. QED
    BY <1>2, <1>3, <2>1, <2>2
<1>23. Tidy'
  BY <1>1, <1>2, <1>3, <1>4 DEF Strong, Tidy, TypeInv, PlacesType
<1>24. Following'
  <2>. SUFFICES ASSUME NEW s \in Sockets, net.connected, Up(s), at'["receiver"] \in {"loop", "recv", "blocked", "handle"}
       PROVE  at'["receiver"] = "loop" /\ Mirror(shown, peer[s])
    BY <1>1, <1>4 DEF Following, Up
  <2>1. at["receiver"] = "none" /\ at'["receiver"] = "loop"
    BY <1>2, <1>3 DEF Alive
  <2>2. shown.remotes = {} /\ shown.items = {}
    BY <2>1 DEF Strong, Tidy, Cut
  <2>3. Fresh(peer[s], 1)
    BY <1>2 DEF Strong, Serving, Served
  <2>. QED
    BY <2>1, <2>2, <2>3 DEF Mirror, Fresh
<1>. QED
  BY <1>10, <1>11, <1>12, <1>13, <1>14, <1>15, <1>16, <1>17, <1>18, <1>19, <1>20, <1>21, <1>22, <1>23,
     <1>24 DEF TypeInv, Strong

\* RunLogin asks for a connection (main.cpp:488-548): it has one, makes one, or
\* is refused.
LEMMA ConnectTypes ==
  ASSUME TypeInv, Strong, NEW t \in Tasks, Connect(t)
  PROVE  TypeInv'
<1>. USE ThreadKinds
<1>1. UNCHANGED <<on, got, return, shown, gpu, drawer, authenticated>>
  BY DEF Connect, mains
<1>2. at[t] = "connect" /\ (\A u \in Threads : u # t => at'[u] = at[u]) /\ DOMAIN at' = Threads
  BY Moved DEF Connect, TypeInv
<1>3. /\ DOMAIN awaits' = Threads /\ (\A u \in Threads : u # t => awaits'[u] = awaits[u])
      /\ awaits'[t] \in Asks /\ (at'[t] # "idle" => awaits'[t] = awaits[t])
  BY DEF Connect, TypeInv, WaitingType, Asks
<1>4. at'[t] \in {"request", "idle"}
  BY Moved DEF Connect, TypeInv
<1>5. net' \in [socket : {0} \cup Sockets, connected : BOOLEAN, running : BOOLEAN] /\ peer' \in [Sockets -> Peers]
  <2>1. [Unused EXCEPT !.line = "up"] \in Peers
    BY DEF Unused, Peers, Asks
  <2>2. CASE UNCHANGED <<net, peer>>
    BY <2>2 DEF TypeInv, NetType
  <2>3. CASE \E s \in Sockets : Connects(s)
    BY ZenonT(60), <2>1, <2>3 DEF Connects, TypeInv, NetType
  <2>. QED
    BY <2>2, <2>3 DEF Connect
<1>10. PlacesType'
  BY <1>1, <1>2, <1>3, <1>4, <1>5 DEF TypeInv, PlacesType, InStop, MainPlaces, TaskPlaces, ReceiverPlaces
<1>11. WaitingType'
  BY <1>1, <1>2, <1>3, <1>4, <1>5 DEF TypeInv, PlacesType, WaitingType, Asks
<1>12. NetType'
  BY <1>1, <1>2, <1>3, <1>4, <1>5 DEF TypeInv, NetType
<1>. QED
  BY <1>10, <1>11, <1>12 DEF TypeInv

\* With the connection there is, or none.
LEMMA ConnectSameKeeps ==
  ASSUME TypeInv, Strong, NEW t \in Tasks, Connect(t),
         UNCHANGED <<net, peer>>, (Goes(t, "request") /\ net.connected) \/ Goes(t, "idle")
  PROVE  Strong'
<1>. USE ThreadKinds
<1>1. UNCHANGED <<on, got, return, shown, gpu, drawer, authenticated>>
  BY DEF Connect, mains
<1>2. at[t] = "connect" /\ (\A u \in Threads : u # t => at'[u] = at[u]) /\ DOMAIN at' = Threads
  BY Moved DEF Connect, TypeInv
<1>3. /\ DOMAIN awaits' = Threads /\ (\A u \in Threads : u # t => awaits'[u] = awaits[u])
      /\ awaits'[t] \in Asks /\ (at'[t] # "idle" => awaits'[t] = awaits[t])
  BY DEF Connect, TypeInv, WaitingType, Asks
<1>4. UNCHANGED <<net, peer>>
  OBVIOUS
<1>5. (at'[t] = "request" /\ net.connected) \/ at'[t] = "idle"
  BY Moved DEF TypeInv
<1>6. net.connected => ~Alive /\ ~authenticated /\ \A u \in Tasks : ~Asking(u)
  BY <1>2 DEF Strong, Reads, Login, Alone, Asking, InStop
<1>10. Alone'
  BY <1>1, <1>2, <1>3, <1>4, <1>5, <1>6 DEF Strong, Alone
<1>11. Rests'
  BY <1>2, <1>5, <1>6 DEF Strong, Rests, Alive
<1>12. Reads'
  BY <1>1, <1>2, <1>3, <1>4, <1>5, <1>6 DEF Strong, Reads, Alive, TypeInv, NetType
<1>13. Login'
  BY <1>1, <1>2, <1>3, <1>4, <1>5, <1>6 DEF Strong, Login, Forgetting, InStop, TypeInv, PlacesType
<1>14. Cut'
  BY <1>1, <1>2, <1>3, <1>4, <1>5, <1>6 DEF Strong, Cut, TypeInv, PlacesType, NetType
<1>15. Stopped'
  BY <1>1, <1>2, <1>3, <1>4, <1>5, <1>6 DEF Strong, Stopped, InStop, TypeInv, PlacesType, NetType
<1>16. Before'
  BY <1>1, <1>2, <1>3, <1>4, <1>5, <1>6 DEF Strong, Before, TypeInv, PlacesType, NetType
<1>17. Line'
  BY <1>1, <1>2, <1>3, <1>4, <1>5, <1>6 DEF Strong, Line, Up, TypeInv, NetType
<1>18. Asked'
  BY <1>1, <1>2, <1>3, <1>4, <1>5, <1>6 DEF Strong, Asked, Up, Asking, Accepted, InStop, TypeInv, NetType
<1>19. Serving'
  <2>. SUFFICES ASSUME NEW u \in Tasks PROVE Served(u)'
    BY DEF Serving
  <2>1. CASE u = t
    <3>1. CASE at'[t] = "idle"
      BY <2>1, <3>1 DEF Served, Asking, Accepted, Answered, InStop
    <3>2. CASE at'[t] = "request" /\ net.connected
      <4>1. \A v \in Tasks : ~Accepted(v)
        BY <1>6, <3>2 DEF Accepted, Asking
      <4>2. \A s \in Sockets : Up(s) => Fresh(peer[s], 0) /\ peer[s].asks = "none"
        BY <1>6, <3>2, <4>1 DEF Strong, Asked
      <4>3. awaits'[t] \in {"login", "register"}
        BY <1>2, <1>3, <3>2 DEF Strong, Serving, Served
      <4>. QED
        BY <1>4, <2>1, <3>2, <4>2, <4>3 DEF Served, Up, Fresh, Accepted, Answered
    <3>. QED
      BY <1>5, <3>1, <3>2
  <2>2. CASE u # t
    BY <1>1, <1>2, <1>3, <1>4, <2>2, SameServed DEF Strong, Serving
  <2>. QED
    BY <2>1, <2>2
<1>20. Tidy'
  BY <1>1, <1>2, <1>3, <1>4, <1>5, <1>6 DEF Strong, Tidy, TypeInv, PlacesType
<1>21. Following'
  BY <1>1, <1>2, <1>3, <1>4, <1>5, <1>6 DEF Strong, Following, Up, TypeInv, NetType
<1>. QED
  BY <1>10, <1>11, <1>12, <1>13, <1>14, <1>15, <1>16, <1>17, <1>18, <1>19, <1>20, <1>21 DEF Strong

\* With a new one, made when no thread receives on the old one and the program
\* is not at its end.
LEMMA ConnectNewKeeps ==
  ASSUME TypeInv, Strong, NEW t \in Tasks, Connect(t),
         ~net.connected, Goes(t, "request"), NEW new \in Sockets, Connects(new), ~Alive, return["main"] \notin {"destroy", "reset"}
  PROVE  Strong'
<1>. USE ThreadKinds
<1>1. UNCHANGED <<on, got, return, shown, gpu, drawer, authenticated>>
  BY DEF Connect, mains
<1>2. at[t] = "connect" /\ (\A u \in Threads : u # t => at'[u] = at[u]) /\ DOMAIN at' = Threads
  BY Moved DEF Connect, TypeInv
<1>3. /\ DOMAIN awaits' = Threads /\ (\A u \in Threads : u # t => awaits'[u] = awaits[u])
      /\ awaits'[t] \in Asks /\ (at'[t] # "idle" => awaits'[t] = awaits[t])
  BY DEF Connect, TypeInv, WaitingType, Asks
<1>4. /\ at'[t] = "request" /\ net'.connected /\ net'.socket = new /\ net'.running = net.running
      /\ peer'[new] = [Unused EXCEPT !.line = "up"] /\ \A s \in Sockets : s # new => peer'[s] = peer[s]
  BY Moved DEF Connects, TypeInv, NetType
<1>5. /\ peer'[new].line = "up" /\ peer'[new].asks = "none" /\ Fresh(peer'[new], 0)
  BY <1>4 DEF Unused, Fresh
<1>6. /\ ~authenticated /\ ~Forgetting /\ ~InStop("main") /\ at["main"] \notin {"forget", "destroy", "reset", "start", "device"}
      /\ \A u \in Tasks : u # t => at[u] = "idle"
  BY <1>2 DEF Strong, Login, Alone, Before, Stopped, Forgetting, InStop, TypeInv, PlacesType
<1>7. \A u \in Threads : u # t => at'[u] \notin {"flags", "close", "join", "clear", "lost", "ending", "blocked"}
  BY <1>2, <1>6 DEF Alive, TypeInv, PlacesType, ReceiverPlaces, MainPlaces, InStop
<1>8. \A s \in Sockets : s # new => peer'[s].line # "up"
  <2>. SUFFICES ASSUME NEW s \in Sockets, s # new, Up(s) PROVE FALSE
    BY <1>4 DEF Up
  <2>1. net.socket = s /\ s # 0
    BY SocketKinds DEF Strong, Line
  <2>2. PICK u \in Threads : at[u] = "close"
    BY <2>1 DEF Strong, Line
  <2>. QED
    BY <1>2, <1>7, <2>2
<1>10. Alone'
  BY <1>1, <1>2, <1>3, <1>4, <1>5, <1>6, <1>7, <1>8 DEF Strong, Alone
<1>11. Rests'
  BY <1>1, <1>2, <1>3, <1>4, <1>5, <1>6, <1>7, <1>8 DEF Strong, Rests, Alive
<1>12. Reads'
  BY <1>1, <1>2, <1>3, <1>4, <1>5, <1>6, <1>7, <1>8 DEF Strong, Reads, Alive, TypeInv, NetType
<1>13. Login'
  BY <1>1, <1>2, <1>3, <1>4, <1>5, <1>6, <1>7, <1>8 DEF Strong, Login, Forgetting, InStop, TypeInv,
     PlacesType
<1>14. Cut'
  BY <1>1, <1>2, <1>3, <1>4, <1>5, <1>6, <1>7, <1>8 DEF Strong, Cut, TypeInv, PlacesType, NetType
<1>15. Stopped'
  BY <1>1, <1>2, <1>3, <1>4, <1>5, <1>6, <1>7, <1>8 DEF Strong, Stopped, InStop, TypeInv, PlacesType,
     NetType
<1>16. Before'
  BY <1>1, <1>2, <1>3, <1>4, <1>5, <1>6, <1>7, <1>8 DEF Strong, Before, TypeInv, PlacesType, NetType
<1>17. Line'
  <2>1. new # 0
    BY SocketKinds
  <2>2. \A s \in Sockets : Up(s)' => s = new
    BY <1>8 DEF Up
  <2>. QED
    BY <1>2, <1>4, <1>7, <2>1, <2>2 DEF Line
<1>18. Asked'
  <2>1. peer'[new].stage = 0
    BY <1>5 DEF Fresh
  <2>. QED
    BY <1>5, <1>8, <2>1 DEF Asked, Up, Fresh
<1>19. Serving'
  <2>. SUFFICES ASSUME NEW u \in Tasks PROVE Served(u)'
    BY DEF Serving
  <2>1. CASE u = t
    BY <1>2, <1>3, <1>4, <1>5, <1>8, <2>1 DEF Strong, Serving, Served, Asking, Accepted, Answered, Up, Fresh
  <2>2. CASE u # t
    BY <1>2, <1>6, <2>2 DEF Served, Asking, Accepted, Answered, InStop
  <2>. QED
    BY <2>1, <2>2
<1>20. Tidy'
  BY <1>1, <1>2, <1>3, <1>4, <1>5, <1>6, <1>7, <1>8 DEF Strong, Tidy, TypeInv, PlacesType
<1>21. Following'
  <2>1. at'["receiver"] \notin {"loop", "recv", "blocked", "handle"}
    BY <1>2 DEF Alive
  <2>. QED
    BY <2>1 DEF Following
<1>. QED
  BY <1>10, <1>11, <1>12, <1>13, <1>14, <1>15, <1>16, <1>17, <1>18, <1>19, <1>20, <1>21 DEF Strong

\* Steps of the frame, the status check and the screens touch none of it.
LEMMA Untouched ==
  ASSUME TypeInv, Strong, UNCHANGED <<net, at, awaits, on, got, return, shown, peer, gpu, drawer,
         authenticated>>
  PROVE  TypeInv' /\ Strong'
<1>1. PlacesType'
  BY DEF TypeInv, PlacesType, InStop, MainPlaces, TaskPlaces, ReceiverPlaces
<1>2. WaitingType'
  BY DEF TypeInv, PlacesType, WaitingType, Asks
<1>3. NetType'
  BY DEF TypeInv, NetType
<1>4. Alone'
  BY DEF Strong, Alone
<1>5. Rests'
  BY DEF Strong, Rests, Alive
<1>6. Reads'
  BY DEF Strong, Reads, Alive, TypeInv, NetType
<1>7. Login'
  BY DEF Strong, Login, Forgetting, InStop, TypeInv, PlacesType
<1>8. Cut'
  BY DEF Strong, Cut, TypeInv, PlacesType, NetType
<1>9. Stopped'
  BY DEF Strong, Stopped, InStop, TypeInv, PlacesType, NetType
<1>10. Before'
  BY DEF Strong, Before, TypeInv, PlacesType, NetType
<1>11. Line'
  BY DEF Strong, Line, Up, TypeInv, NetType
<1>12. Asked'
  BY DEF Strong, Asked, Up, Asking, Accepted, InStop, TypeInv, NetType, Fresh
<1>13. Serving'
  <2>. SUFFICES ASSUME NEW u \in Tasks PROVE Served(u)'
    BY DEF Serving
  <2>. QED
    BY SameServed DEF Strong, Serving
<1>14. Tidy'
  BY DEF Strong, Tidy, TypeInv, PlacesType
<1>15. Following'
  BY DEF Strong, Following, Up, TypeInv, NetType
<1>. QED
  BY <1>1, <1>2, <1>3, <1>4, <1>5, <1>6, <1>7, <1>8, <1>9, <1>10, <1>11, <1>12, <1>13, <1>14, <1>15
     DEF TypeInv, Strong

\* The window's thread goes from one part of a frame to the next, or into Stop,
\* and leaves the connection to it.
LEMMA MainMoves ==
  ASSUME TypeInv, Strong, UNCHANGED <<net, awaits, on, got, shown, peer>>,
         DOMAIN at' = Threads, DOMAIN return' = Threads,
         \A u \in Threads : u # "main" => at'[u] = at[u] /\ return'[u] = return[u],
         at["main"] \notin {"close", "join", "clear"}, at'["main"] \in MainPlaces \ {"close", "join", "clear"},
         at'["main"] = "flags" => return'["main"] \in {"forget", "destroy", "reset"},
         Forgetting' => Forgetting \/ authenticated,
         authenticated' => authenticated, authenticated /\ ~authenticated' => ~net.connected,
         Stopped', Before'
  PROVE  TypeInv' /\ Strong'
<1>. USE ThreadKinds
<1>1. UNCHANGED <<net, awaits, on, got, shown, peer>>
  OBVIOUS
<1>2. \A u \in Tasks \cup {"receiver"} : at'[u] = at[u] /\ return'[u] = return[u]
  OBVIOUS
<1>3. at'["main"] \notin {"blocked", "close", "join", "clear", "lost", "ending"}
  BY DEF MainPlaces
<1>10. PlacesType'
  BY <1>1, <1>2 DEF TypeInv, PlacesType, InStop, MainPlaces, TaskPlaces, ReceiverPlaces
<1>11. WaitingType'
  BY <1>1, <1>2, <1>3 DEF TypeInv, PlacesType, WaitingType, Asks
<1>12. NetType'
  BY <1>1, <1>2 DEF TypeInv, NetType
<1>13. Alone'
  BY <1>1, <1>2 DEF Strong, Alone
<1>14. Rests'
  BY <1>1, <1>2 DEF Strong, Rests, Alive
<1>15. Reads'
  BY <1>1, <1>2 DEF Strong, Reads, Alive, TypeInv, NetType
<1>16. Login'
  BY <1>1, <1>2 DEF Strong, Login, Forgetting, InStop, TypeInv, PlacesType
<1>17. Cut'
  BY <1>1, <1>2, <1>3 DEF Strong, Cut, TypeInv, PlacesType, NetType
<1>18. Line'
  BY <1>1, <1>2, <1>3 DEF Strong, Line, Up, TypeInv, NetType
<1>19. Asked'
  BY ZenonT(60), <1>1, <1>2 DEF Strong, Asked, Up, Asking, Accepted, InStop, TypeInv, NetType
<1>20. Serving'
  <2>. SUFFICES ASSUME NEW u \in Tasks PROVE Served(u)'
    BY DEF Serving
  <2>. QED
    BY <1>1, <1>2, SameServed DEF Strong, Serving
<1>21. Tidy'
  BY <1>1, <1>2, <1>3 DEF Strong, Tidy, TypeInv, PlacesType
<1>22. Following'
  BY <1>1, <1>2 DEF Strong, Following, Up, TypeInv, NetType
<1>. QED
  BY <1>10, <1>11, <1>12, <1>13, <1>14, <1>15, <1>16, <1>17, <1>18, <1>19, <1>20, <1>21, <1>22
     DEF TypeInv, Strong

\* ... from one part of a frame to the next (main.cpp:1183-1257),
LEMMA MainWalks ==
  ASSUME TypeInv, Strong, NEW place \in MainPlaces \ {"flags", "close", "join", "clear", "forget",
         "destroy", "reset", "device", "start"},
         MovesTo("main", place), at["main"] \notin {"close", "join", "clear"},
         authenticated' => authenticated, authenticated /\ ~authenticated' => ~net.connected
  PROVE  TypeInv' /\ Strong'
<1>. USE ThreadKinds
<1>1. UNCHANGED <<net, awaits, on, got, return, shown, peer>>
  BY DEF MovesTo
<1>2. at'["main"] = place /\ (\A u \in Threads : u # "main" => at'[u] = at[u]) /\ DOMAIN at' = Threads
  BY Moved DEF MovesTo, TypeInv
<1>3. Stopped' /\ Before' /\ ~Forgetting'
  BY <1>2 DEF Stopped, Before, Forgetting, InStop
<1>. QED
  BY <1>1, <1>2, <1>3, MainMoves DEF TypeInv, PlacesType

\* ... and into Stop, called for DISCONNECT, for the end or by the destructor
\* (main.cpp:658-668, 1259-1263).
LEMMA MainStops ==
  ASSUME TypeInv, Strong, NEW back \in {"forget", "destroy", "reset"},
         Goes("main", "flags"), return' = [return EXCEPT !["main"] = back], at["main"] \notin {"close", "join", "clear"},
         UNCHANGED <<net, awaits, on, got, shown, peer, authenticated>>,
         back = "forget" => authenticated, back = "reset" => at["main"] = "destroy"
  PROVE  TypeInv' /\ Strong'
<1>. USE ThreadKinds
<1>1. at'["main"] = "flags" /\ (\A u \in Threads : u # "main" => at'[u] = at[u]) /\ DOMAIN at' = Threads
  BY Moved DEF TypeInv
<1>2. return'["main"] = back /\ (\A u \in Threads : u # "main" => return'[u] = return[u]) /\ DOMAIN return' = Threads
  BY DEF TypeInv, PlacesType
<1>3. back = "reset" => ~net.connected /\ net.socket = 0 /\ at["receiver"] = "none"
  BY DEF Strong, Stopped
<1>4. Stopped'
  BY <1>1, <1>2, <1>3 DEF Stopped, InStop
<1>5. Before' /\ (Forgetting' => authenticated)
  BY <1>1, <1>2 DEF Before, Forgetting, InStop
<1>. QED
  BY <1>1, <1>2, <1>4, <1>5, MainMoves DEF MainPlaces

\* A frame begins with messages and the status check (main.cpp:313-362),
LEMMA BeginFrameKeeps ==
  ASSUME TypeInv, Strong, BeginFrame
  PROVE  TypeInv' /\ Strong'
BY MainWalks DEF BeginFrame, MainPlaces

\* ... notices a lost connection (main.cpp:375-486),
LEMMA NoticeLossKeeps ==
  ASSUME TypeInv, Strong, NoticeLoss, mishaps' = {}
  PROVE  TypeInv' /\ Strong'
<1>1. authenticated /\ ~authenticated' => ~net.connected
  BY DEF NoticeLoss, AfterFrame
<1>. QED
  BY <1>1, MainWalks DEF NoticeLoss, AfterFrame, MainPlaces

\* ... and is drawn (main.cpp:1207-1257).
LEMMA DrawFrameKeeps ==
  ASSUME TypeInv, Strong, DrawFrame
  PROVE  TypeInv' /\ Strong'
BY MainWalks DEF DrawFrame, EndsFrame, MovesTo, MainPlaces

\* After DISCONNECT the login is forgotten (main.cpp:663-667).
LEMMA ForgetLoginKeeps ==
  ASSUME TypeInv, Strong, ForgetLogin
  PROVE  TypeInv' /\ Strong'
<1>1. ~net.connected
  BY DEF ForgetLogin, Strong, Stopped
<1>. QED
  BY <1>1, MainWalks DEF ForgetLogin, MainPlaces

\* The window is closed (main.cpp:1016-1061).
LEMMA CloseWindowKeeps ==
  ASSUME TypeInv, Strong, CloseWindow
  PROVE  TypeInv' /\ Strong'
BY MainStops DEF CloseWindow

\* DISCONNECT is pressed (main.cpp:658-668).
LEMMA RunDisconnectKeeps ==
  ASSUME TypeInv, Strong, RunDisconnect
  PROVE  TypeInv' /\ Strong'
BY MainStops DEF RunDisconnect, EndsFrame

\* The frames are over: the network client is stopped and destroyed
\* (main.cpp:1259-1263).
LEMMA DestroyClientKeeps ==
  ASSUME TypeInv, Strong, DestroyClient
  PROVE  TypeInv' /\ Strong'
BY MainStops DEF DestroyClient

\* The renderers are released last (main.cpp:1259-1284).
LEMMA EndProgramKeeps ==
  ASSUME TypeInv, Strong, EndProgram
  PROVE  TypeInv' /\ Strong' /\ ~crashed' /\ EndsClean'
<1>1. net.socket = 0 /\ at["receiver"] = "none"
  BY DEF EndProgram, Strong, Stopped
<1>2. TypeInv' /\ Strong'
  <2>. USE ThreadKinds
  <2>1. at'["main"] = "ended" /\ (\A u \in Threads : u # "main" => at'[u] = at[u]) /\ DOMAIN at' = Threads
    BY Moved DEF EndProgram, TypeInv
  <2>2. Stopped' /\ Before' /\ ~Forgetting'
    BY <2>1 DEF Stopped, Before, Forgetting, InStop
  <2>. QED
    BY <2>1, <2>2, MainMoves DEF EndProgram, TypeInv, PlacesType, MainPlaces
<1>3. \A s \in Sockets : peer'[s].line # "up"
  BY <1>1, SocketKinds DEF EndProgram, Strong, Line, Up
<1>. QED
  BY <1>1, <1>2, <1>3 DEF EndProgram, EndsClean, Shutdown, ShutdownScene

\* The program starts with the device (main.cpp:1063-1107),
LEMMA StartRendererKeeps ==
  ASSUME TypeInv, Strong, StartRenderer
  PROVE  TypeInv' /\ Strong' /\ (Ended' => ~gpu'.device)
<1>. USE ThreadKinds
<1>1. at["main"] = "start" /\ gpu = NoGpu /\ drawer' = NoScene /\ drawer = NoScene
  BY DEF StartRenderer, Strong, Before
<1>2. at'["main"] = (IF gpu'.initialized THEN "device" ELSE "ended")
        /\ (\A u \in Threads : u # "main" => at'[u] = at[u]) /\ DOMAIN at' = Threads
  BY Moved DEF StartRenderer, MovesTo, TypeInv
<1>3. UNCHANGED <<net, awaits, on, got, return, shown, peer, authenticated>>
  BY DEF StartRenderer, MovesTo
<1>4. Stopped' /\ ~Forgetting' /\ Before'
  BY <1>1, <1>2, <1>3 DEF Strong, Stopped, Before, Forgetting, InStop
<1>5. ~gpu'.initialized => ~gpu'.device
  <2>. DEFINE created == [device |-> TRUE, initialized |-> FALSE, size |-> 1, buffers |-> 1, target |-> 0, depth |-> 0]
              views == UNION {CreateDepthStencil(t) : t \in CreateRenderTarget(created)}
  <2>1. gpu' \in {[d EXCEPT !.initialized = TRUE] : d \in views} \cup {[NoGpu EXCEPT !.size = 1], Shutdown(created)}
    BY <1>1 DEF StartRenderer, Initialize, NoGpu
  <2>2. \A d \in views : [d EXCEPT !.initialized = TRUE].initialized
    BY DEF CreateDepthStencil, CreateRenderTarget
  <2>3. ~[NoGpu EXCEPT !.size = 1].device /\ ~Shutdown(created).device
    BY DEF NoGpu, Shutdown
  <2>. HIDE DEF views, created
  <2>4. CASE \E d \in views : gpu' = [d EXCEPT !.initialized = TRUE]
    BY <2>2, <2>4
  <2>5. CASE gpu' = [NoGpu EXCEPT !.size = 1] \/ gpu' = Shutdown(created)
    BY <2>3, <2>5
  <2>. QED
    BY <2>1, <2>4, <2>5
<1>. QED
  BY <1>2, <1>3, <1>4, <1>5, <1>1, MainMoves DEF TypeInv, PlacesType, MainPlaces, Ended

\* ... and the world's renderer, or ends there (main.cpp:1108-1181).
LEMMA StartWorldKeeps ==
  ASSUME TypeInv, Strong, StartWorld
  PROVE  TypeInv' /\ Strong' /\ (Ended' => ~gpu'.device)
<1>. USE ThreadKinds
<1>1. at["main"] = "device" /\ UNCHANGED <<net, awaits, on, got, return, shown, peer, authenticated>>
  BY DEF StartWorld, MovesTo
<1>2. (at'["main"] = "pump" \/ (at'["main"] = "ended" /\ ~gpu'.device))
        /\ (\A u \in Threads : u # "main" => at'[u] = at[u]) /\ DOMAIN at' = Threads
  BY Moved DEF StartWorld, MovesTo, TypeInv, Shutdown
<1>3. Stopped' /\ ~Forgetting' /\ Before'
  BY <1>1, <1>2 DEF Stopped, Before, Forgetting, InStop
<1>. QED
  BY <1>1, <1>2, <1>3, MainMoves DEF TypeInv, PlacesType, MainPlaces, Ended

\* A button's thread reads while the thread that receives rests, and only one
\* button's thread is at work.
LEMMA StrongReads ==
  Strong => OneReader
BY ThreadKinds DEF Strong, Alone, Rests, Alive, OneReader

\* A frame of the game sends what the player did (main.cpp:878-1006).
LEMMA PlayFrameKeeps ==
  ASSUME TypeInv, Strong, PlayFrame
  PROVE  TypeInv' /\ Strong'
<1>. USE ThreadKinds
<1>1. UNCHANGED <<awaits, on, got, return, shown, gpu, drawer, authenticated>>
  BY DEF PlayFrame
<1>2. at["main"] = "screen" /\ at'["main"] = "pump" /\ (\A u \in Threads : u # "main" => at'[u] = at[u]) /\ DOMAIN at' = Threads
  BY Moved DEF PlayFrame, EndsFrame, TypeInv
<1>3. /\ ~net'.connected /\ net'.socket = 0 /\ \A s \in Sockets : peer'[s].line # "up"
      /\ net' \in [socket : {0} \cup Sockets, connected : BOOLEAN, running : BOOLEAN] /\ peer' \in [Sockets -> Peers]
  BY HangsUp DEF PlayFrame, TypeInv, Strong
<1>10. PlacesType'
  BY <1>1, <1>2, <1>3 DEF TypeInv, PlacesType, InStop, MainPlaces, TaskPlaces, ReceiverPlaces
<1>11. WaitingType'
  BY <1>1, <1>2, <1>3 DEF TypeInv, PlacesType, WaitingType, Asks
<1>12. NetType'
  BY <1>1, <1>2, <1>3 DEF TypeInv, NetType
<1>13. Alone'
  BY <1>1, <1>2, <1>3 DEF Strong, Alone
<1>14. Rests'
  BY <1>1, <1>2, <1>3 DEF Strong, Rests, Alive
<1>15. Reads'
  BY <1>1, <1>2, <1>3 DEF Strong, Reads, Alive, TypeInv, NetType
<1>16. Login'
  BY <1>1, <1>2, <1>3 DEF Strong, Login, Forgetting, InStop, TypeInv, PlacesType
<1>17. Cut'
  BY <1>1, <1>2, <1>3 DEF Strong, Cut, TypeInv, PlacesType, NetType
<1>18. Stopped'
  BY <1>1, <1>2, <1>3 DEF Strong, Stopped, InStop, TypeInv, PlacesType, NetType
<1>19. Before'
  BY <1>1, <1>2, <1>3 DEF Strong, Before, TypeInv, PlacesType, NetType
<1>20. Line'
  BY <1>1, <1>2, <1>3 DEF Strong, Line, Up, TypeInv, NetType
<1>21. Asked'
  BY <1>1, <1>2, <1>3 DEF Strong, Asked, Up, Asking, Accepted, InStop, TypeInv, NetType
<1>22. Serving'
  <2>. SUFFICES ASSUME NEW u \in Tasks PROVE Served(u)'
    BY DEF Serving
  <2>. QED
    BY <1>1, <1>2, <1>3, SameServed DEF Strong, Serving
<1>23. Tidy'
  BY <1>1, <1>2, <1>3 DEF Strong, Tidy, TypeInv, PlacesType
<1>24. Following'
  BY <1>1, <1>2, <1>3 DEF Strong, Following, Up, TypeInv, NetType
<1>. QED
  BY <1>10, <1>11, <1>12, <1>13, <1>14, <1>15, <1>16, <1>17, <1>18, <1>19, <1>20, <1>21, <1>22, <1>23,
     <1>24 DEF TypeInv, Strong

\* LOGIN or CREATE is pressed while no earlier thread is at work
\* (UiStyle.cpp:494-513).
LEMMA PressButtonKeeps ==
  ASSUME TypeInv, Strong, NEW request \in {"login", "register"}, PressButton(request)
  PROVE  TypeInv' /\ OneReader' /\ (mishaps' = {} => Strong')
<1>. USE ThreadKinds
<1>1. UNCHANGED <<net, on, got, return, shown, peer, gpu, drawer, authenticated>> /\ ~authenticated
  BY DEF PressButton
<1>2. PICK t \in Tasks :
          /\ at[t] = "idle" /\ at' = [at EXCEPT ![t] = "connect", !["main"] = "pump"]
          /\ awaits' = [awaits EXCEPT ![t] = request]
  BY DEF PressButton
<1>3. /\ at["main"] = "screen" /\ at'["main"] = "pump" /\ at'[t] = "connect"
      /\ DOMAIN at' = Threads /\ \A u \in Threads : u # "main" /\ u # t => at'[u] = at[u]
  BY <1>2 DEF PressButton, TypeInv, PlacesType
<1>4. DOMAIN awaits' = Threads /\ awaits'[t] = request /\ \A u \in Threads : u # t => awaits'[u] = awaits[u]
  BY <1>2 DEF TypeInv, WaitingType
<1>5. mishaps' = {} => \A u \in Tasks : at[u] = "idle"
  BY DEF PressButton
<1>10. PlacesType'
  BY <1>1, <1>2, <1>3, <1>4, <1>5 DEF TypeInv, PlacesType, InStop, MainPlaces, TaskPlaces, ReceiverPlaces
<1>11. WaitingType'
  BY <1>1, <1>2, <1>3, <1>4, <1>5 DEF TypeInv, PlacesType, WaitingType, Asks
<1>12. NetType'
  BY <1>1, <1>2, <1>3, <1>4, <1>5 DEF TypeInv, NetType
<1>13. mishaps' = {} => Alone'
  BY <1>1, <1>2, <1>3, <1>4, <1>5 DEF Strong, Alone
<1>14. Rests'
  BY <1>1, <1>2, <1>3, <1>4, <1>5 DEF Strong, Rests, Alive
<1>15. Reads'
  BY <1>1, <1>2, <1>3, <1>4, <1>5 DEF Strong, Reads, Alive, TypeInv, NetType
<1>16. Login'
  BY <1>1, <1>2, <1>3, <1>4, <1>5 DEF Strong, Login, Forgetting, InStop, TypeInv, PlacesType
<1>17. Cut'
  BY <1>1, <1>2, <1>3, <1>4, <1>5 DEF Strong, Cut, TypeInv, PlacesType, NetType
<1>18. Stopped'
  BY <1>1, <1>2, <1>3, <1>4, <1>5 DEF Strong, Stopped, InStop, TypeInv, PlacesType, NetType
<1>19. Before'
  BY <1>1, <1>2, <1>3, <1>4, <1>5 DEF Strong, Before, TypeInv, PlacesType, NetType
<1>20. Line'
  BY <1>1, <1>2, <1>3, <1>4, <1>5 DEF Strong, Line, Up, TypeInv, NetType
<1>21. Asked'
  BY ZenonT(60), <1>1, <1>2, <1>3, <1>4, <1>5 DEF Strong, Asked, Up, Asking, Accepted, InStop, TypeInv, NetType
<1>22. Serving'
  <2>. SUFFICES ASSUME NEW u \in Tasks PROVE Served(u)'
    BY DEF Serving
  <2>1. CASE u = t
    BY <1>3, <1>4, <2>1 DEF Served, Asking, Accepted, Answered, InStop
  <2>2. CASE u # t
    BY <1>1, <1>3, <1>4, <2>2, SameServed DEF Strong, Serving
  <2>. QED
    BY <2>1, <2>2
<1>23. Tidy'
  BY <1>1, <1>2, <1>3, <1>4, <1>5 DEF Strong, Tidy, TypeInv, PlacesType
<1>24. Following'
  BY <1>1, <1>2, <1>3, <1>4, <1>5 DEF Strong, Following, Up, TypeInv, NetType
<1>25. OneReader'
  BY <1>3, StrongReads DEF OneReader
<1>. QED
  BY <1>10, <1>11, <1>12, <1>13, <1>14, <1>15, <1>16, <1>17, <1>18, <1>19, <1>20, <1>21, <1>22, <1>23,
     <1>24, <1>25 DEF TypeInv, Strong

\* A frame that misreads the connection, too, leaves the types as they are.
LEMMA NoticeLossTypes ==
  ASSUME TypeInv, OneReader, NoticeLoss
  PROVE  TypeInv' /\ OneReader'
<1>. USE ThreadKinds
<1>1. UNCHANGED <<net, awaits, on, got, return, shown, peer>>
  BY DEF NoticeLoss, MovesTo
<1>2. at'["main"] = "screen" /\ (\A u \in Threads : u # "main" => at'[u] = at[u]) /\ DOMAIN at' = Threads
  BY Moved DEF NoticeLoss, MovesTo, TypeInv
<1>3. PlacesType'
  BY <1>1, <1>2 DEF TypeInv, PlacesType, InStop, MainPlaces
<1>4. WaitingType' /\ NetType'
  BY <1>1, <1>2 DEF TypeInv, WaitingType, NetType
<1>5. OneReader'
  BY <1>2 DEF OneReader
<1>. QED
  BY <1>3, <1>4, <1>5 DEF TypeInv

\* The program ends in one of three steps: none of the others ends it.
LEMMA GoesOn ==
  ASSUME TypeInv, ~Ended,
         \/ BeginFrame \/ NoticeLoss \/ DrawFrame \/ PlayFrame \/ ForgetLogin \/ DestroyClient
         \/ CloseWindow \/ RunDisconnect \/ CheckTcpServerOnline \/ ServerStep \/ ReceiverStep
         \/ Stop("main") \/ Join("main")
         \/ (\E request \in {"login", "register"} : PressButton(request))
         \/ \E t \in Tasks : TaskStep(t)
  PROVE  ~Ended'
<1>. USE ThreadKinds
<1>1. ASSUME NEW t \in Threads, NEW place, Goes(t, place), t = "main" => place # "ended"
      PROVE  ~Ended'
  BY <1>1 DEF TypeInv, PlacesType, Goes, Ended
<1>. HIDE DEF Goes
<1>2. CASE BeginFrame \/ NoticeLoss \/ ForgetLogin
  BY <1>1, <1>2 DEF BeginFrame, NoticeLoss, ForgetLogin, MovesTo
<1>3. CASE DrawFrame \/ PlayFrame \/ RunDisconnect
  BY <1>1, <1>3 DEF DrawFrame, PlayFrame, RunDisconnect, EndsFrame
<1>4. CASE DestroyClient \/ CloseWindow
  BY <1>1, <1>4 DEF DestroyClient, CloseWindow
<1>5. CASE CheckTcpServerOnline \/ ServerStep
  BY <1>5 DEF CheckTcpServerOnline, ServerStep, PeerEnds, network, Ended
<1>6. ASSUME NEW t \in Threads, Stop(t) PROVE ~Ended'
  <2>1. t = "main" => StopStep(at[t], return[t]) # "ended"
    BY <1>6 DEF Stop, StopStep, InStop, TypeInv, PlacesType
  <2>. QED
    BY <1>1, <1>6, <2>1 DEF Stop
<1>7. ASSUME NEW t \in Threads, Join(t) PROVE ~Ended'
  BY <1>7 DEF Join, TypeInv, PlacesType, Ended
<1>8. ASSUME NEW request, PressButton(request) PROVE ~Ended'
  BY <1>8 DEF PressButton, TypeInv, PlacesType, Ended
<1>9. ASSUME NEW t \in Tasks \cup {"receiver"}, Receives(t) PROVE ~Ended'
  BY <1>1, <1>9 DEF Receives, Loop, Recv, RecvFails, Deliver, HandlePacket
<1>10. CASE ReceiverStep
  <2>1. CASE ReceiveLoopEnds
    BY <1>1, <2>1 DEF ReceiveLoopEnds
  <2>. QED
    BY <1>6, <1>9, <1>10, <2>1 DEF ReceiverStep
<1>11. ASSUME NEW t \in Tasks, TaskStep(t) PROVE ~Ended'
  <2>1. CASE Connect(t) \/ Request(t)
    BY <1>1, <2>1 DEF Connect, Request, Requests
  <2>2. CASE Fails(t) \/ Registered(t) \/ LoggedIn(t) \/ Frees(t)
    BY <1>1, <2>2 DEF Fails, Registered, LoggedIn, Frees, MovesTo
  <2>3. CASE Listens(t)
    BY <1>1, <2>3 DEF Listens, StartReceiveLoop, TypeInv, PlacesType, Ended
  <2>. QED
    BY <1>6, <1>7, <1>9, <1>11, <2>1, <2>2, <2>3 DEF TaskStep
<1>. QED
  BY <1>2, <1>3, <1>4, <1>5, <1>6, <1>7, <1>8, <1>10, <1>11

\* What a connection made in time leaves as it should be (main.cpp:488-548).
LEMMA ConnectKeeps ==
  ASSUME TypeInv, Strong, NEW t \in Tasks, Connect(t)
  PROVE  TypeInv' /\ OneReader' /\ (mishaps' = {} => Strong')
<1>1. TypeInv'
  BY ConnectTypes
<1>2. OneReader'
  <2>1. at'[t] \in {"request", "idle"} /\ \A u \in Threads : u # t => at'[u] = at[u]
    BY Moved, ThreadKinds DEF Connect, TypeInv
  <2>. QED
    BY <2>1, StrongReads DEF OneReader
<1>3. ASSUME mishaps' = {} PROVE Strong'
  <2>1. CASE UNCHANGED <<net, peer>> /\ ((Goes(t, "request") /\ net.connected) \/ Goes(t, "idle"))
    BY <2>1, ConnectSameKeeps
  <2>2. CASE ~net.connected /\ Goes(t, "request") /\ (\E s \in Sockets : Connects(s))
             /\ return["main"] \notin {"destroy", "reset"} /\ ~Alive
    BY <2>2, ConnectNewKeeps
  <2>. QED
    BY <1>3, <2>1, <2>2 DEF Connect, Alive
<1>. QED
  BY <1>1, <1>2, <1>3

\* The whole invariant: what a crash or a mishap leaves, and before them all
\* of the above.
Inv == TypeInv /\ OneReader /\ EndsClean /\ (Going => Strong)

\* The program starts with nothing (main.cpp:36-70).
LEMMA InitInv == Init => Inv
<1>. SUFFICES ASSUME Init PROVE Inv
  OBVIOUS
<1>. USE ThreadKinds, SocketKinds
<1>1. /\ net = [socket |-> 0, connected |-> FALSE, running |-> FALSE]
      /\ at["main"] = "start" /\ at["receiver"] = "none" /\ \A t \in Tasks : at[t] = "idle"
  BY DEF Init, NetworkInit
<1>2. \A s \in Sockets : peer[s].line = "unused"
  BY DEF Init, NetworkInit, Unused
<1>3. TypeInv
  <2>1. PlacesType
    BY <1>1 DEF Init, NetworkInit, PlacesType, InStop, MainPlaces, TaskPlaces, ReceiverPlaces
  <2>2. WaitingType
    BY <1>1 DEF Init, NetworkInit, WaitingType, Asks
  <2>3. NetType
    BY <1>1 DEF Init, NetworkInit, NetType, Peers, Asks, Unused, IsView, NobodyShown
  <2>. QED
    BY <2>1, <2>2, <2>3 DEF TypeInv
<1>4. Alone /\ Rests /\ Reads /\ Login /\ Cut /\ Stopped
  BY <1>1 DEF Alone, Rests, Alive, Reads, Login, Forgetting, InStop, Cut, Stopped, Init
<1>5. Before /\ Line /\ Asked /\ Following
  BY <1>1, <1>2 DEF Before, Line, Up, Asked, Following, Init
<1>6. Serving /\ Tidy
  BY <1>1 DEF Serving, Served, Asking, Accepted, Answered, InStop, Tidy, Init, NetworkInit, NobodyShown
<1>7. OneReader /\ EndsClean
  BY <1>1 DEF OneReader, EndsClean, Ended
<1>. QED
  BY <1>3, <1>4, <1>5, <1>6, <1>7 DEF Inv, Strong

\* Every step of every thread, of the player and of the server keeps it.
LEMMA NextInv == Inv /\ [Next]_vars => Inv'
<1>. SUFFICES ASSUME Inv, [Next]_vars PROVE Inv'
  OBVIOUS
<1>. USE ThreadKinds
<1>1. CASE UNCHANGED vars
  <2>1. TypeInv'
    BY <1>1 DEF Inv, TypeInv, PlacesType, WaitingType, NetType, InStop, vars, network
  <2>2. OneReader' /\ EndsClean'
    BY <1>1 DEF Inv, OneReader, EndsClean, Ended, vars, network
  <2>3. Going' => Strong'
    BY <1>1, Untouched DEF Inv, Going, vars, network
  <2>. QED
    BY <2>1, <2>2, <2>3 DEF Inv
<1>. SUFFICES ASSUME Next PROVE Inv'
  BY <1>1
<1>2. TypeInv /\ Strong /\ Going
  BY DEF Inv, Next
<1>0. Strong' => OneReader'
  BY DEF Strong, Alone, Rests, Alive, OneReader
<1>3. ASSUME TypeInv' /\ Strong', ~Ended' PROVE Inv'
  BY <1>0, <1>3 DEF Inv, EndsClean
<1>4. ASSUME TypeInv' /\ OneReader' /\ (mishaps' = {} => Strong'), ~Ended' PROVE Inv'
  BY <1>4 DEF Inv, EndsClean, Going
<1>5. CASE ~Ended /\ MainStep
  <2>1. CASE StartRenderer \/ StartWorld
    <3>1. TypeInv' /\ Strong' /\ (Ended' => ~gpu'.device)
      BY <1>2, <2>1, StartRendererKeeps, StartWorldKeeps
    <3>2. EndsClean'
      <4>. SUFFICES ASSUME Ended' PROVE EndsClean'
        BY DEF EndsClean
      <4>1. net' = net /\ peer' = peer /\ ~crashed' /\ net.socket = 0 /\ drawer' = NoScene
        <5>1. CASE StartRenderer
          BY <1>2, <5>1 DEF StartRenderer, MovesTo, Going, Strong, Before
        <5>2. CASE StartWorld
          <6>1. at'["main"] = "ended"
            BY DEF Ended
          <6>2. ~(MovesTo("main", "pump"))
            BY <1>2, <6>1, Moved DEF MovesTo, TypeInv
          <6>. QED
            BY <1>2, <5>2, <6>2 DEF StartWorld, MovesTo, Going, Strong, Before
        <5>. QED
          BY <2>1, <5>1, <5>2
      <4>2. \A s \in Sockets : peer'[s].line # "up"
        BY <1>2, <4>1, SocketKinds DEF Strong, Line, Up
      <4>. QED
        BY <3>1, <4>1, <4>2 DEF EndsClean
    <3>. QED
      BY <1>0, <3>1, <3>2 DEF Inv
  <2>2. CASE EndProgram
    BY <1>2, <1>0, <2>2, EndProgramKeeps DEF Inv
  <2>3. CASE NoticeLoss
    <3>1. ~Ended'
      BY <1>2, <1>5, <2>3, GoesOn
    <3>2. TypeInv' /\ OneReader'
      BY <1>2, <2>3, NoticeLossTypes DEF Inv
    <3>. QED
      BY <1>2, <1>4, <2>3, <3>1, <3>2, NoticeLossKeeps
  <2>4. CASE BeginFrame \/ DrawFrame \/ PlayFrame \/ ForgetLogin \/ DestroyClient
    BY <1>2, <1>3, <1>5, <2>4, GoesOn, BeginFrameKeeps, DrawFrameKeeps, PlayFrameKeeps, ForgetLoginKeeps,
       DestroyClientKeeps
  <2>5. CASE (Stop("main") \/ Join("main")) /\ UNCHANGED others
    BY <1>2, <1>3, <1>5, <2>5, GoesOn, StopKeeps, JoinKeeps
  <2>. QED
    BY <1>5, <2>1, <2>2, <2>3, <2>4, <2>5 DEF MainStep
<1>6. CASE ~Ended /\ UserStep
  <2>1. CASE CloseWindow \/ RunDisconnect
    BY <1>2, <1>3, <1>6, <2>1, GoesOn, CloseWindowKeeps, RunDisconnectKeeps
  <2>2. CASE \E request \in {"login", "register"} : PressButton(request)
    BY <1>2, <1>4, <1>6, <2>2, GoesOn, PressButtonKeeps
  <2>. QED
    BY <1>6, <2>1, <2>2 DEF UserStep
<1>7. CASE ~Ended /\ (ServerStep \/ CheckTcpServerOnline)
  <2>1. ~Ended'
    BY <1>2, <1>7, GoesOn
  <2>2. CASE ServerStep
    BY <1>2, <1>3, <2>1, <2>2, PeerEndsKeeps DEF ServerStep
  <2>3. CASE CheckTcpServerOnline
    BY <1>2, <1>3, <2>1, <2>3, Untouched DEF CheckTcpServerOnline, network, mains
  <2>. QED
    BY <1>7, <2>2, <2>3
<1>8. CASE ~Gone /\ ReceiverStep
  <2>1. ~Ended /\ ~Ended'
    BY <1>2, <1>8, GoesOn DEF Gone, Ended
  <2>2. CASE Receives("receiver") /\ UNCHANGED others
    BY <1>2, <1>3, <2>1, <2>2, LoopKeeps, RecvKeeps, RecvFailsKeeps, DeliverKeeps, HandleKeeps DEF Receives
  <2>3. CASE ReceiveLoopEnds /\ UNCHANGED others
    BY <1>2, <1>3, <2>1, <2>3, EndingKeeps
  <2>4. CASE Stop("receiver") /\ UNCHANGED others
    BY <1>2, <1>3, <2>1, <2>4, StopKeeps
  <2>. QED
    BY <1>8, <2>2, <2>3, <2>4 DEF ReceiverStep
<1>9. CASE ~Gone /\ \E t \in Tasks : TaskStep(t)
  <2>. SUFFICES ASSUME NEW t \in Tasks, TaskStep(t) PROVE Inv'
    BY <1>9
  <2>1. ~Ended /\ ~Ended'
    BY <1>2, <1>9, GoesOn DEF Gone, Ended
  <2>2. CASE Connect(t)
    BY <1>2, <1>4, <2>1, <2>2, ConnectKeeps
  <2>3. CASE Request(t) \/ Fails(t) \/ Registered(t)
    BY <1>2, <1>3, <2>1, <2>3, RequestKeeps, FailsKeeps, RegisteredKeeps
  <2>4. CASE LoggedIn(t) \/ Frees(t) \/ Listens(t)
    BY <1>2, <1>3, <2>1, <2>4, LoggedInKeeps, FreesKeeps, ListensKeeps
  <2>5. CASE Receives(t) /\ UNCHANGED others
    BY <1>2, <1>3, <2>1, <2>5, LoopKeeps, RecvKeeps, RecvFailsKeeps, DeliverKeeps, HandleKeeps DEF Receives
  <2>6. CASE (Stop(t) \/ Join(t)) /\ UNCHANGED others
    BY <1>2, <1>3, <2>1, <2>6, StopKeeps, JoinKeeps
  <2>. QED
    BY <2>2, <2>3, <2>4, <2>5, <2>6 DEF TaskStep
<1>10. CASE Gone /\ \E t \in Tasks : UsesFreed(t)
  <2>1. PICK t \in Tasks : UsesFreed(t)
    BY <1>10
  <2>2. TypeInv' /\ Strong'
    BY <1>2, <2>1, Untouched DEF UsesFreed, mains
  <2>3. at' = at /\ at[t] # "idle"
    BY <2>1 DEF UsesFreed
  <2>. QED
    BY <1>0, <2>2, <2>3 DEF Inv, EndsClean
<1>. QED
  BY <1>5, <1>6, <1>7, <1>8, <1>9, <1>10 DEF Next

\* The invariant holds from the start of the program to its end.
LEMMA InvHolds == Spec => []Inv
BY InitInv, NextInv, PTL DEF Spec

-----------------------------------------------------------------------------
\* Once Stop has returned and nobody is at work, nobody else is shown, however
\* far the packets of the connection had come (NetworkClient.cpp:306-324).
THEOREM StopClearsTheScreen == Spec => []StoppedShowsNobody
<1>1. Inv => StoppedShowsNobody
  <2>. SUFFICES ASSUME Inv, Going, \A t \in Threads : ~InStop(t) /\ (t # "main" => at[t] \in {"idle", "none"})
       PROVE  shown.remotes = {} /\ shown.items = {}
    BY DEF StoppedShowsNobody
  <2>1. at["receiver"] = "none"
    BY ThreadKinds DEF Inv, TypeInv, PlacesType, ReceiverPlaces
  <2>2. \A t \in Threads : at[t] \notin {"join", "clear"}
    BY DEF InStop
  <2>. QED
    BY <2>1, <2>2 DEF Inv, Strong, Tidy
<1>. QED
  BY <1>1, InvHolds, PTL

\* While the game is received, what is shown is what the server told, except for
\* a character that the player was before (NetworkClient.cpp:522-816).
THEOREM ShowsWhatTheServerSays == Spec => []Mirrors
<1>1. Inv => Mirrors
  <2>. SUFFICES ASSUME Inv, Going, net.socket # 0, net.connected, at["receiver"] \in {"loop", "recv", "blocked"},
                       peer[net.socket].line = "up"
       PROVE  Mirror(shown, peer[net.socket])
    BY DEF Mirrors, Mirror
  <2>1. net.socket \in Sockets
    BY DEF Inv, TypeInv, NetType
  <2>. QED
    BY <2>1 DEF Inv, Strong, Following, Up
<1>. QED
  BY <1>1, InvHolds, PTL

\* A program that ends with no button's thread at work has no connection, no
\* device and has not crashed (main.cpp:1259-1284).
THEOREM ProgramEndsClean == Spec => []EndsClean
<1>1. Inv => EndsClean
  BY DEF Inv
<1>. QED
  BY <1>1, InvHolds, PTL

-----------------------------------------------------------------------------
(***************************************************************************)
(* PacketFraming: the inductive invariant.                                 *)
(***************************************************************************)
Bytes == Senders \X Nat

FramingTypes ==
    /\ progress \in [Senders -> Places]
    /\ written \in [Senders -> Nat]
    /\ \A k \in Senders : written[k] <= PacketLength(k)
    /\ lock \subseteq Senders
    /\ order \in Seq(Senders)
    /\ closed \in BOOLEAN
    /\ stream \in Seq(Bytes) /\ Len(stream) <= Capacity
    /\ buffer \in Seq(Bytes) /\ Len(buffer) <= Wanted
    /\ received \in Seq(Seq(Bytes))
    /\ reading \in Senders \cup {"header"}
    /\ receiver \in {"open", "ended"}

\* A packet is begun once, by the holder of the lock, when those before it are
\* written; one that failed half-way is the last, since it closes the session.
Serialised ==
    /\ \A i, j \in 1 .. Len(order) : order[i] = order[j] => i = j
    /\ \A k \in Senders : progress[k] \in {"start", "waiting"} =>
          \A j \in 1 .. Len(order) : order[j] # k
    /\ \A k \in Senders : (\A j \in 1 .. Len(order) : order[j] # k) => written[k] = 0
    /\ \A k \in Senders : progress[k] \in {"writing", "release"} => lock = {k}
    /\ \A k \in Senders : progress[k] = "writing" => order # <<>> /\ k = order[Len(order)]
    /\ \A j \in 1 .. Len(order) : BodyLength[order[j]] <= MaxPacketSize

AllWritten(j) == written[order[j]] = PacketLength(order[j])

Finished ==
    /\ \A j \in 1 .. Len(order) : j < Len(order) => AllWritten(j)
    /\ \A j \in 1 .. Len(order) : ~closed /\ progress[order[j]] # "writing" => AllWritten(j)

\* The receiver is Position bytes into the packet after those it has received.
Current == Len(received) + 1
Position == (IF reading = "header" THEN 0 ELSE HeaderLength) + Len(buffer)

InStep ==
    /\ Len(received) <= Len(order)
    /\ \A i \in 1 .. Len(received) : received[i] = Body(order[i]) /\ AllWritten(i)
    /\ reading # "header" => Current <= Len(order) /\ reading = order[Current]
    /\ buffer # <<>> => Current <= Len(order)
    /\ \A i \in 1 .. Len(buffer) :
          buffer[i] = <<order[Current], Position - Len(buffer) + i>>

\* The stream goes on where the buffer ends.
Continues ==
    stream # <<>> =>
        /\ Current <= Len(order)
        /\ Position < PacketLength(order[Current]) =>
              stream[1] = <<order[Current], Position + 1>>
        /\ Position >= PacketLength(order[Current]) =>
              Current < Len(order) /\ stream[1] = <<order[Current + 1], 1>>

\* In the stream a packet goes on to its end, and then the next one begins.
Runs ==
    /\ \A i \in 1 .. Len(stream) : stream[i][2] \in 1 .. PacketLength(stream[i][1])
    /\ \A i, j \in 1 .. Len(stream) :
          i <= j /\ stream[i][2] + (j - i) <= PacketLength(stream[i][1]) =>
              stream[j] = <<stream[i][1], stream[i][2] + (j - i)>>
    /\ \A i \in 1 .. Len(stream) :
          i < Len(stream) /\ stream[i][2] = PacketLength(stream[i][1]) =>
              \E j \in 1 .. Len(order) :
                 /\ j < Len(order) /\ order[j] = stream[i][1]
                 /\ stream[i + 1] = <<order[j + 1], 1>>

\* The last byte of the stream, or of what was read when the stream is empty,
\* is the last one written.
LastByte ==
    /\ stream # <<>> => \E j \in 1 .. Len(order) :
          /\ stream[Len(stream)] = <<order[j], written[order[j]]>>
          /\ \A i \in 1 .. Len(order) : i > j => written[order[i]] = 0
    /\ stream = <<>> /\ Current <= Len(order) =>
          /\ written[order[Current]] = Position
          /\ \A i \in 1 .. Len(order) : i > Current => written[order[i]] = 0

FramingInv == FramingTypes /\ Serialised /\ Finished /\ InStep /\ Continues /\ Runs /\ LastByte

-----------------------------------------------------------------------------
(***************************************************************************)
(* PacketFraming: the steps.                                               *)
(***************************************************************************)
LEMMA Lengths ==
    ASSUME NEW k \in Senders
    PROVE  /\ BodyLength[k] \in Nat \ {0} /\ HeaderLength \in Nat \ {0}
           /\ PacketLength(k) \in Nat \ {0} /\ PacketLength(k) = HeaderLength + BodyLength[k]
           /\ k # "header"
BY FramingAssumption DEF PacketLength

LEMMA FramingStarts == FramingInit => FramingInv
<1> SUFFICES ASSUME FramingInit PROVE FramingInv
    OBVIOUS
<1>1. /\ order = <<>> /\ stream = <<>> /\ buffer = <<>> /\ received = <<>> /\ Len(order) = 0
      /\ Len(stream) = 0 /\ Len(buffer) = 0 /\ Len(received) = 0
    BY DEF FramingInit
<1>2. FramingTypes
    <2>1. \A k \in Senders : 0 <= PacketLength(k)
        BY Lengths
    <2>2. /\ stream \in Seq(Bytes) /\ buffer \in Seq(Bytes) /\ received \in Seq(Seq(Bytes))
          /\ order \in Seq(Senders)
        BY <1>1
    <2>3. Len(stream) <= Capacity /\ Len(buffer) <= Wanted
        BY <1>1, FramingAssumption DEF FramingInit, Wanted
    <2> QED BY <2>1, <2>2, <2>3 DEF FramingInit, FramingTypes, Places
<1>3. Serialised /\ Finished
    BY <1>1 DEF FramingInit, Serialised, Finished
<1>4. reading = "header"
    BY DEF FramingInit
<1>5. InStep
    BY <1>1, <1>4 DEF InStep
<1>6. Continues /\ Runs
    BY <1>1 DEF Continues, Runs
<1>7. LastByte
    BY <1>1 DEF LastByte, Current
<1> QED BY <1>2, <1>3, <1>5, <1>6, <1>7 DEF FramingInv

\* What reading and its place in the packet rest on.
LEMMA SameReader ==
    ASSUME FramingInv, UNCHANGED <<order, written, receiving>>
    PROVE  InStep'
<1>1. UNCHANGED <<buffer, reading, received, receiver>>
    BY DEF receiving
<1> QED BY <1>1 DEF FramingInv, InStep, AllWritten, PacketLength, Body, Current, Position

LEMMA SamePipe ==
    ASSUME FramingInv, UNCHANGED <<order, written, stream, receiving>>
    PROVE  InStep' /\ Continues' /\ Runs' /\ LastByte'
<1>1. UNCHANGED <<buffer, reading, received, receiver>>
    BY DEF receiving
<1>2. InStep'
    BY SameReader
<1>3. Continues'
    BY <1>1 DEF FramingInv, Continues, PacketLength, Current, Position
<1>4. Runs'
    BY DEF FramingInv, Runs, PacketLength
<1>5. LastByte'
    BY <1>1 DEF FramingInv, LastByte, Current, Position
<1> QED BY <1>2, <1>3, <1>4, <1>5

LEMMA CallSteps ==
    ASSUME FramingInv, NEW k \in Senders, Call(k)
    PROVE  FramingInv'
<1>1. /\ progress[k] = "start" /\ progress'[k] \in {"returned", "waiting"}
      /\ progress' \in [Senders -> Places]
      /\ \A l \in Senders : l # k => progress'[l] = progress[l]
      /\ UNCHANGED <<written, lock, order, closed, stream, receiving>>
      /\ UNCHANGED <<buffer, reading, received, receiver>>
    BY DEF FramingInv, FramingTypes, Call, Goto, Places, receiving
<1>2. FramingTypes'
    BY <1>1 DEF FramingInv, FramingTypes, Wanted, PacketLength
<1>3. Serialised'
    BY <1>1 DEF FramingInv, FramingTypes, Serialised
<1>4. Finished'
    BY <1>1 DEF FramingInv, FramingTypes, Serialised, Finished, AllWritten, PacketLength
<1> QED BY <1>1, <1>2, <1>3, <1>4, SamePipe DEF FramingInv

LEMMA WrittenSteps ==
    ASSUME FramingInv, NEW k \in Senders, Written(k)
    PROVE  FramingInv'
<1>1. /\ progress[k] = "writing" /\ progress'[k] = "release" /\ written[k] = PacketLength(k)
      /\ progress' \in [Senders -> Places]
      /\ \A l \in Senders : l # k => progress'[l] = progress[l]
      /\ UNCHANGED <<written, lock, order, closed, stream, receiving>>
      /\ UNCHANGED <<buffer, reading, received, receiver>>
    BY DEF FramingInv, FramingTypes, Written, Goto, Places, receiving
<1>2. FramingTypes'
    BY <1>1 DEF FramingInv, FramingTypes, Wanted, PacketLength
<1>3. Serialised'
    BY <1>1 DEF FramingInv, FramingTypes, Serialised
<1>4. Finished'
    BY <1>1 DEF FramingInv, FramingTypes, Serialised, Finished, AllWritten, PacketLength
<1> QED BY <1>1, <1>2, <1>3, <1>4, SamePipe DEF FramingInv

LEMMA WriteThrowsSteps ==
    ASSUME FramingInv, NEW k \in Senders, WriteThrows(k)
    PROVE  FramingInv'
<1>1. /\ progress[k] = "writing" /\ progress'[k] = "release" /\ closed' = TRUE
      /\ progress' \in [Senders -> Places]
      /\ \A l \in Senders : l # k => progress'[l] = progress[l]
      /\ UNCHANGED <<written, lock, order, stream, receiving>>
      /\ UNCHANGED <<buffer, reading, received, receiver>>
    BY DEF FramingInv, FramingTypes, WriteThrows, ClosedByError, Goto, Places, receiving
<1>2. FramingTypes'
    BY <1>1 DEF FramingInv, FramingTypes, Wanted, PacketLength
<1>3. Serialised'
    BY <1>1 DEF FramingInv, FramingTypes, Serialised
<1>4. Finished'
    BY <1>1 DEF FramingInv, FramingTypes, Finished, AllWritten, PacketLength
<1> QED BY <1>1, <1>2, <1>3, <1>4, SamePipe DEF FramingInv

LEMMA ReleaseSteps ==
    ASSUME FramingInv, NEW k \in Senders, Release(k)
    PROVE  FramingInv'
<1>1. /\ progress[k] = "release" /\ progress'[k] = "returned" /\ lock' = lock \ {k}
      /\ progress' \in [Senders -> Places]
      /\ \A l \in Senders : l # k => progress'[l] = progress[l]
      /\ UNCHANGED <<written, order, closed, stream, receiving>>
      /\ UNCHANGED <<buffer, reading, received, receiver>>
    BY DEF FramingInv, FramingTypes, Release, LockAfter, Goto, Places, receiving
<1>2. FramingTypes'
    BY <1>1 DEF FramingInv, FramingTypes, Wanted, PacketLength
<1>3. Serialised'
    <2>1. lock = {k}
        BY <1>1 DEF FramingInv, Serialised
    <2> QED BY <1>1, <2>1 DEF FramingInv, FramingTypes, Serialised
<1>4. Finished'
    BY <1>1 DEF FramingInv, FramingTypes, Serialised, Finished, AllWritten, PacketLength
<1> QED BY <1>1, <1>2, <1>3, <1>4, SamePipe DEF FramingInv

LEMMA CloseSteps ==
    ASSUME FramingInv, Close
    PROVE  FramingInv'
<1>1. /\ closed' = TRUE
      /\ UNCHANGED <<progress, written, lock, order, stream, receiving>>
      /\ UNCHANGED <<buffer, reading, received, receiver>>
    BY DEF Close, sending, receiving
<1>2. FramingTypes' /\ Serialised' /\ Finished'
    BY <1>1 DEF FramingInv, FramingTypes, Serialised, Finished, AllWritten, Wanted, PacketLength
<1> QED BY <1>1, <1>2, SamePipe DEF FramingInv

\* The next packet is begun behind a complete one.
LEMMA AcquireSteps ==
    ASSUME FramingInv, NEW k \in Senders, Acquire(k)
    PROVE  FramingInv'
<1>1. /\ progress[k] = "waiting" /\ lock = {} /\ lock' = {k}
      /\ progress'[k] \in {"writing", "release"}
      /\ progress' \in [Senders -> Places]
      /\ \A l \in Senders : l # k => progress'[l] = progress[l]
      /\ UNCHANGED <<written, stream, receiving>>
      /\ UNCHANGED <<buffer, reading, received, receiver>>
    BY DEF FramingInv, FramingTypes, Acquire, LockFree, Goto, Places, receiving
<1>2. \A l \in Senders : progress[l] \notin {"writing", "release"}
    BY <1>1 DEF FramingInv, Serialised
<1>3. /\ order \in Seq(Senders) /\ \A j \in 1 .. Len(order) : order[j] # k
      /\ written[k] = 0
    BY <1>1 DEF FramingInv, FramingTypes, Serialised
<1>4. CASE UNCHANGED order /\ closed' \in BOOLEAN /\ (closed => closed') /\ progress'[k] = "release"
    <2>1. FramingTypes'
        BY <1>1, <1>4 DEF FramingInv, FramingTypes, Wanted, PacketLength
    <2>2. Serialised'
        BY <1>1, <1>2, <1>4 DEF FramingInv, FramingTypes, Serialised
    <2>3. Finished'
        BY <1>1, <1>2, <1>4 DEF FramingInv, FramingTypes, Finished, AllWritten, PacketLength
    <2> QED BY <1>1, <1>4, <2>1, <2>2, <2>3, SamePipe DEF FramingInv
<1>5. CASE /\ order' = Append(order, k) /\ ~closed /\ UNCHANGED closed /\ progress'[k] = "writing"
           /\ BodyLength[k] <= MaxPacketSize
    <2>1. /\ order' \in Seq(Senders) /\ Len(order') = Len(order) + 1 /\ order'[Len(order')] = k
          /\ \A j \in 1 .. Len(order) : order'[j] = order[j]
          /\ Len(order) \in Nat /\ order' # <<>>
        BY <1>3, <1>5
    <2>2. FramingTypes'
        BY <1>1, <1>5, <2>1 DEF FramingInv, FramingTypes, Wanted, PacketLength
    <2>3. \A j \in 1 .. Len(order') : j = Len(order') \/ (j \in 1 .. Len(order) /\ order'[j] = order[j])
        BY <2>1
    <2>4. \A j \in 1 .. Len(order) : AllWritten(j) /\ order[j] \in Senders
        BY <1>2, <1>3, <1>5 DEF FramingInv, Finished
    <2>5. Serialised'
        <3>1. \A i, j \in 1 .. Len(order') : order'[i] = order'[j] => i = j
            BY <1>3, <2>1, <2>3 DEF FramingInv, Serialised
        <3>2. \A l \in Senders : progress'[l] \in {"start", "waiting"} =>
                 \A j \in 1 .. Len(order') : order'[j] # l
            BY <1>1, <1>5, <2>1, <2>3 DEF FramingInv, Serialised
        <3>3. \A l \in Senders : (\A j \in 1 .. Len(order') : order'[j] # l) => written'[l] = 0
            BY <1>1, <2>1 DEF FramingInv, Serialised
        <3>4. \A l \in Senders : progress'[l] \in {"writing", "release"} => lock' = {l}
            BY <1>1, <1>2
        <3>5. \A l \in Senders : progress'[l] = "writing" => l = order'[Len(order')]
            BY <1>1, <1>2, <2>1
        <3>6. \A j \in 1 .. Len(order') : BodyLength[order'[j]] <= MaxPacketSize
            BY <1>5, <2>1, <2>3 DEF FramingInv, Serialised
        <3> QED BY <2>1, <3>1, <3>2, <3>3, <3>4, <3>5, <3>6 DEF Serialised
    <2>6. Finished'
        <3>1. \A j \in 1 .. Len(order') : j < Len(order') => AllWritten(j)'
            BY <1>1, <2>1, <2>3, <2>4 DEF AllWritten, PacketLength
        <3>2. \A j \in 1 .. Len(order') : progress'[order'[j]] # "writing" => AllWritten(j)'
            BY <1>1, <1>5, <2>1, <2>3, <2>4 DEF AllWritten, PacketLength
        <3> QED BY <3>1, <3>2 DEF Finished
    <2>7. InStep'
        <3>1. /\ Current' = Current /\ Position' = Position /\ Current \in Nat \ {0}
              /\ Len(received) <= Len(order) /\ Len(received) \in Nat
            BY <1>1 DEF Current, Position, FramingInv, FramingTypes, InStep
        <3>2. \A i \in 1 .. Len(received) : i \in 1 .. Len(order) /\ order'[i] = order[i]
            BY <2>1, <3>1
        <3>3. Current <= Len(order) => order'[Current] = order[Current]
            BY <2>1, <3>1
        <3>4. \A i \in 1 .. Len(received') : received'[i] = Body(order'[i]) /\ AllWritten(i)'
            BY <1>1, <3>2 DEF AllWritten, PacketLength, Body, FramingInv, InStep
        <3>5. reading' # "header" => Current' <= Len(order') /\ reading' = order'[Current']
            BY <1>1, <2>1, <3>1, <3>3 DEF FramingInv, InStep
        <3>6. buffer' # <<>> => Current' <= Len(order')
            BY <1>1, <2>1, <3>1 DEF FramingInv, InStep
        <3>7. \A i \in 1 .. Len(buffer') :
                 buffer'[i] = <<order'[Current'], Position' - Len(buffer') + i>>
            <4>1. \A i \in 1 .. Len(buffer) : buffer # <<>>
                BY DEF FramingInv, FramingTypes
            <4> QED BY <1>1, <3>1, <3>3, <4>1 DEF FramingInv, InStep
        <3>8. Len(received') <= Len(order')
            BY <1>1, <2>1, <3>1
        <3> QED BY <3>4, <3>5, <3>6, <3>7, <3>8 DEF InStep
    <2>8. /\ Current' = Current /\ Position' = Position /\ Current \in Nat \ {0}
          /\ Len(received) <= Len(order) /\ Len(received) \in Nat /\ Current = Len(received) + 1
        BY <1>1 DEF Current, Position, FramingInv, FramingTypes, InStep
    <2>9. Continues'
        BY <1>1, <2>1, <2>8 DEF Continues, PacketLength, FramingInv
    <2>10. Runs'
        <3>1. \A i \in 1 .. Len(stream) :
                 i < Len(stream) /\ stream[i][2] = PacketLength(stream[i][1]) =>
                     \E j \in 1 .. Len(order') :
                        /\ j < Len(order') /\ order'[j] = stream[i][1]
                        /\ stream[i + 1] = <<order'[j + 1], 1>>
            <4> SUFFICES ASSUME NEW i \in 1 .. Len(stream), i < Len(stream),
                                stream[i][2] = PacketLength(stream[i][1])
                         PROVE  \E j \in 1 .. Len(order') :
                                   /\ j < Len(order') /\ order'[j] = stream[i][1]
                                   /\ stream[i + 1] = <<order'[j + 1], 1>>
                OBVIOUS
            <4>1. PICK j \in 1 .. Len(order) :
                     /\ j < Len(order) /\ order[j] = stream[i][1]
                     /\ stream[i + 1] = <<order[j + 1], 1>>
                BY DEF FramingInv, Runs
            <4>2. j \in 1 .. Len(order') /\ j + 1 \in 1 .. Len(order) /\ j < Len(order')
                BY <2>1, <4>1
            <4> QED BY <2>1, <4>1, <4>2
        <3> QED BY <1>1, <3>1 DEF FramingInv, Runs, PacketLength
    <2>11. LastByte'
        <3>1. CASE stream # <<>>
            <4>1. PICK j \in 1 .. Len(order) :
                     /\ stream[Len(stream)] = <<order[j], written[order[j]]>>
                     /\ \A i \in 1 .. Len(order) : i > j => written[order[i]] = 0
                BY <3>1 DEF FramingInv, LastByte
            <4>2. j \in 1 .. Len(order') /\ order'[j] = order[j]
                BY <2>1
            <4>3. \A i \in 1 .. Len(order') : i > j => written'[order'[i]] = 0
                BY <1>1, <1>3, <2>1, <2>3, <4>1
            <4> QED BY <1>1, <3>1, <4>1, <4>2, <4>3 DEF LastByte
        <3>2. CASE stream = <<>> /\ Current <= Len(order)
            BY <1>1, <1>3, <2>1, <2>3, <2>8, <3>2 DEF FramingInv, LastByte
        <3>3. CASE stream = <<>> /\ Current > Len(order)
            <4>1. Current = Len(order') /\ order'[Current] = k
                BY <2>1, <2>8, <3>3
            <4>2. Position = 0
                BY <2>1, <2>8, <3>3 DEF FramingInv, FramingTypes, InStep, Position
            <4> QED BY <1>1, <1>3, <2>1, <2>8, <3>3, <4>1, <4>2 DEF LastByte
        <3> QED BY <2>1, <2>8, <3>1, <3>2, <3>3
    <2> QED BY <2>2, <2>5, <2>6, <2>7, <2>9, <2>10, <2>11 DEF FramingInv
<1>6. closed \in BOOLEAN
    BY DEF FramingInv, FramingTypes
<1>7. \/ UNCHANGED order /\ closed' \in BOOLEAN /\ (closed => closed') /\ progress'[k] = "release"
      \/ /\ order' = Append(order, k) /\ ~closed /\ UNCHANGED closed /\ progress'[k] = "writing"
         /\ ~(BodyLength[k] > MaxPacketSize)
    BY <1>6 DEF Acquire, Goto, FramingInv, FramingTypes
<1>8. ~(BodyLength[k] > MaxPacketSize) => BodyLength[k] <= MaxPacketSize
    BY FramingAssumption, Lengths
<1> QED BY <1>4, <1>5, <1>7, <1>8

\* What the invariant says of every place in the order and in the stream.
LEMMA Whereabouts ==
    ASSUME FramingInv
    PROVE  /\ Len(order) \in Nat /\ Len(stream) \in Nat /\ Len(buffer) \in Nat /\ Len(received) \in Nat
           /\ Current = Len(received) + 1 /\ Current \in Nat \ {0} /\ Position \in Nat
           /\ Len(received) <= Len(order)
           /\ \A j \in 1 .. Len(order) : order[j] \in Senders
           /\ \A i \in 1 .. Len(stream) : stream[i] \in Bytes /\ stream[i][1] \in Senders
                 /\ stream[i][2] \in Nat /\ stream[i] = <<stream[i][1], stream[i][2]>>
           /\ (stream = <<>> <=> Len(stream) = 0)
           /\ (buffer = <<>> <=> Len(buffer) = 0)
<1>1. HeaderLength \in Nat
    BY FramingAssumption
<1>2. /\ Len(order) \in Nat /\ Len(stream) \in Nat /\ Len(buffer) \in Nat /\ Len(received) \in Nat
      /\ \A j \in 1 .. Len(order) : order[j] \in Senders
      /\ \A i \in 1 .. Len(stream) : stream[i] \in Bytes
      /\ (stream = <<>> <=> Len(stream) = 0)
      /\ (buffer = <<>> <=> Len(buffer) = 0)
    BY DEF FramingInv, FramingTypes
<1>3. Current = Len(received) + 1 /\ Current \in Nat \ {0} /\ Position \in Nat
    BY <1>1, <1>2 DEF Current, Position
<1>4. \A i \in 1 .. Len(stream) : stream[i][1] \in Senders
          /\ stream[i][2] \in Nat /\ stream[i] = <<stream[i][1], stream[i][2]>>
    BY <1>2 DEF Bytes
<1> QED BY <1>2, <1>3, <1>4 DEF FramingInv, InStep

\* The byte written next continues the packet or, as its first, follows the end
\* of the one before.
LEMMA WriteSteps ==
    ASSUME FramingInv, NEW k \in Senders, Write(k)
    PROVE  FramingInv'
<1>1. /\ progress[k] = "writing" /\ Len(stream) < Capacity /\ written[k] < PacketLength(k)
      /\ written'[k] = written[k] + 1 /\ written' \in [Senders -> Nat]
      /\ \A l \in Senders : l # k => written'[l] = written[l]
      /\ stream' = Append(stream, <<k, written[k] + 1>>)
      /\ UNCHANGED <<progress, lock, order, closed, buffer, reading, received, receiver>>
      /\ written[k] \in Nat
    BY DEF FramingInv, FramingTypes, Write, receiving
<1>2. /\ stream' \in Seq(Bytes) /\ Len(stream') = Len(stream) + 1
      /\ stream'[Len(stream')] = <<k, written[k] + 1>>
      /\ \A i \in 1 .. Len(stream) : stream'[i] = stream[i]
      /\ stream' # <<>> /\ <<k, written[k] + 1>> \in Bytes
    <2>1. stream \in Seq(Bytes) /\ <<k, written[k] + 1>> \in Bytes
        BY <1>1 DEF FramingInv, FramingTypes, Bytes
    <2> QED BY <1>1, <2>1
<1> DEFINE last == Len(order)
<1>3. last \in Nat \ {0} /\ order[last] = k /\ order # <<>>
    BY <1>1, Whereabouts DEF FramingInv, Serialised
<1>4. \A j \in 1 .. Len(order) : order[j] = k => j = last
    BY <1>3 DEF FramingInv, Serialised
<1>5. \A j \in 1 .. Len(order) : j < last =>
         written[order[j]] = PacketLength(order[j]) /\ order[j] # k /\ order[j] \in Senders
         /\ written[order[j]] # 0
    BY <1>4, Whereabouts, Lengths DEF FramingInv, Finished, AllWritten
<1>6. \A i \in 1 .. Len(stream') : i = Len(stream') \/ (i \in 1 .. Len(stream) /\ stream'[i] = stream[i])
    BY <1>2, Whereabouts
<1>7. FramingTypes'
    <2>1. \A l \in Senders : written'[l] <= PacketLength(l)
        <3>1. written'[k] <= PacketLength(k)
            BY <1>1, Lengths
        <3> QED BY <1>1, <3>1 DEF FramingInv, FramingTypes
    <2>2. Capacity \in Nat
        BY FramingAssumption
    <2> QED BY <1>1, <1>2, <2>1, <2>2, Whereabouts DEF FramingInv, FramingTypes, Wanted, PacketLength
<1>8. Serialised'
    <2>1. \A l \in Senders : (\A j \in 1 .. Len(order) : order[j] # l) => l # k
        BY <1>3
    <2> QED BY <1>1, <2>1 DEF FramingInv, Serialised
<1>9. Finished'
    <2>1. \A j \in 1 .. Len(order) : j < Len(order) => AllWritten(j)'
        BY <1>1, <1>5 DEF AllWritten, PacketLength
    <2>2. \A j \in 1 .. Len(order) : ~closed /\ progress[order[j]] # "writing" => AllWritten(j)'
        BY <1>1, <1>4, Whereabouts DEF AllWritten, PacketLength, FramingInv, Finished
    <2> QED BY <1>1, <2>1, <2>2 DEF Finished
<1>10. \A j \in 1 .. Len(received) : j \in 1 .. Len(order) /\ AllWritten(j) /\ order[j] # k
    BY SMTT(30), <1>1, <1>3, Whereabouts DEF FramingInv, InStep, AllWritten
<1>11. Current <= last
    BY <1>3, <1>10, Whereabouts
<1>12. InStep'
    <2>1. \A i \in 1 .. Len(received) : received[i] = Body(order[i]) /\ AllWritten(i)'
        BY <1>1, <1>10, Whereabouts DEF FramingInv, InStep, AllWritten, PacketLength
    <2>2. \A l : Body(l)' = Body(l)
        BY DEF Body
    <2> QED BY <1>1, <2>1, <2>2 DEF FramingInv, InStep, Current, Position
<1>13. Current' = Current /\ Position' = Position
    BY <1>1 DEF Current, Position
<1>14. ASSUME stream # <<>>
       PROVE  \E j \in 1 .. Len(order) :
                 /\ stream[Len(stream)] = <<order[j], written[order[j]]>>
                 /\ \A i \in 1 .. Len(order) : i > j => written[order[i]] = 0
                 /\ j = last \/ (j = last - 1 /\ written[k] = 0)
    <2>1. PICK j \in 1 .. Len(order) :
                 /\ stream[Len(stream)] = <<order[j], written[order[j]]>>
                 /\ \A i \in 1 .. Len(order) : i > j => written[order[i]] = 0
        BY <1>14 DEF FramingInv, LastByte
    <2>2. j < last => j + 1 \in 1 .. Len(order) /\ ~(j + 1 < last)
        BY <1>5, <2>1
    <2> QED BY <1>3, <2>1, <2>2
<1>15. ASSUME stream = <<>>
       PROVE  \/ Current = last /\ Position = written[k]
              \/ /\ Current = last - 1 /\ written[k] = 0
                 /\ Position = PacketLength(order[Current])
    <2>1. /\ written[order[Current]] = Position
          /\ \A i \in 1 .. Len(order) : i > Current => written[order[i]] = 0
        BY <1>11, <1>15 DEF FramingInv, LastByte
    <2>2. CASE Current = last
        BY <1>3, <2>1, <2>2
    <2>3. CASE Current < last
        <3>1. Current + 1 \in 1 .. Len(order) /\ ~(Current + 1 < last)
            BY SMTT(30), <1>5, <2>1, <2>3, Whereabouts
        <3> QED BY <1>3, <1>5, <2>1, <2>3, <3>1, Whereabouts
    <2> QED BY <1>3, <1>11, <2>2, <2>3, Whereabouts
<1>16. Continues'
    <2>1. CASE stream # <<>>
        <3>1. stream'[1] = stream[1]
            BY <1>2, <2>1, Whereabouts
        <3> QED BY <1>1, <1>13, <2>1, <3>1 DEF FramingInv, Continues, PacketLength
    <2>2. CASE stream = <<>>
        <3>1. stream'[1] = <<k, written[k] + 1>>
            BY <1>2, <2>2, Whereabouts
        <3>2. PacketLength(order[Current]) \in Nat /\ PacketLength(k) \in Nat
            BY <1>11, Whereabouts, Lengths
        <3>3. CASE Current = last /\ Position = written[k]
            BY <1>1, <1>3, <1>13, <3>1, <3>2, <3>3 DEF Continues, PacketLength
        <3>4. CASE Current = last - 1 /\ written[k] = 0 /\ Position = PacketLength(order[Current])
            <4>1. ~(Position < PacketLength(order[Current])) /\ Current < Len(order)
                BY <3>2, <3>4, Whereabouts
            <4>2. order[Current + 1] = k
                BY <1>3, <3>4, Whereabouts
            <4> QED BY <1>1, <1>13, <3>1, <3>4, <4>1, <4>2, Whereabouts DEF Continues, PacketLength
        <3> QED BY <1>15, <2>2, <3>3, <3>4
    <2> QED BY <2>1, <2>2
<1>17. \A l : PacketLength(l)' = PacketLength(l)
    BY DEF PacketLength
<1>18. Runs'
    <2>1. \A i \in 1 .. Len(stream') : stream'[i][2] \in 1 .. PacketLength(stream'[i][1])
        <3>1. written[k] + 1 \in 1 .. PacketLength(k)
            BY <1>1, Lengths
        <3> QED BY <1>2, <1>6, <3>1 DEF FramingInv, Runs
    <2>2. ASSUME NEW i \in 1 .. Len(stream), NEW d \in 1 .. Len(stream'),
                 i <= d, stream[i][2] + (d - i) <= PacketLength(stream[i][1])
          PROVE  stream'[d] = <<stream[i][1], stream[i][2] + (d - i)>>
        <3>1. CASE d \in 1 .. Len(stream)
            BY <1>2, <2>2, <3>1 DEF FramingInv, Runs
        <3>2. CASE d = Len(stream')
            <4>1. stream # <<>> /\ d = Len(stream) + 1
                BY <1>2, <3>2, Whereabouts
            <4>2. PICK j \in 1 .. Len(order) :
                     /\ stream[Len(stream)] = <<order[j], written[order[j]]>>
                     /\ j = last \/ (j = last - 1 /\ written[k] = 0)
                BY <1>14, <4>1
            <4>3. stream[i][2] \in Nat /\ PacketLength(stream[i][1]) \in Nat
                BY Whereabouts, Lengths
            <4>4. stream[Len(stream)] = <<stream[i][1], stream[i][2] + (Len(stream) - i)>>
                <5>1. Len(stream) \in 1 .. Len(stream) /\ i <= Len(stream)
                    BY <4>1, Whereabouts
                <5>2. stream[i][2] + (Len(stream) - i) <= PacketLength(stream[i][1])
                    BY SMTT(30), <2>2, <4>1, <4>3, Whereabouts
                <5> QED BY <5>1, <5>2 DEF FramingInv, Runs
            <4>5. /\ stream[i][1] = order[j]
                  /\ written[order[j]] = stream[i][2] + (Len(stream) - i)
                  /\ written[order[j]] < PacketLength(order[j])
                BY SMTT(30), <2>2, <4>1, <4>2, <4>3, <4>4, Whereabouts
            <4>6. j = last
                <5>1. order[j] \in Senders /\ PacketLength(order[j]) \in Nat
                    BY Whereabouts, Lengths
                <5>2. j < last => FALSE
                    BY <1>5, <4>5, <5>1
                <5> QED BY <4>2, <5>2, Whereabouts
            <4>7. stream[i][1] = k /\ written[k] + 1 = stream[i][2] + (d - i)
                <5>1. order[j] = k /\ Len(stream) \in Nat /\ i \in Nat
                    BY <1>3, <4>6, Whereabouts
                <5>2. stream[i][1] = k /\ written[k] = stream[i][2] + (Len(stream) - i)
                    BY <4>5, <5>1
                <5>3. d - i = (Len(stream) - i) + 1
                    BY <4>1, <5>1
                <5>4. PICK a \in Nat : a = stream[i][2]
                    BY <4>3
                <5>5. PICK e \in Int : e = Len(stream) - i
                    <6>1. Len(stream) - i \in Int
                        BY <5>1
                    <6> QED BY <6>1
                <5>6. written[k] + 1 = a + (e + 1)
                    BY <5>2, <5>4, <5>5
                <5>7. d - i = e + 1
                    BY <5>3, <5>5
                <5> QED BY <5>2, <5>4, <5>6, <5>7
            <4> QED BY <1>2, <3>2, <4>7
        <3> QED BY <1>6, <3>1, <3>2
    <2>3. \A i, d \in 1 .. Len(stream') :
             i <= d /\ stream'[i][2] + (d - i) <= PacketLength(stream'[i][1]) =>
                 stream'[d] = <<stream'[i][1], stream'[i][2] + (d - i)>>
        <3> SUFFICES ASSUME NEW i \in 1 .. Len(stream'), NEW d \in 1 .. Len(stream'), i <= d,
                            stream'[i][2] + (d - i) <= PacketLength(stream'[i][1])
                     PROVE  stream'[d] = <<stream'[i][1], stream'[i][2] + (d - i)>>
            OBVIOUS
        <3>1. CASE i \in 1 .. Len(stream)
            BY <1>2, <2>2, <3>1
        <3>2. CASE i = Len(stream')
            BY <1>1, <1>2, <3>2, Whereabouts
        <3> QED BY <1>6, <3>1, <3>2
    <2>4. ASSUME NEW i \in 1 .. Len(stream'), i < Len(stream'),
                 stream'[i][2] = PacketLength(stream'[i][1])
          PROVE  \E j \in 1 .. Len(order) :
                    /\ j < Len(order) /\ order[j] = stream'[i][1]
                    /\ stream'[i + 1] = <<order[j + 1], 1>>
        <3>1. i \in 1 .. Len(stream) /\ stream'[i] = stream[i]
            BY <1>2, <2>4, Whereabouts
        <3>2. CASE i < Len(stream)
            <4>1. stream'[i + 1] = stream[i + 1]
                BY SMTT(30), <1>2, <3>2, Whereabouts
            <4> QED BY <2>4, <3>1, <3>2, <4>1 DEF FramingInv, Runs
        <3>3. CASE i = Len(stream)
            <4>1. stream # <<>> /\ stream'[i + 1] = <<k, written[k] + 1>>
                BY <1>2, <3>1, <3>3, Whereabouts
            <4>2. PICK j \in 1 .. Len(order) :
                     /\ stream[Len(stream)] = <<order[j], written[order[j]]>>
                     /\ j = last \/ (j = last - 1 /\ written[k] = 0)
                BY <1>14, <4>1
            <4>3. order[j] = stream[i][1] /\ written[order[j]] = PacketLength(order[j])
                BY <2>4, <3>1, <3>3, <4>2
            <4>4. j # last
                BY <1>1, <1>3, <4>3, Lengths
            <4> QED BY <1>3, <3>1, <4>1, <4>2, <4>3, <4>4
        <3> QED BY <3>1, <3>2, <3>3, Whereabouts
    <2> QED BY <1>1, <1>17, <2>1, <2>3, <2>4 DEF Runs
<1>19. LastByte'
    <2>1. stream'[Len(stream')] = <<order[last], written'[order[last]]>>
        BY <1>1, <1>2, <1>3
    <2>2. \A i \in 1 .. Len(order) : ~(i > last)
        BY Whereabouts
    <2>3. last \in 1 .. Len(order)
        BY <1>3
    <2> HIDE DEF last
    <2> QED BY <1>1, <1>2, <2>1, <2>2, <2>3 DEF LastByte
<1> QED BY <1>7, <1>8, <1>9, <1>12, <1>16, <1>18, <1>19 DEF FramingInv

\* A read takes bytes of the packet it is in, and none of the next.
LEMMA ReadSteps ==
    ASSUME FramingInv, Read
    PROVE  FramingInv'
<1>1. PICK m \in ReadSizes :
         buffer' = buffer \o SubSeq(stream, 1, m) /\ stream' = SubSeq(stream, m + 1, Len(stream))
    BY DEF Read
<1>2. /\ Len(buffer) < Wanted /\ receiver = "open"
      /\ UNCHANGED <<progress, written, lock, order, closed, reading, received, receiver>>
    BY DEF Read, sending
<1>3. /\ m \in 1 .. Len(stream) /\ m \in Nat /\ m <= Wanted - Len(buffer) /\ stream # <<>>
      /\ m <= Len(stream)
    BY Whereabouts DEF ReadSizes
<1>4. /\ stream \in Seq(Bytes) /\ buffer \in Seq(Bytes)
    BY DEF FramingInv, FramingTypes
<1>5. /\ stream' \in Seq(Bytes) /\ Len(stream') = Len(stream) - m
      /\ \A i \in 1 .. Len(stream') : stream'[i] = stream[m + i] /\ m + i \in 1 .. Len(stream)
    BY <1>1, <1>3, <1>4, Whereabouts
<1>6. /\ SubSeq(stream, 1, m) \in Seq(Bytes) /\ Len(SubSeq(stream, 1, m)) = m
      /\ \A i \in 1 .. m : SubSeq(stream, 1, m)[i] = stream[i]
    BY <1>3, <1>4, Whereabouts
<1>7. /\ buffer' \in Seq(Bytes) /\ Len(buffer') = Len(buffer) + m
      /\ \A i \in 1 .. Len(buffer) : buffer'[i] = buffer[i]
      /\ \A i \in 1 .. m : buffer'[Len(buffer) + i] = stream[i]
    <2> DEFINE piece == SubSeq(stream, 1, m)
    <2>1. /\ piece \in Seq(Bytes) /\ Len(piece) = m /\ buffer' = buffer \o piece
          /\ \A i \in 1 .. m : piece[i] = stream[i]
        BY <1>1, <1>6
    <2> HIDE DEF piece
    <2>2. /\ buffer' \in Seq(Bytes) /\ Len(buffer') = Len(buffer) + m
          /\ \A i \in 1 .. Len(buffer) + m :
                buffer'[i] = IF i <= Len(buffer) THEN buffer[i] ELSE piece[i - Len(buffer)]
        <3>1. /\ buffer \o piece \in Seq(Bytes) /\ Len(buffer \o piece) = Len(buffer) + Len(piece)
              /\ \A i \in 1 .. Len(buffer) + Len(piece) :
                    (buffer \o piece)[i] = IF i <= Len(buffer) THEN buffer[i] ELSE piece[i - Len(buffer)]
            BY <1>4, <2>1, ConcatProperties
        <3> QED BY <2>1, <3>1
    <2>3. \A i \in 1 .. m : Len(buffer) + i \in 1 .. Len(buffer) + m
              /\ ~(Len(buffer) + i <= Len(buffer)) /\ (Len(buffer) + i) - Len(buffer) = i
        BY <1>3, Whereabouts
    <2>4. \A i \in 1 .. Len(buffer) : i \in 1 .. Len(buffer) + m /\ i <= Len(buffer)
        BY <1>3, Whereabouts
    <2> QED BY <2>1, <2>2, <2>3, <2>4
<1>8. /\ Current <= Len(order) /\ order[Current] \in Senders
      /\ PacketLength(order[Current]) \in Nat
      /\ Position + m <= PacketLength(order[Current])
    <2>1. Current <= Len(order) /\ order[Current] \in Senders
        BY <1>3, Whereabouts DEF FramingInv, Continues
    <2>2. reading # "header" => reading = order[Current]
        BY DEF FramingInv, InStep
    <2>3. /\ PacketLength(order[Current]) = HeaderLength + BodyLength[order[Current]]
          /\ HeaderLength \in Nat /\ BodyLength[order[Current]] \in Nat
          /\ PacketLength(order[Current]) \in Nat
        BY <2>1, Lengths
    <2>4. CASE reading = "header"
        BY <1>3, <2>1, <2>3, <2>4, Whereabouts DEF Position, Wanted
    <2>5. CASE reading # "header"
        BY <1>3, <2>1, <2>2, <2>3, <2>5, Whereabouts DEF Position, Wanted
    <2> QED BY <2>1, <2>3, <2>4, <2>5
<1> DEFINE now == order[Current]
<1>9. Position < PacketLength(now) /\ stream[1] = <<now, Position + 1>>
    BY <1>3, <1>8, Whereabouts DEF FramingInv, Continues
<1>10. \A i \in 1 .. Len(stream) : Position + i <= PacketLength(now) => stream[i] = <<now, Position + i>>
    <2> SUFFICES ASSUME NEW i \in 1 .. Len(stream), Position + i <= PacketLength(now)
                 PROVE  stream[i] = <<now, Position + i>>
        OBVIOUS
    <2>1. stream[1][1] = now /\ stream[1][2] = Position + 1 /\ 1 \in 1 .. Len(stream)
        BY <1>3, <1>9
    <2> HIDE DEF now
    <2>2. 1 <= i /\ stream[1][2] + (i - 1) <= PacketLength(stream[1][1])
        BY <2>1, Whereabouts
    <2>3. stream[i] = <<stream[1][1], stream[1][2] + (i - 1)>>
        BY <2>1, <2>2 DEF FramingInv, Runs
    <2>4. stream[1][2] + (i - 1) = Position + i
        BY <2>1, Whereabouts
    <2> QED BY <2>1, <2>3, <2>4
<1>11. Current' = Current /\ Position' = Position + m
    <2>1. HeaderLength \in Nat
        BY FramingAssumption
    <2>2. Current' = Current
        BY <1>2 DEF Current
    <2>3. Len(buffer) \in Nat /\ m \in Nat /\ Len(buffer') = Len(buffer) + m /\ reading' = reading
        BY <1>2, <1>3, <1>7, Whereabouts
    <2> QED BY <2>1, <2>2, <2>3 DEF Position
<1>12. \A l : PacketLength(l)' = PacketLength(l) /\ Body(l)' = Body(l)
    BY DEF PacketLength, Body
<1>13. FramingTypes'
    <2>1. Len(buffer') <= Wanted'
        <3>1. HeaderLength \in Nat /\ \A k \in Senders : BodyLength[k] \in Nat
            BY FramingAssumption
        <3>2. Wanted' = Wanted /\ Wanted \in Nat
            BY <1>2, <3>1 DEF Wanted, FramingInv, FramingTypes
        <3> QED BY <1>3, <1>7, <3>2, Whereabouts
    <2>2. Len(stream') <= Capacity
        <3>1. Capacity \in Nat
            BY FramingAssumption
        <3> QED BY <1>3, <1>5, <3>1, Whereabouts DEF FramingInv, FramingTypes
    <2> QED BY <1>2, <1>5, <1>7, <1>12, <2>1, <2>2 DEF FramingInv, FramingTypes
<1>14. Serialised' /\ Finished'
    BY <1>2, <1>12 DEF FramingInv, Serialised, Finished, AllWritten
<1>15. InStep'
    <2>1. \A i \in 1 .. Len(buffer') : buffer'[i] = <<now, Position' - Len(buffer') + i>>
        <3> SUFFICES ASSUME NEW i \in 1 .. Len(buffer')
                     PROVE  buffer'[i] = <<now, Position' - Len(buffer') + i>>
            OBVIOUS
        <3>1. Position' - Len(buffer') = Position - Len(buffer)
            BY <1>7, <1>11, <1>3, Whereabouts
        <3>2. CASE i \in 1 .. Len(buffer)
            BY <1>7, <3>1, <3>2 DEF FramingInv, InStep
        <3>3. CASE i > Len(buffer)
            <4> DEFINE e == i - Len(buffer)
            <4>1. e \in 1 .. m /\ i = Len(buffer) + e /\ e \in 1 .. Len(stream)
                  /\ Position + e <= PacketLength(now)
                BY <1>3, <1>7, <1>8, <3>3, Whereabouts
            <4>2. buffer'[i] = stream[e]
                BY <1>7, <4>1
            <4>3. stream[e] = <<now, Position + e>>
                BY <1>10, <4>1
            <4>4. Position + e = Position' - Len(buffer') + i
                BY <3>1, <4>1, <1>3, Whereabouts
            <4> QED BY <4>2, <4>3, <4>4
        <3> QED BY <1>7, <3>2, <3>3, Whereabouts
    <2>2. \A i \in 1 .. Len(received) : received[i] = Body(order[i]) /\ AllWritten(i)'
        BY <1>2, <1>12 DEF FramingInv, InStep, AllWritten
    <2> QED BY <1>2, <1>8, <1>11, <1>12, <2>1, <2>2, Whereabouts DEF FramingInv, InStep
<1>16. \A l \in 1 .. Len(order) : order[l] = now => l = Current
    BY <1>8, Whereabouts DEF FramingInv, Serialised
<1>17. Continues'
    <2> SUFFICES ASSUME stream' # <<>>
                 PROVE  /\ Position' < PacketLength(now) => stream'[1] = <<now, Position' + 1>>
                        /\ Position' >= PacketLength(now) =>
                              Current < Len(order) /\ stream'[1] = <<order[Current + 1], 1>>
        BY <1>2, <1>8, <1>11, <1>12 DEF Continues
    <2>1. Len(stream') >= 1 /\ m < Len(stream) /\ stream'[1] = stream[m + 1]
          /\ m + 1 \in 1 .. Len(stream)
        BY <1>3, <1>5, Whereabouts
    <2>2. CASE Position + m < PacketLength(now)
        <3>1. Position + (m + 1) <= PacketLength(now)
            BY <1>3, <1>8, <2>2, Whereabouts
        <3>2. stream[m + 1] = <<now, Position + (m + 1)>>
            BY <1>10, <2>1, <3>1
        <3>3. Position + (m + 1) = Position' + 1 /\ ~(Position' >= PacketLength(now))
            BY <1>3, <1>8, <1>11, <2>2, Whereabouts
        <3> QED BY <2>1, <3>2, <3>3
    <2>3. CASE Position + m = PacketLength(now)
        <3>1. stream[m] = <<now, PacketLength(now)>>
            <4>1. m \in 1 .. Len(stream) /\ Position + m <= PacketLength(now)
                BY <1>3, <1>8
            <4> HIDE DEF now
            <4>2. stream[m] = <<now, Position + m>>
                BY <1>10, <4>1
            <4> QED BY <2>3, <4>2
        <3>2. PICK j \in 1 .. Len(order) :
                 j < Len(order) /\ order[j] = now /\ stream[m + 1] = <<order[j + 1], 1>>
            <4> HIDE DEF now
            <4>1. stream[m][1] = now /\ stream[m][2] = PacketLength(now)
                BY <3>1
            <4> QED BY <1>3, <2>1, <4>1 DEF FramingInv, Runs
        <3>3. j = Current
            BY <1>16, <3>2
        <3>4. ~(Position' < PacketLength(now))
            BY <1>3, <1>8, <1>11, <2>3, Whereabouts
        <3> QED BY <2>1, <3>2, <3>3, <3>4
    <2>4. Position + m < PacketLength(now) \/ Position + m = PacketLength(now)
        <3>1. Position \in Nat /\ m \in Nat /\ PacketLength(now) \in Nat
            BY <1>3, <1>8, Whereabouts
        <3> QED BY <1>8, <3>1
    <2> HIDE DEF now
    <2> QED BY <2>2, <2>3, <2>4
<1>18. Runs'
    <2>1. \A i \in 1 .. Len(stream') : stream'[i][2] \in 1 .. PacketLength(stream'[i][1])
        BY <1>5 DEF FramingInv, Runs
    <2>2. \A i, d \in 1 .. Len(stream') :
             i <= d /\ stream'[i][2] + (d - i) <= PacketLength(stream'[i][1]) =>
                 stream'[d] = <<stream'[i][1], stream'[i][2] + (d - i)>>
        <3> SUFFICES ASSUME NEW i \in 1 .. Len(stream'), NEW d \in 1 .. Len(stream'), i <= d,
                            stream'[i][2] + (d - i) <= PacketLength(stream'[i][1])
                     PROVE  stream'[d] = <<stream'[i][1], stream'[i][2] + (d - i)>>
            OBVIOUS
        <3>1. /\ m + i \in 1 .. Len(stream) /\ m + d \in 1 .. Len(stream) /\ m + i <= m + d
              /\ (m + d) - (m + i) = d - i
              /\ stream'[i] = stream[m + i] /\ stream'[d] = stream[m + d]
            BY SMTT(30), <1>3, <1>5, Whereabouts
        <3> QED BY <3>1 DEF FramingInv, Runs
    <2>3. ASSUME NEW i \in 1 .. Len(stream'), i < Len(stream'),
                 stream'[i][2] = PacketLength(stream'[i][1])
          PROVE  \E j \in 1 .. Len(order) :
                    /\ j < Len(order) /\ order[j] = stream'[i][1]
                    /\ stream'[i + 1] = <<order[j + 1], 1>>
        <3>1. /\ m + i \in 1 .. Len(stream) /\ m + i < Len(stream)
              /\ stream'[i] = stream[m + i] /\ stream'[i + 1] = stream[(m + i) + 1]
            <4>1. /\ m + i \in 1 .. Len(stream) /\ m + i < Len(stream)
                  /\ i + 1 \in 1 .. Len(stream') /\ m + (i + 1) = (m + i) + 1
                <5>1. /\ i \in Nat /\ i >= 1 /\ m \in Nat /\ m >= 1 /\ Len(stream) \in Nat
                      /\ Len(stream') = Len(stream) - m /\ i < Len(stream')
                    BY <1>3, <1>5, <2>3, Whereabouts
                <5> QED BY <5>1
            <4>2. stream'[i] = stream[m + i] /\ stream'[i + 1] = stream[m + (i + 1)]
                BY <1>5, <4>1
            <4> QED BY <4>1, <4>2
        <3> QED BY <2>3, <3>1 DEF FramingInv, Runs
    <2> QED BY <1>2, <1>12, <2>1, <2>2, <2>3 DEF Runs
<1>19. LastByte'
    <2>1. PICK j \in 1 .. Len(order) :
             /\ stream[Len(stream)] = <<order[j], written[order[j]]>>
             /\ \A i \in 1 .. Len(order) : i > j => written[order[i]] = 0
        BY <1>3 DEF FramingInv, LastByte
    <2>2. CASE stream' # <<>>
        <3>1. Len(stream') \in 1 .. Len(stream') /\ m + Len(stream') = Len(stream)
            BY <1>3, <1>5, <2>2, Whereabouts
        <3>2. stream'[Len(stream')] = stream[Len(stream)]
            BY <1>5, <3>1
        <3> QED BY <1>2, <2>1, <2>2, <3>2 DEF LastByte
    <2>3. CASE stream' = <<>>
        <3>1. m = Len(stream)
            BY <1>3, <1>5, <2>3, Whereabouts
        <3>2. stream[m] = <<now, Position + m>>
            BY <1>3, <1>8, <1>10
        <3>3. order[j] = now /\ written[now] = Position + m
            BY <2>1, <3>1, <3>2
        <3>4. j = Current
            BY <1>16, <3>3
        <3> QED BY <1>2, <1>11, <2>1, <2>3, <3>3, <3>4 DEF LastByte
    <2> QED BY <2>2, <2>3
<1> QED BY <1>13, <1>14, <1>15, <1>17, <1>18, <1>19 DEF FramingInv

\* A full header names the packet the receiver is at, whose length is good.
LEMMA ReadHeaderSteps ==
    ASSUME FramingInv, ReadHeader
    PROVE  FramingInv'
<1>1. /\ receiver = "open" /\ reading = "header" /\ Len(buffer) >= HeaderLength
      /\ buffer' = <<>>
      /\ UNCHANGED <<progress, written, lock, order, closed, stream, received>>
    BY DEF ReadHeader, Wanted, sending
<1> DEFINE now == order[Current]
<1>2. HeaderLength \in Nat \ {0}
    BY FramingAssumption
<1>3. /\ Len(buffer) = HeaderLength /\ Position = HeaderLength /\ buffer # <<>>
    BY <1>1, <1>2, Whereabouts DEF FramingInv, FramingTypes, Wanted, Position
<1>4. Current <= Len(order) /\ now \in Senders /\ BodyLength[now] <= MaxPacketSize
    BY <1>3, Whereabouts DEF FramingInv, InStep, Serialised
<1>5. \A i \in 1 .. HeaderLength : buffer[i] = <<now, i>>
    BY <1>3, Whereabouts DEF FramingInv, InStep
<1>6. buffer = Header(now)
    <2>1. buffer \in Seq(Bytes)
        BY DEF FramingInv, FramingTypes
    <2>2. Header(now) \in Seq(Bytes) /\ Len(Header(now)) = HeaderLength
          /\ \A i \in 1 .. HeaderLength : Header(now)[i] = <<now, i>>
        <3> HIDE DEF now
        <3>1. \A i \in 1 .. HeaderLength : <<now, i>> \in Bytes
            BY <1>2, <1>4 DEF Bytes
        <3> QED BY <1>2, <3>1 DEF Header
    <2> HIDE DEF now
    <2> QED BY <1>3, <1>5, <2>1, <2>2, SeqEqual
<1>7. \A k \in Senders : buffer = Header(k) => k = now
    <2> SUFFICES ASSUME NEW k \in Senders, buffer = Header(k) PROVE k = now
        OBVIOUS
    <2>1. 1 \in 1 .. HeaderLength
        BY <1>2
    <2>2. Header(k)[1] = <<k, 1>>
        BY <2>1 DEF Header
    <2>3. buffer[1] = <<now, 1>>
        BY <1>5, <2>1
    <2> HIDE DEF now
    <2> QED BY <2>2, <2>3
<1>8. reading' = now /\ receiver' = receiver
    <2> HIDE DEF now
    <2> QED BY <1>4, <1>6, <1>7 DEF ReadHeader
<1>9. now # "header" /\ BodyLength[now] \in Nat
    BY <1>4, Lengths
<1>10. Len(buffer') = 0
    BY <1>1
<1>11. Current' = Current /\ Position' = Position
    BY <1>1, <1>2, <1>3, <1>8, <1>9, <1>10 DEF Current, Position
<1>12. \A l : PacketLength(l)' = PacketLength(l) /\ Body(l)' = Body(l)
    BY DEF PacketLength, Body
<1>13. FramingTypes'
    <2>1. Len(buffer') <= Wanted' /\ buffer' \in Seq(Bytes)
        BY <1>1, <1>8, <1>9, <1>10 DEF Wanted
    <2> QED BY <1>1, <1>4, <1>8, <1>12, <2>1 DEF FramingInv, FramingTypes
<1>14. Serialised' /\ Finished'
    BY <1>1, <1>12 DEF FramingInv, Serialised, Finished, AllWritten
<1>15. InStep'
    <2>1. \A i \in 1 .. Len(received) : received[i] = Body(order[i]) /\ AllWritten(i)'
        BY <1>1, <1>12 DEF FramingInv, InStep, AllWritten
    <2>2. \A i \in 1 .. Len(buffer') : FALSE
        BY <1>10
    <2> QED BY <1>1, <1>4, <1>8, <1>11, <1>12, <2>1, <2>2, Whereabouts DEF InStep
<1>16. Continues' /\ Runs' /\ LastByte'
    BY <1>1, <1>11, <1>12 DEF FramingInv, Continues, Runs, LastByte
<1> QED BY <1>13, <1>14, <1>15, <1>16 DEF FramingInv

\* A full body is the packet's; the receiver goes on with the one begun next.
LEMMA ReadBodySteps ==
    ASSUME FramingInv, ReadBody
    PROVE  FramingInv'
<1>1. /\ receiver = "open" /\ reading # "header" /\ Len(buffer) >= BodyLength[reading]
      /\ buffer' = <<>> /\ reading' = "header" /\ received' = Append(received, buffer)
      /\ UNCHANGED <<progress, written, lock, order, closed, stream, receiver>>
    BY DEF ReadBody, Wanted, sending
<1> DEFINE now == order[Current]
<1>2. HeaderLength \in Nat \ {0}
    BY FramingAssumption
<1>3. Current <= Len(order) /\ reading = now /\ now \in Senders
    BY <1>1, Whereabouts DEF FramingInv, InStep
<1>4. BodyLength[now] \in Nat \ {0} /\ PacketLength(now) = HeaderLength + BodyLength[now]
      /\ PacketLength(now) \in Nat
    BY <1>3, Lengths
<1>5. Len(buffer) = BodyLength[now] /\ Position = PacketLength(now)
    <2>1. Len(buffer) >= BodyLength[now] /\ Len(buffer) <= BodyLength[now] /\ Len(buffer) \in Nat
        BY <1>1, <1>3, Whereabouts DEF FramingInv, FramingTypes, Wanted
    <2> HIDE DEF now
    <2>2. Len(buffer) = BodyLength[now]
        BY <1>4, <2>1
    <2> QED BY <1>1, <1>4, <2>2 DEF Position
<1>6. buffer = Body(now)
    <2>1. buffer \in Seq(Bytes)
        BY DEF FramingInv, FramingTypes
    <2>2. Body(now) \in Seq(Bytes) /\ Len(Body(now)) = BodyLength[now]
          /\ \A i \in 1 .. BodyLength[now] : Body(now)[i] = <<now, HeaderLength + i>>
        <3> HIDE DEF now
        <3>1. \A i \in 1 .. BodyLength[now] : <<now, HeaderLength + i>> \in Bytes
            BY <1>2, <1>3, <1>4 DEF Bytes
        <3> QED BY <1>4, <3>1 DEF Body
    <2>3. \A i \in 1 .. Len(buffer) : buffer[i] = <<now, HeaderLength + i>>
        <3>1. Position - Len(buffer) = HeaderLength
            BY <1>2, <1>4, <1>5, Whereabouts
        <3> QED BY <3>1 DEF FramingInv, InStep
    <2> HIDE DEF now
    <2> QED BY <1>5, <2>1, <2>2, <2>3, SeqEqual
<1>7. /\ received' \in Seq(Seq(Bytes)) /\ Len(received') = Len(received) + 1
      /\ received'[Current] = Body(now)
      /\ \A i \in 1 .. Len(received) : received'[i] = received[i]
    <2>1. received \in Seq(Seq(Bytes)) /\ buffer \in Seq(Bytes)
        BY DEF FramingInv, FramingTypes
    <2> QED BY <1>1, <1>6, <2>1, Whereabouts
<1>8. Current' = Current + 1 /\ Position' = 0 /\ Len(buffer') = 0
    BY <1>1, <1>7, Whereabouts DEF Current, Position
<1>9. \A l : PacketLength(l)' = PacketLength(l) /\ Body(l)' = Body(l)
    BY DEF PacketLength, Body
<1>10. AllWritten(Current)
    <2>1. CASE Current < Len(order)
        BY <2>1, Whereabouts DEF FramingInv, Finished
    <2>2. CASE Current = Len(order) /\ stream = <<>>
        BY <1>3, <1>5, <2>2 DEF FramingInv, LastByte, AllWritten
    <2>3. CASE Current = Len(order) /\ stream # <<>>
        BY <1>2, <1>4, <1>5, <2>3, Whereabouts DEF FramingInv, Continues
    <2> QED BY <1>3, <2>1, <2>2, <2>3, Whereabouts
<1>11. FramingTypes'
    <2>1. Len(buffer') <= Wanted' /\ buffer' \in Seq(Bytes)
        BY <1>1, <1>2, <1>8 DEF Wanted
    <2> QED BY <1>1, <1>7, <1>9, <2>1 DEF FramingInv, FramingTypes
<1>12. Serialised' /\ Finished'
    BY <1>1, <1>9 DEF FramingInv, Serialised, Finished, AllWritten
<1>13. InStep'
    <2>1. \A i \in 1 .. Len(received') :
             received'[i] = Body(order[i]) /\ written[order[i]] = PacketLength(order[i])
        <3>1. \A i \in 1 .. Len(received') : i = Current \/ i \in 1 .. Len(received)
            BY <1>7, Whereabouts
        <3>2. \A i \in 1 .. Len(received) :
                 received'[i] = Body(order[i]) /\ written[order[i]] = PacketLength(order[i])
            BY <1>7 DEF FramingInv, InStep, AllWritten
        <3> QED BY <1>7, <1>10, <3>1, <3>2 DEF AllWritten
    <2>2. \A i \in 1 .. Len(buffer') : FALSE
        BY <1>8
    <2>3. Len(received') <= Len(order)
        BY <1>3, <1>7, Whereabouts
    <2> QED BY <1>1, <1>9, <2>1, <2>2, <2>3 DEF InStep, AllWritten
<1>14. Continues'
    <2> SUFFICES ASSUME stream # <<>>
                 PROVE  /\ Current + 1 <= Len(order)
                        /\ stream[1] = <<order[Current + 1], 0 + 1>>
                        /\ ~(0 >= PacketLength(order[Current + 1]))
        BY <1>1, <1>8, <1>9 DEF Continues
    <2>1. Current < Len(order) /\ stream[1] = <<order[Current + 1], 1>>
        BY <1>4, <1>5 DEF FramingInv, Continues
    <2>2. Current + 1 <= Len(order) /\ order[Current + 1] \in Senders
        BY <2>1, Whereabouts
    <2>3. ~(0 >= PacketLength(order[Current + 1]))
        BY <2>2, Lengths
    <2> QED BY <2>1, <2>2, <2>3
<1>15. Runs'
    BY <1>1, <1>9 DEF FramingInv, Runs
<1>16. LastByte'
    <2>1. stream = <<>> =>
             \A i \in 1 .. Len(order) : i > Current => written[order[i]] = 0
        BY <1>3 DEF FramingInv, LastByte
    <2>2. stream = <<>> /\ Current + 1 <= Len(order) =>
             /\ written[order[Current + 1]] = 0
             /\ \A i \in 1 .. Len(order) : i > Current + 1 => written[order[i]] = 0
        BY <2>1, Whereabouts
    <2> QED BY <1>1, <1>8, <2>2 DEF FramingInv, LastByte
<1> QED BY <1>11, <1>12, <1>13, <1>14, <1>15, <1>16 DEF FramingInv

LEMMA EndOfStreamSteps ==
    ASSUME FramingInv, EndOfStream
    PROVE  FramingInv'
<1>1. /\ UNCHANGED <<progress, written, lock, order, closed, stream, buffer, reading, received>>
      /\ receiver' = "ended"
    BY DEF EndOfStream, sending
<1>2. FramingTypes' /\ Serialised' /\ Finished'
    BY <1>1 DEF FramingInv, FramingTypes, Serialised, Finished, AllWritten, Wanted, PacketLength
<1>3. InStep'
    BY <1>1 DEF FramingInv, InStep, AllWritten, PacketLength, Body, Current, Position
<1>4. Continues'
    BY <1>1 DEF FramingInv, Continues, PacketLength, Current, Position
<1>5. Runs'
    BY <1>1 DEF FramingInv, Runs, AllWritten, PacketLength
<1>6. LastByte'
    BY <1>1 DEF FramingInv, LastByte, PacketLength, Current, Position
<1> QED BY <1>2, <1>3, <1>4, <1>5, <1>6 DEF FramingInv

LEMMA FramingStep ==
    ASSUME FramingInv, [FramingNext]_framing
    PROVE  FramingInv'
<1>1. CASE UNCHANGED framing
    <2>1. /\ UNCHANGED <<progress, written, lock, order, closed, stream>>
          /\ UNCHANGED <<buffer, reading, received, receiver, receiving>>
        BY <1>1 DEF framing, sending, receiving
    <2>2. FramingTypes' /\ Serialised' /\ Finished'
        BY <2>1 DEF FramingInv, FramingTypes, Serialised, Finished, AllWritten, Wanted, PacketLength
    <2> QED BY <2>1, <2>2, SamePipe DEF FramingInv
<1>2. ASSUME NEW k \in Senders, Send(k) \/ Fail(k)
      PROVE  FramingInv'
    BY <1>2, CallSteps, AcquireSteps, WriteSteps, WrittenSteps, ReleaseSteps, WriteThrowsSteps
       DEF Send, Fail
<1>3. CASE Close
    BY <1>3, CloseSteps
<1>4. CASE Receive
    BY <1>4, ReadSteps, ReadHeaderSteps, ReadBodySteps, EndOfStreamSteps DEF Receive
<1> QED BY <1>1, <1>2, <1>3, <1>4 DEF FramingNext

\* The bodies given to the receive loop are those of the packets begun, whole, in
\* the order of the send lock, for any senders, lengths and buffers, wherever the
\* stream cuts and whichever send fails half-way (ClientSession.cs:594-617,
\* PacketProtocol.cs:10-63).
THEOREM WholePackets == FramingSpec => []PacketsArriveWhole
<1>1. FramingInv => PacketsArriveWhole
    <2> SUFFICES ASSUME FramingInv PROVE PacketsArriveWhole
        OBVIOUS
    <2>1. TypeOK
        <3>1. \A k \in Senders : written[k] \in 0 .. PacketLength(k)
            BY Lengths DEF FramingInv, FramingTypes
        <3> QED BY <3>1 DEF FramingInv, FramingTypes, TypeOK
    <2>2. DOMAIN received = 1 .. Len(received)
        BY DEF FramingInv, FramingTypes
    <2> QED BY <2>1, <2>2 DEF FramingInv, FramingTypes, InStep, PacketsArriveWhole
<1> QED BY <1>1, FramingStarts, FramingStep, PTL DEF FramingSpec
=============================================================================
