------------------------------ MODULE GameClient ------------------------------
(***************************************************************************)
(* The game client: wWinMain's start, its frames and its end, the threads  *)
(* that LOGIN and CREATE start and the one that asks whether the server is *)
(* up.  What the screens show of the snapshots follows from them, and the  *)
(* window is resized as in the editor; both are left out.                  *)
(***************************************************************************)
EXTENDS NetworkClient, Dx11Renderer

CONSTANTS
    Logs, Registers,    \* bounds: how often each button is pressed
    MaxChecks           \* bound: status checks

VARIABLES
    gpu, drawer,
    authenticated, busy,
    status,         \* online and checking, as the status thread leaves them
    frame,          \* what this frame read: connected, and that LOGIN may be pressed
    presses,        \* how often LOGIN and CREATE were pressed, and checks made
    mishaps         \* (history) "late": a connection was made while the program was
                    \* closing; "misread": the login screen came back over a login
                    \* that succeeded after the frame had asked for the connection;
                    \* "raced": a connection was made before the thread that
                    \* receives had noticed the end of the one before;
                    \* "hasty": a button was pressed while the thread of an
                    \* earlier one was still at work, which g_busy does not
                    \* prevent: it is cleared before that thread stops the
                    \* client or starts its receive loop

vars == <<network, gpu, drawer, authenticated, busy, status, frame, presses, mishaps>>
mains == <<gpu, drawer, frame, presses>>

Init ==
    /\ NetworkInit
    /\ gpu = NoGpu /\ drawer = NoScene
    /\ authenticated = FALSE /\ busy = FALSE
    /\ status = [online |-> FALSE, checking |-> FALSE]
    /\ frame = [connected |-> FALSE, ready |-> FALSE]
    /\ presses = [login |-> 0, register |-> 0, checks |-> 0] /\ mishaps = {}

Ended == at["main"] = "ended"
Gone == at["main"] \in {"reset", "ended"}
MovesTo(t, place) == Goes(t, place) /\ UNCHANGED <<net, awaits, on, got, return, shown, peer, packets, crashed>>

-----------------------------------------------------------------------------
(* Start: the device, then the world's renderer, then the client. *)

StartRenderer ==
    /\ at["main"] = "start"
    /\ gpu' \in Initialize(gpu, 1, 1)
    /\ MovesTo("main", IF gpu'.initialized THEN "device" ELSE "ended")
    /\ UNCHANGED <<drawer, authenticated, busy, status, frame, presses, mishaps>>

StartWorld ==
    /\ at["main"] = "device"
    /\ \E d \in InitializeScene(drawer, gpu.device) :
        IF d.initialized THEN drawer' = d /\ gpu' = gpu /\ MovesTo("main", "pump")
                         ELSE drawer' = NoScene /\ gpu' = Shutdown(gpu) /\ MovesTo("main", "ended")
    /\ UNCHANGED <<authenticated, busy, status, frame, presses, mishaps>>

-----------------------------------------------------------------------------
(* A frame: messages, MaybeStartServerStatusCheck, what the client says,   *)
(* then the login screen or the game.                                      *)

\* UpdateGameScreenStateFromNetwork first asks whether there is a connection ...
BeginFrame ==
    /\ at["main"] = "pump" /\ MovesTo("main", "notice")
    /\ \/ UNCHANGED <<status, presses>>
       \/ /\ ~authenticated /\ ~status.checking /\ presses.checks < MaxChecks
          /\ status' = [status EXCEPT !.checking = TRUE] /\ presses' = [presses EXCEPT !.checks = @ + 1]
    /\ frame' = [frame EXCEPT !.connected = net.connected]
    /\ UNCHANGED <<gpu, drawer, authenticated, busy, mishaps>>

\* WM_DESTROY, or EXIT.
CloseWindow ==
    /\ at["main"] = "pump"
    /\ Goes("main", "flags") /\ return' = [return EXCEPT !["main"] = "destroy"]
    /\ UNCHANGED <<net, awaits, on, got, shown, peer, packets, crashed>>
    /\ UNCHANGED <<mains, authenticated, busy, status, mishaps>>

CheckTcpServerOnline ==
    /\ status.checking /\ ~Ended
    /\ \E online \in BOOLEAN : status' = [online |-> online, checking |-> FALSE]
    /\ UNCHANGED <<network, mains, authenticated, busy, mishaps>>

\* ... then what follows from it; and SyncUiStatus.
\* Mutant: the game goes on without a connection.
AfterFrame_Stays(connected) == authenticated
AfterFrame(connected) == authenticated /\ connected
NoticeLoss ==
    /\ at["main"] = "notice" /\ MovesTo("main", "screen")
    /\ authenticated' = AfterFrame(frame.connected)
    /\ frame' = [connected |-> FALSE, ready |-> status.online /\ ~busy]
    /\ mishaps' = IF authenticated /\ ~frame.connected /\ net.connected THEN mishaps \cup {"misread"} ELSE mishaps
    /\ UNCHANGED <<gpu, drawer, busy, status, presses>>

EndsFrame(place) == Goes("main", place) /\ frame' = [frame EXCEPT !.ready = FALSE]

\* The login screen: RunLogin or RunRegister, which look at g_busy again.
PressButton(request) ==
    /\ at["main"] = "screen" /\ ~authenticated /\ frame.ready /\ ~busy
    /\ presses[request] < IF request = "login" THEN Logs ELSE Registers
    /\ presses' = [presses EXCEPT ![request] = @ + 1] /\ busy' = TRUE
    /\ \E t \in Tasks :
           /\ at[t] = "idle" /\ at' = [at EXCEPT ![t] = "connect", !["main"] = "pump"]
           /\ awaits' = [awaits EXCEPT ![t] = request]
    /\ frame' = [frame EXCEPT !.ready = FALSE]
    /\ mishaps' = IF \A t \in Tasks : at[t] = "idle" THEN mishaps ELSE mishaps \cup {"hasty"}
    /\ UNCHANGED <<net, on, got, return, shown, peer, packets, crashed, gpu, drawer, authenticated, status>>

DrawFrame ==
    /\ at["main"] = "screen" /\ EndsFrame("pump")
    /\ UNCHANGED <<net, awaits, on, got, return, shown, peer, packets, crashed, gpu, drawer,
                   authenticated, busy, status, presses, mishaps>>

\* The game: moving, turning, picking up and dropping send a packet.
PlayFrame ==
    /\ at["main"] = "screen" /\ authenticated
    /\ SendFails /\ EndsFrame("pump")
    /\ UNCHANGED <<awaits, on, got, return, shown, packets, crashed, gpu, drawer,
                   authenticated, busy, status, presses, mishaps>>

RunDisconnect ==
    /\ at["main"] = "screen" /\ authenticated
    /\ EndsFrame("flags") /\ return' = [return EXCEPT !["main"] = "forget"]
    /\ UNCHANGED <<net, awaits, on, got, shown, peer, packets, crashed, gpu, drawer,
                   authenticated, busy, status, presses, mishaps>>

ForgetLogin ==
    /\ at["main"] = "forget" /\ MovesTo("main", "pump")
    /\ authenticated' = FALSE /\ busy' = FALSE
    /\ UNCHANGED <<mains, status, mishaps>>

-----------------------------------------------------------------------------
(* RunLogin and RunRegister, on a thread of their own. *)

\* Mutant: a task whose connection fails stays busy.
BusyAfterRefusal_Stays == busy
BusyAfterRefusal == FALSE

\* IsConnected, then Connect.
Connect(t) ==
    /\ at[t] = "connect"
    /\ \/ /\ net.connected /\ Goes(t, "request") /\ UNCHANGED <<net, peer, busy, mishaps>>
          /\ status' = [status EXCEPT !.online = TRUE]
       \/ /\ ~net.connected /\ Goes(t, "request") /\ busy' = busy
          /\ \E s \in Sockets : Connects(s)
          /\ status' = [status EXCEPT !.online = TRUE]
          /\ mishaps' = mishaps \cup (IF return["main"] \in {"destroy", "reset"} THEN {"late"} ELSE {})
                                \cup (IF at["receiver"] \notin {"none", "done"} THEN {"raced"} ELSE {})
       \/ /\ ~net.connected /\ Goes(t, "idle") /\ busy' = BusyAfterRefusal
          /\ status' = [status EXCEPT !.online = FALSE] /\ UNCHANGED <<net, peer, mishaps>>
    /\ awaits' = IF at'[t] = "idle" THEN [awaits EXCEPT ![t] = "none"] ELSE awaits
    /\ UNCHANGED <<on, got, return, shown, packets, crashed, mains, authenticated>>

Request(t) == Requests(t, awaits[t]) /\ UNCHANGED <<mains, authenticated, busy, status, mishaps>>

\* The answer, or none: a failed login is Stop and the login screen, and so
\* is a failed registration.
Fails(t) ==
    /\ \/ at[t] = "lost"
       \/ at[t] = "handle" /\ got[t].type \in Responses(awaits[t]) \cap {"login refused", "register refused"}
    /\ authenticated' = IF awaits[t] = "login" THEN FALSE ELSE authenticated
    /\ busy' = FALSE
    /\ got' = [got EXCEPT ![t] = Nothing] /\ awaits' = [awaits EXCEPT ![t] = "none"]
    /\ Goes(t, "flags") /\ return' = [return EXCEPT ![t] = "idle"]
    /\ UNCHANGED <<net, on, shown, peer, packets, crashed, mains, status, mishaps>>

\* A registration leaves the connection open for the login to come.
Registered(t) ==
    /\ at[t] = "handle" /\ awaits[t] = "register" /\ got[t].type = "register accepted"
    /\ busy' = FALSE
    /\ got' = [got EXCEPT ![t] = Nothing] /\ awaits' = [awaits EXCEPT ![t] = "none"]
    /\ Goes(t, "idle")
    /\ UNCHANGED <<net, on, return, shown, peer, packets, crashed, mains, authenticated, status, mishaps>>

LoggedIn(t) ==
    /\ at[t] = "handle" /\ awaits[t] = "login" /\ got[t].type = "login accepted"
    /\ authenticated' = TRUE
    /\ got' = [got EXCEPT ![t] = Nothing] /\ awaits' = [awaits EXCEPT ![t] = "none"]
    /\ Goes(t, "free")
    /\ UNCHANGED <<net, on, return, shown, peer, packets, crashed, mains, busy, status, mishaps>>

Frees(t) ==
    /\ at[t] = "free" /\ busy' = FALSE /\ MovesTo(t, "start")
    /\ UNCHANGED <<mains, authenticated, status, mishaps>>

Listens(t) == at[t] = "start" /\ StartReceiveLoop(t, "idle") /\ UNCHANGED <<mains, authenticated, busy, status, mishaps>>

-----------------------------------------------------------------------------
(* The end: Stop, the client, which stops again, and the renderers.  A task *)
(* still at work uses a client that is no more: it may crash, or the        *)
(* process ends first; a thread that is not joined cannot be destroyed.     *)

DestroyClient ==
    /\ at["main"] = "destroy"
    /\ Goes("main", "flags") /\ return' = [return EXCEPT !["main"] = "reset"]
    /\ UNCHANGED <<net, awaits, on, got, shown, peer, packets, crashed>>
    /\ UNCHANGED <<mains, authenticated, busy, status, mishaps>>

EndProgram ==
    /\ at["main"] = "reset" /\ Goes("main", "ended")
    /\ crashed' = (at["receiver"] # "none")
    /\ UNCHANGED <<net, awaits, on, got, return, shown, peer, packets>>
    /\ drawer' = ShutdownScene(drawer) /\ gpu' = Shutdown(gpu)
    /\ UNCHANGED <<authenticated, busy, status, frame, presses, mishaps>>

UsesFreed(t) ==
    /\ at[t] # "idle" /\ crashed' = TRUE
    /\ UNCHANGED <<net, at, awaits, on, got, return, shown, peer, packets, mains, authenticated, busy, status, mishaps>>

-----------------------------------------------------------------------------
others == <<mains, authenticated, busy, status, mishaps>>

MainStep ==
    \/ StartRenderer \/ StartWorld
    \/ BeginFrame \/ NoticeLoss \/ DrawFrame \/ PlayFrame
    \/ ForgetLogin \/ DestroyClient \/ EndProgram
    \/ (Stop("main") \/ Join("main")) /\ UNCHANGED others
UserStep == CloseWindow \/ RunDisconnect \/ \E request \in {"login", "register"} : PressButton(request)
TaskStep(t) ==
    \/ Connect(t) \/ Request(t) \/ Fails(t) \/ Registered(t) \/ LoggedIn(t) \/ Frees(t) \/ Listens(t)
    \/ (Receives(t) \/ Stop(t) \/ Join(t)) /\ UNCHANGED others
ReceiverStep == (Receives("receiver") \/ ReceiveLoopEnds \/ Stop("receiver")) /\ UNCHANGED others
ServerStep == (\E s \in Sockets : PeerEnds(s)) /\ UNCHANGED others

\* What follows a crash does not matter, and what follows a mishap is not
\* looked at: from there on two threads read the same connection, or a
\* connection stays behind, and nothing below can be relied on.
Going == ~crashed /\ mishaps = {}

Next ==
    /\ Going
    /\ \/ ~Ended /\ (MainStep \/ UserStep \/ ServerStep \/ CheckTcpServerOnline)
       \/ ~Gone /\ (ReceiverStep \/ \E t \in Tasks : TaskStep(t))
       \/ Gone /\ \E t \in Tasks : UsesFreed(t)

Spec == Init /\ [][Next]_vars

\* Threads that can go on do; the server answers, sends, or closes in the
\* end; the user need not press anything.
Fairness ==
    /\ WF_vars(Going /\ ~Ended /\ MainStep)
    /\ WF_vars(Going /\ ~Gone /\ ReceiverStep)
    /\ \A t \in Tasks : WF_vars(Going /\ ~Gone /\ TaskStep(t))
FairSpec == Spec /\ Fairness

-----------------------------------------------------------------------------
(* Properties. *)

\* When nobody uses the connection and Stop has returned, nobody else's
\* character and no item is shown, whatever was on its way.
StoppedShowsNobody ==
    (~net.connected /\ Going /\ \A t \in Threads : ~InStop(t) /\ (t # "main" => at[t] \in {"idle", "none"}))
        => shown.remotes = {} /\ shown.items = {}

\* While the game is received undisturbed, what is shown is what the server
\* says: the items exactly, the other characters save one that the server
\* spawned before the player's own state and that the player was before,
\* and the player's own snapshots.
Mirrors ==
    LET s == net.socket
    IN  (Going /\ s # 0 /\ net.connected /\ at["receiver"] \in {"loop", "recv", "blocked"} /\ peer[s].line = "up") =>
            /\ shown.items = peer[s].items
            /\ shown.remotes \subseteq peer[s].told /\ peer[s].told \ shown.remotes \subseteq peer[s].hidden
            /\ peer[s].stage > 1 => shown.own = peer[s].who
            /\ peer[s].stage > 2 => shown.bag = peer[s].who

\* A program that ends while no task is at work does so in the ordinary
\* way, and leaves no connection and no device.
EndsClean ==
    (Ended /\ \A t \in Tasks : at[t] = "idle") =>
        /\ ~crashed
        /\ net.socket = 0 /\ \A s \in Sockets : peer[s].line # "up"
        /\ ~gpu.device /\ drawer = NoScene

\* LOGIN and CREATE come to an end: with an answer, without a connection, or
\* when the server closes.
AttemptsEnd == busy ~> (~busy \/ ~Going \/ Ended)

\* The window never hangs in Stop: the thread that it joins always ends.
StopReturns == InStop("main") ~> (~InStop("main") \/ ~Going)

\* A connection lost while playing takes the player back to the login screen.
LossIsNoticed ==
    (authenticated /\ net.socket # 0 /\ peer[net.socket].line = "ended") ~> (~authenticated \/ ~Going \/ Ended)

\* While its window is open the program is never terminated: one can log in
\* again after a connection has ended.
NeverTerminates == ~Gone => ~crashed
==============================================================================
