--------------------------- MODULE SessionMonitor ---------------------------
(***************************************************************************)
(* MonitorSessionsAsync of GameServer: every ClientPingInterval one loop   *)
(* over the sessions closes those that were silent for longer than         *)
(* ClientTimeout and pings the others, one after the other.  The loop      *)
(* awaits every ping: a ping whose peer does not read, or whose session's  *)
(* send lock is held by such a send, does not return before the session is *)
(* closed.                                                                 *)
(*                                                                         *)
(* Time is counted in ticks.  The loop's own steps take less than one, so  *)
(* a tick passes only while the monitor sleeps or waits for a ping.  All   *)
(* times are relative; silences are not told apart beyond MaxSilence.      *)
(***************************************************************************)
EXTENDS Integers, FiniteSetsExt

CONSTANTS
    Sessions,
    ClientPingInterval,
    ClientTimeout,
    Responsive,     \* sessions whose client answers a ping ...
    AnswerWithin,   \* ... within that many ticks
    Stalling        \* sessions whose client may stop reading for good

\* ServerConfig.Validate; AnswerWithin is about the network; a session is not one
\* of the monitor's other states.
ASSUME MonitorAssumption ==
    /\ {ClientPingInterval, ClientTimeout, AnswerWithin} \subseteq Nat
    /\ 0 < ClientPingInterval /\ ClientPingInterval < ClientTimeout
    /\ Responsive \subseteq Sessions /\ Stalling \subseteq Sessions \ Responsive
    /\ {"sleeping", "looping"} \cap Sessions = {}

MaxSilence == ClientTimeout + ClientPingInterval + 1

VARIABLES
    stage,      \* "out", "open", "closed" or "timedOut"
    silence,    \* ticks since LastPacketAtUtc
    asked,      \* ticks since the oldest unanswered ping, or -1
    stalled,    \* sessions whose client does not read
    monitor,    \* "sleeping", "looping", or the session whose ping it awaits
    sleep,      \* ticks the monitor has still to sleep
    todo,       \* sessions the loop has left
    idleTime    \* a session's silence by the clock the loop read when it began

vars == <<stage, silence, asked, stalled, monitor, sleep, todo, idleTime>>

Open == {s \in Sessions : stage[s] = "open"}

Init ==
    /\ stage = [s \in Sessions |-> "out"]
    /\ silence = [s \in Sessions |-> 0]
    /\ asked = [s \in Sessions |-> -1]
    /\ stalled = {}
    /\ monitor = "sleeping" /\ sleep = ClientPingInterval
    /\ todo = {} /\ idleTime = [s \in Sessions |-> 0]

-----------------------------------------------------------------------------
(***************************************************************************)
(* Clients and time.                                                       *)
(***************************************************************************)
Connect(s) ==
    /\ stage[s] = "out"
    /\ stage' = [stage EXCEPT ![s] = "open"]
    /\ UNCHANGED <<silence, asked, stalled, monitor, sleep, todo, idleTime>>

\* A packet that the rate limiter lets through: Touch.
\* Mutant: a pong does not count as activity.
SilenceAfter_OnlyRequests(s) == IF asked[s] >= 0 THEN silence[s] ELSE 0
SilenceAfter(s) == 0

Receive(s) ==
    /\ stage[s] = "open"
    /\ silence' = [silence EXCEPT ![s] = SilenceAfter(s)]
    /\ idleTime' = [idleTime EXCEPT ![s] = Min({@, SilenceAfter(s)})]
    /\ asked' = [asked EXCEPT ![s] = -1]
    /\ UNCHANGED <<stage, stalled, monitor, sleep, todo>>

Disconnect(s) ==
    /\ stage[s] = "open" /\ s \notin Responsive
    /\ stage' = [stage EXCEPT ![s] = "closed"]
    /\ UNCHANGED <<silence, asked, stalled, monitor, sleep, todo, idleTime>>

StopReading(s) ==
    /\ stage[s] = "open" /\ s \in Stalling \ stalled
    /\ stalled' = stalled \cup {s}
    /\ UNCHANGED <<stage, silence, asked, monitor, sleep, todo, idleTime>>

Tick ==
    /\ \/ monitor = "sleeping" /\ sleep > 0
       \/ monitor \in stalled /\ stage[monitor] = "open"
    /\ \A s \in Responsive : stage[s] = "open" => asked[s] < AnswerWithin
    /\ silence' = [s \in Sessions |-> IF stage[s] = "open" THEN Min({silence[s] + 1, MaxSilence})
                                      ELSE silence[s]]
    /\ asked' = [s \in Sessions |-> IF asked[s] >= 0 /\ stage[s] = "open"
                                    THEN Min({asked[s] + 1, AnswerWithin}) ELSE asked[s]]
    /\ sleep' = IF monitor = "sleeping" THEN sleep - 1 ELSE sleep
    /\ UNCHANGED <<stage, stalled, monitor, todo, idleTime>>

-----------------------------------------------------------------------------
(***************************************************************************)
(* The monitor.                                                            *)
(***************************************************************************)
WakeUp ==
    /\ monitor = "sleeping" /\ sleep = 0
    /\ monitor' = "looping"
    /\ todo' = Open
    /\ idleTime' = silence
    /\ UNCHANGED <<stage, silence, asked, stalled, sleep>>

\* Mutant: the time since the last ping counts.
IsIdle_SincePing(s) == asked[s] > ClientTimeout
IsIdle(s) == idleTime[s] > ClientTimeout

TimeOut(s) ==
    /\ monitor = "looping" /\ s \in todo
    /\ stage[s] = "open" /\ IsIdle(s)
    /\ stage' = [stage EXCEPT ![s] = "timedOut"]
    /\ todo' = todo \ {s}
    /\ UNCHANGED <<silence, asked, stalled, monitor, sleep, idleTime>>

\* SendPingAsync returns at once when the peer reads.
Ping(s) ==
    /\ monitor = "looping" /\ s \in todo
    /\ stage[s] = "open" /\ ~IsIdle(s)
    /\ IF s \in stalled
       THEN monitor' = s /\ UNCHANGED asked
       ELSE /\ asked' = [asked EXCEPT ![s] = IF @ = -1 THEN 0 ELSE @]
            /\ UNCHANGED monitor
    /\ todo' = todo \ {s}
    /\ UNCHANGED <<stage, silence, stalled, sleep, idleTime>>

SkipClosed(s) ==
    /\ monitor = "looping" /\ s \in todo /\ stage[s] # "open"
    /\ todo' = todo \ {s}
    /\ UNCHANGED <<stage, silence, asked, stalled, monitor, sleep, idleTime>>

\* The awaited send throws when its session is closed, and is caught.
PingReturns ==
    /\ monitor \in Sessions /\ stage[monitor] # "open"
    /\ monitor' = "looping"
    /\ UNCHANGED <<stage, silence, asked, stalled, sleep, todo, idleTime>>

EndLoop ==
    /\ monitor = "looping" /\ todo = {}
    /\ monitor' = "sleeping" /\ sleep' = ClientPingInterval
    /\ UNCHANGED <<stage, silence, asked, stalled, todo, idleTime>>

Next ==
    \/ \E s \in Sessions :
          \/ Connect(s) \/ Receive(s) \/ Disconnect(s) \/ StopReading(s)
          \/ TimeOut(s) \/ Ping(s) \/ SkipClosed(s)
    \/ Tick \/ WakeUp \/ PingReturns \/ EndLoop

Spec == Init /\ [][Next]_vars

-----------------------------------------------------------------------------
(***************************************************************************)
(* Properties.                                                             *)
(***************************************************************************)
TypeOK ==
    /\ stage \in [Sessions -> {"out", "open", "closed", "timedOut"}]
    /\ silence \in [Sessions -> 0 .. MaxSilence]
    /\ asked \in [Sessions -> -1 .. AnswerWithin]
    /\ stalled \subseteq Stalling
    /\ monitor \in {"sleeping", "looping"} \cup Sessions
    /\ sleep \in 0 .. ClientPingInterval
    /\ todo \subseteq Sessions /\ (todo # {} => monitor # "sleeping")
    /\ idleTime \in [Sessions -> 0 .. MaxSilence]

\* The client timeout: a session is open for at most one ping interval after it
\* has been silent for ClientTimeout (GameServer.cs:131-149).  With a client
\* that stops reading it is violated, for all sessions: the loop awaits that
\* client's ping for good.
ClientTimeoutWorks ==
    \A s \in Open : silence[s] <= ClientTimeout + ClientPingInterval

\* It works as long as every client reads; and only a session that is really
\* silent for longer than ClientTimeout is timed out, also by a loop that was
\* held up and whose clock is old (GameServer.cs:131, 138-145).
OnlySilentAreTimedOut ==
    /\ stalled = {} => ClientTimeoutWorks
    /\ \A s \in Sessions : stage[s] = "timedOut" => silence[s] > ClientTimeout

\* As long as every client reads, one that answers pings is never timed out,
\* even if it sends nothing else: it has the time between ClientPingInterval
\* and ClientTimeout to answer, which is why ServerConfig.Validate wants the
\* timeout to be the longer (ServerConfig.cs:117).  After a loop that was held
\* up this does not hold: who connected meanwhile was not pinged.
ResponsiveStay ==
    stalled = {} /\ ClientPingInterval + AnswerWithin <= ClientTimeout =>
        \A s \in Responsive : stage[s] # "timedOut"
=============================================================================
