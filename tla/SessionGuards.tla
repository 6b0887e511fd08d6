--------------------------- MODULE SessionGuards ---------------------------
(***************************************************************************)
(* What ends a session that misbehaves: SessionMonitor and, on one session *)
(* Guarded, PacketRateLimiter, put together by ClientSession's receive     *)
(* loop.  Only a packet the limiter lets through counts as activity.  The  *)
(* answers of the loop (error messages, pongs and the rest) are awaited:   *)
(* while its own client does not read, the loop is held up.                *)
(***************************************************************************)
EXTENDS SessionMonitor

CONSTANTS Types, Rules, GlobalMaxPackets, GlobalWindow, MaxViolations, Guarded

VARIABLES counters, global, violations, ends, packets, refusals,
          held      \* the receive loop of Guarded awaits a send

Limiter == INSTANCE PacketRateLimiter

ASSUME GuardsAssumption ==
    /\ Limiter!LimitsAreWellFormed
    /\ Guarded \in Sessions \ Responsive

guards == <<counters, global, violations, ends, packets, refusals, held>>

GuardedInit == Init /\ Limiter!Init /\ held = FALSE

Activity(ok) == IF ok THEN Receive(Guarded) ELSE UNCHANGED vars

\* Close follows the error message; Disconnect is that.
AfterLastError == Disconnect(Guarded)

MaySend == {FALSE} \cup {Guarded \in stalled}

ReceiveGuarded(t) ==
    /\ stage[Guarded] = "open" /\ ~held /\ ~ends
    /\ Limiter!Check(t)
    /\ IF ends' /\ Guarded \notin stalled
       THEN AfterLastError /\ UNCHANGED held
       ELSE Activity(refusals' = refusals) /\ held' \in (IF ends' THEN {TRUE} ELSE MaySend)

\* The limiter is made with its session, and nobody asks it after the end.
LimiterTick ==
    IF stage[Guarded] = "open" THEN Limiter!Tick
    ELSE UNCHANGED <<counters, global, violations, ends, packets, refusals>>

Others(s) ==
    \/ Connect(s) \/ Disconnect(s) \/ StopReading(s)
    \/ s # Guarded /\ Receive(s)

Monitor ==
    \/ \E s \in Sessions : TimeOut(s) \/ Ping(s) \/ SkipClosed(s)
    \/ WakeUp \/ PingReturns \/ EndLoop

GuardedNext ==
    \/ \E t \in Types : ReceiveGuarded(t)
    \/ (\E s \in Sessions : Others(s)) /\ UNCHANGED guards
    \/ Monitor /\ UNCHANGED guards
    \/ Tick /\ LimiterTick /\ UNCHANGED held

GuardedSpec == GuardedInit /\ [][GuardedNext]_<<vars, guards>>

-----------------------------------------------------------------------------
(***************************************************************************)
(* Properties: those of the two parts, and of their connection.            *)
(***************************************************************************)
GuardsTypeOK ==
    /\ TypeOK /\ Limiter!TypeOK
    /\ held \in BOOLEAN /\ (held => Guarded \in stalled)

\* However packets straddle the windows, no interval as long as a rule's window
\* lets through more than twice its limit (PacketRateLimiter.cs:105-114).
BurstIsBounded == Limiter!BurstIsBounded

\* A client that keeps to the limits is never refused a packet
\* (PacketRateLimiter.cs:105-114, 131-139).
PoliteIsNeverRefused == Limiter!PoliteIsNeverRefused

\* Nobody is refused more often than MaxViolations, and the refusal that ends a
\* session closes it, unless its client does not read the error message sent
\* before (ClientSession.cs:103-125).
EndsInTime ==
    /\ GuardsTypeOK
    /\ Limiter!EndsInTime
    /\ ends => stage[Guarded] # "open" \/ held
=============================================================================
