------------------------ MODULE SessionGuardsProofs ------------------------
(***************************************************************************)
(* The safety of SessionGuards for any sessions, packet types, rules and   *)
(* times.  Its steps are steps of SessionMonitor and of PacketRateLimiter, *)
(* so each part has an inductive invariant of its own: MonitorInv bounds   *)
(* every silence by what the monitor still has to do, LimiterInv counts    *)
(* the accepted packets before and inside the current window of a counter. *)
(***************************************************************************)
EXTENDS SessionGuards, FiniteSetTheorems, TLAPS

-----------------------------------------------------------------------------
(***************************************************************************)
(* The inductive invariants.                                               *)
(***************************************************************************)

\* What is known of a session by the clock of the loop.
Clocked ==
    /\ \A s \in Sessions : idleTime[s] <= silence[s]
    /\ \A s \in Sessions : stage[s] = "out" =>
          silence[s] = 0 /\ idleTime[s] = 0 /\ asked[s] = -1 /\ s \notin todo
    /\ \A s \in Sessions : stage[s] = "timedOut" => silence[s] > ClientTimeout
    /\ monitor \in Sessions => monitor \in stalled

\* While every client reads, a sleeping monitor will be in time for everyone,
\* and a looping one has seen everyone who is not left.
InTime ==
    stalled = {} => \A s \in Sessions : stage[s] = "open" =>
        /\ monitor = "sleeping" => silence[s] <= ClientTimeout + ClientPingInterval - sleep
        /\ monitor = "looping" /\ s \in todo =>
              silence[s] <= ClientTimeout + ClientPingInterval /\ idleTime[s] = silence[s]
        /\ monitor = "looping" /\ s \notin todo => silence[s] <= ClientTimeout

\* While every client reads, a responsive one was silent for no longer than the
\* monitor slept and, once pinged, for as long as the ping is unanswered.
Answering ==
    stalled = {} => \A s \in Responsive : stage[s] = "open" =>
        /\ asked[s] = -1 =>
              /\ monitor = "sleeping" => silence[s] <= ClientPingInterval - sleep
              /\ monitor = "looping" /\ s \in todo => silence[s] <= ClientPingInterval
              /\ monitor = "looping" /\ s \notin todo => silence[s] = 0
        /\ asked[s] >= 0 => silence[s] <= ClientPingInterval + asked[s]

MonitorInv == TypeOK /\ Clocked /\ InTime /\ Answering /\ ResponsiveStay

Counter == [age : Int, count : Nat]
Packet == [type : Types, age : 0 .. Limiter!Horizon, nth : Nat, ok : BOOLEAN]

\* The packets of some types, with some verdicts, whose age is in a range.
Of(ps, types, oks, from, to) ==
    {p \in ps : p.type \in types /\ p.ok \in oks /\ p.age \in from .. to}
Passed(ps, types, from, to) == Of(ps, types, {TRUE}, from, to)

\* Honest, of any packets.
Claims(ps, c, types, window) ==
    /\ c \in Counter /\ c.age >= -1 /\ c.age <= window + 1
    /\ c.age < 0 => c.count = 0
    /\ c.age <= window => c.count <= Cardinality(Of(ps, types, BOOLEAN, 0, c.age))

\* A window let through no more than it counted and than the limit, and what
\* passed before it, at most a window ago, is no more than the limit either.
Windowed(ps, c, types, window, max) ==
    /\ c.age < 0 => Passed(ps, types, 0, Limiter!Horizon) = {}
    /\ c.age >= 0 /\ c.age <= window =>
          /\ Cardinality(Passed(ps, types, 0, c.age)) <= c.count
          /\ Cardinality(Passed(ps, types, 0, c.age)) <= max
          /\ Cardinality(Passed(ps, types, c.age + 1, window)) <= max
    /\ c.age > window =>
          /\ Passed(ps, types, 0, 0) = {}
          /\ Cardinality(Passed(ps, types, 0, window)) <= max

\* Both, of the counter of a window that the limiter keeps.
Counts(ps, c, types, window, max) ==
    Claims(ps, c, types, window) /\ Windowed(ps, c, types, window, max)

LimiterShape ==
    /\ counters \in [Types -> Counter]
    /\ global \in Counter /\ global.age >= 0
    /\ packets \subseteq Packet /\ IsFiniteSet(packets)
    /\ violations \in Nat /\ refusals \in Nat /\ ends \in BOOLEAN
    /\ \A p \in Limiter!Now : p.nth >= 1 /\ p.nth <= Cardinality(Limiter!Now)

Counting ==
    /\ \A t \in Types : Counts(packets, counters[t], {t}, Rules[t].window, Rules[t].max)
    /\ Counts(packets, global, Types, GlobalWindow, GlobalMaxPackets)

\* A session goes on only while no refusal ended it.
Patience ==
    /\ violations = refusals
    /\ ~ends => refusals < MaxViolations
    /\ ends => refusals > 0 /\ refusals <= MaxViolations
    /\ \A p \in packets : ~p.ok /\ Rules[p.type].disconnect => ends

LimiterInv ==
    /\ LimiterShape /\ Counting /\ Patience
    /\ Limiter!PoliteIsNeverRefused

\* The limiter has the last word, unless the receive loop awaits a send.
Ended ==
    /\ held \in BOOLEAN /\ (held => Guarded \in stalled)
    /\ stage[Guarded] = "out" => ~ends
    /\ ends => stage[Guarded] # "open" \/ held

GuardsInv == MonitorInv /\ LimiterInv /\ Ended

-----------------------------------------------------------------------------
(***************************************************************************)
(* The steps of the monitor and of the clients.                            *)
(***************************************************************************)
LEMMA MinOfTwo ==
  ASSUME NEW a \in Int, NEW b \in Int
  PROVE  Min({a, b}) = IF a <= b THEN a ELSE b
<1>1. CASE a <= b
  <2>1. \A x \in {a, b} : (\A y \in {a, b} : x <= y) => x = a
    BY <1>1
  <2>2. a \in {a, b} /\ \A y \in {a, b} : a <= y
    BY <1>1
  <2>. QED
    BY <1>1, <2>1, <2>2 DEF Min
<1>2. CASE ~(a <= b)
  <2>1. \A x \in {a, b} : (\A y \in {a, b} : x <= y) => x = b
    BY <1>2
  <2>2. b \in {a, b} /\ \A y \in {a, b} : b <= y
    BY <1>2
  <2>. QED
    BY <1>2, <2>1, <2>2 DEF Min
<1>. QED
  BY <1>1, <1>2

LEMMA MonitorInvInit == Init => MonitorInv
<1>. SUFFICES ASSUME Init PROVE MonitorInv
  OBVIOUS
<1>1. TypeOK
  BY MonitorAssumption DEF Init, TypeOK, MaxSilence
<1>2. Clocked
  BY MonitorAssumption DEF Init, Clocked
<1>3. InTime /\ Answering /\ ResponsiveStay
  BY MonitorAssumption DEF Init, InTime, Answering, ResponsiveStay
<1>. QED
  BY <1>1, <1>2, <1>3 DEF MonitorInv

\* The facts of a state that the lemmas about the steps need.
LEMMA MonitorTypes ==
  ASSUME TypeOK
  PROVE  /\ \A s \in Sessions : silence[s] \in Nat /\ idleTime[s] \in Nat /\ asked[s] \in Int
         /\ \A s \in Sessions : silence[s] <= MaxSilence /\ asked[s] >= -1
         /\ MaxSilence = ClientTimeout + ClientPingInterval + 1
         /\ ClientTimeout \in Nat /\ ClientPingInterval \in Nat /\ AnswerWithin \in Nat
         /\ sleep \in Nat /\ sleep <= ClientPingInterval
         /\ Responsive \subseteq Sessions
         /\ "sleeping" \notin Sessions /\ "looping" \notin Sessions
BY MonitorAssumption DEF TypeOK, MaxSilence

LEMMA ConnectKeepsMonitorInv ==
  ASSUME MonitorInv, NEW s \in Sessions, Connect(s)
  PROVE  MonitorInv'
<1>. USE MonitorTypes DEF MonitorInv, Connect
<1>1. TypeOK'
  BY DEF TypeOK
<1>2. Clocked'
  BY DEF Clocked, TypeOK
<1>3. InTime'
  BY DEF Clocked, InTime, TypeOK
<1>4. Answering'
  BY DEF Clocked, Answering, TypeOK
<1>5. ResponsiveStay'
  BY DEF ResponsiveStay, TypeOK
<1>. QED
  BY <1>1, <1>2, <1>3, <1>4, <1>5

LEMMA ReceiveKeepsMonitorInv ==
  ASSUME MonitorInv, NEW s \in Sessions, Receive(s)
  PROVE  MonitorInv'
<1>. USE MonitorTypes DEF MonitorInv
<1>1. Min({idleTime[s], 0}) = 0
  BY MinOfTwo
<1>2. /\ stage[s] = "open"
      /\ silence' = [silence EXCEPT ![s] = 0]
      /\ idleTime' = [idleTime EXCEPT ![s] = 0]
      /\ asked' = [asked EXCEPT ![s] = -1]
      /\ UNCHANGED <<stage, stalled, monitor, sleep, todo>>
  BY <1>1 DEF Receive, SilenceAfter, TypeOK
<1>3. TypeOK'
  BY <1>2 DEF TypeOK
<1>4. Clocked'
  BY <1>2 DEF Clocked, TypeOK
<1>5. InTime'
  BY <1>2 DEF Clocked, InTime, TypeOK
<1>6. Answering'
  BY <1>2 DEF Clocked, Answering, TypeOK
<1>7. ResponsiveStay'
  BY <1>2 DEF ResponsiveStay, TypeOK
<1>. QED
  BY <1>3, <1>4, <1>5, <1>6, <1>7

LEMMA DisconnectKeepsMonitorInv ==
  ASSUME MonitorInv, NEW s \in Sessions, Disconnect(s)
  PROVE  MonitorInv'
<1>. USE MonitorTypes DEF MonitorInv, Disconnect
<1>1. TypeOK'
  BY DEF TypeOK
<1>2. Clocked'
  BY DEF Clocked, TypeOK
<1>3. InTime'
  BY DEF InTime, TypeOK
<1>4. Answering'
  BY DEF Answering, TypeOK
<1>5. ResponsiveStay'
  BY DEF ResponsiveStay, TypeOK
<1>. QED
  BY <1>1, <1>2, <1>3, <1>4, <1>5

LEMMA StopReadingKeepsMonitorInv ==
  ASSUME MonitorInv, NEW s \in Sessions, StopReading(s)
  PROVE  MonitorInv'
<1>. USE MonitorTypes DEF MonitorInv, StopReading
<1>1. TypeOK'
  BY DEF TypeOK
<1>2. Clocked'
  BY DEF Clocked, TypeOK
<1>3. stalled' # {}
  OBVIOUS
<1>4. InTime' /\ Answering' /\ ResponsiveStay'
  BY <1>3 DEF InTime, Answering, ResponsiveStay
<1>. QED
  BY <1>1, <1>2, <1>4

LEMMA TickKeepsMonitorInv ==
  ASSUME MonitorInv, Tick
  PROVE  MonitorInv'
<1>. USE MonitorTypes DEF MonitorInv
<1>1. ASSUME NEW s \in Sessions
      PROVE  Min({silence[s] + 1, MaxSilence}) =
                IF silence[s] + 1 <= MaxSilence THEN silence[s] + 1 ELSE MaxSilence
  <2>. DEFINE a == silence[s] + 1
              b == MaxSilence
  <2>1. a \in Int /\ b \in Int
    OBVIOUS
  <2>. HIDE DEF a, b
  <2>2. Min({a, b}) = IF a <= b THEN a ELSE b
    BY <2>1, MinOfTwo
  <2>. QED
    BY <2>2 DEF a, b
<1>2. ASSUME NEW s \in Sessions
      PROVE  Min({asked[s] + 1, AnswerWithin}) =
                IF asked[s] + 1 <= AnswerWithin THEN asked[s] + 1 ELSE AnswerWithin
  <2>. DEFINE a == asked[s] + 1
              b == AnswerWithin
  <2>1. a \in Int /\ b \in Int
    OBVIOUS
  <2>. HIDE DEF a, b
  <2>2. Min({a, b}) = IF a <= b THEN a ELSE b
    BY <2>1, MinOfTwo
  <2>. QED
    BY <2>2 DEF a, b
<1>3. \A s \in Sessions :
        /\ stage[s] = "open" => silence'[s] = IF silence[s] + 1 <= MaxSilence
                                              THEN silence[s] + 1 ELSE MaxSilence
        /\ stage[s] # "open" => silence'[s] = silence[s]
        /\ asked[s] >= 0 /\ stage[s] = "open" =>
              asked'[s] = IF asked[s] + 1 <= AnswerWithin THEN asked[s] + 1 ELSE AnswerWithin
        /\ ~(asked[s] >= 0 /\ stage[s] = "open") => asked'[s] = asked[s]
  BY <1>1, <1>2 DEF Tick
<1>4. /\ UNCHANGED <<stage, stalled, monitor, todo, idleTime>>
      /\ sleep' = IF monitor = "sleeping" THEN sleep - 1 ELSE sleep
      /\ \/ monitor = "sleeping" /\ sleep > 0
         \/ monitor \in stalled /\ stage[monitor] = "open"
      /\ \A s \in Responsive : stage[s] = "open" => asked[s] < AnswerWithin
  BY DEF Tick
<1>5. stalled = {} => monitor = "sleeping" /\ sleep > 0
  BY <1>4
<1>6. TypeOK'
  <2>1. silence' \in [Sessions -> 0 .. MaxSilence]
    <3>1. \A s \in Sessions : silence'[s] \in 0 .. MaxSilence
      BY <1>3 DEF TypeOK
    <3>. QED
      BY <3>1 DEF Tick
  <2>2. asked' \in [Sessions -> -1 .. AnswerWithin]
    <3>1. \A s \in Sessions : asked'[s] \in -1 .. AnswerWithin
      BY <1>3 DEF TypeOK
    <3>. QED
      BY <3>1 DEF Tick
  <2>3. sleep' \in 0 .. ClientPingInterval
    BY <1>4, MonitorAssumption DEF TypeOK, Clocked
  <2>. QED
    BY <1>4, <2>1, <2>2, <2>3 DEF TypeOK
<1>7. Clocked'
  BY <1>3, <1>4 DEF Clocked, TypeOK
<1>8. InTime'
  BY <1>3, <1>4, <1>5 DEF InTime, TypeOK
<1>9. Answering'
  <2>. SUFFICES ASSUME stalled = {}, NEW s \in Responsive, stage[s] = "open"
                PROVE  /\ asked'[s] = -1 => silence'[s] <= ClientPingInterval - sleep'
                       /\ asked'[s] >= 0 => silence'[s] <= ClientPingInterval + asked'[s]
    BY <1>4, <1>5 DEF Answering
  <2>1. asked[s] < AnswerWithin /\ sleep' = sleep - 1 /\ monitor = "sleeping"
    BY <1>4, <1>5
  <2>2. silence'[s] <= silence[s] + 1
    BY <1>3
  <2>3. CASE asked[s] = -1
    BY <1>3, <2>1, <2>2, <2>3 DEF Answering
  <2>4. CASE asked[s] >= 0
    BY <1>3, <2>1, <2>2, <2>4 DEF Answering
  <2>. QED
    BY <2>3, <2>4
<1>10. ResponsiveStay'
  BY <1>4 DEF ResponsiveStay
<1>. QED
  BY <1>6, <1>7, <1>8, <1>9, <1>10

LEMMA WakeUpKeepsMonitorInv ==
  ASSUME MonitorInv, WakeUp
  PROVE  MonitorInv'
<1>. USE MonitorTypes DEF MonitorInv, WakeUp, Open
<1>1. TypeOK'
  BY DEF TypeOK
<1>2. Clocked'
  BY DEF Clocked, TypeOK
<1>3. InTime'
  BY DEF InTime, TypeOK
<1>4. Answering'
  BY DEF Answering, TypeOK
<1>5. ResponsiveStay'
  BY DEF ResponsiveStay, TypeOK
<1>. QED
  BY <1>1, <1>2, <1>3, <1>4, <1>5

LEMMA TimeOutKeepsMonitorInv ==
  ASSUME MonitorInv, NEW s \in Sessions, TimeOut(s)
  PROVE  MonitorInv'
<1>. USE MonitorTypes DEF MonitorInv, TimeOut, IsIdle
<1>1. TypeOK'
  BY DEF TypeOK
<1>2. Clocked'
  BY DEF Clocked, TypeOK
<1>3. InTime'
  BY DEF InTime, TypeOK
<1>4. Answering'
  BY DEF Answering, TypeOK
<1>5. ResponsiveStay'
  \* A responsive session was silent for ClientPingInterval + AnswerWithin at most.
  <2>. SUFFICES ASSUME stalled = {}, ClientPingInterval + AnswerWithin <= ClientTimeout,
                       s \in Responsive
                PROVE  FALSE
    BY DEF ResponsiveStay, TypeOK
  <2>1. silence[s] > ClientTimeout
    BY DEF Clocked
  <2>2. asked[s] <= AnswerWithin /\ (asked[s] = -1 \/ asked[s] >= 0)
    BY DEF TypeOK
  <2>3. silence[s] <= ClientPingInterval + AnswerWithin
    BY <2>2 DEF Answering
  <2>. QED
    BY <2>1, <2>3
<1>. QED
  BY <1>1, <1>2, <1>3, <1>4, <1>5

LEMMA PingKeepsMonitorInv ==
  ASSUME MonitorInv, NEW s \in Sessions, Ping(s)
  PROVE  MonitorInv'
<1>. USE MonitorTypes DEF MonitorInv, Ping, IsIdle
<1>1. TypeOK'
  BY DEF TypeOK
<1>2. Clocked'
  BY DEF Clocked, TypeOK
<1>3. stalled = {} => s \notin stalled /\ monitor' = "looping" /\ monitor = "looping"
  OBVIOUS
<1>4. InTime'
  BY <1>3 DEF InTime, TypeOK
<1>5. Answering'
  <2>. SUFFICES ASSUME stalled = {}, NEW r \in Responsive, stage[r] = "open"
                PROVE  /\ asked'[r] = -1 =>
                             /\ r \in todo' => silence[r] <= ClientPingInterval
                             /\ r \notin todo' => silence[r] = 0
                       /\ asked'[r] >= 0 => silence[r] <= ClientPingInterval + asked'[r]
    BY <1>3 DEF Answering
  <2>1. CASE r = s
    BY <1>3, <2>1 DEF Answering, TypeOK
  <2>2. CASE r # s
    BY <1>3, <2>2 DEF Answering, TypeOK
  <2>. QED
    BY <2>1, <2>2
<1>6. ResponsiveStay'
  BY DEF ResponsiveStay, TypeOK
<1>. QED
  BY <1>1, <1>2, <1>4, <1>5, <1>6

LEMMA LoopKeepsMonitorInv ==
  ASSUME MonitorInv,
         (\E s \in Sessions : SkipClosed(s)) \/ PingReturns \/ EndLoop
  PROVE  MonitorInv'
<1>. USE MonitorTypes DEF MonitorInv
<1>1. ASSUME NEW s \in Sessions, SkipClosed(s) PROVE MonitorInv'
  <2>. USE <1>1 DEF SkipClosed
  <2>1. TypeOK'
    BY DEF TypeOK
  <2>2. Clocked'
    BY DEF Clocked, TypeOK
  <2>3. InTime' /\ Answering' /\ ResponsiveStay'
    BY DEF InTime, Answering, ResponsiveStay
  <2>. QED
    BY <2>1, <2>2, <2>3
<1>2. CASE PingReturns
  <2>. USE <1>2 DEF PingReturns
  <2>1. TypeOK'
    BY DEF TypeOK
  <2>2. Clocked' /\ stalled # {}
    BY DEF Clocked, TypeOK
  <2>3. InTime' /\ Answering' /\ ResponsiveStay'
    BY <2>2 DEF InTime, Answering, ResponsiveStay
  <2>. QED
    BY <2>1, <2>2, <2>3
<1>3. CASE EndLoop
  <2>. USE <1>3 DEF EndLoop
  <2>1. TypeOK'
    BY DEF TypeOK
  <2>2. Clocked'
    BY DEF Clocked, TypeOK
  <2>3. InTime' /\ Answering' /\ ResponsiveStay'
    BY DEF InTime, Answering, ResponsiveStay
  <2>. QED
    BY <2>1, <2>2, <2>3
<1>. QED
  BY <1>1, <1>2, <1>3

LEMMA MonitorInvStep == MonitorInv /\ [Next]_vars => MonitorInv'
<1>. SUFFICES ASSUME MonitorInv, [Next]_vars PROVE MonitorInv'
  OBVIOUS
<1>1. CASE UNCHANGED vars
  BY <1>1 DEF vars, MonitorInv, TypeOK, Clocked, InTime, Answering, ResponsiveStay
<1>2. CASE Next
  BY <1>2, ConnectKeepsMonitorInv, ReceiveKeepsMonitorInv, DisconnectKeepsMonitorInv,
     StopReadingKeepsMonitorInv, TickKeepsMonitorInv, WakeUpKeepsMonitorInv,
     TimeOutKeepsMonitorInv, PingKeepsMonitorInv, LoopKeepsMonitorInv DEF Next
<1>. QED
  BY <1>1, <1>2

-----------------------------------------------------------------------------
(***************************************************************************)
(* The horizon: no window is longer.                                       *)
(***************************************************************************)
\* The instance has its own copy of the operators on finite sets.
LEMMA LimiterCounts ==
  /\ \A S : Limiter!Cardinality(S) = Cardinality(S)
  /\ \A S : Limiter!IsFiniteSet(S) <=> IsFiniteSet(S)
<1>1. \A S : Limiter!Cardinality(S) = Cardinality(S)
  BY DEF Limiter!Cardinality, Cardinality
<1>2. \A S : Limiter!IsFiniteSet(S) <=> IsFiniteSet(S)
  BY DEF Limiter!IsFiniteSet, IsFiniteSet
<1>. QED
  BY <1>1, <1>2

LEMMA GreatestExists ==
  ASSUME NEW S \in SUBSET Nat, IsFiniteSet(S), S # {}
  PROVE  \E x \in S : \A y \in S : x >= y
<1>. DEFINE below(x) == {y \in S : y < x}
            n == Cardinality(S)
            T == 0 .. n - 1
            rk(x) == Cardinality(below(x))
            rank == [x \in S |-> rk(x)]
<1>1. n \in Nat /\ n > 0
  BY FS_CardinalityType, FS_EmptySet
<1>2. IsFiniteSet(T) /\ Cardinality(T) = n
  <2>. DEFINE a == 0
              b == n - 1
  <2>1. a \in Int /\ b \in Int /\ b >= a /\ b - a + 1 = n
    BY <1>1
  <2>. HIDE DEF a, b
  <2>2. IsFiniteSet(a .. b) /\ Cardinality(a .. b) = b - a + 1
    BY <2>1, FS_Interval
  <2>. QED
    BY <2>1, <2>2 DEF a, b
\* The elements below x, and x itself.
<1>3. ASSUME NEW x \in S
      PROVE  /\ IsFiniteSet(below(x) \cup {x}) /\ below(x) \cup {x} \subseteq S
             /\ rk(x) \in Nat /\ Cardinality(below(x) \cup {x}) = rk(x) + 1
             /\ rk(x) + 1 <= n
  <2>1. IsFiniteSet(below(x)) /\ Cardinality(below(x)) \in Nat
    BY FS_Subset, FS_CardinalityType
  <2>2. x \notin below(x)
    OBVIOUS
  <2>3. /\ IsFiniteSet(below(x) \cup {x})
        /\ Cardinality(below(x) \cup {x}) = Cardinality(below(x)) + 1
    BY <2>1, <2>2, FS_AddElement
  <2>4. below(x) \cup {x} \in SUBSET S
    OBVIOUS
  <2>5. Cardinality(below(x) \cup {x}) <= n
    BY <2>4, FS_Subset
  <2>. QED
    BY <2>1, <2>3, <2>4, <2>5
<1>4. ASSUME NEW x \in S, NEW z \in S, x < z
      PROVE  rk(x) < rk(z)
  <2>1. below(x) \cup {x} \in SUBSET below(z)
    <3>1. x \in Nat /\ z \in Nat /\ \A y \in S : y \in Nat
      OBVIOUS
    <3>2. \A y \in S : y < x => y < z
      BY <1>4, <3>1
    <3>. QED
      BY <1>4, <3>2
  <2>2. IsFiniteSet(below(z))
    BY FS_Subset
  <2>3. Cardinality(below(x) \cup {x}) <= Cardinality(below(z))
    BY <2>1, <2>2, FS_Subset
  <2>4. rk(x) \in Nat /\ rk(z) \in Nat /\ Cardinality(below(x) \cup {x}) = rk(x) + 1
    BY <1>3
  <2>5. rk(x) + 1 <= rk(z)
    BY <2>3, <2>4
  <2>. HIDE DEF rk, rank
  <2>. QED
    BY <2>4, <2>5
<1>5. rank \in Injection(S, T)
  <2>1. rank \in [S -> T]
    <3>1. \A x \in S : rk(x) \in Nat /\ rk(x) + 1 <= n
      BY <1>3
    <3>. HIDE DEF rk, n
    <3>2. \A x \in S : rk(x) \in T
      BY <1>1, <3>1
    <3>. QED
      BY <3>2
  <2>2. \A x, z \in S : rank[x] = rank[z] => x = z
    <3>1. \A x, z \in S : x < z \/ z < x \/ x = z
      OBVIOUS
    <3>2. \A x, z \in S : x < z => rk(x) < rk(z)
      BY <1>4
    <3>3. \A x \in S : rk(x) \in Nat
      BY <1>3
    <3>. HIDE DEF rk
    <3>. QED
      BY <3>1, <3>2, <3>3
  <2>. HIDE DEF rank
  <2>. QED
    BY <2>1, <2>2 DEF Injection, IsInjective
<1>6. rank \in Surjection(S, T)
  BY <1>2, <1>5, FS_Injection
<1>7. PICK x \in S : rk(x) = n - 1
  <2>1. n - 1 \in T
    BY <1>1
  <2>2. PICK x \in S : rank[x] = n - 1
    <3>. HIDE DEF rank, T
    <3>. QED
      BY <1>6, <2>1 DEF Surjection
  <2>. QED
    BY <2>2
<1>8. below(x) \cup {x} = S
  <2>1. Cardinality(below(x) \cup {x}) = rk(x) + 1
    BY <1>3
  <2>2. rk(x) + 1 = n
    <3>. HIDE DEF rk, n
    <3>. QED
      BY <1>1, <1>7
  <2>3. Cardinality(below(x) \cup {x}) = Cardinality(S)
    BY <2>1, <2>2
  <2>. QED
    BY <1>3, <2>3, FS_Subset
<1>9. \A y \in S : x >= y
  BY <1>8
<1>. QED
  BY <1>9

LEMMA HorizonCovers ==
  /\ Limiter!Horizon \in Nat
  /\ GlobalWindow \in Nat /\ GlobalWindow <= Limiter!Horizon
  /\ \A t \in Types : Rules[t].window \in Nat /\ Rules[t].window <= Limiter!Horizon
  /\ GlobalMaxPackets \in Nat /\ \A t \in Types : Rules[t].max \in Nat
  /\ MaxViolations \in Nat /\ MaxViolations > 0
<1>. DEFINE W == {Rules[t].window : t \in Types}
            S == {GlobalWindow} \cup W
            f == [t \in Types |-> Rules[t].window]
<1>1. /\ IsFiniteSet(Types) /\ GlobalWindow \in Nat /\ GlobalMaxPackets \in Nat
      /\ \A t \in Types : Rules[t].window \in Nat /\ Rules[t].max \in Nat
      /\ MaxViolations \in Nat /\ MaxViolations > 0
  BY GuardsAssumption, LimiterCounts DEF Limiter!LimitsAreWellFormed, Limiter!Rule
<1>2. IsFiniteSet(W)
  <2>1. f \in Surjection(Types, W)
    BY DEF Surjection
  <2>. QED
    BY <1>1, <2>1, FS_Surjection
<1>3. IsFiniteSet(S)
  BY <1>2, FS_AddElement
<1>4. S \in SUBSET Nat /\ S # {}
  BY <1>1
<1>5. \E x \in S : \A y \in S : x >= y
  BY <1>3, <1>4, GreatestExists
<1>6. Limiter!Horizon = Max(S)
  BY DEF Limiter!Horizon, Limiter!Max, Max
<1>7. Max(S) \in S /\ \A y \in S : Max(S) >= y
  BY <1>5 DEF Max
<1>. QED
  BY <1>1, <1>4, <1>6, <1>7

-----------------------------------------------------------------------------
(***************************************************************************)
(* Counting packets by age.                                                *)
(***************************************************************************)
LEMMA OfFinite ==
  ASSUME NEW ps, IsFiniteSet(ps), NEW types, NEW oks, NEW from, NEW to
  PROVE  /\ IsFiniteSet(Of(ps, types, oks, from, to))
         /\ Cardinality(Of(ps, types, oks, from, to)) \in Nat
<1>1. Of(ps, types, oks, from, to) \in SUBSET ps
  BY DEF Of
<1>. QED
  BY <1>1, FS_Subset, FS_CardinalityType

\* Fewer packets are of a shorter range and of fewer verdicts.
LEMMA OfMonotone ==
  ASSUME NEW ps \in SUBSET Packet, IsFiniteSet(ps), NEW types, NEW oks, NEW more,
         NEW from \in Int, NEW to \in Int, NEW first \in Int, NEW last \in Int,
         first <= from, to <= last, oks \subseteq more
  PROVE  /\ Of(ps, types, oks, from, to) \subseteq Of(ps, types, more, first, last)
         /\ Cardinality(Of(ps, types, oks, from, to))
               <= Cardinality(Of(ps, types, more, first, last))
<1>1. \A p \in ps : p.age \in Int
  BY HorizonCovers DEF Packet
<1>2. Of(ps, types, oks, from, to) \in SUBSET Of(ps, types, more, first, last)
  BY <1>1 DEF Of
<1>. QED
  BY <1>2, OfFinite, FS_Subset

LEMMA OfEmptyRange ==
  ASSUME NEW ps \in SUBSET Packet, NEW types, NEW oks, NEW from \in Int, NEW to \in Int, to < from
  PROVE  Of(ps, types, oks, from, to) = {} /\ Cardinality(Of(ps, types, oks, from, to)) = 0
<1>1. \A p \in ps : p.age \in Int
  BY HorizonCovers DEF Packet
<1>2. Of(ps, types, oks, from, to) = {}
  BY <1>1 DEF Of
<1>. QED
  BY <1>2, FS_EmptySet

\* A packet one tick later.
Aged(p) == [type |-> p.type, age |-> p.age + 1, nth |-> p.nth, ok |-> p.ok]

Ages(ps, qs) == qs = {Aged(p) : p \in {q \in ps : q.age < Limiter!Horizon}}

LEMMA AgedPackets ==
  ASSUME NEW ps \in SUBSET Packet, IsFiniteSet(ps), NEW qs, Ages(ps, qs)
  PROVE  /\ qs \in SUBSET Packet
         /\ \A q \in qs : q.age >= 1
         /\ \A q \in qs : \E p \in ps : q = Aged(p) /\ p.age < Limiter!Horizon
         /\ \A p \in ps : p.age < Limiter!Horizon => Aged(p) \in qs
<1>1. \A p \in Packet : p.age < Limiter!Horizon => Aged(p) \in Packet /\ Aged(p).age >= 1
  BY HorizonCovers DEF Packet, Aged
<1>2. \A q \in qs : \E p \in ps : q = Aged(p) /\ p.age < Limiter!Horizon
  BY DEF Ages
<1>3. \A p \in ps : p.age < Limiter!Horizon => Aged(p) \in qs
  BY DEF Ages
<1>. QED
  BY <1>1, <1>2, <1>3

\* A tick moves a range of ages to the next.
LEMMA OfAges ==
  ASSUME NEW ps \in SUBSET Packet, IsFiniteSet(ps), NEW qs, Ages(ps, qs),
         NEW types, NEW oks, NEW from \in Int, NEW to \in Int, to < Limiter!Horizon
  PROVE  /\ IsFiniteSet(Of(qs, types, oks, from + 1, to + 1))
         /\ Cardinality(Of(qs, types, oks, from + 1, to + 1)) = Cardinality(Of(ps, types, oks, from, to))
<1>. DEFINE S == Of(ps, types, oks, from, to)
            T == Of(qs, types, oks, from + 1, to + 1)
            f == [p \in S |-> Aged(p)]
<1>1. \A p \in ps : p.age \in Int /\ p = [type |-> p.type, age |-> p.age, nth |-> p.nth, ok |-> p.ok]
  BY HorizonCovers DEF Packet
<1>2. \A p \in S : Aged(p) \in T
  <2>. SUFFICES ASSUME NEW p \in S PROVE Aged(p) \in T
    OBVIOUS
  <2>1. p \in ps /\ p.type \in types /\ p.ok \in oks /\ p.age >= from /\ p.age <= to /\ p.age \in Int
    BY <1>1 DEF Of
  <2>2. Aged(p) \in qs
    BY <2>1, AgedPackets, HorizonCovers
  <2>3. Aged(p).type = p.type /\ Aged(p).ok = p.ok /\ Aged(p).age = p.age + 1
    BY DEF Aged
  <2>4. Aged(p).age \in from + 1 .. to + 1
    BY <2>1, <2>3
  <2>. QED
    BY <2>1, <2>2, <2>3, <2>4 DEF Of
<1>3. \A q \in T : \E p \in S : q = Aged(p)
  <2>. SUFFICES ASSUME NEW q \in T PROVE \E p \in S : q = Aged(p)
    OBVIOUS
  <2>1. q \in qs /\ q.type \in types /\ q.ok \in oks /\ q.age \in from + 1 .. to + 1
    BY DEF Of
  <2>2. PICK p \in ps : q = Aged(p) /\ p.age < Limiter!Horizon
    BY <2>1, AgedPackets
  <2>3. q.type = p.type /\ q.ok = p.ok /\ q.age = p.age + 1 /\ p.age \in Int
    BY <1>1, <2>2 DEF Aged
  <2>4. p.age \in from .. to
    BY <2>1, <2>3
  <2>. QED
    BY <2>1, <2>2, <2>3, <2>4 DEF Of
<1>4. \A p, r \in S : Aged(p) = Aged(r) => p = r
  <2>. SUFFICES ASSUME NEW p \in S, NEW r \in S, Aged(p) = Aged(r) PROVE p = r
    OBVIOUS
  <2>1. p \in ps /\ r \in ps
    BY DEF Of
  <2>2. p.type = r.type /\ p.age + 1 = r.age + 1 /\ p.nth = r.nth /\ p.ok = r.ok
    BY DEF Aged
  <2>3. p.age = r.age
    BY <1>1, <2>1, <2>2
  <2>. QED
    BY <1>1, <2>1, <2>2, <2>3
<1>5. ExistsBijection(S, T)
  <2>. HIDE DEF S, T
  <2>1. f \in [S -> T] /\ \A p \in S : f[p] = Aged(p)
    BY <1>2
  <2>. HIDE DEF f
  <2>2. \A p, r \in S : f[p] = f[r] => p = r
    BY <1>4, <2>1
  <2>3. \A q \in T : \E p \in S : f[p] = q
    BY <1>3, <2>1
  <2>4. f \in Bijection(S, T)
    BY <2>1, <2>2, <2>3 DEF Bijection, Injection, Surjection, IsInjective
  <2>. QED
    BY <2>4 DEF ExistsBijection
<1>6. IsFiniteSet(S)
  BY OfFinite
<1>. QED
  BY <1>5, <1>6, FS_Bijection

LEMMA AgedFinite ==
  ASSUME NEW ps \in SUBSET Packet, IsFiniteSet(ps), NEW qs, Ages(ps, qs)
  PROVE  IsFiniteSet(qs)
<1>1. qs = Of(qs, Types, BOOLEAN, 1, Limiter!Horizon)
  <2>1. \A q \in qs : q.type \in Types /\ q.ok \in BOOLEAN /\ q.age \in 1 .. Limiter!Horizon
    BY AgedPackets, HorizonCovers DEF Packet
  <2>. QED
    BY <2>1 DEF Of
<1>2. ASSUME NEW from \in Int, NEW to \in Int, to < Limiter!Horizon
      PROVE  IsFiniteSet(Of(qs, Types, BOOLEAN, from + 1, to + 1))
  BY <1>2, OfAges
<1>3. \A a, b \in Int : b <= Limiter!Horizon => IsFiniteSet(Of(qs, Types, BOOLEAN, a, b))
  <2>. SUFFICES ASSUME NEW a \in Int, NEW b \in Int, b <= Limiter!Horizon
                PROVE  IsFiniteSet(Of(qs, Types, BOOLEAN, a, b))
    OBVIOUS
  <2>. DEFINE from == a - 1
              to == b - 1
  <2>1. from \in Int /\ to \in Int /\ to < Limiter!Horizon /\ a = from + 1 /\ b = to + 1
    BY HorizonCovers
  <2>. HIDE DEF from, to
  <2>2. IsFiniteSet(Of(qs, Types, BOOLEAN, from + 1, to + 1))
    BY <1>2, <2>1
  <2>. QED
    BY <2>1, <2>2
<1>. QED
  BY <1>1, <1>3, HorizonCovers

\* One more packet.
LEMMA OfAdds ==
  ASSUME NEW ps, IsFiniteSet(ps), NEW p, p \notin ps, NEW qs, qs = ps \cup {p},
         NEW types, NEW oks, NEW from, NEW to,
         p.type \in types, p.ok \in oks, p.age \in from .. to
  PROVE  Cardinality(Of(qs, types, oks, from, to)) = Cardinality(Of(ps, types, oks, from, to)) + 1
<1>. DEFINE S == Of(ps, types, oks, from, to)
<1>1. Of(qs, types, oks, from, to) = S \cup {p}
  BY DEF Of
<1>2. p \notin S
  BY DEF Of
<1>3. IsFiniteSet(S)
  BY OfFinite
<1>4. Cardinality(S \cup {p}) = Cardinality(S) + 1
  BY <1>2, <1>3, FS_AddElement
<1>. QED
  BY <1>1, <1>4

LEMMA OfOmits ==
  ASSUME NEW ps, NEW p, NEW qs, qs = ps \cup {p},
         NEW types, NEW oks, NEW from, NEW to,
         ~(p.type \in types /\ p.ok \in oks /\ p.age \in from .. to)
  PROVE  Of(qs, types, oks, from, to) = Of(ps, types, oks, from, to)
BY DEF Of

\* The same, said of the later range.
LEMMA OfAged ==
  ASSUME NEW ps \in SUBSET Packet, IsFiniteSet(ps), NEW qs, Ages(ps, qs),
         NEW types, NEW oks, NEW a \in Int, NEW b \in Int, b <= Limiter!Horizon
  PROVE  /\ Cardinality(Of(qs, types, oks, a, b)) = Cardinality(Of(ps, types, oks, a - 1, b - 1))
         /\ Cardinality(Of(qs, types, oks, 0, b)) = Cardinality(Of(ps, types, oks, 0, b - 1))
         /\ Of(qs, types, oks, 0, 0) = {}
<1>1. ASSUME NEW x \in Int
      PROVE  Cardinality(Of(qs, types, oks, x, b)) = Cardinality(Of(ps, types, oks, x - 1, b - 1))
  <2>. DEFINE from == x - 1
              to == b - 1
  <2>1. from \in Int /\ to \in Int /\ to < Limiter!Horizon /\ x = from + 1 /\ b = to + 1
    BY HorizonCovers
  <2>. HIDE DEF from, to
  <2>2. Cardinality(Of(qs, types, oks, from + 1, to + 1)) = Cardinality(Of(ps, types, oks, from, to))
    BY <2>1, OfAges
  <2>3. Cardinality(Of(qs, types, oks, x, b)) = Cardinality(Of(ps, types, oks, from, to))
    BY <2>1, <2>2
  <2>. QED
    BY <2>3 DEF from, to
<1>2. \A q \in qs : q.age >= 1 /\ q.age \in Int
  BY AgedPackets, HorizonCovers DEF Packet
<1>3. Of(qs, types, oks, 0, b) = Of(qs, types, oks, 1, b) /\ Of(qs, types, oks, 0, 0) = {}
  BY <1>2 DEF Of
<1>4. Cardinality(Of(qs, types, oks, 1, b)) = Cardinality(Of(ps, types, oks, 1 - 1, b - 1))
  BY <1>1
<1>5. 1 - 1 = 0
  OBVIOUS
<1>. QED
  BY <1>1, <1>3, <1>4, <1>5

\* Older, of a counter that is given.
Later(c, d, window) ==
    /\ d \in Counter /\ d.count = c.count
    /\ d.age = IF c.age < 0 \/ c.age > window THEN c.age ELSE c.age + 1

LEMMA TickCounts ==
  ASSUME NEW ps \in SUBSET Packet, IsFiniteSet(ps), NEW qs, Ages(ps, qs),
         NEW types, NEW window \in Nat, window <= Limiter!Horizon, NEW max \in Nat,
         NEW c, NEW d, Counts(ps, c, types, window, max), Later(c, d, window)
  PROVE  Counts(qs, d, types, window, max)
<1>. USE HorizonCovers
<1>1. /\ c.age \in Int /\ c.count \in Nat /\ d \in Counter /\ d.count = c.count /\ d.age \in Int
      /\ c.age >= -1 /\ c.age <= window + 1
      /\ IsFiniteSet(qs)
  BY AgedFinite DEF Counts, Claims, Counter, Later
<1>2. CASE c.age < 0
  <2>1. d.age = c.age /\ d.age < 0 /\ d.count = 0 /\ d.age >= -1
    BY <1>1, <1>2 DEF Counts, Claims, Later
  <2>2. Passed(qs, types, 0, Limiter!Horizon) = {}
    <3>1. Passed(ps, types, 0, Limiter!Horizon) = {}
      BY <1>2 DEF Counts, Windowed
    <3>2. \A p \in ps : p.age \in 0 .. Limiter!Horizon
      BY DEF Packet
    <3>3. \A p \in ps : ~(p.type \in types /\ p.ok = TRUE)
      BY <3>1, <3>2 DEF Passed, Of
    <3>4. \A p \in ps : Aged(p).type = p.type /\ Aged(p).ok = p.ok
      BY DEF Aged
    <3>5. \A q \in qs : ~(q.type \in types /\ q.ok = TRUE)
      BY <3>3, <3>4, AgedPackets
    <3>. QED
      BY <3>5 DEF Passed, Of
  <2>3. Cardinality(Of(qs, types, BOOLEAN, 0, d.age)) \in Nat
    BY <1>1, OfFinite
  <2>4. Claims(qs, d, types, window)
    BY <1>1, <2>1, <2>3 DEF Claims
  <2>5. Windowed(qs, d, types, window, max)
    BY <1>1, <2>1, <2>2 DEF Windowed
  <2>. QED
    BY <2>4, <2>5 DEF Counts
<1>3. CASE c.age >= 0 /\ c.age < window
  <2>1. d.age = c.age + 1 /\ d.age <= window /\ d.age > 0 /\ d.age - 1 = c.age
    BY <1>1, <1>3 DEF Later
  <2>2. /\ c.count <= Cardinality(Of(ps, types, BOOLEAN, 0, c.age))
        /\ Cardinality(Of(ps, types, {TRUE}, 0, c.age)) <= c.count
        /\ Cardinality(Of(ps, types, {TRUE}, 0, c.age)) <= max
        /\ Cardinality(Of(ps, types, {TRUE}, c.age + 1, window)) <= max
    BY <1>1, <1>3 DEF Counts, Claims, Windowed, Passed
  <2>3. d.age <= Limiter!Horizon
    BY <1>1, <2>1
  <2>4. /\ Cardinality(Of(qs, types, BOOLEAN, 0, d.age))
              = Cardinality(Of(ps, types, BOOLEAN, 0, d.age - 1))
        /\ Cardinality(Of(qs, types, {TRUE}, 0, d.age))
              = Cardinality(Of(ps, types, {TRUE}, 0, d.age - 1))
    BY <1>1, <2>3, OfAged
  <2>5. Cardinality(Of(qs, types, {TRUE}, d.age + 1, window)) <= max
    <3>1. \A a \in Int : Cardinality(Of(qs, types, {TRUE}, a, window))
                            = Cardinality(Of(ps, types, {TRUE}, a - 1, window - 1))
      BY OfAged
    <3>2. d.age + 1 \in Int /\ (d.age + 1) - 1 = c.age + 1
      BY <1>1, <2>1
    <3>3. Cardinality(Of(qs, types, {TRUE}, d.age + 1, window))
             = Cardinality(Of(ps, types, {TRUE}, c.age + 1, window - 1))
      BY <3>1, <3>2
    <3>4. Cardinality(Of(ps, types, {TRUE}, c.age + 1, window - 1))
             <= Cardinality(Of(ps, types, {TRUE}, c.age + 1, window))
      <4>. DEFINE a == c.age + 1
                  b == window - 1
      <4>1. a \in Int /\ b \in Int /\ b <= window /\ a <= a
        BY <1>1
      <4>. HIDE DEF a, b
      <4>2. Cardinality(Of(ps, types, {TRUE}, a, b)) <= Cardinality(Of(ps, types, {TRUE}, a, window))
        BY <4>1, OfMonotone
      <4>. QED
        BY <4>2 DEF a, b
    <3>5. /\ Cardinality(Of(ps, types, {TRUE}, c.age + 1, window - 1)) \in Nat
          /\ Cardinality(Of(ps, types, {TRUE}, c.age + 1, window)) \in Nat
      BY OfFinite
    <3>. QED
      BY <2>2, <3>3, <3>4, <3>5
  <2>6. Claims(qs, d, types, window)
    BY <1>1, <2>1, <2>2, <2>4 DEF Claims
  <2>7. Windowed(qs, d, types, window, max)
    BY <1>1, <2>1, <2>2, <2>4, <2>5 DEF Windowed, Passed
  <2>. QED
    BY <2>6, <2>7 DEF Counts
<1>4. CASE c.age >= window
  <2>1. d.age = window + 1
    BY <1>1, <1>4 DEF Later
  <2>2. Cardinality(Of(ps, types, {TRUE}, 0, window)) <= max
    <3>1. CASE c.age = window
      BY <1>1, <3>1 DEF Counts, Windowed, Passed
    <3>2. CASE c.age > window
      BY <1>1, <3>2 DEF Counts, Windowed, Passed
    <3>. QED
      BY <1>1, <1>4, <3>1, <3>2
  <2>3. Cardinality(Of(ps, types, {TRUE}, 0, window - 1))
           <= Cardinality(Of(ps, types, {TRUE}, 0, window))
    <3>. DEFINE b == window - 1
    <3>1. b \in Int /\ b <= window
      OBVIOUS
    <3>. HIDE DEF b
    <3>2. Cardinality(Of(ps, types, {TRUE}, 0, b)) <= Cardinality(Of(ps, types, {TRUE}, 0, window))
      BY <3>1, OfMonotone
    <3>. QED
      BY <3>2 DEF b
  <2>4. /\ Cardinality(Of(qs, types, {TRUE}, 0, window))
              = Cardinality(Of(ps, types, {TRUE}, 0, window - 1))
        /\ Of(qs, types, {TRUE}, 0, 0) = {}
    BY OfAged
  <2>5. /\ Cardinality(Of(ps, types, {TRUE}, 0, window - 1)) \in Nat
        /\ Cardinality(Of(ps, types, {TRUE}, 0, window)) \in Nat
    BY OfFinite
  <2>6. Claims(qs, d, types, window)
    BY <1>1, <2>1 DEF Claims
  <2>7. Windowed(qs, d, types, window, max)
    BY <1>1, <2>1, <2>2, <2>3, <2>4, <2>5 DEF Windowed, Passed
  <2>. QED
    BY <2>6, <2>7 DEF Counts
<1>. QED
  BY <1>1, <1>2, <1>3, <1>4

\* Counted, of a counter that is given; one without packets is a new one.
Grows(c, d, window) ==
    /\ d \in Counter
    /\ IF c.age < 0 \/ c.age > window THEN d.age = 0 /\ d.count = 1
       ELSE d.age = c.age /\ d.count = c.count + 1

LEMMA CountedPacketCounts ==
  ASSUME NEW ps \in SUBSET Packet, IsFiniteSet(ps), NEW p, p \notin ps,
         p.age = 0, p.ok \in BOOLEAN, NEW qs, qs = ps \cup {p},
         NEW types, p.type \in types, NEW window \in Nat, window <= Limiter!Horizon, NEW max \in Nat,
         NEW c, NEW d, Counts(ps, c, types, window, max), Grows(c, d, window),
         p.ok => d.count <= max
  PROVE  Counts(qs, d, types, window, max)
<1>. USE HorizonCovers
<1>1. /\ c.age \in Int /\ c.count \in Nat /\ d \in Counter /\ d.age \in Int /\ d.count \in Nat
      /\ c.age >= -1 /\ c.age <= window + 1
      /\ p.ok = TRUE \/ p.ok = FALSE
  BY DEF Counts, Claims, Counter, Grows
<1>2. \A a, b : /\ Cardinality(Of(ps, types, BOOLEAN, a, b)) \in Nat
                /\ Cardinality(Of(ps, types, {TRUE}, a, b)) \in Nat
  BY OfFinite
<1>7. ASSUME NEW oks, NEW a, NEW b, p.ok \in oks, p.age \in a .. b
      PROVE  Cardinality(Of(qs, types, oks, a, b)) = Cardinality(Of(ps, types, oks, a, b)) + 1
  BY <1>7, OfAdds
<1>8. ASSUME NEW oks, NEW a, NEW b, (p.ok \notin oks) \/ (p.age \notin a .. b)
      PROVE  Of(qs, types, oks, a, b) = Of(ps, types, oks, a, b)
  BY <1>8, OfOmits
<1>3. ASSUME NEW b \in Int, b >= 0
      PROVE  /\ Cardinality(Of(qs, types, BOOLEAN, 0, b)) = Cardinality(Of(ps, types, BOOLEAN, 0, b)) + 1
             /\ p.ok \in {TRUE} => Cardinality(Of(qs, types, {TRUE}, 0, b))
                           = Cardinality(Of(ps, types, {TRUE}, 0, b)) + 1
             /\ p.ok \notin {TRUE} => Of(qs, types, {TRUE}, 0, b) = Of(ps, types, {TRUE}, 0, b)
  <2>1. p.age \in 0 .. b
    BY <1>3
  <2>2. Cardinality(Of(qs, types, BOOLEAN, 0, b)) = Cardinality(Of(ps, types, BOOLEAN, 0, b)) + 1
    BY <1>7, <2>1, SMT
  <2>3. ASSUME p.ok \in {TRUE}
        PROVE  Cardinality(Of(qs, types, {TRUE}, 0, b)) = Cardinality(Of(ps, types, {TRUE}, 0, b)) + 1
    <3>1. \A oks : p.ok \in oks =>
             Cardinality(Of(qs, types, oks, 0, b)) = Cardinality(Of(ps, types, oks, 0, b)) + 1
      BY <1>7, <2>1
    <3>. QED
      BY <2>3, <3>1, Zenon
  <2>4. ASSUME p.ok \notin {TRUE}
        PROVE  Of(qs, types, {TRUE}, 0, b) = Of(ps, types, {TRUE}, 0, b)
    BY <1>8, <2>4, Zenon
  <2>. QED
    BY <2>2, <2>3, <2>4, Zenon
<1>4. ASSUME NEW a \in Int, a >= 1, NEW b \in Int
      PROVE  Of(qs, types, {TRUE}, a, b) = Of(ps, types, {TRUE}, a, b)
  <2>1. p.age \notin a .. b
    BY <1>4
  <2>. QED
    BY <1>8, <2>1, Zenon
\* A new window: what passed before it is the whole of what passed.
<1>5. CASE c.age < 0 \/ c.age > window
  <2>1. d.age = 0 /\ d.count = 1
    BY <1>5 DEF Grows
  <2>0. 0 \in Int /\ 0 >= 0 /\ 1 \in Int /\ 1 >= 1 /\ window \in Int
    OBVIOUS
  <2>2. Of(ps, types, {TRUE}, 0, 0) = {} /\ Cardinality(Of(ps, types, {TRUE}, 1, window)) <= max
    <3>1. CASE c.age < 0
      <4>1. Of(ps, types, {TRUE}, 0, Limiter!Horizon) = {}
        BY <3>1 DEF Counts, Windowed, Passed
      <4>2. /\ Of(ps, types, {TRUE}, 0, 0) \subseteq Of(ps, types, {TRUE}, 0, Limiter!Horizon)
            /\ Of(ps, types, {TRUE}, 1, window) \subseteq Of(ps, types, {TRUE}, 0, Limiter!Horizon)
        BY OfMonotone
      <4>3. Of(ps, types, {TRUE}, 1, window) = {}
        BY <4>1, <4>2
      <4>. QED
        BY <4>1, <4>2, <4>3, FS_EmptySet
    <3>2. CASE c.age > window
      <4>1. /\ Of(ps, types, {TRUE}, 0, 0) = {}
            /\ Cardinality(Of(ps, types, {TRUE}, 0, window)) <= max
        BY <1>1, <3>2 DEF Counts, Windowed, Passed
      <4>2. Cardinality(Of(ps, types, {TRUE}, 1, window))
               <= Cardinality(Of(ps, types, {TRUE}, 0, window))
        <5>1. window \in Int /\ 0 <= 1 /\ window <= window /\ 0 \in Int /\ 1 \in Int
          OBVIOUS
        <5>2. {TRUE} \subseteq {TRUE}
          OBVIOUS
        <5>. QED
          BY <5>1, <5>2, OfMonotone, Zenon
      <4>. QED
        BY <1>2, <4>1, <4>2
    <3>. QED
      BY <1>5, <3>1, <3>2
  <2>3. Cardinality(Of(ps, types, {TRUE}, 0, 0)) = 0
    BY <2>2, FS_EmptySet
  <2>4. Cardinality(Of(qs, types, {TRUE}, 0, 0)) <= 1 /\ Cardinality(Of(qs, types, {TRUE}, 0, 0)) <= max
    <3>1. CASE p.ok \in {TRUE}
      <4>1. Cardinality(Of(qs, types, {TRUE}, 0, 0)) = Cardinality(Of(ps, types, {TRUE}, 0, 0)) + 1
        BY <1>3, <2>0, <3>1, Zenon
      <4>2. p.ok /\ 1 <= max
        BY <1>1, <2>1, <3>1
      <4>. QED
        BY <2>3, <4>1, <4>2
    <3>2. CASE p.ok \notin {TRUE}
      <4>1. Of(qs, types, {TRUE}, 0, 0) = Of(ps, types, {TRUE}, 0, 0)
        BY <1>3, <2>0, <3>2, Zenon
      <4>. QED
        BY <2>3, <4>1
    <3>. QED
      BY <3>1, <3>2
  <2>5. Cardinality(Of(qs, types, {TRUE}, 1, window)) <= max
    <3>1. Of(qs, types, {TRUE}, 1, window) = Of(ps, types, {TRUE}, 1, window)
      BY <1>4, <2>0, Zenon
    <3>. QED
      BY <2>2, <3>1
  <2>6. Cardinality(Of(qs, types, BOOLEAN, 0, 0)) = Cardinality(Of(ps, types, BOOLEAN, 0, 0)) + 1
    BY <1>3, <2>0, Zenon
  <2>7. Claims(qs, d, types, window)
    BY <1>1, <1>2, <2>1, <2>6 DEF Claims
  <2>8. Windowed(qs, d, types, window, max)
    BY <1>1, <2>1, <2>4, <2>5 DEF Windowed, Passed
  <2>. QED
    BY <2>7, <2>8 DEF Counts
<1>6. CASE c.age >= 0 /\ c.age <= window
  <2>1. d.age = c.age /\ d.count = c.count + 1
    BY <1>1, <1>6 DEF Grows
  <2>2. /\ c.count <= Cardinality(Of(ps, types, BOOLEAN, 0, c.age))
        /\ Cardinality(Of(ps, types, {TRUE}, 0, c.age)) <= c.count
        /\ Cardinality(Of(ps, types, {TRUE}, 0, c.age)) <= max
        /\ Cardinality(Of(ps, types, {TRUE}, c.age + 1, window)) <= max
    BY <1>1, <1>6 DEF Counts, Claims, Windowed, Passed
  <2>3. Cardinality(Of(qs, types, BOOLEAN, 0, c.age)) = Cardinality(Of(ps, types, BOOLEAN, 0, c.age)) + 1
    BY <1>1, <1>3, <1>6
  <2>4. /\ Cardinality(Of(qs, types, {TRUE}, 0, c.age)) <= d.count
        /\ Cardinality(Of(qs, types, {TRUE}, 0, c.age)) <= max
    <3>1. CASE p.ok \in {TRUE}
      <4>1. Cardinality(Of(qs, types, {TRUE}, 0, c.age)) = Cardinality(Of(ps, types, {TRUE}, 0, c.age)) + 1
        BY <1>1, <1>3, <1>6, <3>1
      <4>2. d.count <= max
        BY <3>1
      <4>. QED
        BY <1>1, <1>2, <2>1, <2>2, <4>1, <4>2
    <3>2. CASE p.ok \notin {TRUE}
      <4>1. Of(qs, types, {TRUE}, 0, c.age) = Of(ps, types, {TRUE}, 0, c.age)
        BY <1>1, <1>3, <1>6, <3>2
      <4>. QED
        BY <1>1, <1>2, <2>1, <2>2, <4>1
    <3>. QED
      BY <3>1, <3>2
  <2>5. Of(qs, types, {TRUE}, c.age + 1, window) = Of(ps, types, {TRUE}, c.age + 1, window)
    <3>1. c.age + 1 \in Int /\ c.age + 1 >= 1 /\ window \in Int
      BY <1>1, <1>6
    <3>. QED
      BY <1>4, <3>1, Zenon
  <2>6. Claims(qs, d, types, window)
    BY <1>1, <1>2, <1>6, <2>1, <2>2, <2>3 DEF Claims
  <2>7. Windowed(qs, d, types, window, max)
    BY <1>1, <1>6, <2>1, <2>2, <2>4, <2>5 DEF Windowed, Passed
  <2>. QED
    BY <2>6, <2>7 DEF Counts
<1>. QED
  BY <1>1, <1>5, <1>6

\* A packet of another type, or a refused one that the counter has not seen.
LEMMA OtherPacketCounts ==
  ASSUME NEW ps \in SUBSET Packet, IsFiniteSet(ps), NEW p, p \notin ps,
         p.ok \in BOOLEAN, NEW qs, qs = ps \cup {p},
         NEW types, (p.type \notin types) \/ ~p.ok, NEW window \in Nat, NEW max \in Nat,
         NEW c, Counts(ps, c, types, window, max)
  PROVE  Counts(qs, c, types, window, max)
<1>1. (p.type \notin types) \/ (p.ok \notin {TRUE})
  OBVIOUS
<1>9. ASSUME NEW oks, NEW a, NEW b, (p.type \notin types) \/ (p.ok \notin oks)
      PROVE  Of(qs, types, oks, a, b) = Of(ps, types, oks, a, b)
  BY <1>9, OfOmits
<1>2. \A a, b : Of(qs, types, {TRUE}, a, b) = Of(ps, types, {TRUE}, a, b)
  BY <1>1, <1>9, Zenon
<1>3. Windowed(qs, c, types, window, max)
  BY <1>2 DEF Counts, Windowed, Passed
<1>4. c.count \in Nat
  BY DEF Counts, Claims, Counter
<1>5. Of(ps, types, BOOLEAN, 0, c.age) \in SUBSET Of(qs, types, BOOLEAN, 0, c.age)
  BY DEF Of
<1>6. IsFiniteSet(qs)
  BY FS_AddElement
<1>7. /\ Cardinality(Of(ps, types, BOOLEAN, 0, c.age)) <= Cardinality(Of(qs, types, BOOLEAN, 0, c.age))
      /\ Cardinality(Of(ps, types, BOOLEAN, 0, c.age)) \in Nat
      /\ Cardinality(Of(qs, types, BOOLEAN, 0, c.age)) \in Nat
  BY <1>5, <1>6, OfFinite, FS_Subset
<1>8. Claims(qs, c, types, window)
  BY <1>4, <1>7 DEF Counts, Claims
<1>. QED
  BY <1>3, <1>8 DEF Counts

-----------------------------------------------------------------------------
(***************************************************************************)
(* The steps of the limiter.                                               *)
(***************************************************************************)
LEMMA LimiterInvInit == Limiter!Init => LimiterInv
<1>. SUFFICES ASSUME Limiter!Init PROVE LimiterInv
  OBVIOUS
<1>. USE HorizonCovers
<1>1. /\ counters = [t \in Types |-> [age |-> -1, count |-> 0]]
      /\ global = [age |-> 0, count |-> 0]
      /\ violations = 0 /\ refusals = 0 /\ ends = FALSE /\ packets = {}
  BY DEF Limiter!Init, Limiter!NoCounter
<1>2. Limiter!Now = {}
  BY <1>1 DEF Limiter!Now
<1>3. LimiterShape
  <2>1. IsFiniteSet(packets)
    BY <1>1, FS_EmptySet
  <2>2. counters \in [Types -> Counter] /\ global \in Counter /\ global.age >= 0
    BY <1>1 DEF Counter
  <2>3. packets \subseteq Packet /\ violations \in Nat /\ refusals \in Nat /\ ends \in BOOLEAN
    BY <1>1
  <2>4. \A p \in Limiter!Now : p.nth >= 1 /\ p.nth <= Cardinality(Limiter!Now)
    BY <1>2
  <2>. QED
    BY <2>1, <2>2, <2>3, <2>4 DEF LimiterShape
<1>4. \A types, oks, a, b : Of({}, types, oks, a, b) = {} /\ Cardinality(Of({}, types, oks, a, b)) = 0
  BY FS_EmptySet DEF Of
<1>5. ASSUME NEW types, NEW window \in Nat, NEW max \in Nat
      PROVE  /\ Counts({}, [age |-> -1, count |-> 0], types, window, max)
             /\ Counts({}, [age |-> 0, count |-> 0], types, window, max)
  BY <1>4 DEF Counts, Claims, Windowed, Passed, Counter
<1>6. Counting
  BY <1>1, <1>5 DEF Counting
<1>7. Patience
  BY <1>1 DEF Patience
<1>8. Limiter!PoliteIsNeverRefused
  BY <1>2 DEF Limiter!PoliteIsNeverRefused
<1>. QED
  BY <1>3, <1>6, <1>7, <1>8 DEF LimiterInv

LEMMA LimiterTickKeepsInv ==
  ASSUME LimiterInv, Limiter!Tick
  PROVE  LimiterInv'
<1>. USE HorizonCovers DEF LimiterInv
<1>1. packets \in SUBSET Packet /\ IsFiniteSet(packets)
  BY DEF LimiterShape
<1>2. Ages(packets, packets')
  <2>1. \A p \in packets : [p EXCEPT !.age = @ + 1] = Aged(p)
    BY <1>1 DEF Packet, Aged
  <2>2. packets' = {[p EXCEPT !.age = @ + 1] : p \in {q \in packets : q.age < Limiter!Horizon}}
    BY DEF Limiter!Tick
  <2>. QED
    BY <2>1, <2>2 DEF Ages
<1>3. packets' \in SUBSET Packet /\ IsFiniteSet(packets')
  BY <1>1, <1>2, AgedPackets, AgedFinite
<1>4. Limiter!Now' = {}
  <2>1. \A q \in packets' : q.age >= 1 /\ q.age \in Int
    BY <1>1, <1>2, <1>3, AgedPackets DEF Packet
  <2>. QED
    BY <2>1 DEF Limiter!Now
<1>5. ASSUME NEW c \in Counter, NEW w \in Nat
      PROVE  Limiter!Older(c, w) \in Counter /\ Later(c, Limiter!Older(c, w), w)
  BY DEF Counter, Later, Limiter!Older
<1>6. \A t \in Types : counters'[t] \in Counter
                       /\ Later(counters[t], counters'[t], Rules[t].window)
  <2>1. \A t \in Types : counters'[t] = Limiter!Older(counters[t], Rules[t].window)
                         /\ counters[t] \in Counter
    BY DEF Limiter!Tick, LimiterShape
  <2>. QED
    BY <1>5, <2>1
<1>7. global' \in Counter /\ Later(global, global', GlobalWindow) /\ global'.age >= 0
  <2>1. global' = Limiter!Older(global, GlobalWindow) /\ global \in Counter /\ global.age >= 0
    BY DEF Limiter!Tick, LimiterShape
  <2>2. global' \in Counter /\ Later(global, global', GlobalWindow)
    BY <1>5, <2>1
  <2>. QED
    BY <2>1, <2>2 DEF Later, Counter
<1>8. LimiterShape'
  <2>1. counters' \in [Types -> Counter]
    BY <1>6 DEF Limiter!Tick
  <2>. QED
    BY <1>3, <1>4, <1>7, <2>1 DEF LimiterShape, Limiter!Tick
<1>9. Counting'
  <2>1. ASSUME NEW t \in Types
        PROVE  Counts(packets', counters'[t], {t}, Rules[t].window, Rules[t].max)
    <3>1. Counts(packets, counters[t], {t}, Rules[t].window, Rules[t].max)
      BY DEF Counting
    <3>2. Later(counters[t], counters'[t], Rules[t].window)
      BY <1>6
    <3>. QED
      BY <1>1, <1>2, <3>1, <3>2, TickCounts
  <2>2. Counts(packets', global', Types, GlobalWindow, GlobalMaxPackets)
    <3>1. Counts(packets, global, Types, GlobalWindow, GlobalMaxPackets)
      BY DEF Counting
    <3>. QED
      BY <1>1, <1>2, <1>7, <3>1, TickCounts
  <2>. QED
    BY <2>1, <2>2 DEF Counting
<1>10. Patience'
  <2>1. \A q \in packets' : ~q.ok /\ Rules[q.type].disconnect => ends
    <3>. SUFFICES ASSUME NEW q \in packets', ~q.ok, Rules[q.type].disconnect PROVE ends
      OBVIOUS
    <3>1. PICK p \in packets : q = Aged(p)
      BY <1>1, <1>2, AgedPackets
    <3>2. q.ok = p.ok /\ q.type = p.type
      BY <3>1 DEF Aged
    <3>. QED
      BY <3>2 DEF Patience
  <2>. QED
    BY <2>1 DEF Patience, Limiter!Tick
<1>11. Limiter!PoliteIsNeverRefused'
  BY <1>4 DEF Limiter!PoliteIsNeverRefused
<1>. QED
  BY <1>8, <1>9, <1>10, <1>11

\* What Check does: the new packet, the counters and the verdict.
NewPacket(t, ok) == [type |-> t, age |-> 0, nth |-> Cardinality(Limiter!Now) + 1, ok |-> ok]

Judged(t, ok) ==
    /\ packets' = packets \cup {NewPacket(t, ok)}
    /\ violations' = IF ok THEN violations ELSE violations + 1
    /\ refusals' = IF ok THEN refusals ELSE refusals + 1
    /\ Grows(global, global', GlobalWindow)
    /\ \/ /\ global'.count > GlobalMaxPackets
          /\ ok = FALSE /\ ends' = TRUE /\ counters' = counters
       \/ /\ global'.count <= GlobalMaxPackets
          /\ Grows(counters[t], counters'[t], Rules[t].window)
          /\ counters' \in [Types -> Counter] /\ \A u \in Types \ {t} : counters'[u] = counters[u]
          /\ ok = (counters'[t].count <= Rules[t].max)
          /\ ends' = (~ok /\ (Rules[t].disconnect \/ violations + 1 >= MaxViolations))

LEMMA CheckJudges ==
  ASSUME LimiterInv, NEW t \in Types, Limiter!Check(t)
  PROVE  \E ok \in BOOLEAN : Judged(t, ok)
<1>. USE HorizonCovers
<1>. DEFINE g == Limiter!Counted(global, GlobalWindow)
            c == Limiter!Counted(Limiter!CounterOf(t), Rules[t].window)
<1>1. global \in Counter /\ global.age >= 0 /\ counters \in [Types -> Counter] /\ counters[t] \in Counter
  BY DEF LimiterInv, LimiterShape
<1>2. g \in Counter /\ Grows(global, g, GlobalWindow)
  BY <1>1 DEF Limiter!Counted, Grows, Counter
<1>3. c \in Counter /\ Grows(counters[t], c, Rules[t].window)
  <2>1. counters[t].age < 0 => counters[t] = Limiter!NoCounter
    <3>1. counters[t].age >= -1 /\ (counters[t].age < 0 => counters[t].count = 0)
      BY DEF LimiterInv, Counting, Counts, Claims
    <3>2. counters[t] = [age |-> counters[t].age, count |-> counters[t].count]
      BY <1>1 DEF Counter
    <3>3. counters[t].age < 0 => counters[t].age = -1
      BY <1>1, <3>1 DEF Counter
    <3>. QED
      BY <3>1, <3>2, <3>3 DEF Limiter!NoCounter
  <2>2. CASE counters[t] = Limiter!NoCounter
    <3>1. Limiter!CounterOf(t) = [age |-> 0, count |-> 0]
      BY <2>2 DEF Limiter!CounterOf
    <3>2. c = [age |-> 0, count |-> 1]
      BY <3>1 DEF Limiter!Counted
    <3>3. counters[t].age < 0
      BY <2>2 DEF Limiter!NoCounter
    <3>. QED
      BY <3>2, <3>3 DEF Grows, Counter
  <2>3. CASE counters[t] # Limiter!NoCounter
    <3>1. Limiter!CounterOf(t) = counters[t] /\ counters[t].age >= 0
      BY <1>1, <2>1, <2>3 DEF Limiter!CounterOf, Counter
    <3>. QED
      BY <1>1, <3>1 DEF Limiter!Counted, Grows, Counter
  <2>. QED
    BY <2>2, <2>3
<1>4. Limiter!Cardinality(Limiter!Now) = Cardinality(Limiter!Now)
  BY LimiterCounts
<1>5. CASE g.count > GlobalMaxPackets
  <2>1. global' = g /\ counters' = counters /\ Limiter!Answer(t, Limiter!Rejected(TRUE))
    BY <1>5 DEF Limiter!Check
  <2>2. /\ packets' = packets \cup {NewPacket(t, FALSE)}
        /\ violations' = violations + 1 /\ refusals' = refusals + 1 /\ ends' = TRUE
    BY <1>4, <2>1 DEF Limiter!Answer, Limiter!Rejected, NewPacket
  <2>3. Judged(t, FALSE)
    BY <1>2, <1>5, <2>1, <2>2 DEF Judged
  <2>. QED
    BY <2>3
<1>6. CASE ~(g.count > GlobalMaxPackets)
  <2>1. /\ global' = g /\ counters' = [counters EXCEPT ![t] = c]
        /\ Limiter!Answer(t, Limiter!Verdict(t, c.count))
    BY <1>6 DEF Limiter!Check
  <2>2. counters' \in [Types -> Counter] /\ counters'[t] = c
        /\ \A u \in Types \ {t} : counters'[u] = counters[u]
    BY <1>1, <1>3, <2>1
  <2>3. global'.count <= GlobalMaxPackets
    BY <1>2, <1>6, <2>1 DEF Counter
  <2>4. CASE c.count <= Rules[t].max
    <3>1. /\ packets' = packets \cup {NewPacket(t, TRUE)}
          /\ violations' = violations /\ refusals' = refusals /\ ends' = FALSE
      BY <1>4, <2>1, <2>4 DEF Limiter!Answer, Limiter!Verdict, Limiter!Allowed, NewPacket
    <3>2. Judged(t, TRUE)
      BY <1>2, <1>3, <2>1, <2>2, <2>3, <2>4, <3>1 DEF Judged
    <3>. QED
      BY <3>2
  <2>5. CASE ~(c.count <= Rules[t].max)
    <3>1. /\ packets' = packets \cup {NewPacket(t, FALSE)}
          /\ violations' = violations + 1 /\ refusals' = refusals + 1
          /\ ends' = (Rules[t].disconnect \/ violations + 1 >= MaxViolations)
      BY <1>4, <2>1, <2>5 DEF Limiter!Answer, Limiter!Verdict, Limiter!Rejected, NewPacket
    <3>2. Judged(t, FALSE)
      BY <1>2, <1>3, <2>1, <2>2, <2>3, <2>5, <3>1 DEF Judged
    <3>. QED
      BY <3>2
  <2>. QED
    BY <2>4, <2>5
<1>. QED
  BY <1>5, <1>6

LEMMA CheckKeepsInv ==
  ASSUME LimiterInv, ~ends, NEW t \in Types, NEW ok \in BOOLEAN, Judged(t, ok)
  PROVE  LimiterInv'
<1>. USE HorizonCovers
<1>. DEFINE p == NewPacket(t, ok)
            n == Cardinality(Limiter!Now)
<1>1. packets \in SUBSET Packet /\ IsFiniteSet(packets) /\ packets' = packets \cup {p}
  BY DEF LimiterInv, LimiterShape, Judged
<1>2. IsFiniteSet(Limiter!Now) /\ n \in Nat
  <2>1. Limiter!Now \in SUBSET packets
    BY DEF Limiter!Now
  <2>. QED
    BY <1>1, <2>1, FS_Subset, FS_CardinalityType
<1>3. p \in Packet /\ p.type = t /\ p.age = 0 /\ p.nth = n + 1 /\ p.ok = ok
  BY <1>2 DEF NewPacket, Packet
<1>4. \A q \in Limiter!Now : q.nth >= 1 /\ q.nth <= n
  BY DEF LimiterInv, LimiterShape
<1>5. p \notin packets /\ p \notin Limiter!Now
  <2>1. \A q \in Limiter!Now : q.nth \in Nat
    BY <1>1 DEF Limiter!Now, Packet
  <2>2. p \notin Limiter!Now
    BY <1>2, <1>3, <1>4, <2>1
  <2>. QED
    BY <1>3, <2>2 DEF Limiter!Now
<1>. HIDE DEF p
<1>6. Limiter!Now' = Limiter!Now \cup {p}
  BY <1>1, <1>3 DEF Limiter!Now
<1>7. Cardinality(Limiter!Now') = n + 1
  BY <1>2, <1>5, <1>6, FS_AddElement
<1>8. \A q \in Limiter!Now' : q.nth \in Nat /\ q.nth >= 1 /\ q.nth <= n + 1
                              /\ (q.nth = n + 1 => q = p)
  <2>1. \A q \in Limiter!Now : q.nth \in Nat /\ q.nth >= 1 /\ q.nth <= n
    BY <1>1, <1>4 DEF Limiter!Now, Packet
  <2>. HIDE DEF n
  <2>. QED
    BY <1>2, <1>3, <1>6, <2>1
<1>9. /\ Grows(global, global', GlobalWindow)
      /\ global' \in Counter /\ global'.age >= 0 /\ global'.age <= GlobalWindow
  <2>1. Grows(global, global', GlobalWindow) /\ global \in Counter /\ global.age >= 0
    BY DEF Judged, LimiterInv, LimiterShape
  <2>. QED
    BY <2>1 DEF Grows, Counter
<1>10. LimiterShape'
  <2>1. packets' \subseteq Packet /\ IsFiniteSet(packets')
    BY <1>1, <1>3, FS_AddElement
  <2>2. counters' \in [Types -> Counter]
    BY DEF Judged, LimiterInv, LimiterShape
  <2>3. violations' \in Nat /\ refusals' \in Nat /\ ends' \in BOOLEAN
    <3>1. violations' \in Nat /\ refusals' \in Nat
      BY DEF Judged, LimiterInv, LimiterShape
    <3>2. ends' \in BOOLEAN
      BY Zenon DEF Judged
    <3>. QED
      BY <3>1, <3>2
  <2>4. \A q \in Limiter!Now' : q.nth >= 1 /\ q.nth <= Cardinality(Limiter!Now')
    BY <1>7, <1>8
  <2>. QED
    BY <1>9, <2>1, <2>2, <2>3, <2>4 DEF LimiterShape
<1>11. Counts(packets', global', Types, GlobalWindow, GlobalMaxPackets)
  <2>1. ok => global'.count <= GlobalMaxPackets
    BY DEF Judged
  <2>2. Counts(packets, global, Types, GlobalWindow, GlobalMaxPackets)
    BY DEF LimiterInv, Counting
  <2>. QED
    BY <1>1, <1>3, <1>5, <1>9, <2>1, <2>2, CountedPacketCounts
<1>12. ASSUME NEW u \in Types
       PROVE  Counts(packets', counters'[u], {u}, Rules[u].window, Rules[u].max)
  <2>1. Counts(packets, counters[u], {u}, Rules[u].window, Rules[u].max)
    BY DEF LimiterInv, Counting
  <2>2. CASE counters'[u] = counters[u] /\ (u # t \/ ~ok)
    <3>1. (p.type \notin {u}) \/ ~p.ok
      BY <1>3, <2>2
    <3>2. Counts(packets', counters[u], {u}, Rules[u].window, Rules[u].max)
      BY <1>1, <1>3, <1>5, <2>1, <3>1, OtherPacketCounts
    <3>. QED
      BY <2>2, <3>2
  <2>3. CASE /\ u = t /\ Grows(counters[u], counters'[u], Rules[u].window)
             /\ ok = (counters'[u].count <= Rules[u].max)
    <3>1. p.type \in {u} /\ p.age = 0 /\ p.ok \in BOOLEAN
          /\ (p.ok => counters'[u].count <= Rules[u].max)
      BY <1>3, <2>3
    <3>. QED
      BY <1>1, <1>5, <2>1, <2>3, <3>1, CountedPacketCounts
  <2>. QED
    BY <2>2, <2>3 DEF Judged
<1>13. Counting'
  BY <1>11, <1>12 DEF Counting
<1>14. Patience'
  <2>1. /\ violations = refusals /\ refusals \in Nat /\ refusals < MaxViolations
        /\ \A q \in packets : ~(~q.ok /\ Rules[q.type].disconnect)
    BY DEF LimiterInv, LimiterShape, Patience
  <2>2. CASE ok
    <3>1. violations' = refusals /\ refusals' = refusals /\ ends' = FALSE
      BY <2>1, <2>2 DEF Judged
    <3>2. \A q \in packets' : ~q.ok /\ Rules[q.type].disconnect => ends'
      BY <1>1, <1>3, <2>1, <2>2
    <3>. QED
      BY <2>1, <3>1, <3>2 DEF Patience
  <2>3. CASE ~ok
    <3>1. /\ violations' = refusals + 1 /\ refusals' = refusals + 1
          /\ ends' \/ ~(Rules[t].disconnect \/ refusals + 1 >= MaxViolations)
      BY <2>1, <2>3 DEF Judged
    <3>2. \A q \in packets' : ~q.ok /\ Rules[q.type].disconnect => ends'
      BY <1>1, <1>3, <2>1, <3>1
    <3>. QED
      BY <2>1, <3>1, <3>2 DEF Patience
  <2>. QED
    BY <2>2, <2>3
<1>15. Limiter!PoliteIsNeverRefused'
  \* A counter within its window claims no more than came in that time.
  <2>1. ASSUME NEW types, NEW w \in Nat, NEW c, Claims(packets', c, types, w),
               c.age >= 0, c.age <= w, NEW max \in Nat, c.count > max
        PROVE  Limiter!Cardinality(Limiter!Received(types, w)') > max
    <3>1. c.count <= Cardinality(Of(packets', types, BOOLEAN, 0, c.age)) /\ c.count \in Nat
          /\ c.age \in Int
      BY <2>1 DEF Claims, Counter
    <3>2. packets' \in SUBSET Packet /\ IsFiniteSet(packets')
      BY <1>10 DEF LimiterShape
    <3>3. Cardinality(Of(packets', types, BOOLEAN, 0, c.age))
             <= Cardinality(Of(packets', types, BOOLEAN, 0, w))
      <4>. DEFINE a == c.age
                  qs == packets'
      <4>1. a \in Int /\ w \in Int /\ a <= w /\ 0 <= 0 /\ BOOLEAN \subseteq BOOLEAN
        BY <2>1, <3>1
      <4>2. qs \in SUBSET Packet /\ IsFiniteSet(qs)
        BY <3>2
      <4>. HIDE DEF a, qs
      <4>3. Cardinality(Of(qs, types, BOOLEAN, 0, a)) <= Cardinality(Of(qs, types, BOOLEAN, 0, w))
        BY <4>1, <4>2, OfMonotone
      <4>. QED
        BY <4>3 DEF a, qs
    <3>4. Of(packets', types, BOOLEAN, 0, w) = Limiter!Received(types, w)'
      BY <3>2 DEF Of, Packet, Limiter!Received
    <3>5. /\ Cardinality(Of(packets', types, BOOLEAN, 0, w)) \in Nat
          /\ Cardinality(Of(packets', types, BOOLEAN, 0, c.age)) \in Nat
      BY <3>2, OfFinite
    <3>6. Cardinality(Of(packets', types, BOOLEAN, 0, w)) > max
      BY <2>1, <3>1, <3>3, <3>5
    <3>. QED
      BY <3>4, <3>6, LimiterCounts
  <2>2. ASSUME ~ok
        PROVE  \/ Limiter!Cardinality(Limiter!Received({t}, Rules[t].window)') > Rules[t].max
               \/ Limiter!Cardinality(Limiter!Received(Types, GlobalWindow)') > GlobalMaxPackets
    <3>1. CASE global'.count > GlobalMaxPackets
      <4>1. Claims(packets', global', Types, GlobalWindow)
        BY <1>11 DEF Counts
      <4>. QED
        BY <1>9, <2>1, <3>1, <4>1
    <3>2. CASE /\ Grows(counters[t], counters'[t], Rules[t].window)
               /\ ok = (counters'[t].count <= Rules[t].max)
      <4>1. Claims(packets', counters'[t], {t}, Rules[t].window)
        BY <1>12 DEF Counts
      <4>2. counters[t].age \in Int /\ counters'[t].age >= 0 /\ counters'[t].age <= Rules[t].window
        BY <3>2 DEF LimiterInv, LimiterShape, Grows, Counter
      <4>3. counters'[t].count > Rules[t].max
        <5>1. ~(counters'[t].count <= Rules[t].max)
          BY <2>2, <3>2, Zenon
        <5>2. counters'[t].count \in Nat /\ Rules[t].max \in Nat
          BY <4>1 DEF Claims, Counter
        <5>. QED
          BY <5>1, <5>2
      <4>. QED
        BY <2>1, <4>1, <4>2, <4>3
    <3>. QED
      BY <3>1, <3>2 DEF Judged
  <2>3. Limiter!Cardinality(Limiter!Now') = n + 1
    BY <1>7, LimiterCounts
  <2>4. ASSUME NEW q \in Limiter!Now', ~q.ok, q.nth = Limiter!Cardinality(Limiter!Now')
        PROVE  \/ Limiter!Cardinality(Limiter!Received({q.type}, Rules[q.type].window)') > Rules[q.type].max
               \/ Limiter!Cardinality(Limiter!Received(Types, GlobalWindow)') > GlobalMaxPackets
    <3>1. q = p
      BY <1>8, <2>3, <2>4
    <3>2. q.type = t /\ ~ok
      BY <1>3, <2>4, <3>1
    <3>. QED
      BY <2>2, <3>2
  <2>. QED
    BY <2>4 DEF Limiter!PoliteIsNeverRefused
<1>. QED
  BY <1>10, <1>13, <1>14, <1>15 DEF LimiterInv

-----------------------------------------------------------------------------
(***************************************************************************)
(* Both together.                                                          *)
(***************************************************************************)
LEMMA LimiterUnchanged ==
  ASSUME LimiterInv, UNCHANGED <<counters, global, violations, ends, packets, refusals>>
  PROVE  LimiterInv'
<1>1. LimiterShape'
  BY DEF LimiterInv, LimiterShape, Limiter!Now
<1>2. Counting'
  BY DEF LimiterInv, Counting
<1>3. Patience'
  BY DEF LimiterInv, Patience
<1>4. Limiter!PoliteIsNeverRefused'
  <2>1. Limiter!PoliteIsNeverRefused
    BY DEF LimiterInv
  <2>. QED
    BY <2>1 DEF Limiter!PoliteIsNeverRefused, Limiter!Now, Limiter!Received
<1>. QED
  BY <1>1, <1>2, <1>3, <1>4 DEF LimiterInv

\* A step of the two is a step of the monitor or leaves it alone.
LEMMA MonitorSteps == [GuardedNext]_<<vars, guards>> => [Next]_vars
<1>. SUFFICES ASSUME [GuardedNext]_<<vars, guards>> PROVE [Next]_vars
  OBVIOUS
<1>0. Guarded \in Sessions
  BY GuardsAssumption
<1>1. CASE UNCHANGED <<vars, guards>>
  BY <1>1
<1>2. ASSUME NEW t \in Types, ReceiveGuarded(t) PROVE [Next]_vars
  <2>1. AfterLastError \/ Activity(refusals' = refusals)
    BY <1>2 DEF ReceiveGuarded
  <2>2. Disconnect(Guarded) \/ Receive(Guarded) \/ UNCHANGED vars
    BY <2>1 DEF AfterLastError, Activity
  <2>. QED
    BY <1>0, <2>2 DEF Next
<1>3. ASSUME NEW s \in Sessions, Others(s) PROVE [Next]_vars
  BY <1>3 DEF Others, Next
<1>4. CASE Monitor
  BY <1>4 DEF Monitor, Next
<1>5. CASE Tick
  BY <1>5 DEF Next
<1>. QED
  BY <1>1, <1>2, <1>3, <1>4, <1>5 DEF GuardedNext

LEMMA LimiterSteps ==
  ASSUME LimiterInv, [GuardedNext]_<<vars, guards>>
  PROVE  LimiterInv'
<1>1. CASE UNCHANGED guards
  BY <1>1, LimiterUnchanged DEF guards
<1>2. ASSUME NEW t \in Types, ReceiveGuarded(t) PROVE LimiterInv'
  <2>1. ~ends /\ Limiter!Check(t)
    BY <1>2 DEF ReceiveGuarded
  <2>2. \E ok \in BOOLEAN : Judged(t, ok)
    BY <2>1, CheckJudges
  <2>. QED
    BY <2>1, <2>2, CheckKeepsInv
<1>3. CASE LimiterTick
  BY <1>3, LimiterTickKeepsInv, LimiterUnchanged DEF LimiterTick
<1>. QED
  BY <1>1, <1>2, <1>3 DEF GuardedNext

\* Who does not read stays so, and a session opens only when it connects.
LEMMA StagesAdvance ==
  ASSUME TypeOK, [Next]_vars, NEW s \in Sessions
  PROVE  /\ stalled \subseteq stalled'
         /\ stage'[s] = "out" => stage[s] = "out"
         /\ stage'[s] = "open" => stage[s] \in {"out", "open"}
<1>1. stage \in [Sessions -> {"out", "open", "closed", "timedOut"}]
  BY DEF TypeOK
<1>2. CASE UNCHANGED <<stage, stalled>>
  BY <1>2
<1>3. ASSUME NEW r \in Sessions, Connect(r) \/ Disconnect(r) \/ StopReading(r) \/ TimeOut(r)
      PROVE  /\ stalled \subseteq stalled'
             /\ stage'[s] = "out" => stage[s] = "out"
             /\ stage'[s] = "open" => stage[s] \in {"out", "open"}
  BY <1>1, <1>3 DEF Connect, Disconnect, StopReading, TimeOut
<1>4. ASSUME NEW r \in Sessions, Receive(r) \/ Ping(r) \/ SkipClosed(r)
      PROVE  UNCHANGED <<stage, stalled>>
  BY <1>4 DEF Receive, Ping, SkipClosed
<1>5. Tick \/ WakeUp \/ PingReturns \/ EndLoop \/ UNCHANGED vars => UNCHANGED <<stage, stalled>>
  BY DEF Tick, WakeUp, PingReturns, EndLoop, vars
<1>. QED
  BY <1>2, <1>3, <1>4, <1>5 DEF Next

LEMMA EndedInit == GuardedInit => Ended
BY GuardsAssumption DEF GuardedInit, Init, Limiter!Init, Ended

LEMMA EndedStep ==
  ASSUME TypeOK, Ended, [GuardedNext]_<<vars, guards>>
  PROVE  Ended'
<1>1. Guarded \in Sessions /\ stage \in [Sessions -> {"out", "open", "closed", "timedOut"}]
  BY GuardsAssumption DEF TypeOK
<1>2. /\ stalled \subseteq stalled'
      /\ stage'[Guarded] = "out" => stage[Guarded] = "out"
      /\ stage'[Guarded] = "open" => stage[Guarded] \in {"out", "open"}
  BY <1>1, MonitorSteps, StagesAdvance
<1>3. CASE UNCHANGED <<ends, held>>
  BY <1>2, <1>3 DEF Ended
<1>4. ASSUME NEW t \in Types, ReceiveGuarded(t) PROVE Ended'
  <2>1. stage[Guarded] = "open" /\ held = FALSE
    BY <1>4 DEF ReceiveGuarded, Ended
  <2>2. CASE ends' /\ Guarded \notin stalled
    <3>1. Disconnect(Guarded) /\ held' = FALSE
      BY <1>4, <2>1, <2>2 DEF ReceiveGuarded, AfterLastError
    <3>2. stage'[Guarded] = "closed"
      BY <1>1, <3>1 DEF Disconnect
    <3>. QED
      BY <3>1, <3>2 DEF Ended
  <2>3. CASE ~(ends' /\ Guarded \notin stalled)
    <3>1. /\ Receive(Guarded) \/ UNCHANGED vars
          /\ held' \in (IF ends' THEN {TRUE} ELSE MaySend)
      BY <1>4, <2>3 DEF ReceiveGuarded, Activity
    <3>2. stage' = stage /\ stalled' = stalled
      BY <3>1 DEF Receive, vars
    <3>3. CASE ends'
      BY <2>1, <2>3, <3>1, <3>2, <3>3 DEF Ended
    <3>4. CASE ~ends'
      BY <2>1, <3>1, <3>2, <3>4 DEF Ended, MaySend
    <3>. QED
      BY <3>3, <3>4
  <2>. QED
    BY <2>2, <2>3
<1>5. CASE LimiterTick /\ UNCHANGED held
  BY <1>3, <1>5 DEF LimiterTick, Limiter!Tick
<1>. QED
  BY <1>3, <1>4, <1>5 DEF GuardedNext, guards

\* The inductive invariant holds in every state of the receive loop, the monitor and
\* the clients together (ClientSession.cs:87-131, GameServer.cs:120-149).
THEOREM GuardsInvariant == GuardedSpec => []GuardsInv
<1>1. GuardedInit => GuardsInv
  BY MonitorInvInit, LimiterInvInit, EndedInit DEF GuardedInit, GuardsInv
<1>2. GuardsInv /\ [GuardedNext]_<<vars, guards>> => GuardsInv'
  <2>. SUFFICES ASSUME GuardsInv, [GuardedNext]_<<vars, guards>> PROVE GuardsInv'
    OBVIOUS
  <2>1. MonitorInv'
    BY MonitorSteps, MonitorInvStep DEF GuardsInv
  <2>2. LimiterInv'
    BY LimiterSteps DEF GuardsInv
  <2>3. Ended'
    BY EndedStep DEF GuardsInv, MonitorInv
  <2>. QED
    BY <2>1, <2>2, <2>3 DEF GuardsInv
<1>. QED
  BY <1>1, <1>2, PTL DEF GuardedSpec

-----------------------------------------------------------------------------
(***************************************************************************)
(* The theorems.                                                           *)
(***************************************************************************)

\* For any sessions, rules and times: while every client reads, a session is open
\* for at most one ping interval after it was silent for ClientTimeout, and nobody
\* is timed out who was not silent for longer than that, also by a loop that was
\* held up (MonitorSessionsAsync, GameServer.cs:131-149).
THEOREM MonitorEndsOnlySilentSessions == GuardedSpec => []OnlySilentAreTimedOut
<1>1. MonitorInv => OnlySilentAreTimedOut
  <2>. SUFFICES ASSUME MonitorInv PROVE OnlySilentAreTimedOut
    OBVIOUS
  <2>1. \A s \in Sessions : stage[s] = "timedOut" => silence[s] > ClientTimeout
    BY DEF MonitorInv, Clocked
  <2>2. ASSUME stalled = {}, NEW s \in Sessions, stage[s] = "open"
        PROVE  silence[s] <= ClientTimeout + ClientPingInterval
    <3>1. monitor = "sleeping" \/ monitor = "looping"
      BY <2>2 DEF MonitorInv, TypeOK, Clocked
    <3>. QED
      BY <2>2, <3>1, MonitorTypes DEF MonitorInv, InTime
  <2>. QED
    BY <2>1, <2>2 DEF OnlySilentAreTimedOut, ClientTimeoutWorks, Open
<1>. QED
  BY <1>1, GuardsInvariant, PTL DEF GuardsInv

\* While every client reads, one that answers every ping in time is never timed
\* out, for any interval, timeout and time to answer that add up (the check of
\* ServerConfig.Validate, ServerConfig.cs:117; GameServer.cs:131-149).
THEOREM ResponsiveClientsStay == GuardedSpec => []ResponsiveStay
<1>1. GuardsInv => ResponsiveStay
  BY DEF GuardsInv, MonitorInv
<1>. QED
  BY <1>1, GuardsInvariant, PTL

\* A packet is refused only when more packets of its type, or of all types, came
\* in the last window than its limit allows (PacketRateLimiter.cs:105-114,
\* 131-139): the counters never claim more than came.
THEOREM PoliteClientsAreNotRefused == GuardedSpec => []PoliteIsNeverRefused
<1>1. GuardsInv => PoliteIsNeverRefused
  BY DEF GuardsInv, LimiterInv, PoliteIsNeverRefused
<1>. QED
  BY <1>1, GuardsInvariant, PTL

\* However packets straddle the fixed windows, no interval as long as a window
\* lets through more than twice its limit, for any rules (PacketRateLimiter.cs:
\* 105-114): at most the limit since the window began, and before it.
THEOREM BurstsAreBounded == GuardedSpec => []BurstIsBounded
<1>1. ASSUME NEW ps \in SUBSET Packet, IsFiniteSet(ps), NEW c, NEW types, NEW w \in Nat, NEW m \in Nat,
             w <= Limiter!Horizon, Counts(ps, c, types, w, m)
      PROVE  Cardinality(Of(ps, types, {TRUE}, 0, w)) <= 2 * m
  <2>. USE <1>1, HorizonCovers
  <2>1. c.age \in Int /\ c.count \in Nat
    BY DEF Counts, Claims, Counter
  <2>2. Cardinality(Of(ps, types, {TRUE}, 0, w)) \in Nat
    BY OfFinite
  <2>3. CASE c.age < 0
    <3>1. Of(ps, types, {TRUE}, 0, Limiter!Horizon) = {}
      BY <2>3 DEF Counts, Windowed, Passed
    <3>2. Of(ps, types, {TRUE}, 0, w) = {}
      BY <3>1, OfMonotone
    <3>. QED
      BY <3>2, FS_EmptySet
  <2>4. CASE c.age > w
    BY <2>1, <2>2, <2>4 DEF Counts, Windowed, Passed
  <2>5. CASE c.age >= 0 /\ c.age <= w
    <3>. DEFINE A == Of(ps, types, {TRUE}, 0, c.age)
                B == Of(ps, types, {TRUE}, c.age + 1, w)
    <3>1. Cardinality(A) <= m /\ Cardinality(B) <= m
      BY <2>1, <2>5 DEF Counts, Windowed, Passed
    <3>2. IsFiniteSet(A) /\ IsFiniteSet(B) /\ Cardinality(A) \in Nat /\ Cardinality(B) \in Nat
      BY OfFinite
    <3>0. \A p \in ps : p.age \in 0 .. w => p.age \in 0 .. c.age \/ p.age \in c.age + 1 .. w
      BY <2>1, <2>5 DEF Packet
    <3>3. Of(ps, types, {TRUE}, 0, w) \subseteq A \cup B
      BY <3>0, Zenon DEF Of
    <3>. HIDE DEF A, B
    <3>4. IsFiniteSet(A \cup B) /\ IsFiniteSet(A \cap B) /\ Cardinality(A \cap B) \in Nat
          /\ Cardinality(A \cup B) = Cardinality(A) + Cardinality(B) - Cardinality(A \cap B)
      BY <3>2, FS_Union, FS_Subset, FS_CardinalityType
    <3>5. Cardinality(Of(ps, types, {TRUE}, 0, w)) <= Cardinality(A \cup B)
      BY <3>3, <3>4, FS_Subset
    <3>. QED
      BY <2>2, <3>1, <3>2, <3>4, <3>5
  <2>. QED
    BY <2>1, <2>3, <2>4, <2>5
<1>2. GuardsInv => BurstIsBounded
  <2>. SUFFICES ASSUME GuardsInv PROVE BurstIsBounded
    OBVIOUS
  <2>. USE HorizonCovers
  <2>1. packets \in SUBSET Packet /\ IsFiniteSet(packets)
    BY DEF GuardsInv, LimiterInv, LimiterShape
  <2>2. \A types : \A w \in Nat : Limiter!Accepted(types, w) = Of(packets, types, {TRUE}, 0, w)
    <3>1. \A p \in packets : p.ok \in BOOLEAN /\ p.age \in Nat
      BY <2>1 DEF Packet
    <3>2. \A p \in packets : p.ok <=> p.ok \in {TRUE}
      BY <3>1, Zenon
    <3>3. \A p \in packets : \A w \in Nat : p.age <= w <=> p.age \in 0 .. w
      BY <3>1
    <3>. QED
      BY <3>2, <3>3, Zenon DEF Limiter!Accepted, Limiter!Received, Of
  <2>3. ASSUME NEW t \in Types
        PROVE  Cardinality(Of(packets, {t}, {TRUE}, 0, Rules[t].window)) <= 2 * Rules[t].max
    <3>1. Counts(packets, counters[t], {t}, Rules[t].window, Rules[t].max)
      BY DEF GuardsInv, LimiterInv, Counting
    <3>. QED
      BY <1>1, <2>1, <3>1
  <2>4. Cardinality(Of(packets, Types, {TRUE}, 0, GlobalWindow)) <= 2 * GlobalMaxPackets
    <3>1. Counts(packets, global, Types, GlobalWindow, GlobalMaxPackets)
      BY DEF GuardsInv, LimiterInv, Counting
    <3>. QED
      BY <1>1, <2>1, <3>1
  <2>. QED
    BY <2>2, <2>3, <2>4, LimiterCounts DEF BurstIsBounded, Limiter!BurstIsBounded
<1>. QED
  BY <1>2, GuardsInvariant, PTL

\* Nobody is refused more often than MaxViolations, or goes on after a packet that
\* ends its session, which is then closed unless its client does not read the
\* last error message (PacketRateLimiter.cs:116-125, 141-147; ClientSession.cs:
\* 103-125).
THEOREM OffendersAreEnded == GuardedSpec => []EndsInTime
<1>1. GuardsInv => EndsInTime
  <2>. SUFFICES ASSUME GuardsInv PROVE EndsInTime
    OBVIOUS
  <2>. USE HorizonCovers DEF GuardsInv
  <2>1. packets \in SUBSET Packet /\ IsFiniteSet(packets)
    BY DEF LimiterInv, LimiterShape
  <2>2. \A types, a : a \in Int =>
           Limiter!Received(types, a) = Of(packets, types, BOOLEAN, 0, a)
    BY <2>1 DEF Limiter!Received, Of, Packet
  <2>3. ASSUME NEW c, NEW types, NEW w \in Nat, NEW m, Counts(packets, c, types, w, m)
        PROVE  Limiter!Honest(c, types, w)
    BY <2>2, <2>3, LimiterCounts DEF Counts, Claims, Counter, Limiter!Honest
  <2>4. \A t \in Types : Limiter!Honest(counters[t], {t}, Rules[t].window)
    BY <2>3 DEF LimiterInv, Counting
  <2>5. Limiter!Honest(global, Types, GlobalWindow)
    BY <2>3 DEF LimiterInv, Counting
  <2>6. /\ violations \in 0 .. refusals /\ ends \in BOOLEAN /\ refusals \in Nat
        /\ Limiter!IsFiniteSet(packets)
    BY <2>1, LimiterCounts DEF LimiterInv, LimiterShape, Patience
  <2>7. packets \subseteq [type : Types, age : 0 .. Limiter!Horizon, nth : Nat, ok : BOOLEAN]
    BY <2>1 DEF Packet
  <2>8. Limiter!TypeOK
    BY <2>4, <2>5, <2>6, <2>7 DEF Limiter!TypeOK
  <2>9. Limiter!EndsInTime
    <3>1. refusals <= MaxViolations /\ (refusals = MaxViolations => ends) /\ (ends => refusals > 0)
      BY <2>6 DEF LimiterInv, Patience
    <3>2. \A p \in packets : ~p.ok /\ Rules[p.type].disconnect => ends
      BY DEF LimiterInv, Patience
    <3>. QED
      BY <3>1, <3>2 DEF Limiter!EndsInTime
  <2>10. /\ TypeOK /\ held \in BOOLEAN /\ (held => Guarded \in stalled)
         /\ (ends => stage[Guarded] # "open" \/ held)
    BY DEF MonitorInv, Ended
  <2>. QED
    BY <2>8, <2>9, <2>10 DEF EndsInTime, GuardsTypeOK
<1>. QED
  BY <1>1, GuardsInvariant, PTL
===============================================================================
