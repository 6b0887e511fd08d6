------------------------- MODULE PacketRateLimiter -------------------------
(***************************************************************************)
(* PacketRateLimiter: fixed windows counted per packet type, one window    *)
(* over all packets, and violations that are never forgiven.  Time is      *)
(* counted in ticks and is relative: ages stop at the first that is past   *)
(* its window.  The packets of the longest window are kept, to state what  *)
(* the counters achieve.                                                   *)
(***************************************************************************)
EXTENDS Integers, FiniteSets, FiniteSetsExt

CONSTANTS
    Types,              \* packet types
    Rules,              \* _rules: [max, window, disconnect] of each type
    GlobalMaxPackets,
    GlobalWindow,
    MaxViolations       \* the violation that ends a session: 5

Rule == [max : Nat, window : Nat, disconnect : BOOLEAN]

LimitsAreWellFormed ==
    /\ IsFiniteSet(Types)
    /\ Rules \in [Types -> Rule]
    /\ {GlobalMaxPackets, GlobalWindow} \subseteq Nat
    /\ MaxViolations \in Nat \ {0}

Horizon == Max({GlobalWindow} \cup {Rules[t].window : t \in Types})

VARIABLES
    counters,           \* _packetCounters: age of the window and count
    global,             \* the counter of all packets
    violations,         \* _violationCount
    ends,               \* the last answer was to disconnect
    packets,            \* those of the last Horizon ticks: type, age, verdict,
                        \* and which one of its tick a packet was
    refusals            \* refusals so far

vars == <<counters, global, violations, ends, packets, refusals>>

NoCounter == [age |-> -1, count |-> 0]

Init ==
    /\ counters = [t \in Types |-> NoCounter]
    /\ global = [age |-> 0, count |-> 0]
    /\ violations = 0
    /\ ends = FALSE
    /\ packets = {}
    /\ refusals = 0

\* A counter when a packet arrives: the window is renewed once it is over.
\* Mutant: the count of a renewed window stays.
Counted_Keeps(c, window) ==
    IF c.age > window THEN [age |-> 0, count |-> c.count + 1] ELSE [c EXCEPT !.count = @ + 1]
Counted(c, window) ==
    IF c.age > window THEN [age |-> 0, count |-> 1] ELSE [c EXCEPT !.count = @ + 1]

\* GetOrCreateCounter starts a window at the first packet.
\* Mutant: at every packet.
CounterOf_Fresh(t) == [age |-> 0, count |-> 0]
CounterOf(t) == IF counters[t] = NoCounter THEN [age |-> 0, count |-> 0] ELSE counters[t]

Allowed == [ok |-> TRUE, ends |-> FALSE]
Rejected(disconnect) == [ok |-> FALSE, ends |-> disconnect]

\* The verdict of a type's rule, with the violations so far.
\* Mutant: only the rule can end a session.
Verdict_Patient(t, count) ==
    IF count <= Rules[t].max THEN Allowed ELSE Rejected(Rules[t].disconnect)
Verdict(t, count) ==
    IF count <= Rules[t].max THEN Allowed
    ELSE Rejected(Rules[t].disconnect \/ violations + 1 >= MaxViolations)

Now == {p \in packets : p.age = 0}

Answer(t, v) ==
    /\ packets' = packets \cup {[type |-> t, age |-> 0, nth |-> Cardinality(Now) + 1, ok |-> v.ok]}
    /\ violations' = IF v.ok THEN violations ELSE violations + 1
    /\ refusals' = IF v.ok THEN refusals ELSE refusals + 1
    /\ ends' = v.ends

\* Check: the global window first, which ends the session at once.
Check(t) ==
    LET g == Counted(global, GlobalWindow)
        c == Counted(CounterOf(t), Rules[t].window)
    IN  /\ global' = g
        /\ IF g.count > GlobalMaxPackets
           THEN Answer(t, Rejected(TRUE)) /\ UNCHANGED counters
           ELSE Answer(t, Verdict(t, c.count)) /\ counters' = [counters EXCEPT ![t] = c]

Older(c, window) == [c EXCEPT !.age = IF @ < 0 \/ @ > window THEN @ ELSE @ + 1]

Tick ==
    /\ counters' = [t \in Types |-> Older(counters[t], Rules[t].window)]
    /\ global' = Older(global, GlobalWindow)
    /\ packets' = {[p EXCEPT !.age = @ + 1] : p \in {q \in packets : q.age < Horizon}}
    /\ UNCHANGED <<violations, ends, refusals>>

\* A session asks no more once it was told to disconnect.
Next == ~ends /\ (Tick \/ \E t \in Types : Check(t))

Spec == Init /\ [][Next]_vars

-----------------------------------------------------------------------------
(***************************************************************************)
(* Properties.                                                             *)
(***************************************************************************)
\* The packets of some types received in the last ticks.
Received(types, ticks) ==
    {p \in packets : p.type \in types /\ p.age <= ticks}
Accepted(types, ticks) == {p \in Received(types, ticks) : p.ok}

\* A counter whose window is not over claims no more than was received in it.
Honest(c, types, window) ==
    /\ c.age \in -1 .. window + 1 /\ c.count \in Nat
    /\ c.age <= window => c.count <= Cardinality(Received(types, c.age))

TypeOK ==
    /\ \A t \in Types : Honest(counters[t], {t}, Rules[t].window)
    /\ Honest(global, Types, GlobalWindow)
    /\ violations \in 0 .. refusals
    /\ ends \in BOOLEAN
    /\ packets \subseteq [type : Types, age : 0 .. Horizon, nth : Nat, ok : BOOLEAN]
    /\ IsFiniteSet(packets)
    /\ refusals \in Nat

\* However packets straddle the windows, no interval as long as a rule's window
\* lets through more than twice its limit (PacketRateLimiter.cs:105-114).
BurstIsBounded ==
    /\ \A t \in Types : Cardinality(Accepted({t}, Rules[t].window)) <= 2 * Rules[t].max
    /\ Cardinality(Accepted(Types, GlobalWindow)) <= 2 * GlobalMaxPackets

\* A client that keeps to the limits is never refused: when a packet is, more
\* than the limit came in the last window of its type or of all types.
PoliteIsNeverRefused ==
    \A p \in Now : ~p.ok /\ p.nth = Cardinality(Now) =>
        \/ Cardinality(Received({p.type}, Rules[p.type].window)) > Rules[p.type].max
        \/ Cardinality(Received(Types, GlobalWindow)) > GlobalMaxPackets

\* Nobody is refused more often than the violations allow, or goes on after a
\* packet that a disconnecting rule or the global limit refused, and nobody is
\* told to disconnect but by a refusal (PacketRateLimiter.cs:116-125, 141-147).
EndsInTime ==
    /\ refusals <= MaxViolations
    /\ refusals = MaxViolations => ends
    /\ \A p \in packets : ~p.ok /\ Rules[p.type].disconnect => ends
    /\ ends => refusals > 0
=============================================================================
