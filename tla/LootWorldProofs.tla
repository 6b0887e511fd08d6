--------------------------- MODULE LootWorldProofs ---------------------------
(***************************************************************************)
(* Inventories, and the loot that goes between them and the ground.        *)
(* First, what the operators of InventoryOps return, for every capacity,   *)
(* every set of kinds and every stack limit.  Then, that AddItem's two     *)
(* loops compute what InventoryOps defines, for any request.  The          *)
(* argument: the places that have received a unit are always the first     *)
(* ones of the order in which InventoryOps fills the free places, and a    *)
(* first part of that order with n places is Filled(start, kind, n).  Last *)
(* the safety of LootWorld, and that it implements LootLedger, for any     *)
(* number of sessions, items and slots; it uses the lemmas on InventoryOps *)
(* and nothing of PlayerInventory.                                         *)
(***************************************************************************)
EXTENDS LootWorld, PlayerInventory, FiniteSetTheorems, TLAPS

\* Two sets that share nothing have as many elements together.
LEMMA DisjointUnion ==
  ASSUME NEW S, NEW T, IsFiniteSet(S), IsFiniteSet(T), S \cap T = {}
  PROVE  Cardinality(S \cup T) = Cardinality(S) + Cardinality(T)
<1>1. Cardinality(S \cup T) = Cardinality(S) + Cardinality(T) - Cardinality({})
  BY FS_Union
<1>2. Cardinality({}) = 0 /\ Cardinality(S) \in Nat /\ Cardinality(T) \in Nat
  BY FS_EmptySet, FS_CardinalityType
<1>. QED
  BY <1>1, <1>2

-----------------------------------------------------------------------------
(***************************************************************************)
(* The operators of InventoryOps.                                          *)
(***************************************************************************)
\* The empty inventory, and the slots of any inventory, are well formed.
LEMMA SlotType ==
  ASSUME NEW bag \in Inventories, NEW s \in Slots
  PROVE  /\ bag[s] = Empty \/ bag[s] \in Stacks
         /\ bag[s] # Empty => bag[s].kind \in Kinds /\ bag[s].qty \in 1 .. MaxStack[bag[s].kind]
         /\ bag[s].qty \in Nat
  BY InventoryAssumption DEF Inventories, Stacks, Empty

LEMMA EmptyInventoryType == EmptyInventory \in Inventories
  BY DEF EmptyInventory, Inventories

\* There are finitely many places, so their number is a natural number.
LEMMA PlacesFinite ==
  ASSUME NEW k \in Kinds, NEW S \in SUBSET Place(k)
  PROVE  IsFiniteSet(S) /\ Cardinality(S) \in Nat
<1>1. Capacity \in Int /\ MaxStack[k] \in Int
  BY InventoryAssumption
<1>2. IsFiniteSet(Slots) /\ IsFiniteSet(1 .. MaxStack[k])
  BY <1>1, FS_Interval DEF Slots
<1>3. IsFiniteSet(Place(k))
  BY <1>2, FS_Product DEF Place
<1>. QED
  BY <1>3, FS_Subset, FS_CardinalityType

\* A slot receives no more units than its stack has room for
\* (PlayerInventory.cs:103, 117).
LEMMA GainBound ==
  ASSUME NEW bag \in Inventories, NEW k \in Kinds, NEW n \in Nat, NEW s \in Slots,
         Gain(bag, k, n, s) # 0
  PROVE  /\ Gain(bag, k, n, s) \in Nat
         /\ bag[s].qty + Gain(bag, k, n, s) <= MaxStack[k]
         /\ bag[s] = Empty \/ bag[s].kind = k
<1>. DEFINE G == {p \in Filled(bag, k, n) : p[1] = s}
            q == bag[s].qty
            Room == {s} \X (q + 1 .. MaxStack[k])
<1>1. q \in Nat /\ MaxStack[k] \in Nat
  BY SlotType, InventoryAssumption
<1>2. G \subseteq FreePlaces(bag, k) /\ FreePlaces(bag, k) \subseteq Place(k)
  BY DEF Filled, FreePlaces, MergePlaces, OpenPlaces
<1>3. IsFiniteSet(G) /\ Cardinality(G) \in Nat
  BY <1>2, PlacesFinite
<1>4. G # {}
  BY FS_EmptySet DEF Gain
<1>5. s \in FreeSlots(bag) \/ s \in CanStackWith(bag, k)
  BY <1>2, <1>4 DEF FreePlaces, MergePlaces, OpenPlaces
<1>6. q < MaxStack[k] /\ (bag[s] = Empty \/ bag[s].kind = k)
  <2>1. CASE s \in FreeSlots(bag)
    BY <2>1, InventoryAssumption DEF FreeSlots, Empty
  <2>2. CASE s \in CanStackWith(bag, k)
    BY <2>2 DEF CanStackWith
  <2>. QED
    BY <1>5, <2>1, <2>2
<1>7. ASSUME NEW p \in G PROVE p \in Room
  <2>1. p \in Place(k) /\ p[1] = s
    BY <1>2
  <2>2. p[2] \in 1 .. MaxStack[k] /\ p = <<p[1], p[2]>>
    BY <2>1 DEF Place
  <2>3. p[2] > q
    <3>1. CASE p \in MergePlaces(bag, k)
      BY <3>1, <2>1 DEF MergePlaces
    <3>2. CASE p \in OpenPlaces(bag, k)
      BY <3>2, <2>1, <2>2 DEF OpenPlaces, FreeSlots, Empty
    <3>. QED
      BY <1>2, <3>1, <3>2 DEF FreePlaces
  <2>. QED
    BY <2>1, <2>2, <2>3, <1>1
<1>8. IsFiniteSet({s}) /\ Cardinality({s}) = 1
  BY FS_Singleton
<1>9. /\ IsFiniteSet(q + 1 .. MaxStack[k])
      /\ Cardinality(q + 1 .. MaxStack[k]) = MaxStack[k] - q
  <2>. DEFINE a == q + 1
  <2>1. a \in Int /\ MaxStack[k] \in Int /\ ~(a > MaxStack[k])
    BY <1>1, <1>6
  <2>2. /\ IsFiniteSet(a .. MaxStack[k])
        /\ Cardinality(a .. MaxStack[k]) = MaxStack[k] - a + 1
    <3>. HIDE DEF a
    <3>. QED
      BY <2>1, FS_Interval
  <2>. QED
    BY <1>1, <2>2
<1>10. IsFiniteSet(Room) /\ Cardinality(Room) = 1 * (MaxStack[k] - q)
  <2>. DEFINE T == q + 1 .. MaxStack[k]
  <2>1. IsFiniteSet({s}) /\ IsFiniteSet(T)
    BY <1>8, <1>9
  <2>2. IsFiniteSet({s} \X T) /\ Cardinality({s} \X T) = Cardinality({s}) * Cardinality(T)
    <3>. HIDE DEF T
    <3>. QED
      BY <2>1, FS_Product
  <2>. QED
    BY <1>8, <1>9, <2>2
<1>11. Cardinality(G) <= MaxStack[k] - q
  <2>1. G \subseteq Room
    BY <1>7
  <2>2. Cardinality(G) <= Cardinality(Room)
    BY <1>10, <2>1, FS_Subset
  <2>. QED
    BY <2>2, <1>10, <1>1, <1>3
<1>. QED
  BY <1>1, <1>3, <1>6, <1>11 DEF Gain

\* AddItem keeps an inventory well formed: no stack exceeds its limit.
LEMMA AddItemType ==
  ASSUME NEW bag \in Inventories, NEW k \in Kinds, NEW n \in Nat
  PROVE  AddItem(bag, k, n) \in Inventories
<1>1. ASSUME NEW s \in Slots, Gain(bag, k, n, s) # 0
      PROVE  [kind |-> k, qty |-> bag[s].qty + Gain(bag, k, n, s)] \in Stacks
  BY <1>1, GainBound, SlotType DEF Stacks
<1>2. ASSUME NEW s \in Slots PROVE bag[s] \in Stacks \cup {Empty}
  BY DEF Inventories
<1>. QED
  BY <1>1, <1>2 DEF AddItem, Inventories

LEMMA AddedQuantityType ==
  ASSUME NEW bag \in Inventories, NEW k \in Kinds, NEW n \in Nat
  PROVE  AddedQuantity(bag, k, n) \in Nat /\ AddedQuantity(bag, k, n) <= n
<1>1. FreePlaces(bag, k) \subseteq Place(k)
  BY DEF FreePlaces, MergePlaces, OpenPlaces
<1>. QED
  BY <1>1, PlacesFinite DEF AddedQuantity, MinOf

\* TakeItemFromSlot leaves a well-formed inventory and a stack in hand.
LEMMA TakeType ==
  ASSUME NEW bag \in Inventories, NEW s \in Slots, NEW n \in Nat \ {0}, bag[s] # Empty
  PROVE  /\ TakeItemFromSlot(bag, s, n) \in Inventories
         /\ [kind |-> bag[s].kind, qty |-> TakenQuantity(bag, s, n)] \in Stacks
<1>1. /\ bag[s] \in Stacks /\ bag[s].kind \in Kinds /\ bag[s].qty \in Nat \ {0}
      /\ bag[s].qty <= MaxStack[bag[s].kind] /\ MaxStack[bag[s].kind] \in Nat
  BY SlotType, InventoryAssumption
<1>2. n < bag[s].qty => [kind |-> bag[s].kind, qty |-> bag[s].qty - n] \in Stacks
  BY <1>1 DEF Stacks
<1>3. TakeItemFromSlot(bag, s, n) \in Inventories
  <2>. DEFINE rest == IF n >= bag[s].qty THEN Empty ELSE [kind |-> bag[s].kind, qty |-> bag[s].qty - n]
  <2>1. rest \in Stacks \cup {Empty}
    BY <1>1, <1>2
  <2>2. TakeItemFromSlot(bag, s, n) = [bag EXCEPT ![s] = rest]
    BY DEF TakeItemFromSlot, Inventories
  <2>. HIDE DEF rest
  <2>. QED
    BY <2>1, <2>2 DEF Inventories
<1>4. TakenQuantity(bag, s, n) \in Nat \ {0} /\ TakenQuantity(bag, s, n) <= bag[s].qty
  BY <1>1 DEF TakenQuantity, MinOf
<1>. QED
  BY <1>1, <1>3, <1>4 DEF Stacks

LEMMA IntervalSize ==
  ASSUME NEW m \in Nat
  PROVE  IsFiniteSet(1 .. m) /\ Cardinality(1 .. m) = m
  BY FS_Interval

\* The free slots offer their number times the stack limit.
LEMMA OpenPlacesCount ==
  ASSUME NEW bag \in Inventories, NEW k \in Kinds
  PROVE  /\ Cardinality(FreeSlots(bag)) \in Nat
         /\ Cardinality(OpenPlaces(bag, k)) = Cardinality(FreeSlots(bag)) * MaxStack[k]
<1>. DEFINE F == FreeSlots(bag)
            T == 1 .. MaxStack[k]
<1>1. Capacity - 1 \in Int /\ MaxStack[k] \in Nat \ {0}
  BY InventoryAssumption
<1>2. IsFiniteSet(Slots)
  BY <1>1, FS_Interval DEF Slots
<1>3. IsFiniteSet(F) /\ Cardinality(F) \in Nat
  BY <1>2, FS_Subset, FS_CardinalityType DEF FreeSlots
<1>4. IsFiniteSet(T) /\ Cardinality(T) = MaxStack[k]
  BY <1>1, IntervalSize
<1>5. OpenPlaces(bag, k) = F \X T
  BY DEF OpenPlaces, Place, FreeSlots
<1>6. Cardinality(F \X T) = Cardinality(F) * Cardinality(T)
  <2>. HIDE DEF F, T
  <2>. QED
    BY <1>3, <1>4, FS_Product
<1>. QED
  BY <1>3, <1>4, <1>5, <1>6

\* Rounding up: if r units need at most f stacks of m, then r <= f * m.
LEMMA RoundedUp ==
  ASSUME NEW r \in Nat, NEW m \in Nat \ {0}, NEW f \in Nat,
         (r + m - 1) \div m <= f
  PROVE  r <= f * m
<1>. DEFINE d == (r + m - 1) \div m
<1>1. d \in Int /\ r + m - 1 < (d + 1) * m
  BY Z3
<1>2. (d + 1) * m <= (f + 1) * m
  BY <1>1, Z3
<1>. QED
  BY <1>1, <1>2

\* What CanFullyAddItem allows, AddItem adds completely (GameWorld.cs:404-434).
LEMMA CheckedAddFits ==
  ASSUME NEW bag \in Inventories, NEW k \in Kinds, NEW n \in Nat,
         CanFullyAddItem(bag, k, n)
  PROVE  AddedQuantity(bag, k, n) = n
<1>. DEFINE M == Cardinality(MergePlaces(bag, k))
            O == Cardinality(OpenPlaces(bag, k))
            r == n - MinOf(n, M)
<1>1. /\ MergePlaces(bag, k) \in SUBSET Place(k)
      /\ OpenPlaces(bag, k) \in SUBSET Place(k)
      /\ FreePlaces(bag, k) \in SUBSET Place(k)
  BY DEF MergePlaces, OpenPlaces, FreePlaces
<1>2. /\ IsFiniteSet(MergePlaces(bag, k)) /\ M \in Nat
      /\ IsFiniteSet(OpenPlaces(bag, k)) /\ O \in Nat
  BY <1>1, PlacesFinite
<1>3. MergePlaces(bag, k) \cap OpenPlaces(bag, k) = {}
  BY InventoryAssumption DEF MergePlaces, OpenPlaces, CanStackWith, FreeSlots, Empty
<1>4. Cardinality(FreePlaces(bag, k)) = M + O
  BY <1>2, <1>3, DisjointUnion DEF FreePlaces
<1>5. MaxStack[k] \in Nat \ {0}
  BY InventoryAssumption
<1>6. r \in Nat /\ (r > 0 => r <= O)
  <2>1. r \in Nat
    BY <1>2 DEF MinOf
  <2>2. ASSUME r > 0 PROVE (r + MaxStack[k] - 1) \div MaxStack[k] <= Cardinality(FreeSlots(bag))
    BY <2>2 DEF CanFullyAddItem
  <2>. QED
    BY <2>1, <2>2, <1>5, RoundedUp, OpenPlacesCount
<1>7. n <= M + O
  BY <1>2, <1>6 DEF MinOf
<1>. QED
  BY <1>4, <1>7 DEF AddedQuantity, MinOf

-----------------------------------------------------------------------------
(***************************************************************************)
(* Counting units: what AddItem and TakeItemFromSlot do to Units.          *)
(***************************************************************************)

LEMMA InitialSegment ==
  ASSUME NEW m \in Nat
  PROVE  IsFiniteSet(0 .. m - 1) /\ Cardinality(0 .. m - 1) = m
  BY FS_Interval

\* The order in which AddItem fills places is a strict total order.
LEMMA FillOrder ==
  ASSUME NEW bag \in Inventories, NEW k \in Kinds
  PROVE  /\ \A p \in Place(k) : ~FilledBefore(bag, p, p)
         /\ \A p, q \in Place(k) : p = q \/ FilledBefore(bag, p, q) \/ FilledBefore(bag, q, p)
         /\ \A p, q, r \in Place(k) :
               FilledBefore(bag, p, q) /\ FilledBefore(bag, q, r) => FilledBefore(bag, p, r)
<1>1. \A p \in Place(k) : p[1] \in Int /\ p[2] \in Int /\ p = <<p[1], p[2]>>
  BY InventoryAssumption DEF Place, Slots
<1>2. \A p \in Place(k) : ~FilledBefore(bag, p, p)
  BY <1>1 DEF FilledBefore
<1>3. ASSUME NEW p \in Place(k), NEW q \in Place(k), p # q
      PROVE  FilledBefore(bag, p, q) \/ FilledBefore(bag, q, p)
  BY <1>1, <1>3 DEF FilledBefore
<1>4. ASSUME NEW p \in Place(k), NEW q \in Place(k), NEW r \in Place(k),
             FilledBefore(bag, p, q), FilledBefore(bag, q, r)
      PROVE  FilledBefore(bag, p, r)
  BY <1>1, <1>4 DEF FilledBefore
<1>. QED
  BY <1>2, <1>3, <1>4

FillsBefore(bag, k, p) == {q \in FreePlaces(bag, k) : FilledBefore(bag, q, p)}
FillRank(bag, k) == [p \in FreePlaces(bag, k) |-> Cardinality(FillsBefore(bag, k, p))]

\* The rank of a place grows along the order.
LEMMA RankGrows ==
  ASSUME NEW bag \in Inventories, NEW k \in Kinds,
         NEW p \in FreePlaces(bag, k), NEW q \in FreePlaces(bag, k), FilledBefore(bag, p, q)
  PROVE  /\ FillRank(bag, k)[p] \in Nat /\ FillRank(bag, k)[q] \in Nat
         /\ FillRank(bag, k)[p] < FillRank(bag, k)[q]
<1>. DEFINE P == FillsBefore(bag, k, p)
            Q == FillsBefore(bag, k, q)
<1>1. FreePlaces(bag, k) \subseteq Place(k)
  BY DEF FreePlaces, MergePlaces, OpenPlaces
<1>2. P \in SUBSET Place(k) /\ Q \in SUBSET Place(k)
  BY <1>1 DEF FillsBefore
<1>3. IsFiniteSet(P) /\ Cardinality(P) \in Nat /\ IsFiniteSet(Q) /\ Cardinality(Q) \in Nat
  BY <1>2, PlacesFinite
<1>4. p \notin P /\ P \cup {p} \subseteq Q
  BY <1>1, FillOrder DEF FillsBefore
<1>5. IsFiniteSet(P \cup {p}) /\ Cardinality(P \cup {p}) = Cardinality(P) + 1
  BY <1>3, <1>4, FS_AddElement
<1>6. Cardinality(P \cup {p}) <= Cardinality(Q)
  BY <1>3, <1>4, FS_Subset
<1>. QED
  BY <1>3, <1>5, <1>6 DEF FillRank

\* Ranks are the numbers below the number of free places, each once.
LEMMA RankIsBijective ==
  ASSUME NEW bag \in Inventories, NEW k \in Kinds
  PROVE  LET free == FreePlaces(bag, k)
         IN  /\ IsFiniteSet(free) /\ Cardinality(free) \in Nat
             /\ FillRank(bag, k) \in [free -> 0 .. Cardinality(free) - 1]
             /\ \A p, q \in free : FillRank(bag, k)[p] = FillRank(bag, k)[q] => p = q
             /\ \A i \in 0 .. Cardinality(free) - 1 : \E p \in free : FillRank(bag, k)[p] = i
<1>. DEFINE free == FreePlaces(bag, k)
            N == Cardinality(free)
            T == 0 .. N - 1
            rank == FillRank(bag, k)
<1>1. free \subseteq Place(k)
  BY DEF FreePlaces, MergePlaces, OpenPlaces
<1>2. IsFiniteSet(free) /\ N \in Nat
  BY <1>1, PlacesFinite
<1>3. ASSUME NEW p \in free PROVE rank[p] \in T
  <2>1. FillsBefore(bag, k, p) \subseteq free \ {p}
    BY <1>1, FillOrder DEF FillsBefore
  <2>2. IsFiniteSet(free \ {p}) /\ Cardinality(free \ {p}) = N - 1
    BY <1>2, FS_RemoveElement
  <2>3. /\ IsFiniteSet(FillsBefore(bag, k, p))
        /\ Cardinality(FillsBefore(bag, k, p)) <= N - 1
        /\ Cardinality(FillsBefore(bag, k, p)) \in Nat
    BY <2>1, <2>2, FS_Subset, FS_CardinalityType
  <2>. QED
    BY <2>3, <1>2 DEF FillRank
<1>4. rank \in [free -> T]
  BY <1>3 DEF FillRank
<1>5. \A p, q \in free : rank[p] = rank[q] => p = q
  <2>1. ASSUME NEW p \in free, NEW q \in free, p # q PROVE rank[p] # rank[q]
    <3>1. FilledBefore(bag, p, q) \/ FilledBefore(bag, q, p)
      BY <1>1, <2>1, FillOrder
    <3>. QED
      BY <3>1, RankGrows
  <2>. QED
    BY <2>1
<1>6. rank \in Injection(free, T)
  BY <1>4, <1>5 DEF Injection, IsInjective
<1>7. IsFiniteSet(T) /\ Cardinality(T) = N
  BY <1>2, FS_Interval
<1>8. rank \in Surjection(free, T)
  <2>. HIDE DEF rank, T, free
  <2>. QED
    BY <1>6, <1>7, FS_Injection
<1>9. \A i \in T : \E p \in free : rank[p] = i
  BY <1>8 DEF Surjection
<1>. QED
  BY <1>2, <1>4, <1>5, <1>9

\* As many places are filled as AddedQuantity says (PlayerInventory.cs:75-150).
LEMMA FilledCount ==
  ASSUME NEW bag \in Inventories, NEW k \in Kinds, NEW n \in Nat
  PROVE  Cardinality(Filled(bag, k, n)) = AddedQuantity(bag, k, n)
<1>. DEFINE free == FreePlaces(bag, k)
            N == Cardinality(free)
            m == AddedQuantity(bag, k, n)
            F == Filled(bag, k, n)
            T == 0 .. m - 1
            rank == FillRank(bag, k)
            r == [p \in F |-> rank[p]]
<1>1. /\ IsFiniteSet(free) /\ N \in Nat
      /\ rank \in [free -> 0 .. N - 1]
      /\ \A p, q \in free : rank[p] = rank[q] => p = q
      /\ \A i \in 0 .. N - 1 : \E p \in free : rank[p] = i
  BY RankIsBijective
<1>2. m \in Nat /\ m = IF n <= N THEN n ELSE N
  BY <1>1 DEF AddedQuantity, MinOf
<1>3. F = {p \in free : rank[p] < n}
  BY DEF Filled, FillRank, FillsBefore
<1>4. r \in [F -> T]
  <2>1. ASSUME NEW p \in F PROVE rank[p] \in T
    BY <1>1, <1>2, <1>3
  <2>. QED
    BY <2>1
<1>5. r \in Injection(F, T)
  BY <1>1, <1>3, <1>4 DEF Injection, IsInjective
<1>6. r \in Surjection(F, T)
  <2>1. ASSUME NEW i \in T PROVE \E p \in F : r[p] = i
    <3>1. i \in 0 .. N - 1 /\ i < n
      BY <1>1, <1>2
    <3>2. PICK p \in free : rank[p] = i
      BY <1>1, <3>1
    <3>. QED
      BY <1>3, <3>1, <3>2
  <2>. QED
    BY <2>1, <1>4 DEF Surjection
<1>7. IsFiniteSet(T) /\ Cardinality(T) = m
  <2>. HIDE DEF m
  <2>. QED
    BY <1>2, InitialSegment
<1>8. IsFiniteSet(F)
  BY <1>1, <1>3, FS_Subset
<1>9. Cardinality(F) = Cardinality(T)
  <2>. HIDE DEF r, F, T
  <2>. QED
    BY <1>5, <1>6, <1>7, FS_Injection
<1>. QED
  BY <1>7, <1>9

\* A set of numbers above q that has no gaps begins right above q.
LEMMA GaplessSet ==
  ASSUME NEW q \in Nat, NEW m \in Nat, NEW S \in SUBSET (q + 1 .. m),
         \A x \in S : \A y \in q + 1 .. x : y \in S
  PROVE  IsFiniteSet(S) /\ Cardinality(S) \in Nat /\ S = q + 1 .. q + Cardinality(S)
<1>1. ASSUME NEW a \in Nat, a >= q
      PROVE  IsFiniteSet(q + 1 .. a) /\ Cardinality(q + 1 .. a) = a - q
  <2>. DEFINE b == q + 1
  <2>1. b \in Int /\ b = q + 1
    OBVIOUS
  <2>2. IsFiniteSet(b .. a) /\ Cardinality(b .. a) = IF b > a THEN 0 ELSE a - b + 1
    <3>. HIDE DEF b
    <3>. QED
      BY <2>1, FS_Interval
  <2>. QED
    BY <1>1, <2>2
<1>. DEFINE top == IF q <= m THEN m ELSE q
<1>2. top \in Nat /\ top >= q /\ S \subseteq q + 1 .. top
  OBVIOUS
<1>3. IsFiniteSet(S) /\ Cardinality(S) \in Nat
  <2>1. IsFiniteSet(q + 1 .. top)
    BY <1>1, <1>2
  <2>. HIDE DEF top
  <2>. QED
    BY <1>2, <2>1, FS_Subset, FS_CardinalityType
<1>4. ASSUME NEW x \in S PROVE x \in q + 1 .. q + Cardinality(S)
  <2>1. x \in Nat /\ x >= q + 1 /\ q + 1 .. x \subseteq S
    OBVIOUS
  <2>2. Cardinality(q + 1 .. x) = x - q
    BY <1>1, <2>1
  <2>3. Cardinality(q + 1 .. x) <= Cardinality(S)
    BY <1>3, <2>1, FS_Subset
  <2>. QED
    BY <1>3, <2>1, <2>2, <2>3
<1>5. ASSUME NEW y \in q + 1 .. q + Cardinality(S), y \notin S PROVE FALSE
  <2>1. y \in Nat /\ y - 1 \in Nat /\ y - 1 >= q
    BY <1>3
  <2>2. \A x \in S : x \in Nat /\ x >= q + 1 /\ ~(y <= x)
    BY <1>5, <2>1
  <2>3. S \subseteq q + 1 .. y - 1
    BY <2>1, <2>2
  <2>. DEFINE z == y - 1
  <2>4. IsFiniteSet(q + 1 .. z) /\ Cardinality(q + 1 .. z) = z - q
    <3>. HIDE DEF z
    <3>1. z \in Nat /\ z >= q
      BY <2>1 DEF z
    <3>. QED
      BY <1>1, <3>1
  <2>5. Cardinality(S) <= z - q
    <3>1. S \subseteq q + 1 .. z
      BY <2>3
    <3>. HIDE DEF z
    <3>. QED
      BY <2>4, <3>1, FS_Subset
  <2>. QED
    BY <1>3, <2>1, <2>5
<1>. QED
  BY <1>3, <1>4, <1>5

\* The places of a slot that AddItem fills are the ones right above its units.
LEMMA FilledInSlot ==
  ASSUME NEW bag \in Inventories, NEW k \in Kinds, NEW n \in Nat, NEW s \in Slots
  PROVE  /\ Gain(bag, k, n, s) \in Nat
         /\ \A u \in Int : <<s, u>> \in Filled(bag, k, n)
                              <=> u \in bag[s].qty + 1 .. bag[s].qty + Gain(bag, k, n, s)
<1>. DEFINE q == bag[s].qty
            F == Filled(bag, k, n)
            G == {p \in F : p[1] = s}
            U == {u \in 1 .. MaxStack[k] : <<s, u>> \in F}
<1>1. q \in Nat /\ MaxStack[k] \in Nat
  BY SlotType, InventoryAssumption
<1>2. F \subseteq FreePlaces(bag, k) /\ FreePlaces(bag, k) \subseteq Place(k)
  BY DEF Filled, FreePlaces, MergePlaces, OpenPlaces
<1>3. U \in SUBSET (q + 1 .. MaxStack[k])
  <2>1. ASSUME NEW u \in U PROVE u > q
    <3>1. <<s, u>> \in FreePlaces(bag, k)
      BY <1>2
    <3>2. CASE <<s, u>> \in MergePlaces(bag, k)
      BY <3>2 DEF MergePlaces
    <3>3. CASE <<s, u>> \in OpenPlaces(bag, k)
      BY <3>3 DEF OpenPlaces, FreeSlots, Empty
    <3>. QED
      BY <3>1, <3>2, <3>3 DEF FreePlaces
  <2>. QED
    BY <1>1, <2>1
<1>4. ASSUME NEW x \in U, NEW y \in q + 1 .. x PROVE y \in U
  <2>1. x \in 1 .. MaxStack[k] /\ y \in 1 .. MaxStack[k] /\ y > q /\ y <= x
    BY <1>1
  <2>2. <<s, x>> \in FreePlaces(bag, k) /\ <<s, y>> \in Place(k)
    BY <1>2, <2>1 DEF Place
  <2>3. <<s, y>> \in FreePlaces(bag, k)
    BY <2>1, <2>2 DEF FreePlaces, MergePlaces, OpenPlaces
  <2>4. CASE y = x
    BY <2>4
  <2>5. CASE y # x
    <3>1. FilledBefore(bag, <<s, y>>, <<s, x>>)
      BY <2>1, <2>5 DEF FilledBefore
    <3>2. FillRank(bag, k)[<<s, y>>] < FillRank(bag, k)[<<s, x>>]
          /\ FillRank(bag, k)[<<s, y>>] \in Nat /\ FillRank(bag, k)[<<s, x>>] \in Nat
      BY <2>2, <2>3, <3>1, RankGrows
    <3>3. FillRank(bag, k)[<<s, x>>] < n
      BY <2>2 DEF Filled, FillRank, FillsBefore
    <3>4. FillRank(bag, k)[<<s, y>>] < n
      BY <3>2, <3>3
    <3>5. <<s, y>> \in F
      BY <2>3, <3>4 DEF Filled, FillRank, FillsBefore
    <3>. QED
      BY <2>1, <3>5
  <2>. QED
    BY <2>4, <2>5
<1>5. IsFiniteSet(U) /\ Cardinality(U) \in Nat /\ U = q + 1 .. q + Cardinality(U)
  <2>. HIDE DEF U, q
  <2>. QED
    BY <1>1, <1>3, <1>4, GaplessSet
<1>6. Cardinality(G) = Cardinality(U)
  <2>. DEFINE f == [u \in U |-> <<s, u>>]
  <2>1. f \in [U -> G]
    OBVIOUS
  <2>2. ASSUME NEW p \in G PROVE \E u \in U : f[u] = p
    <3>1. p \in Place(k) /\ p[1] = s
      BY <1>2
    <3>2. p[2] \in 1 .. MaxStack[k] /\ p = <<s, p[2]>>
      BY <3>1 DEF Place
    <3>. QED
      BY <3>2
  <2>3. f \in Bijection(U, G)
    BY <2>1, <2>2 DEF Bijection, Injection, Surjection, IsInjective
  <2>. HIDE DEF f, U, G
  <2>. QED
    BY <1>5, <2>3, FS_Bijection DEF ExistsBijection
<1>7. \A u \in Int : <<s, u>> \in F => u \in 1 .. MaxStack[k]
  BY <1>2 DEF Place
<1>. QED
  BY <1>5, <1>6, <1>7 DEF Gain

\* The places of kind k that hold a unit.
HeldPlaces(bag, k) == {p \in Place(k) : bag[p[1]].kind = k /\ p[2] <= bag[p[1]].qty}

LEMMA UnitsType ==
  ASSUME NEW bag, NEW k \in Kinds
  PROVE  /\ Units(bag, k) = Cardinality(HeldPlaces(bag, k))
         /\ IsFiniteSet(HeldPlaces(bag, k)) /\ Units(bag, k) \in Nat
<1>1. HeldPlaces(bag, k) \in SUBSET Place(k)
  BY DEF HeldPlaces
<1>. QED
  BY <1>1, PlacesFinite DEF Units, HeldPlaces

LEMMA EmptyUnits ==
  ASSUME NEW k \in Kinds
  PROVE  Units(EmptyInventory, k) = 0
<1>1. HeldPlaces(EmptyInventory, k) = {}
  BY InventoryAssumption DEF HeldPlaces, Place, EmptyInventory, Empty
<1>. QED
  BY <1>1, UnitsType, FS_EmptySet

\* AddItem adds the units it reports to the kind it was given and changes no
\* other kind (PlayerInventory.cs:40-150).
LEMMA AddItemUnits ==
  ASSUME NEW bag \in Inventories, NEW k \in Kinds, NEW n \in Nat, NEW j \in Kinds
  PROVE  Units(AddItem(bag, k, n), j) =
            Units(bag, j) + IF j = k THEN AddedQuantity(bag, k, n) ELSE 0
<1>. DEFINE new == AddItem(bag, k, n)
            F == Filled(bag, k, n)
<1>1. F \in SUBSET Place(k)
  BY DEF Filled, FreePlaces, MergePlaces, OpenPlaces
<1>2. IsFiniteSet(F) /\ Cardinality(F) = AddedQuantity(bag, k, n) /\ Cardinality(F) \in Nat
  BY <1>1, PlacesFinite, FilledCount
<1>3. ASSUME NEW s \in Slots
      PROVE  /\ Gain(bag, k, n, s) \in Nat /\ bag[s].qty \in Nat
             /\ bag[s].kind = NoKind => bag[s].qty = 0
             /\ Gain(bag, k, n, s) # 0 => bag[s].kind = k \/ bag[s].kind = NoKind
             /\ new[s].kind = IF Gain(bag, k, n, s) = 0 THEN bag[s].kind ELSE k
             /\ new[s].qty = bag[s].qty + Gain(bag, k, n, s)
             /\ Gain(bag, k, n, s) = 0 => new[s] = bag[s]
  <2>1. Gain(bag, k, n, s) \in Nat
    BY FilledInSlot
  <2>2. bag[s].qty \in Nat /\ (bag[s].kind = NoKind => bag[s].qty = 0)
    BY SlotType, InventoryAssumption DEF Empty
  <2>3. Gain(bag, k, n, s) # 0 => bag[s].kind = k \/ bag[s].kind = NoKind
    BY GainBound DEF Empty
  <2>4. new[s] = IF Gain(bag, k, n, s) = 0 THEN bag[s]
                 ELSE [kind |-> k, qty |-> bag[s].qty + Gain(bag, k, n, s)]
    BY DEF AddItem
  <2>. QED
    BY <2>1, <2>2, <2>3, <2>4
<1>a. ASSUME NEW s \in Slots, NEW u \in Int
      PROVE  <<s, u>> \in F <=> u > bag[s].qty /\ u <= bag[s].qty + Gain(bag, k, n, s)
  <2>1. <<s, u>> \in F <=> u \in bag[s].qty + 1 .. bag[s].qty + Gain(bag, k, n, s)
    BY FilledInSlot
  <2>. QED
    BY <2>1, <1>3
<1>4. CASE j = k
  <2>1. ASSUME NEW s \in Slots, NEW u \in 1 .. MaxStack[k]
        PROVE  <<s, u>> \in HeldPlaces(new, k) <=> <<s, u>> \in HeldPlaces(bag, k) \cup F
    <3>. DEFINE p == <<s, u>>
    <3>1. p \in Place(k) /\ p[1] = s /\ p[2] = u /\ u \in Int
      BY InventoryAssumption DEF Place
    <3>2. p \in HeldPlaces(new, k) <=> new[s].kind = k /\ u <= new[s].qty
      BY <3>1 DEF HeldPlaces
    <3>3. p \in HeldPlaces(bag, k) <=> bag[s].kind = k /\ u <= bag[s].qty
      BY <3>1 DEF HeldPlaces
    <3>4. p \in F <=> u > bag[s].qty /\ u <= bag[s].qty + Gain(bag, k, n, s)
      BY <1>a, <3>1
    <3>. HIDE DEF p, new, F
    <3>5. p \in HeldPlaces(new, k) <=> p \in HeldPlaces(bag, k) \/ p \in F
      <4>1. CASE Gain(bag, k, n, s) = 0
        BY <1>3, <3>1, <3>2, <3>3, <3>4, <4>1
      <4>2. CASE Gain(bag, k, n, s) # 0
        <5>1. new[s].kind = k /\ new[s].qty = bag[s].qty + Gain(bag, k, n, s)
          BY <1>3, <4>2
        <5>2. bag[s].kind = k \/ (bag[s].qty = 0 /\ bag[s].kind = NoKind)
          BY <1>3, <4>2
        <5>3. NoKind # k
          BY InventoryAssumption
        <5>. QED
          BY <1>3, <3>1, <3>2, <3>3, <3>4, <5>1, <5>2, <5>3
      <4>. QED
        BY <4>1, <4>2
    <3>. QED
      BY <3>5 DEF p
  <2>2. HeldPlaces(new, k) = HeldPlaces(bag, k) \cup F
    BY <1>1, <2>1 DEF HeldPlaces, Place
  <2>3. HeldPlaces(bag, k) \cap F = {}
    <3>1. ASSUME NEW s \in Slots, NEW u \in 1 .. MaxStack[k], <<s, u>> \in HeldPlaces(bag, k), <<s, u>> \in F
          PROVE  FALSE
      <4>1. u \in Int /\ bag[s].qty \in Nat
        BY InventoryAssumption, <1>3
      <4>2. u > bag[s].qty
        BY <1>a, <3>1, <4>1
      <4>3. u <= bag[s].qty
        BY <3>1 DEF HeldPlaces
      <4>. QED
        BY <4>1, <4>2, <4>3
    <3>. QED
      BY <1>1, <3>1 DEF Place
  <2>4. Cardinality(HeldPlaces(new, k)) = Cardinality(HeldPlaces(bag, k)) + Cardinality(F)
    <3>1. IsFiniteSet(HeldPlaces(bag, k)) /\ IsFiniteSet(F)
      BY <1>2, UnitsType
    <3>2. Cardinality(HeldPlaces(bag, k) \cup F) = Cardinality(HeldPlaces(bag, k)) + Cardinality(F)
      BY <2>3, <3>1, DisjointUnion
    <3>. QED
      BY <2>2, <3>2
  <2>. QED
    BY <1>2, <1>4, <2>4, UnitsType
<1>5. CASE j # k
  <2>1. ASSUME NEW s \in Slots
        PROVE  /\ new[s].kind = j <=> bag[s].kind = j
               /\ new[s].kind = j => new[s] = bag[s]
    <3>1. NoKind # j /\ Gain(bag, k, n, s) \in Nat
      BY <1>3, InventoryAssumption
    <3>. HIDE DEF new
    <3>. QED
      BY <1>3, <1>5, <3>1
  <2>2. HeldPlaces(new, j) = HeldPlaces(bag, j)
    BY <2>1 DEF HeldPlaces, Place
  <2>. QED
    BY <1>5, <2>2, UnitsType
<1>. QED
  BY <1>4, <1>5

\* TakeItemFromSlot takes what it reports from the slot's kind and changes no
\* other kind (PlayerInventory.cs:266-314).
LEMMA TakeUnits ==
  ASSUME NEW bag \in Inventories, NEW s \in Slots, NEW n \in Nat \ {0}, bag[s] # Empty,
         NEW j \in Kinds
  PROVE  LET taken == IF j = bag[s].kind THEN TakenQuantity(bag, s, n) ELSE 0
         IN  /\ Units(bag, j) = Units(TakeItemFromSlot(bag, s, n), j) + taken
             /\ taken \in Nat
<1>. DEFINE new == TakeItemFromSlot(bag, s, n)
            k == bag[s].kind
            q == bag[s].qty
            t == TakenQuantity(bag, s, n)
<1>1. k \in Kinds /\ q \in 1 .. MaxStack[k] /\ MaxStack[k] \in Nat
  BY SlotType, InventoryAssumption
<1>2. t \in 1 .. q /\ new[s] = IF q = t THEN Empty ELSE [kind |-> k, qty |-> q - t]
  BY <1>1 DEF TakenQuantity, MinOf, TakeItemFromSlot, Inventories
<1>3. \A r \in Slots \ {s} : new[r] = bag[r]
  BY DEF TakeItemFromSlot, Inventories
<1>4. CASE j = k
  <2>. DEFINE T == {s} \X (q - t + 1 .. q)
  <2>1. IsFiniteSet(T) /\ Cardinality(T) = t
    <3>. DEFINE a == q - t + 1
                I == a .. q
    <3>1. a \in Int /\ q \in Int /\ ~(a > q) /\ q - a + 1 = t
      BY <1>1, <1>2
    <3>2. IsFiniteSet(I) /\ Cardinality(I) = t
      <4>. HIDE DEF a, t, q
      <4>. QED
        BY <3>1, FS_Interval
    <3>3. IsFiniteSet({s}) /\ Cardinality({s}) = 1
      BY FS_Singleton
    <3>4. IsFiniteSet({s} \X I) /\ Cardinality({s} \X I) = Cardinality({s}) * Cardinality(I)
      <4>. HIDE DEF I
      <4>. QED
        BY <3>2, <3>3, FS_Product
    <3>. QED
      BY <3>2, <3>3, <3>4, <1>1, <1>2
  <2>2. ASSUME NEW r \in Slots, NEW u \in 1 .. MaxStack[k]
        PROVE  <<r, u>> \in HeldPlaces(bag, k) <=> <<r, u>> \in HeldPlaces(new, k) \cup T
    <3>. DEFINE p == <<r, u>>
    <3>1. p \in Place(k) /\ p[1] = r /\ p[2] = u /\ u \in Int
      BY <1>1 DEF Place
    <3>2. p \in HeldPlaces(new, k) <=> new[r].kind = k /\ u <= new[r].qty
      BY <3>1 DEF HeldPlaces
    <3>3. p \in HeldPlaces(bag, k) <=> bag[r].kind = k /\ u <= bag[r].qty
      BY <3>1 DEF HeldPlaces
    <3>4. CASE r # s
      BY <1>3, <3>2, <3>3, <3>4
    <3>5. CASE r = s
      <4>1. p \in T <=> u > q - t /\ u <= q
        BY <1>1, <1>2, <3>1, <3>5
      <4>2. CASE q = t
        BY <1>1, <1>2, <3>1, <3>2, <3>3, <3>5, <4>1, <4>2, InventoryAssumption DEF Empty
      <4>3. CASE q # t
        BY <1>1, <1>2, <3>1, <3>2, <3>3, <3>5, <4>1, <4>3
      <4>. QED
        BY <4>2, <4>3
    <3>. QED
      BY <3>4, <3>5
  <2>3. T \subseteq Place(k)
    BY <1>1, <1>2 DEF Place
  <2>4. HeldPlaces(bag, k) = HeldPlaces(new, k) \cup T
    <3>. HIDE DEF T
    <3>. QED
      BY <2>2, <2>3 DEF HeldPlaces, Place
  <2>5. HeldPlaces(new, k) \cap T = {}
    BY <1>1, <1>2, InventoryAssumption DEF HeldPlaces, Place, Empty
  <2>6. Cardinality(HeldPlaces(bag, k)) = Cardinality(HeldPlaces(new, k)) + Cardinality(T)
    <3>1. IsFiniteSet(HeldPlaces(new, k)) /\ Cardinality(HeldPlaces(new, k)) \in Nat
      BY <1>1, UnitsType
    <3>2. IsFiniteSet(T) /\ Cardinality(T) \in Nat
      BY <1>1, <1>2, <2>1
    <3>. HIDE DEF T, new, k
    <3>3. Cardinality(HeldPlaces(new, k) \cup T) =
             Cardinality(HeldPlaces(new, k)) + Cardinality(T) - Cardinality(HeldPlaces(new, k) \cap T)
      BY <3>1, <3>2, FS_Union
    <3>4. Cardinality(HeldPlaces(new, k) \cap T) = 0
      BY <2>5, FS_EmptySet
    <3>. QED
      BY <3>1, <3>2, <3>3, <3>4, <2>4
  <2>. QED
    BY <1>1, <1>2, <1>4, <2>1, <2>6, UnitsType
<1>5. CASE j # k
  <2>1. ASSUME NEW r \in Slots
        PROVE  /\ new[r].kind = j <=> bag[r].kind = j
               /\ new[r].kind = j => new[r] = bag[r]
    BY <1>2, <1>3, <1>5, InventoryAssumption DEF Empty
  <2>2. HeldPlaces(new, j) = HeldPlaces(bag, j)
    BY <2>1 DEF HeldPlaces, Place
  <2>. QED
    BY <1>5, <2>2, UnitsType
<1>. QED
  BY <1>4, <1>5


-----------------------------------------------------------------------------
(***************************************************************************)
(* First parts of the order.                                               *)
(***************************************************************************)

\* The places that were free in st and hold a unit in iv.
Got(st, iv, k) == {p \in FreePlaces(st, k) : p[2] <= iv[p[1]].qty}

InOrder(st, iv, k) ==
    \A p, q \in FreePlaces(st, k) :
        FilledBefore(st, p, q) /\ q \in Got(st, iv, k) => p \in Got(st, iv, k)

\* Slots only change by receiving units of kind k where there was room.
TopsUp(st, iv, k) ==
    \A s \in Slots :
        \/ iv[s] = st[s]
        \/ /\ s \in FreeSlots(st) \cup CanStackWith(st, k)
           /\ iv[s].kind = k /\ iv[s].qty > st[s].qty

LEMMA GotFinite ==
  ASSUME NEW st, NEW iv, NEW k \in Kinds
  PROVE  /\ Got(st, iv, k) \subseteq FreePlaces(st, k)
         /\ FreePlaces(st, k) \subseteq Place(k)
         /\ IsFiniteSet(Got(st, iv, k)) /\ Cardinality(Got(st, iv, k)) \in Nat
         /\ IsFiniteSet(FreePlaces(st, k)) /\ Cardinality(FreePlaces(st, k)) \in Nat
         /\ Cardinality(Got(st, iv, k)) <= Cardinality(FreePlaces(st, k))
<1>1. Got(st, iv, k) \subseteq FreePlaces(st, k) /\ FreePlaces(st, k) \subseteq Place(k)
  BY DEF Got, FreePlaces, MergePlaces, OpenPlaces
<1>. QED
  BY <1>1, PlacesFinite, FS_Subset

\* A place is free exactly above its slot's units, in a slot with room.
LEMMA FreePlaceIn ==
  ASSUME NEW st \in Inventories, NEW k \in Kinds, NEW s \in Slots, NEW u \in Int
  PROVE  <<s, u>> \in FreePlaces(st, k) <=>
            /\ s \in FreeSlots(st) \cup CanStackWith(st, k)
            /\ u > st[s].qty /\ u <= MaxStack[k]
<1>1. st[s].qty \in Nat /\ MaxStack[k] \in Nat /\ (s \in FreeSlots(st) => st[s].qty = 0)
  BY SlotType, InventoryAssumption DEF FreeSlots, Empty
<1>2. <<s, u>> \in Place(k) <=> u >= 1 /\ u <= MaxStack[k]
  BY <1>1 DEF Place
<1>. QED
  BY <1>1, <1>2 DEF FreePlaces, MergePlaces, OpenPlaces

\* A first part of the order with as many places as can be filled is Filled.
LEMMA FirstPartIsFilled ==
  ASSUME NEW st \in Inventories, NEW iv \in Inventories, NEW k \in Kinds, NEW n \in Nat,
         InOrder(st, iv, k), Cardinality(Got(st, iv, k)) = AddedQuantity(st, k, n)
  PROVE  Got(st, iv, k) = Filled(st, k, n)
<1>. DEFINE G == Got(st, iv, k)
            F == Filled(st, k, n)
<1>1. F \subseteq FreePlaces(st, k) /\ IsFiniteSet(F)
  BY GotFinite, FS_Subset DEF Filled
<1>2. ASSUME NEW q \in G PROVE q \in F
  <2>1. q \in FreePlaces(st, k) /\ q \in Place(k)
    BY GotFinite
  <2>. DEFINE B == FillsBefore(st, k, q)
  <2>2. B \cup {q} \subseteq G
    BY <2>1 DEF InOrder, FillsBefore
  <2>3. q \notin B
    BY <2>1, FillOrder DEF FillsBefore
  <2>4. IsFiniteSet(B) /\ Cardinality(B) \in Nat
    BY <2>2, GotFinite, FS_Subset, FS_CardinalityType
  <2>5. IsFiniteSet(B \cup {q}) /\ Cardinality(B \cup {q}) = Cardinality(B) + 1
    BY <2>3, <2>4, FS_AddElement
  <2>6. Cardinality(B \cup {q}) <= Cardinality(G)
    <3>. HIDE DEF G, B
    <3>. QED
      BY <2>2, GotFinite, FS_Subset DEF G
  <2>7. Cardinality(G) <= n
    BY AddedQuantityType
  <2>8. Cardinality(B) < n
    BY <2>4, <2>5, <2>6, <2>7, GotFinite
  <2>. QED
    BY <2>1, <2>8 DEF Filled, FillsBefore
<1>3. Cardinality(F) = Cardinality(G)
  BY FilledCount
<1>4. G \subseteq F
  BY <1>2
<1>. QED
  <2>. HIDE DEF F
  <2>1. F = G
    BY <1>1, <1>3, <1>4, FS_Subset
  <2>. QED
    BY <2>1 DEF F

\* An inventory that received a first part of the order is what AddItem makes.
LEMMA FirstPartIsAddItem ==
  ASSUME NEW st \in Inventories, NEW iv \in Inventories, NEW k \in Kinds, NEW n \in Nat,
         TopsUp(st, iv, k), InOrder(st, iv, k),
         Cardinality(Got(st, iv, k)) = AddedQuantity(st, k, n)
  PROVE  iv = AddItem(st, k, n)
<1>1. Got(st, iv, k) = Filled(st, k, n)
  BY FirstPartIsFilled
<1>2. ASSUME NEW s \in Slots PROVE iv[s] = AddItem(st, k, n)[s]
  <2>. DEFINE q == st[s].qty
              g == Gain(st, k, n, s)
              c == iv[s].qty
  <2>1. q \in Nat /\ g \in Nat /\ c \in Nat /\ MaxStack[k] \in Nat
    BY SlotType, FilledInSlot, InventoryAssumption
  <2>2. ASSUME NEW u \in Int
        PROVE  /\ <<s, u>> \in Filled(st, k, n) <=> u > q /\ u <= q + g
               /\ <<s, u>> \in Got(st, iv, k) <=> <<s, u>> \in FreePlaces(st, k) /\ u <= c
    <3>1. <<s, u>> \in Filled(st, k, n) <=> u \in q + 1 .. q + g
      BY FilledInSlot
    <3>2. <<s, u>> \in Got(st, iv, k) <=> <<s, u>> \in FreePlaces(st, k) /\ u <= c
      BY DEF Got
    <3>. QED
      BY <2>1, <3>1, <3>2
  <2>3. CASE iv[s] = st[s]
    <3>1. <<s, q + 1>> \notin Got(st, iv, k)
      BY <2>1, <2>2, <2>3
    <3>2. g = 0
      BY <1>1, <2>1, <2>2, <3>1
    <3>. QED
      BY <2>3, <3>2 DEF AddItem
  <2>4. CASE iv[s] # st[s]
    <3>1. /\ s \in FreeSlots(st) \cup CanStackWith(st, k)
          /\ iv[s].kind = k /\ c > q
      BY <2>4 DEF TopsUp
    <3>2. c <= MaxStack[k] /\ iv[s] = [kind |-> k, qty |-> c]
      <4>1. iv[s] \in Stacks
        BY <3>1, SlotType, InventoryAssumption DEF Empty
      <4>. QED
        BY <3>1, <4>1 DEF Stacks
    <3>3. ASSUME NEW u \in Int PROVE (u > q /\ u <= c) <=> (u > q /\ u <= q + g)
      <4>1. <<s, u>> \in FreePlaces(st, k) <=> u > q /\ u <= MaxStack[k]
        BY <3>1, FreePlaceIn
      <4>2. <<s, u>> \in Filled(st, k, n) <=> u > q /\ u <= q + g
        BY <2>2
      <4>3. <<s, u>> \in Got(st, iv, k) <=> <<s, u>> \in FreePlaces(st, k) /\ u <= c
        BY <2>2
      <4>. HIDE DEF q, g, c
      <4>. QED
        BY <1>1, <2>1, <3>2, <4>1, <4>2, <4>3
    <3>4. c = q + g
      BY <2>1, <3>1, <3>3
    <3>. QED
      BY <2>1, <3>1, <3>2, <3>4 DEF AddItem
  <2>. QED
    BY <2>3, <2>4
<1>3. iv = [s \in Slots |-> iv[s]]
  BY DEF Inventories
<1>. QED
  BY <1>2, <1>3 DEF AddItem

\* Replacing one slot of an inventory.
Puts(iv, s, st, iv2) ==
    /\ iv2 \in Inventories /\ iv2[s] = st
    /\ \A t \in Slots : t # s => iv2[t] = iv[t]

LEMMA PutSlot ==
  ASSUME NEW iv \in Inventories, NEW s \in Slots, NEW st \in Stacks
  PROVE  Puts(iv, s, st, [iv EXCEPT ![s] = st])
  BY DEF Puts, Inventories

LEMMA PutsInventory ==
  ASSUME NEW iv, NEW s, NEW st, NEW iv2, Puts(iv, s, st, iv2)
  PROVE  iv2 \in Inventories
  BY DEF Puts

\* Adding m units to a slot that comes next in the order.
LEMMA GrowSlot ==
  ASSUME NEW st \in Inventories, NEW iv \in Inventories, NEW k \in Kinds,
         NEW s \in Slots, NEW m \in Nat \ {0},
         TopsUp(st, iv, k), InOrder(st, iv, k),
         s \in FreeSlots(st) \cup CanStackWith(st, k), iv[s] = st[s],
         st[s].qty + m <= MaxStack[k],
         \A p \in FreePlaces(st, k) : p[1] # s /\ FilledBefore(st, p, <<s, MaxStack[k]>>)
                                         => p \in Got(st, iv, k),
         NEW iv2, Puts(iv, s, [kind |-> k, qty |-> st[s].qty + m], iv2)
  PROVE  /\ TopsUp(st, iv2, k) /\ InOrder(st, iv2, k)
         /\ Cardinality(Got(st, iv2, k)) = Cardinality(Got(st, iv, k)) + m
<1>. DEFINE q == st[s].qty
            G == Got(st, iv, k)
            G2 == Got(st, iv2, k)
            T == {s} \X (q + 1 .. q + m)
<1>1. q \in Nat /\ MaxStack[k] \in Nat \ {0}
  BY SlotType, InventoryAssumption
<1>2. /\ iv2 \in Inventories /\ iv2[s] = [kind |-> k, qty |-> q + m]
      /\ \A t \in Slots : t # s => iv2[t] = iv[t]
  BY DEF Puts
<1>5. TopsUp(st, iv2, k)
  <2>1. ASSUME NEW t \in Slots
        PROVE  \/ iv2[t] = st[t]
               \/ /\ t \in FreeSlots(st) \cup CanStackWith(st, k)
                  /\ iv2[t].kind = k /\ iv2[t].qty > st[t].qty
    <3>1. CASE t = s
      BY <1>1, <1>2, <3>1
    <3>2. CASE t # s
      BY <1>2, <3>2 DEF TopsUp
    <3>. QED
      BY <3>1, <3>2
  <2>. QED
    BY <2>1 DEF TopsUp
<1>6. ASSUME NEW p \in FreePlaces(st, k)
      PROVE  /\ p[1] \in Slots /\ p[2] \in 1 .. MaxStack[k] /\ p = <<p[1], p[2]>> /\ p \in Place(k)
             /\ p[1] = s => p[2] > q
             /\ p \in G <=> p[2] <= iv[p[1]].qty
             /\ p \in G2 <=> p[2] <= iv2[p[1]].qty
  <2>1. p \in Place(k)
    BY GotFinite
  <2>2. p[1] \in Slots /\ p[2] \in 1 .. MaxStack[k] /\ p = <<p[1], p[2]>>
    BY <2>1 DEF Place
  <2>3. p[1] = s => p[2] > q
    BY <1>1, <2>2, FreePlaceIn
  <2>4. (p \in G <=> p[2] <= iv[p[1]].qty) /\ (p \in G2 <=> p[2] <= iv2[p[1]].qty)
    BY DEF Got
  <2>. QED
    BY <2>1, <2>2, <2>3, <2>4
<1>7. ASSUME NEW p \in FreePlaces(st, k)
      PROVE  /\ p \in G2 <=> p \in G \cup T
             /\ p \in T <=> p[1] = s /\ p[2] <= q + m
             /\ p \in G => p[1] # s
  <2>1. p \in T <=> p[1] = s /\ p[2] <= q + m
    BY <1>1, <1>6
  <2>2. p \in G => p[1] # s
    BY <1>1, <1>6
  <2>3. CASE p[1] = s
    <3>1. iv2[p[1]].qty = q + m
      BY <1>2, <2>3
    <3>2. p \in G2 <=> p[2] <= q + m
      BY <1>6, <3>1
    <3>. HIDE DEF G, G2, T
    <3>. QED
      BY <2>1, <2>2, <2>3, <3>2
  <2>4. CASE p[1] # s
    BY <1>2, <1>6, <2>1, <2>4
  <2>. QED
    BY <2>1, <2>2, <2>3, <2>4
<1>8. T \subseteq FreePlaces(st, k)
  <2>1. ASSUME NEW u \in q + 1 .. q + m PROVE <<s, u>> \in FreePlaces(st, k)
    BY <1>1, FreePlaceIn
  <2>. QED
    BY <2>1
<1>9. InOrder(st, iv2, k)
  <2>1. ASSUME NEW p \in FreePlaces(st, k), NEW r \in FreePlaces(st, k),
               FilledBefore(st, p, r), r \in G2
        PROVE  p \in G2
    <3>1. CASE r \in G
      BY <1>7, <2>1, <3>1 DEF InOrder
    <3>2. CASE r \in T
      <4>1. r = <<s, r[2]>> /\ r[2] <= q + m /\ r[2] \in Int
        BY <1>6, <1>7, <3>2
      <4>2. CASE p[1] = s
        <5>1. r[1] = s /\ s \in Int /\ p[2] \in Int
          BY <1>6, <1>7, <3>2, InventoryAssumption DEF Slots
        <5>2. p[2] < r[2]
          BY <2>1, <4>2, <5>1 DEF FilledBefore
        <5>3. p[2] <= q + m
          BY <1>1, <4>1, <5>1, <5>2
        <5>. QED
          BY <1>7, <4>2, <5>3
      <4>3. CASE p[1] # s
        <5>. DEFINE z == <<s, MaxStack[k]>>
        <5>1. z[1] = s
          OBVIOUS
        <5>2. FilledBefore(st, p, z)
          BY <2>1, <4>1, <4>3, <5>1 DEF FilledBefore
        <5>. QED
          BY <1>7, <4>3, <5>2
      <4>. QED
        BY <4>2, <4>3
    <3>. QED
      BY <1>7, <2>1, <3>1, <3>2
  <2>. QED
    BY <2>1 DEF InOrder
<1>10. G2 = G \cup T /\ G \cap T = {}
  <2>1. G \subseteq FreePlaces(st, k) /\ G2 \subseteq FreePlaces(st, k)
    BY GotFinite
  <2>. HIDE DEF G, G2, T
  <2>. QED
    BY <1>7, <1>8, <2>1
<1>11. IsFiniteSet(T) /\ Cardinality(T) = m
  <2>. DEFINE a == q + 1
              b == q + m
              I == a .. b
  <2>1. a \in Int /\ b \in Int /\ ~(a > b) /\ b - a + 1 = m
    BY <1>1
  <2>2. IsFiniteSet(I) /\ Cardinality(I) = m
    <3>. HIDE DEF a, b
    <3>. QED
      BY <2>1, FS_Interval
  <2>3. IsFiniteSet({s}) /\ Cardinality({s}) = 1
    BY FS_Singleton
  <2>4. IsFiniteSet({s} \X I) /\ Cardinality({s} \X I) = Cardinality({s}) * Cardinality(I)
    <3>. HIDE DEF I
    <3>. QED
      BY <2>2, <2>3, FS_Product
  <2>. QED
    BY <2>2, <2>3, <2>4
<1>12. Cardinality(G2) = Cardinality(G) + m
  <2>1. IsFiniteSet(G) /\ Cardinality(G) \in Nat
    BY GotFinite
  <2>. HIDE DEF G, G2, T
  <2>2. Cardinality(G \cup T) = Cardinality(G) + Cardinality(T) - Cardinality(G \cap T)
    BY <1>11, <2>1, FS_Union
  <2>3. Cardinality(G \cap T) = 0
    BY <1>10, FS_EmptySet
  <2>. QED
    BY <1>10, <1>11, <2>1, <2>2, <2>3
<1>. QED
  BY <1>5, <1>9, <1>12

-----------------------------------------------------------------------------
(***************************************************************************)
(* PlayerInventory: the inductive invariant.                               *)
(***************************************************************************)

\* A call has filled a first part of the free places, as many as it counts.
Adding ==
    call.phase # "idle" =>
        /\ call.kind \in Kinds
        /\ call.remaining \in Nat /\ call.added \in Nat
        /\ call.requested > 0 /\ call.added + call.remaining = call.requested
        /\ TopsUp(start, items, call.kind) /\ InOrder(start, items, call.kind)
        /\ Cardinality(Got(start, items, call.kind)) = call.added

\* The first loop has filled the stacks it passed and touched nothing else.
PassedAreFull ==
    call.phase = "merge" =>
        /\ \A s \in Slots : s >= call.cursor \/ start[s] = Empty => items[s] = start[s]
        /\ call.remaining > 0 => \A s \in CanStackWith(items, call.kind) : s >= call.cursor

\* What remains after a loop found no room for it.
NoRoomForRest ==
    /\ call.phase \in {"open", "done"} /\ call.remaining > 0 => CanStackWith(items, call.kind) = {}
    /\ call.phase = "done" /\ call.remaining > 0 => FreeSlots(items) = {}

AInv == InventoryTypeOK /\ Adding /\ PassedAreFull /\ NoRoomForRest

LEMMA InitAInv == InventoryInit => AInv
  BY EmptyInventoryType, InventoryAssumption, RequestAssumption
  DEF InventoryInit, AInv, InventoryTypeOK, Calls, Phases, NoCall, Adding, PassedAreFull, NoRoomForRest

LEMMA BeginAddAInv ==
  ASSUME AInv, NEW k \in Kinds, NEW n \in 1 .. MaxRequest, BeginAdd(k, n)
  PROVE  AInv'
<1>. USE DEF AInv, BeginAdd
<1>1. n \in Nat /\ n > 0
  BY RequestAssumption
<1>2. /\ call' = [phase |-> "merge", kind |-> k, cursor |-> 0,
                  requested |-> n, remaining |-> n, added |-> 0]
      /\ start' = items /\ items' = items /\ items \in Inventories
  BY DEF InventoryTypeOK
<1>3. InventoryTypeOK'
  BY <1>1, <1>2, InventoryAssumption, RequestAssumption DEF InventoryTypeOK, Calls, Phases
<1>4. Got(items, items, k) = {}
  <2>1. ASSUME NEW p \in FreePlaces(items, k) PROVE ~(p[2] <= items[p[1]].qty)
    <3>1. p \in Place(k)
      BY GotFinite
    <3>2. p[1] \in Slots /\ p[2] \in Int /\ p = <<p[1], p[2]>>
      BY <3>1, InventoryAssumption DEF Place
    <3>3. p[2] > items[p[1]].qty /\ items[p[1]].qty \in Nat
      BY <1>2, <3>2, FreePlaceIn, SlotType
    <3>. QED
      BY <3>2, <3>3
  <2>. QED
    BY <2>1 DEF Got
<1>5. TopsUp(items, items, k) /\ InOrder(items, items, k) /\ Cardinality(Got(items, items, k)) = 0
  BY <1>4, FS_EmptySet DEF TopsUp, InOrder
<1>6. Adding'
  BY <1>1, <1>2, <1>5 DEF Adding
<1>7. PassedAreFull' /\ NoRoomForRest'
  BY <1>2 DEF PassedAreFull, NoRoomForRest, CanStackWith, Slots
<1>. QED
  BY <1>3, <1>6, <1>7

\* What the first loop does to the stack it is at.
LEMMA MergeGrows ==
  ASSUME NEW st \in Inventories, NEW iv \in Inventories, NEW k \in Kinds,
         NEW s \in Slots, NEW m \in Nat \ {0},
         TopsUp(st, iv, k), InOrder(st, iv, k), s \in CanStackWith(iv, k),
         iv[s].qty + m <= MaxStack[k],
         \A t \in Slots : t >= s \/ st[t] = Empty => iv[t] = st[t],
         \A t \in CanStackWith(iv, k) : t >= s,
         NEW iv2, Puts(iv, s, [kind |-> k, qty |-> iv[s].qty + m], iv2)
  PROVE  /\ TopsUp(st, iv2, k) /\ InOrder(st, iv2, k)
         /\ Cardinality(Got(st, iv2, k)) = Cardinality(Got(st, iv, k)) + m
         /\ \A t \in Slots : t >= s + 1 \/ st[t] = Empty => iv2[t] = st[t]
         /\ iv[s].qty + m = MaxStack[k] => \A t \in CanStackWith(iv2, k) : t >= s + 1
<1>1. \A t \in Slots : t \in Int /\ t >= t
  BY InventoryAssumption DEF Slots
<1>2. iv[s] = st[s] /\ st[s] # Empty /\ s \in CanStackWith(st, k)
  BY <1>1, InventoryAssumption DEF CanStackWith, Empty
<1>3. MaxStack[k] \in Nat /\ iv[s].qty \in Nat
  BY SlotType, InventoryAssumption
<1>4. ASSUME NEW p \in FreePlaces(st, k), p[1] # s, FilledBefore(st, p, <<s, MaxStack[k]>>)
      PROVE  p \in Got(st, iv, k)
  <2>1. p \in Place(k)
    BY <1>4, GotFinite
  <2>2. p[1] \in Slots /\ p[2] \in 1 .. MaxStack[k] /\ p = <<p[1], p[2]>>
    BY <2>1 DEF Place
  <2>3. st[p[1]] # Empty /\ p[1] < s
    <3>. DEFINE z == <<s, MaxStack[k]>>
    <3>1. z[1] = s
      OBVIOUS
    <3>2. FilledBefore(st, p, z)
      BY <1>4
    <3>. HIDE DEF z
    <3>. QED
      BY <1>2, <1>4, <3>1, <3>2 DEF FilledBefore
  <2>4. p[1] \in CanStackWith(st, k)
    <3>1. p[2] \in Int
      BY <1>3, <2>2
    <3>2. p[1] \in FreeSlots(st) \cup CanStackWith(st, k)
      BY <2>2, <3>1, FreePlaceIn
    <3>. QED
      BY <2>3, <3>2 DEF FreeSlots
  <2>5. p[1] \notin CanStackWith(iv, k)
    BY <1>1, <2>2, <2>3
  <2>6. iv[p[1]].kind = k /\ iv[p[1]].qty \in Nat
    BY <2>2, <2>4, SlotType DEF TopsUp, CanStackWith
  <2>7. iv[p[1]].qty >= MaxStack[k]
    BY <1>3, <2>2, <2>4, <2>5, <2>6 DEF CanStackWith
  <2>. QED
    BY <1>3, <1>4, <2>2, <2>6, <2>7 DEF Got
<1>5. /\ TopsUp(st, iv2, k) /\ InOrder(st, iv2, k)
      /\ Cardinality(Got(st, iv2, k)) = Cardinality(Got(st, iv, k)) + m
  BY <1>2, <1>4, GrowSlot
<1>6. iv2[s] = [kind |-> k, qty |-> iv[s].qty + m] /\ \A t \in Slots : t # s => iv2[t] = iv[t]
  BY DEF Puts
<1>7. \A t \in Slots : t >= s + 1 \/ st[t] = Empty => iv2[t] = st[t]
  BY <1>1, <1>2, <1>6
<1>8. ASSUME iv[s].qty + m = MaxStack[k], NEW t \in CanStackWith(iv2, k) PROVE t >= s + 1
  <2>1. t \in Slots /\ iv2[t].qty < MaxStack[k]
    BY <1>8 DEF CanStackWith
  <2>2. t # s
    BY <1>3, <1>6, <1>8, <2>1
  <2>3. t \in CanStackWith(iv, k)
    BY <1>6, <1>8, <2>1, <2>2 DEF CanStackWith
  <2>. QED
    BY <1>1, <2>1, <2>2, <2>3
<1>. QED
  BY <1>5, <1>7, <1>8

LEMMA MergeStepAInv ==
  ASSUME AInv, MergeStep
  PROVE  AInv'
<1>. DEFINE s == call.cursor
            k == call.kind
            q == start[s].qty
            m == AddToStack(s, call.remaining)
<1>. USE DEF AInv, MergeStep
<1>1. /\ call.phase = "merge" /\ call.remaining > 0 /\ s \in Slots /\ s \in Nat
      /\ k \in Kinds /\ call \in Calls /\ items \in Inventories /\ start \in Inventories
      /\ start' = start
  BY InventoryAssumption DEF InventoryTypeOK, Calls, Slots, Adding
<1>2. /\ call.remaining \in Nat /\ call.added \in Nat /\ call.added + call.remaining = call.requested
      /\ TopsUp(start, items, k) /\ InOrder(start, items, k) /\ Cardinality(Got(start, items, k)) = call.added
  BY <1>1 DEF Adding
<1>3. items[s] = start[s]
  BY <1>1 DEF PassedAreFull
<1>4. \A t \in CanStackWith(items, k) : t >= s
  BY <1>1 DEF PassedAreFull
<1>5. CASE s \notin CanStackWith(items, k)
  <2>1. items' = items /\ call' = [call EXCEPT !.cursor = s + 1]
    BY <1>5
  <2>2. InventoryTypeOK'
    BY <1>1, <2>1, InventoryAssumption DEF InventoryTypeOK, Calls, Slots
  <2>3. Adding'
    BY <1>1, <1>2, <2>1 DEF Adding, Calls
  <2>4. \A t \in CanStackWith(items, k) : t >= s + 1
    BY <1>1, <1>4, <1>5 DEF CanStackWith, Slots
  <2>5. PassedAreFull' /\ NoRoomForRest'
    BY <1>1, <2>1, <2>4 DEF PassedAreFull, NoRoomForRest, Calls, Slots
  <2>. QED
    BY <2>2, <2>3, <2>5
<1>6. CASE s \in CanStackWith(items, k)
  <2>1. /\ items[s].kind = k /\ items[s].qty < MaxStack[k]
        /\ items[s].qty \in Nat /\ MaxStack[k] \in Nat
        /\ items[s] = [kind |-> items[s].kind, qty |-> items[s].qty]
    BY <1>1, <1>6, SlotType, InventoryAssumption DEF CanStackWith, Stacks, Empty
  <2>2. m \in Nat \ {0} /\ items[s].qty + m <= MaxStack[k] /\ m <= call.remaining
        /\ (m < call.remaining => items[s].qty + m = MaxStack[k])
    BY <1>1, <1>2, <2>1 DEF AddToStack, MinOf
  <2>3. /\ call'.phase = "merge" /\ call'.kind = k /\ call'.cursor = s + 1
        /\ call'.remaining = call.remaining - m /\ call'.added = call.added + m
        /\ call'.requested = call.requested
        /\ call' = [call EXCEPT !.cursor = s + 1, !.remaining = call.remaining - m,
                               !.added = call.added + m]
    BY <1>1, <1>6 DEF Calls
  <2>4. Puts(items, s, [kind |-> k, qty |-> items[s].qty + m], items')
    <3>1. items' = [items EXCEPT ![s] = [kind |-> k, qty |-> items[s].qty + m]]
      BY <1>1, <1>6, <2>1
    <3>2. [kind |-> k, qty |-> items[s].qty + m] \in Stacks
      BY <1>1, <2>1, <2>2 DEF Stacks
    <3>. QED
      BY <1>1, <3>1, <3>2, PutSlot
  <2>5. \A t \in Slots : t >= s \/ start[t] = Empty => items[t] = start[t]
    BY <1>1 DEF PassedAreFull
  <2>6. /\ items' \in Inventories
        /\ TopsUp(start, items', k) /\ InOrder(start, items', k)
        /\ Cardinality(Got(start, items', k)) = call.added + m
        /\ \A t \in Slots : t >= s + 1 \/ start[t] = Empty => items'[t] = start[t]
        /\ items[s].qty + m = MaxStack[k] => \A t \in CanStackWith(items', k) : t >= s + 1
    <3>1. items \in Inventories /\ start \in Inventories /\ k \in Kinds /\ s \in Slots
      BY <1>1
    <3>2. TopsUp(start, items, k) /\ InOrder(start, items, k) /\ Cardinality(Got(start, items, k)) = call.added
      BY <1>2
    <3>. HIDE DEF s, k, m, AInv, MergeStep
    <3>. QED
      BY <1>4, <1>6, <2>2, <2>4, <2>5, <3>1, <3>2, MergeGrows, PutsInventory
  <2>. HIDE DEF m
  <2>7. InventoryTypeOK'
    <3>1. s + 1 \in 0 .. Capacity /\ call.remaining - m \in Int /\ call.added + m \in Int
      BY <1>1, <1>2, <2>2, InventoryAssumption DEF Slots
    <3>2. call' \in Calls
      BY <1>1, <2>3, <3>1 DEF Calls
    <3>. QED
      BY <1>1, <2>6, <3>2 DEF InventoryTypeOK
  <2>8. Adding'
    <3>1. call.remaining - m \in Nat /\ call.added + m \in Nat
          /\ (call.added + m) + (call.remaining - m) = call.requested
      BY <1>2, <2>2
    <3>. QED
      BY <1>1, <2>3, <2>6, <3>1 DEF Adding
  <2>9. PassedAreFull' /\ NoRoomForRest'
    <3>1. call'.remaining > 0 => items[s].qty + m = MaxStack[k]
      BY <1>2, <2>2, <2>3
    <3>. QED
      BY <1>1, <2>3, <2>6, <3>1 DEF PassedAreFull, NoRoomForRest
  <2>. QED
    BY <2>7, <2>8, <2>9
<1>. QED
  BY <1>5, <1>6

LEMMA EndMergeAInv ==
  ASSUME AInv, EndMerge
  PROVE  AInv'
<1>. USE DEF AInv, EndMerge
<1>1. /\ call \in Calls /\ call.phase = "merge" /\ items' = items /\ start' = start
      /\ call' = [call EXCEPT !.phase = "open"]
  BY DEF InventoryTypeOK
<1>2. InventoryTypeOK' /\ Adding' /\ PassedAreFull'
  BY <1>1 DEF InventoryTypeOK, Calls, Phases, Adding, PassedAreFull
<1>3. call.remaining > 0 => CanStackWith(items, call.kind) = {}
  BY <1>1, InventoryAssumption DEF PassedAreFull, CanStackWith, Slots, Calls
<1>4. NoRoomForRest'
  BY <1>1, <1>3 DEF NoRoomForRest, Calls
<1>. QED
  BY <1>2, <1>4

\* What the second loop does to the lowest free slot.
LEMMA OpenGrows ==
  ASSUME NEW st \in Inventories, NEW iv \in Inventories, NEW k \in Kinds,
         NEW s \in Slots, NEW m \in Nat \ {0},
         TopsUp(st, iv, k), InOrder(st, iv, k), CanStackWith(iv, k) = {},
         s \in FreeSlots(iv), \A t \in FreeSlots(iv) : s <= t, m <= MaxStack[k],
         NEW iv2, Puts(iv, s, [kind |-> k, qty |-> m], iv2)
  PROVE  /\ TopsUp(st, iv2, k) /\ InOrder(st, iv2, k)
         /\ Cardinality(Got(st, iv2, k)) = Cardinality(Got(st, iv, k)) + m
         /\ m = MaxStack[k] => CanStackWith(iv2, k) = {}
<1>1. /\ \A t \in Slots : t \in Int /\ iv[t].qty \in Nat /\ st[t].qty \in Nat
      /\ MaxStack[k] \in Nat \ {0} /\ NoKind # k
  BY SlotType, InventoryAssumption DEF Slots
<1>2. iv[s] = Empty /\ st[s] = Empty /\ st[s].qty = 0 /\ s \in FreeSlots(st)
  BY <1>1 DEF FreeSlots, TopsUp, Empty
<1>3. ASSUME NEW p \in FreePlaces(st, k), p[1] # s, FilledBefore(st, p, <<s, MaxStack[k]>>)
      PROVE  p \in Got(st, iv, k)
  <2>1. p \in Place(k)
    BY <1>3, GotFinite
  <2>2. p[1] \in Slots /\ p[2] \in 1 .. MaxStack[k] /\ p = <<p[1], p[2]>> /\ p[2] \in Int
    BY <1>1, <2>1 DEF Place
  <2>3. st[p[1]] # Empty \/ p[1] < s
    <3>. DEFINE z == <<s, MaxStack[k]>>
    <3>1. z[1] = s
      OBVIOUS
    <3>2. FilledBefore(st, p, z)
      BY <1>3
    <3>. HIDE DEF z
    <3>. QED
      BY <1>2, <1>3, <3>1, <3>2 DEF FilledBefore
  <2>4. p[1] \in FreeSlots(st) \cup CanStackWith(st, k)
    BY <2>2, FreePlaceIn
  <2>5. iv[p[1]].kind = k
    <3>1. CASE p[1] \in CanStackWith(st, k)
      BY <2>2, <3>1 DEF TopsUp, CanStackWith
    <3>2. CASE p[1] \in FreeSlots(st)
      <4>1. iv[p[1]] # Empty
        BY <1>1, <2>2, <2>3, <3>2 DEF FreeSlots
      <4>. QED
        BY <2>2, <3>2, <4>1 DEF TopsUp, FreeSlots
    <3>. QED
      BY <2>4, <3>1, <3>2
  <2>6. iv[p[1]].qty > 0
    BY <1>1, <2>2, <2>5, SlotType DEF Empty
  <2>7. iv[p[1]].qty >= MaxStack[k]
    BY <1>1, <2>2, <2>5, <2>6 DEF CanStackWith
  <2>. QED
    BY <1>1, <1>3, <2>2, <2>7 DEF Got
<1>4. iv[s] = st[s] /\ st[s].qty + m = m /\ st[s].qty + m <= MaxStack[k]
  BY <1>2
<1>5. /\ TopsUp(st, iv2, k) /\ InOrder(st, iv2, k)
      /\ Cardinality(Got(st, iv2, k)) = Cardinality(Got(st, iv, k)) + m
  BY <1>2, <1>3, <1>4, GrowSlot
<1>6. iv2[s] = [kind |-> k, qty |-> m] /\ \A t \in Slots : t # s => iv2[t] = iv[t]
  BY DEF Puts
<1>7. ASSUME m = MaxStack[k], NEW t \in CanStackWith(iv2, k) PROVE FALSE
  <2>1. t # s
    BY <1>1, <1>6, <1>7 DEF CanStackWith
  <2>2. t \in CanStackWith(iv, k)
    BY <1>6, <1>7, <2>1 DEF CanStackWith
  <2>. QED
    BY <2>2
<1>. QED
  BY <1>5, <1>7

LEMMA OpenStackAInv ==
  ASSUME AInv, OpenStack
  PROVE  AInv'
<1>. DEFINE k == call.kind
            m == StackQuantity(call.remaining)
<1>1. /\ call.phase = "open" /\ call.remaining > 0
      /\ k \in Kinds /\ call \in Calls /\ items \in Inventories /\ start \in Inventories
      /\ start' = start
      /\ call.remaining \in Nat /\ call.added \in Nat /\ call.added + call.remaining = call.requested
      /\ TopsUp(start, items, k) /\ InOrder(start, items, k) /\ Cardinality(Got(start, items, k)) = call.added
      /\ CanStackWith(items, k) = {}
  BY DEF AInv, OpenStack, InventoryTypeOK, Adding, NoRoomForRest
<1>2. PICK s \in FindFreeSlot :
         /\ items' = [items EXCEPT ![s] = [kind |-> k, qty |-> m]]
         /\ call' = [call EXCEPT !.remaining = @ - m, !.added = @ + m]
  BY DEF OpenStack
<1>3. s \in Slots /\ s \in FreeSlots(items) /\ \A t \in FreeSlots(items) : s <= t
  BY DEF FindFreeSlot, FreeSlots
<1>4. m \in Nat \ {0} /\ m <= MaxStack[k] /\ m <= call.remaining
      /\ (m < call.remaining => m = MaxStack[k])
  BY <1>1, InventoryAssumption DEF StackQuantity, MinOf
<1>5. /\ call'.phase = "open" /\ call'.kind = k /\ call'.cursor = call.cursor
      /\ call'.remaining = call.remaining - m /\ call'.added = call.added + m
      /\ call'.requested = call.requested
      /\ call' = [call EXCEPT !.remaining = call.remaining - m, !.added = call.added + m]
  BY <1>1, <1>2 DEF Calls
<1>6. /\ items' \in Inventories
      /\ TopsUp(start, items', k) /\ InOrder(start, items', k)
      /\ Cardinality(Got(start, items', k)) = call.added + m
      /\ m = MaxStack[k] => CanStackWith(items', k) = {}
  <2>1. [kind |-> k, qty |-> m] \in Stacks
    BY <1>1, <1>4, InventoryAssumption DEF Stacks
  <2>. HIDE DEF k, m
  <2>2. Puts(items, s, [kind |-> k, qty |-> m], items')
    BY <1>1, <1>2, <1>3, <2>1, PutSlot
  <2>. QED
    BY <1>1, <1>3, <1>4, <2>2, OpenGrows, PutsInventory
<1>. HIDE DEF m
<1>7. InventoryTypeOK'
  <2>1. call.remaining - m \in Int /\ call.added + m \in Int
    BY <1>1, <1>4
  <2>2. call' \in Calls
    BY <1>1, <1>5, <2>1 DEF Calls
  <2>. QED
    BY <1>1, <1>6, <2>2 DEF InventoryTypeOK
<1>8. Adding'
  <2>1. call.remaining - m \in Nat /\ call.added + m \in Nat
        /\ (call.added + m) + (call.remaining - m) = call.requested
    BY <1>1, <1>4
  <2>. QED
    BY <1>1, <1>5, <1>6, <2>1 DEF Adding
<1>9. PassedAreFull' /\ NoRoomForRest'
  <2>1. call'.remaining > 0 => m = MaxStack[k]
    BY <1>1, <1>4, <1>5
  <2>. QED
    BY <1>1, <1>5, <1>6, <2>1 DEF PassedAreFull, NoRoomForRest
<1>. QED
  BY <1>7, <1>8, <1>9 DEF AInv

LEMMA EndOpenAInv ==
  ASSUME AInv, EndOpen
  PROVE  AInv'
<1>. USE DEF AInv, EndOpen
<1>1. /\ call \in Calls /\ call.phase = "open" /\ items' = items /\ start' = start
      /\ call' = [call EXCEPT !.phase = "done"]
  BY DEF InventoryTypeOK
<1>2. InventoryTypeOK' /\ Adding' /\ PassedAreFull'
  BY <1>1 DEF InventoryTypeOK, Calls, Phases, Adding, PassedAreFull
<1>3. NoRoomForRest'
  BY <1>1 DEF NoRoomForRest, Calls
<1>. QED
  BY <1>2, <1>3

\* The steps that leave no AddItem under way.
LEMMA OtherStepsAInv ==
  ASSUME AInv,
         \/ ReturnAdd \/ Clear
         \/ \E s \in Slots, n \in 1 .. MaxRequest : Take(s, n)
         \/ \E s \in Slots, k \in Kinds, n \in 1 .. MaxRequest : AddToSlot(s, k, n)
  PROVE  AInv'
<1>. USE DEF AInv
<1>1. /\ items \in Inventories /\ start \in Inventories /\ call \in Calls /\ NoCall \in Calls
      /\ NoCall.phase = "idle"
  BY InventoryAssumption, RequestAssumption DEF InventoryTypeOK, Calls, Phases, NoCall
<1>2. CASE ReturnAdd
  <2>1. call' = NoCall /\ start' = EmptyInventory /\ items' = items
    BY <1>2 DEF ReturnAdd
  <2>. QED
    BY <1>1, <2>1, EmptyInventoryType DEF InventoryTypeOK, Adding, PassedAreFull, NoRoomForRest
<1>3. ASSUME call.phase = "idle", items' \in Inventories, UNCHANGED <<call, start>>
      PROVE  AInv'
  BY <1>1, <1>3 DEF InventoryTypeOK, Adding, PassedAreFull, NoRoomForRest
<1>4. CASE Clear
  BY <1>3, <1>4, EmptyInventoryType DEF Clear
<1>5. ASSUME NEW s \in Slots, NEW n \in 1 .. MaxRequest, Take(s, n) PROVE AInv'
  <2>1. n \in Nat \ {0}
    BY RequestAssumption
  <2>. QED
    BY <1>1, <1>3, <1>5, <2>1, TakeType DEF Take
<1>6. ASSUME NEW s \in Slots, NEW k \in Kinds, NEW n \in 1 .. MaxRequest, AddToSlot(s, k, n)
      PROVE  AInv'
  <2>1. [kind |-> k, qty |-> n] \in Stacks
    BY <1>6, RequestAssumption DEF AddToSlot, CanAddItemToSlot, Stacks
  <2>2. items' \in Inventories
    BY <1>1, <1>6, <2>1 DEF AddToSlot, TryAddItemToSlot, Inventories
  <2>. QED
    BY <1>3, <1>6, <2>2 DEF AddToSlot
<1>. QED
  BY <1>2, <1>4, <1>5, <1>6

LEMMA NextAInv == AInv /\ [InventoryNext]_inventoryVars => AInv'
<1>1. AInv /\ InventoryNext => AInv'
  BY BeginAddAInv, MergeStepAInv, EndMergeAInv, OpenStackAInv, EndOpenAInv, OtherStepsAInv
  DEF InventoryNext, AddItemStep
<1>2. AInv /\ UNCHANGED inventoryVars => AInv'
  BY DEF inventoryVars, AInv, InventoryTypeOK, Adding, PassedAreFull, NoRoomForRest
<1>. QED
  BY <1>1, <1>2

LEMMA InventoryInductive == InventorySpec => []AInv
  BY InitAInv, NextAInv, PTL DEF InventorySpec

-----------------------------------------------------------------------------
(***************************************************************************)
(* PlayerInventory: the theorems.                                          *)
(***************************************************************************)

\* While a call runs, the inventory is what AddItem makes of what it added.
LEMMA AddedSoFar ==
  ASSUME AInv, call.phase # "idle"
  PROVE  /\ items = AddItem(start, call.kind, call.added)
         /\ Units(items, call.kind) = Units(start, call.kind) + call.added
<1>. DEFINE k == call.kind
            n == call.added
<1>1. /\ items \in Inventories /\ start \in Inventories /\ k \in Kinds /\ n \in Nat
      /\ TopsUp(start, items, k) /\ InOrder(start, items, k) /\ Cardinality(Got(start, items, k)) = n
  BY DEF AInv, InventoryTypeOK, Adding
<1>2. AddedQuantity(start, k, n) = n
  BY <1>1, GotFinite DEF AddedQuantity, MinOf
<1>3. items = AddItem(start, k, n)
  <2>. HIDE DEF k, n
  <2>. QED
    BY <1>1, <1>2, FirstPartIsAddItem
<1>4. Units(AddItem(start, k, n), k) = Units(start, k) + n
  <2>. HIDE DEF k, n
  <2>. QED
    BY <1>1, <1>2, AddItemUnits
<1>. QED
  BY <1>3, <1>4

\* A finished call has added as much of the request as fits.
LEMMA AddedAll ==
  ASSUME AInv, call.phase = "done"
  PROVE  call.added = AddedQuantity(start, call.kind, call.requested)
<1>. DEFINE k == call.kind
            free == FreePlaces(start, k)
            G == Got(start, items, k)
<1>1. /\ items \in Inventories /\ start \in Inventories /\ k \in Kinds
      /\ call.added \in Nat /\ call.remaining \in Nat /\ call.requested = call.added + call.remaining
      /\ TopsUp(start, items, k) /\ Cardinality(G) = call.added
  BY DEF AInv, InventoryTypeOK, Adding
<1>2. Cardinality(G) <= Cardinality(free) /\ Cardinality(free) \in Nat
  BY <1>1, GotFinite
<1>3. CASE call.remaining = 0
  BY <1>1, <1>2, <1>3 DEF AddedQuantity, MinOf
<1>4. CASE call.remaining > 0
  <2>1. CanStackWith(items, k) = {} /\ FreeSlots(items) = {}
    BY <1>4 DEF AInv, NoRoomForRest
  <2>2. ASSUME NEW p \in free PROVE p \in G
    <3>1. p \in Place(k)
      BY <1>1, GotFinite
    <3>2. p[1] \in Slots /\ p[2] \in 1 .. MaxStack[k] /\ p = <<p[1], p[2]>> /\ MaxStack[k] \in Nat \ {0}
      BY <1>1, <3>1, InventoryAssumption DEF Place
    <3>3. p[1] \in FreeSlots(start) \cup CanStackWith(start, k)
      BY <1>1, <3>2, FreePlaceIn
    <3>4. items[p[1]].kind = k
      BY <1>1, <2>1, <3>2, <3>3 DEF TopsUp, FreeSlots, CanStackWith
    <3>5. items[p[1]].qty \in Nat /\ items[p[1]].qty > 0
      BY <1>1, <3>2, <3>4, SlotType, InventoryAssumption DEF Empty
    <3>6. items[p[1]].qty >= MaxStack[k]
      BY <2>1, <3>2, <3>4, <3>5 DEF CanStackWith
    <3>. QED
      BY <3>2, <3>5, <3>6 DEF Got
  <2>3. G = free
    BY <1>1, <2>2, GotFinite
  <2>. QED
    BY <1>1, <1>2, <1>4, <2>3 DEF AddedQuantity, MinOf
<1>. QED
  BY <1>1, <1>3, <1>4

\* AddItem adds exactly what fits, stack by stack in slot order and then into
\* the lowest free slots: nothing is lost, made up or put over a limit, and
\* what it refuses had no room (PlayerInventory.cs:40-150).
THEOREM AddStoresExactlyWhatFits == InventorySpec => []AddStoresWhatFits
<1>1. ASSUME AInv, call.phase # "idle", NEW s \in Slots, start[s] # Empty
      PROVE  items[s].kind = start[s].kind /\ items[s].qty >= start[s].qty
  <2>1. TopsUp(start, items, call.kind) /\ start[s].qty \in Nat /\ items[s].qty \in Nat
    BY <1>1, SlotType DEF AInv, Adding, InventoryTypeOK
  <2>. QED
    BY <1>1, <2>1 DEF TopsUp, FreeSlots, CanStackWith
<1>2. AInv => ResultIsExact
  <2>1. ASSUME AInv, call.phase # "idle"
        PROVE  /\ call.added + call.remaining = call.requested
               /\ call.added >= 0 /\ call.remaining >= 0
    BY <2>1 DEF AInv, Adding
  <2>. QED
    BY <1>1, <2>1, AddedSoFar DEF ResultIsExact
<1>3. AInv => AddStoresWhatFits
  BY <1>2 DEF AInv, AddStoresWhatFits, NoRoomForRest
<1>. QED
  BY <1>3, InventoryInductive, PTL

\* The two loops of AddItem compute the operator that stands for the method in
\* the other modules (PlayerInventory.cs:75-147).
THEOREM LoopsComputeAddItem == InventorySpec => []LoopsMatchOperator
<1>1. ASSUME AInv, call.phase = "done"
      PROVE  items = AddItem(start, call.kind, call.requested)
  <2>. DEFINE k == call.kind
              n == call.requested
  <2>1. /\ items \in Inventories /\ start \in Inventories /\ k \in Kinds /\ n \in Nat
        /\ TopsUp(start, items, k) /\ InOrder(start, items, k)
        /\ Cardinality(Got(start, items, k)) = call.added
    BY <1>1 DEF AInv, InventoryTypeOK, Adding
  <2>2. call.added = AddedQuantity(start, k, n)
    BY <1>1, AddedAll
  <2>. HIDE DEF k, n
  <2>3. items = AddItem(start, k, n)
    BY <2>1, <2>2, FirstPartIsAddItem
  <2>. QED
    BY <2>3 DEF k, n
<1>2. AInv => LoopsMatchOperator
  BY <1>1, AddedAll DEF LoopsMatchOperator
<1>. QED
  BY <1>2, InventoryInductive, PTL

\* Rounding up is exact: r units that fit into f stacks of m need at most f.
LEMMA RoundedUpFits ==
  ASSUME NEW r \in Nat, NEW m \in Nat \ {0}, NEW f \in Nat, r <= f * m
  PROVE  (r + m - 1) \div m <= f
<1>. DEFINE d == (r + m - 1) \div m
<1>1. d \in Int /\ d * m <= r + m - 1
  BY Z3
<1>2. r + m - 1 < (f + 1) * m
  BY Z3
<1>3. d * m < (f + 1) * m
  BY <1>1, <1>2, Z3
<1>. HIDE DEF d
<1>4. d < f + 1
  BY <1>1, <1>3, Z3
<1>. QED
  BY <1>1, <1>4 DEF d

\* The other direction of CheckedAddFits: what fits, CanFullyAddItem allows.
LEMMA FittingAddAllowed ==
  ASSUME NEW st \in Inventories, NEW k \in Kinds, NEW n \in Nat \ {0},
         AddedQuantity(st, k, n) = n
  PROVE  CanFullyAddItem(st, k, n)
<1>. DEFINE M == Cardinality(MergePlaces(st, k))
            O == Cardinality(OpenPlaces(st, k))
            r == n - MinOf(n, M)
            f == Cardinality(FreeSlots(st))
            m == MaxStack[k]
<1>1. /\ MergePlaces(st, k) \in SUBSET Place(k)
      /\ OpenPlaces(st, k) \in SUBSET Place(k)
  BY DEF MergePlaces, OpenPlaces
<1>2. /\ IsFiniteSet(MergePlaces(st, k)) /\ M \in Nat
      /\ IsFiniteSet(OpenPlaces(st, k)) /\ O \in Nat
  BY <1>1, PlacesFinite
<1>3. Cardinality(FreePlaces(st, k)) <= M + O /\ Cardinality(FreePlaces(st, k)) \in Nat
  <2>1. Cardinality(FreePlaces(st, k)) = M + O - Cardinality(MergePlaces(st, k) \cap OpenPlaces(st, k))
    BY <1>2, FS_Union DEF FreePlaces
  <2>2. MergePlaces(st, k) \cap OpenPlaces(st, k) = {}
    BY InventoryAssumption DEF MergePlaces, OpenPlaces, CanStackWith, FreeSlots, Empty
  <2>. QED
    BY <1>2, <2>1, <2>2, FS_EmptySet
<1>4. n <= M + O
  <2>. DEFINE N == Cardinality(FreePlaces(st, k))
  <2>1. n <= N
    BY <1>3 DEF AddedQuantity, MinOf
  <2>. HIDE DEF M, O, N
  <2>. QED
    BY <1>2, <1>3, <2>1 DEF N
<1>5. m \in Nat \ {0} /\ f \in Nat /\ O = f * m
  BY InventoryAssumption, OpenPlacesCount
<1>6. r \in Nat /\ r <= O
  BY <1>2, <1>4 DEF MinOf
<1>7. (r + m - 1) \div m <= f
  <2>. HIDE DEF r, m, f, O
  <2>. QED
    BY <1>5, <1>6, RoundedUpFits
<1>. QED
  BY <1>7 DEF CanFullyAddItem

\* CanFullyAddItem, asked on the same inventory, says whether AddItem will add
\* the whole request, both ways (GameWorld.cs:404, 427; PlayerInventory.cs:213-264).
THEOREM CheckAlwaysPredicts == InventorySpec => []CheckPredictsAdd
<1>1. ASSUME AInv, call.phase = "done"
      PROVE  CanFullyAddItem(start, call.kind, call.requested) <=> call.remaining = 0
  <2>. DEFINE k == call.kind
              n == call.requested
  <2>1. /\ start \in Inventories /\ k \in Kinds /\ n \in Nat
        /\ call.added \in Nat /\ call.remaining \in Nat /\ n = call.added + call.remaining
    BY <1>1 DEF AInv, InventoryTypeOK, Adding
  <2>2. call.added = AddedQuantity(start, k, n)
    BY <1>1, AddedAll
  <2>3. n # 0
    BY <1>1 DEF AInv, Adding
  <2>. HIDE DEF k, n
  <2>4. CanFullyAddItem(start, k, n) <=> AddedQuantity(start, k, n) = n
    BY <2>1, <2>3, CheckedAddFits, FittingAddAllowed
  <2>. QED
    BY <2>1, <2>2, <2>4 DEF k, n
<1>2. AInv => CheckPredictsAdd
  BY <1>1 DEF CheckPredictsAdd, Success
<1>. QED
  BY <1>2, InventoryInductive, PTL

-----------------------------------------------------------------------------
(***************************************************************************)
(* LootWorld: the inductive invariant.                                     *)
(***************************************************************************)

\* Only ids already handed out name items, and an item keeps its stack.
ItemsAreSpawned ==
    \A i \in Ids : /\ IsItem(i) => i <= nextId /\ item[i].stack \in Stacks
                   /\ item[i].stack \in Stacks => IsItem(i)

\* A player's own world object is not an item.
PlayersAreNotItems == \A s \in Sessions : InWorld(s) => player[s] \in Ids /\ ~IsItem(player[s])

\* A pickup works on an item, in the dictionary or not.
TargetsAreItems ==
    \A s \in Sessions : pc[s] \in {"found", "near", "fits", "taken", "stored", "refused"} =>
        target[s] \in Ids /\ IsItem(target[s])

\* A session that emptied an item knows how much it took.
HoldersEmptiedTheItem ==
    \A s \in Sessions : Holds(s) =>
        item[target[s]].qty = 0 /\ qty[s] = item[target[s]].stack.qty

\* Between the check and the store the session's inventory still has the room.
CheckStillHolds ==
    \A s \in Sessions : pc[s] \in {"fits", "taken"} =>
        CanFullyAddItem(inv[s], item[target[s]].stack.kind, item[target[s]].stack.qty)

\* The hand of a session that is dropping holds a stack.
HandsAreFull == \A s \in Sessions : pc[s] = "dropping" => hand[s] \in Stacks

\* A session without a player handles no loot request.
IdleOutside == \A s \in Sessions : ~InWorld(s) => pc[s] = "idle"

IInv ==
    /\ TypeOK
    /\ IdleOutside
    /\ ItemsAreSpawned
    /\ PlayersAreNotItems
    /\ TargetsAreItems
    /\ TakeableIffUnits
    /\ HoldersEmptiedTheItem
    /\ OneTaker
    /\ CheckStillHolds
    /\ UndoNeverRuns
    /\ HandsAreFull

-----------------------------------------------------------------------------
(***************************************************************************)
(* LootWorld: initial states.                                              *)
(***************************************************************************)
LEMMA LootTypes ==
  /\ MaxObjectId \in Nat /\ Len(InitialLoot) \in Nat /\ Len(InitialLoot) <= MaxObjectId
  /\ \A i \in InitialIds : InitialLoot[i] \in Stacks
  /\ Empty \notin Stacks
  BY LootAssumption, InventoryAssumption DEF InitialIds, Stacks, Empty

\* A world item made from a stack is an item with that stack, and takeable.
LEMMA WorldItemType ==
  ASSUME NEW st \in Stacks
  PROVE  /\ WorldItem(st) \in [stack : Stacks \cup {Empty}, qty : Nat, active : BOOLEAN]
         /\ WorldItem(st) # NoItem /\ WorldItem(st).stack = st
         /\ WorldItem(st).qty = st.qty /\ st.qty > 0 /\ WorldItem(st).active
  BY LootTypes DEF WorldItem, NoItem, Stacks

LEMMA InitIInv == Init => IInv
<1>. SUFFICES ASSUME Init PROVE IInv
  OBVIOUS
<1>1. InitialIds \subseteq Ids
  BY LootTypes DEF InitialIds, Ids
<1>2. NoItem \in [stack : Stacks \cup {Empty}, qty : Nat, active : BOOLEAN] /\ NoItem.stack = Empty
  BY DEF NoItem
<1>3. TypeOK
  BY <1>1, <1>2, LootTypes, WorldItemType, EmptyInventoryType
  DEF Init, TypeOK, Places, InitialIds
<1>4. ItemsAreSpawned /\ PlayersAreNotItems
  BY <1>1, <1>2, LootTypes, WorldItemType
  DEF Init, ItemsAreSpawned, PlayersAreNotItems, IsItem, InWorld, InitialIds
<1>5. TakeableIffUnits
  BY <1>1, <1>2, LootTypes, WorldItemType DEF Init, TakeableIffUnits, IsItem
<1>6. /\ TargetsAreItems /\ HoldersEmptiedTheItem /\ OneTaker
      /\ CheckStillHolds /\ UndoNeverRuns /\ HandsAreFull /\ IdleOutside
  BY DEF Init, TargetsAreItems, HoldersEmptiedTheItem, OneTaker, CheckStillHolds,
         UndoNeverRuns, HandsAreFull, Holds, IdleOutside
<1>. QED
  BY <1>3, <1>4, <1>5, <1>6 DEF IInv

-----------------------------------------------------------------------------
(***************************************************************************)
(* LootWorld: steps, one lemma per action.                                 *)
(***************************************************************************)
LEMMA AddPlayerIInv ==
  ASSUME IInv, NEW s \in Sessions, AddPlayer(s)
  PROVE  IInv'
<1>. USE DEF IInv, AddPlayer
<1>1. nextId' = nextId + 1 /\ nextId' \in Ids /\ nextId \in Nat /\ nextId' <= MaxObjectId
  BY LootTypes DEF IdAvailable, TypeOK, Ids
<1>2. pc' = pc /\ target' = target /\ item' = item /\ qty' = qty /\ hand' = hand
  OBVIOUS
<1>3. pc[s] = "idle"
  BY DEF IdleOutside
<1>4. TypeOK'
  <2>1. nextId' \in 0 .. MaxObjectId /\ objects' \subseteq 1 .. nextId'
    BY <1>1, LootTypes DEF TypeOK
  <2>2. player' \in [Sessions -> 0 .. nextId']
    BY <1>1 DEF TypeOK
  <2>3. inv' \in [Sessions -> Inventories]
    BY LootAssumption DEF TypeOK
  <2>. QED
    BY <1>2, <2>1, <2>2, <2>3 DEF TypeOK
<1>5. ItemsAreSpawned' /\ PlayersAreNotItems'
  BY <1>1, <1>2 DEF ItemsAreSpawned, PlayersAreNotItems, IsItem, InWorld, TypeOK
<1>6. TakeableIffUnits'
  BY <1>1, <1>2 DEF TakeableIffUnits, IsItem
<1>7. CheckStillHolds'
  BY <1>2, <1>3 DEF CheckStillHolds, TypeOK
<1>. QED
  BY <1>2, <1>3, <1>4, <1>5, <1>6, <1>7
  DEF TargetsAreItems, HoldersEmptiedTheItem, OneTaker, UndoNeverRuns, HandsAreFull,
      IsItem, Holds, IdleOutside, InWorld, TypeOK

LEMMA RemovePlayerIInv ==
  ASSUME IInv, NEW s \in Sessions, RemovePlayer(s)
  PROVE  IInv'
<1>. USE DEF IInv, RemovePlayer
<1>1. TypeOK'
  <2>1. 0 \in 0 .. nextId /\ nextId' = nextId
    BY DEF TypeOK
  <2>2. player' \in [Sessions -> 0 .. nextId']
    BY <2>1 DEF TypeOK
  <2>. QED
    BY <2>1, <2>2 DEF TypeOK
<1>2. TakeableIffUnits'
  BY DEF TakeableIffUnits, IsItem, PlayersAreNotItems
<1>3. PlayersAreNotItems'
  BY DEF PlayersAreNotItems, IsItem, InWorld, TypeOK
<1>. QED
  BY <1>1, <1>2, <1>3
  DEF ItemsAreSpawned, TargetsAreItems, HoldersEmptiedTheItem, OneTaker, CheckStillHolds,
      UndoNeverRuns, HandsAreFull, IsItem, Holds, IdleOutside, InWorld, TypeOK

LEMMA PickupFindIInv ==
  ASSUME IInv, NEW s \in Sessions, NEW i \in objects, PickupFind(s, i)
  PROVE  IInv'
<1>. USE DEF IInv, PickupFind
<1>1. i \in Ids
  BY LootTypes DEF TypeOK, Ids
<1>2. TypeOK'
  BY <1>1, LootTypes DEF TypeOK, Places, Ids
<1>3. TargetsAreItems'
  BY <1>1 DEF TargetsAreItems, IsItem, TypeOK
<1>4. CheckStillHolds' /\ HoldersEmptiedTheItem' /\ OneTaker'
  BY DEF CheckStillHolds, HoldersEmptiedTheItem, OneTaker, Holds, TypeOK
<1>. QED
  BY <1>2, <1>3, <1>4
  DEF ItemsAreSpawned, PlayersAreNotItems, TakeableIffUnits,
      UndoNeverRuns, HandsAreFull, IsItem, IdleOutside, InWorld, TypeOK

LEMMA PickupSeeActiveIInv ==
  ASSUME IInv, NEW s \in Sessions, PickupSeeActive(s)
  PROVE  IInv'
<1>. USE DEF IInv, PickupSeeActive
<1>1. TypeOK'
  BY DEF TypeOK, Places
<1>2. TargetsAreItems' /\ CheckStillHolds' /\ HoldersEmptiedTheItem' /\ OneTaker'
  BY DEF TargetsAreItems, CheckStillHolds, HoldersEmptiedTheItem, OneTaker, Holds, IsItem, TypeOK
<1>. QED
  BY <1>1, <1>2
  DEF ItemsAreSpawned, PlayersAreNotItems, TakeableIffUnits,
      UndoNeverRuns, HandsAreFull, IsItem, IdleOutside, InWorld, TypeOK

LEMMA PickupFitsIInv ==
  ASSUME IInv, NEW s \in Sessions, PickupFits(s)
  PROVE  IInv'
<1>. USE DEF IInv, PickupFits
<1>1. target[s] \in Ids /\ IsItem(target[s])
  BY DEF TargetsAreItems
<1>2. item[target[s]].qty \in Nat /\ item[target[s]].qty > 0
  BY <1>1 DEF TypeOK, CanFullyAddItem
<1>3. item[target[s]].qty = item[target[s]].stack.qty
  BY <1>1, <1>2 DEF TakeableIffUnits
<1>4. TypeOK'
  BY <1>2 DEF TypeOK, Places
<1>5. CheckStillHolds'
  BY <1>3 DEF CheckStillHolds, TypeOK
<1>6. TargetsAreItems' /\ HoldersEmptiedTheItem' /\ OneTaker'
  BY DEF TargetsAreItems, HoldersEmptiedTheItem, OneTaker, Holds, IsItem, TypeOK
<1>. QED
  BY <1>4, <1>5, <1>6
  DEF ItemsAreSpawned, PlayersAreNotItems, TakeableIffUnits,
      UndoNeverRuns, HandsAreFull, IsItem, IdleOutside, InWorld, TypeOK

LEMMA TryTakeAllIInv ==
  ASSUME IInv, NEW s \in Sessions, TryTakeAll(s)
  PROVE  IInv'
<1>. DEFINE i == target[s]
<1>. USE DEF IInv, TryTakeAll
<1>1. i \in Ids /\ IsItem(i)
  BY DEF TargetsAreItems
<1>2. item[i].active /\ item[i].qty > 0 /\ item[i].qty \in Nat /\ item[i].qty = item[i].stack.qty
  BY <1>1 DEF Takeable, TakeableIffUnits, TypeOK
<1>3. ~\E t \in Sessions : Holds(t) /\ target[t] = i
  BY <1>2 DEF HoldersEmptiedTheItem
<1>4. /\ item'[i].stack = item[i].stack /\ item'[i].qty = 0 /\ item'[i].active = FALSE
      /\ \A j \in Ids \ {i} : item'[j] = item[j]
      /\ item'[i] \in [stack : Stacks \cup {Empty}, qty : Nat, active : BOOLEAN]
      /\ item' \in [Ids -> [stack : Stacks \cup {Empty}, qty : Nat, active : BOOLEAN]]
  BY <1>1 DEF Taken, TypeOK
<1>5. item[i].stack \in Stacks /\ item'[i] # NoItem
  <2>1. item[i].stack \in Stacks
    BY <1>1 DEF ItemsAreSpawned
  <2>2. item'[i].stack # Empty /\ NoItem.stack = Empty
    BY <1>4, <2>1, LootTypes DEF NoItem
  <2>. QED
    BY <2>1, <2>2
<1>6. \A j \in Ids : IsItem(j)' <=> IsItem(j)
  BY <1>1, <1>4, <1>5 DEF IsItem
<1>7. TypeOK'
  BY <1>2, <1>4 DEF TypeOK, Places
<1>8. ItemsAreSpawned' /\ PlayersAreNotItems'
  BY <1>4, <1>5, <1>6 DEF ItemsAreSpawned, PlayersAreNotItems, InWorld
<1>9. TakeableIffUnits'
  BY <1>4, <1>6 DEF TakeableIffUnits
<1>10. TargetsAreItems'
  BY <1>1, <1>6 DEF TargetsAreItems, TypeOK
<1>11. HoldersEmptiedTheItem'
  BY <1>1, <1>2, <1>4, <1>10 DEF HoldersEmptiedTheItem, TargetsAreItems, Holds, TypeOK
<1>12. OneTaker'
  BY <1>3 DEF OneTaker, Holds, TypeOK
<1>13. CheckStillHolds'
  BY <1>4, <1>10 DEF CheckStillHolds, TargetsAreItems, TypeOK
<1>. QED
  BY <1>7, <1>8, <1>9, <1>10, <1>11, <1>12, <1>13
  DEF UndoNeverRuns, HandsAreFull, IdleOutside, InWorld, TypeOK

LEMMA PickupStoreIInv ==
  ASSUME IInv, NEW s \in Sessions, PickupStore(s)
  PROVE  IInv'
<1>. DEFINE k == item[target[s]].stack.kind
<1>. USE DEF IInv, PickupStore
<1>1. target[s] \in Ids /\ item[target[s]].stack \in Stacks
  BY DEF TargetsAreItems, ItemsAreSpawned
<1>2. k \in Kinds /\ qty[s] \in Nat /\ inv[s] \in Inventories
  BY <1>1 DEF Stacks, TypeOK
<1>3. qty[s] = item[target[s]].stack.qty
  BY DEF HoldersEmptiedTheItem, Holds
<1>4. CanFullyAddItem(inv[s], k, qty[s])
  BY <1>3 DEF CheckStillHolds
<1>5. AddedQuantity(inv[s], k, qty[s]) = qty[s]
  BY <1>2, <1>4, CheckedAddFits
<1>6. AddItem(inv[s], k, qty[s]) \in Inventories
  BY <1>2, AddItemType
<1>7. pc' = [pc EXCEPT ![s] = "stored"]
  BY <1>5
<1>8. TypeOK'
  BY <1>6, <1>7 DEF TypeOK, Places
<1>9. UndoNeverRuns' /\ CheckStillHolds'
  BY <1>7 DEF UndoNeverRuns, CheckStillHolds, TypeOK
<1>10. TargetsAreItems' /\ HoldersEmptiedTheItem' /\ OneTaker'
  BY <1>7 DEF TargetsAreItems, HoldersEmptiedTheItem, OneTaker, Holds, IsItem, TypeOK
<1>. QED
  BY <1>7, <1>8, <1>9, <1>10
  DEF ItemsAreSpawned, PlayersAreNotItems, TakeableIffUnits,
      HandsAreFull, IsItem, IdleOutside, InWorld, TypeOK

LEMMA PickupFinishIInv ==
  ASSUME IInv, NEW s \in Sessions, PickupFinish(s)
  PROVE  IInv'
<1>. USE DEF IInv, PickupFinish
<1>1. pc[s] = "stored" /\ objects' = objects \ {target[s]} /\ item' = item
  BY DEF UndoNeverRuns
<1>2. item[target[s]].qty = 0
  BY <1>1 DEF HoldersEmptiedTheItem, Holds
<1>3. TypeOK'
  BY <1>1, LootTypes DEF TypeOK, Places
<1>4. TakeableIffUnits'
  BY <1>1, <1>2 DEF TakeableIffUnits, IsItem
<1>5. TargetsAreItems' /\ HoldersEmptiedTheItem' /\ OneTaker' /\ CheckStillHolds'
  BY <1>1 DEF TargetsAreItems, HoldersEmptiedTheItem, OneTaker, CheckStillHolds, Holds,
              IsItem, TypeOK
<1>. QED
  BY <1>1, <1>3, <1>4, <1>5
  DEF ItemsAreSpawned, PlayersAreNotItems, UndoNeverRuns,
      HandsAreFull, IsItem, IdleOutside, InWorld, TypeOK

LEMMA PickupFailIInv ==
  ASSUME IInv, NEW s \in Sessions, PickupFail(s)
  PROVE  IInv'
<1>. USE DEF IInv, PickupFail
<1>1. TypeOK'
  BY LootTypes DEF TypeOK, Places
<1>2. TargetsAreItems' /\ HoldersEmptiedTheItem' /\ OneTaker' /\ CheckStillHolds'
  BY DEF TargetsAreItems, HoldersEmptiedTheItem, OneTaker, CheckStillHolds, Holds,
         IsItem, TypeOK
<1>. QED
  BY <1>1, <1>2
  DEF ItemsAreSpawned, PlayersAreNotItems, TakeableIffUnits, UndoNeverRuns,
      HandsAreFull, IsItem, IdleOutside, InWorld, TypeOK

LEMMA DropTakeIInv ==
  ASSUME IInv, NEW s \in Sessions, NEW slot \in Slots, NEW n \in Nat \ {0},
         DropTake(s, slot, n)
  PROVE  IInv'
<1>. USE DEF IInv, DropTake
<1>1. /\ TakeItemFromSlot(inv[s], slot, n) \in Inventories
      /\ [kind |-> inv[s][slot].kind, qty |-> TakenQuantity(inv[s], slot, n)] \in Stacks
  BY TakeType DEF TypeOK
<1>2. hand'[s] \in Stacks
  BY <1>1 DEF TypeOK
<1>3. TypeOK'
  BY <1>1 DEF TypeOK, Places
<1>4. HandsAreFull'
  BY <1>2 DEF HandsAreFull, TypeOK
<1>5. TargetsAreItems' /\ HoldersEmptiedTheItem' /\ OneTaker' /\ CheckStillHolds'
  BY DEF TargetsAreItems, HoldersEmptiedTheItem, OneTaker, CheckStillHolds, Holds,
         IsItem, TypeOK
<1>. QED
  BY <1>3, <1>4, <1>5
  DEF ItemsAreSpawned, PlayersAreNotItems, TakeableIffUnits, UndoNeverRuns,
      IsItem, IdleOutside, InWorld, TypeOK

LEMMA SpawnWorldItemIInv ==
  ASSUME IInv, NEW s \in Sessions, SpawnWorldItem(s)
  PROVE  IInv'
<1>. DEFINE new == nextId + 1
<1>. USE DEF IInv, SpawnWorldItem
<1>1. nextId' = new /\ new \in Ids /\ nextId \in Nat /\ new <= MaxObjectId
  BY LootTypes DEF IdAvailable, TypeOK, Ids
<1>2. hand[s] \in Stacks
  BY DEF HandsAreFull
<1>3. ~IsItem(new) /\ \A t \in Sessions : player[t] # new
  BY <1>1, LootTypes DEF ItemsAreSpawned, TypeOK
<1>4. item' = [item EXCEPT ![new] = WorldItem(hand[s])]
  BY <1>1
<1>5. /\ item'[new] = WorldItem(hand[s])
      /\ \A j \in Ids : j # new => item'[j] = item[j]
      /\ item' \in [Ids -> [stack : Stacks \cup {Empty}, qty : Nat, active : BOOLEAN]]
  BY <1>1, <1>2, <1>4, WorldItemType DEF TypeOK
<1>6. TypeOK'
  <2>1. nextId' \in 0 .. MaxObjectId /\ objects' \subseteq 1 .. nextId'
    BY <1>1, LootTypes DEF TypeOK
  <2>2. player' \in [Sessions -> 0 .. nextId']
    BY <1>1 DEF TypeOK
  <2>. QED
    BY <1>5, <2>1, <2>2 DEF TypeOK, Places
<1>7. ItemsAreSpawned'
  <2>1. item'[new].stack \in Stacks /\ item'[new] # NoItem
    BY <1>2, <1>5, WorldItemType
  <2>2. ASSUME NEW j \in Ids, j # new
        PROVE  /\ item'[j] # NoItem => j <= nextId' /\ item'[j].stack \in Stacks
               /\ item'[j].stack \in Stacks => item'[j] # NoItem
    BY <1>1, <1>5, <2>2 DEF ItemsAreSpawned, IsItem, Ids
  <2>. QED
    BY <1>1, <2>1, <2>2 DEF ItemsAreSpawned, IsItem
<1>8. PlayersAreNotItems'
  BY <1>3, <1>5 DEF PlayersAreNotItems, IsItem, InWorld
<1>9. TakeableIffUnits'
  BY <1>1, <1>2, <1>5, WorldItemType DEF TakeableIffUnits, IsItem
<1>10. \A t \in Sessions :
          pc'[t] \in {"found", "near", "fits", "taken", "stored", "refused"} =>
             /\ pc[t] = pc'[t] /\ target[t] \in Ids /\ target[t] # new
             /\ item'[target[t]] = item[target[t]] /\ IsItem(target[t])
  BY <1>3, <1>5 DEF TargetsAreItems, TypeOK
<1>11. TargetsAreItems' /\ HoldersEmptiedTheItem' /\ OneTaker' /\ CheckStillHolds' /\ UndoNeverRuns'
  BY <1>10 DEF TargetsAreItems, HoldersEmptiedTheItem, OneTaker, CheckStillHolds,
               UndoNeverRuns, Holds, IsItem
<1>12. HandsAreFull' /\ IdleOutside'
  BY DEF HandsAreFull, IdleOutside, InWorld, TypeOK
<1>. QED
  BY <1>6, <1>7, <1>8, <1>9, <1>11, <1>12

LEMMA NextIInv == IInv /\ [Next]_vars => IInv'
<1>1. ASSUME IInv, NEW s \in Sessions, Session(s) PROVE IInv'
  <2>1. ASSUME NEW slot \in Slots, NEW n \in 1 .. inv[s][slot].qty + 1, DropTake(s, slot, n)
        PROVE  IInv'
    <3>1. inv[s][slot].qty \in Nat
      BY <1>1, SlotType DEF IInv, TypeOK
    <3>2. n \in Nat \ {0}
      BY <3>1
    <3>. QED
      BY <1>1, <2>1, <3>2, DropTakeIInv
  <2>. QED
    BY <1>1, <2>1, AddPlayerIInv, RemovePlayerIInv, PickupFindIInv, PickupSeeActiveIInv,
       PickupFitsIInv, TryTakeAllIInv, PickupStoreIInv, PickupFinishIInv, PickupFailIInv,
       SpawnWorldItemIInv DEF Session
<1>2. ASSUME IInv, UNCHANGED vars PROVE IInv'
  BY <1>2
  DEF IInv, vars, TypeOK, ItemsAreSpawned, PlayersAreNotItems, TargetsAreItems,
      TakeableIffUnits, HoldersEmptiedTheItem, OneTaker, CheckStillHolds, UndoNeverRuns,
      HandsAreFull, IdleOutside, IsItem, Holds, InWorld
<1>. QED
  BY <1>1, <1>2 DEF Next

-----------------------------------------------------------------------------
(***************************************************************************)
(* LootWorld: the theorems.                                                *)
(***************************************************************************)

\* Every reachable state satisfies the inductive invariant.
LEMMA Inductive == Spec => []IInv
  BY InitIInv, NextIInv, PTL DEF Spec

\* The state stays well formed: no stack beyond its limit, no id handed out twice.
THEOREM TypeCorrect == Spec => []TypeOK
<1>1. IInv => TypeOK
  BY DEF IInv
<1>. QED
  BY <1>1, Inductive, PTL

\* However the handlers of any number of sessions interleave, at most one of
\* them has emptied a given item (WorldItem.cs:77-96).
THEOREM ExactlyOneTaker == Spec => []OneTaker
<1>1. IInv => OneTaker
  BY DEF IInv
<1>. QED
  BY <1>1, Inductive, PTL

\* An item can be taken exactly while it has its units, and one that left the
\* dictionary has none left to take.
THEOREM TakenItemsStayTaken == Spec => []TakeableIffUnits
<1>1. IInv => TakeableIffUnits
  BY DEF IInv
<1>. QED
  BY <1>1, Inductive, PTL

\* The undo of a pickup, which would duplicate units, is never reached: what
\* CanFullyAddItem allowed, AddItem adds (GameWorld.cs:404-442).
THEOREM PickupNeverUndone == Spec => []UndoNeverRuns
<1>1. IInv => UndoNeverRuns
  BY DEF IInv
<1>. QED
  BY <1>1, Inductive, PTL

-----------------------------------------------------------------------------
(***************************************************************************)
(* LootWorld implements LootLedger.  A pickup is the ledger's when the     *)
(* units reach the inventory (PickupStore), a drop when the item is put    *)
(* into the world (SpawnWorldItem); the other steps leave the ledger as it *)
(* is.  What is needed beyond IInv: hands are empty outside a drop, and a  *)
(* session owns nothing before its player enters the world.                *)
(***************************************************************************)
EmptyHands == \A s \in Sessions : pc[s] # "dropping" => hand[s] = Empty

NewcomersOwnNothing ==
    \A s \in Sessions : ~InWorld(s) /\ s \notin left => inv[s] = EmptyInventory

LInv == IInv /\ EmptyHands /\ NewcomersOwnNothing

LEMMA InitLInv == Init => LInv
  BY InitIInv DEF LInv, EmptyHands, NewcomersOwnNothing, Init

LEMMA NextLInv == LInv /\ [Next]_vars => LInv'
<1>1. ASSUME LInv, NEW s \in Sessions, Session(s) PROVE EmptyHands'
  BY <1>1 DEF LInv, EmptyHands, IInv, TypeOK, Session, AddPlayer, RemovePlayer, PickupFind, PickupSeeActive,
     PickupFits, TryTakeAll, PickupStore, PickupFinish, PickupFail, DropTake, SpawnWorldItem
<1>2. ASSUME LInv, NEW s \in Sessions, Session(s) PROVE NewcomersOwnNothing'
  <2>. USE <1>2 DEF LInv, NewcomersOwnNothing, IInv, TypeOK, InWorld
  <2>1. CASE AddPlayer(s)
    <3>1. nextId \in Nat /\ player'[s] = nextId + 1
      BY <2>1, LootTypes DEF AddPlayer
    <3>. QED
      BY <2>1, <3>1 DEF AddPlayer
  <2>2. CASE RemovePlayer(s)
    BY <2>2 DEF RemovePlayer
  <2>3. ASSUME NEW i \in objects, PickupFind(s, i) PROVE NewcomersOwnNothing'
    BY <2>3 DEF PickupFind
  <2>4. CASE PickupSeeActive(s) \/ PickupFits(s) \/ TryTakeAll(s) \/ PickupFinish(s) \/ PickupFail(s)
    BY <2>4 DEF PickupSeeActive, PickupFits, TryTakeAll, PickupFinish, PickupFail
  <2>5. CASE PickupStore(s)
    <3>1. InWorld(s)
      BY <2>5 DEF PickupStore, IdleOutside
    <3>. QED
      BY <2>5, <3>1 DEF PickupStore
  <2>6. ASSUME NEW slot \in Slots, NEW n \in 1 .. inv[s][slot].qty + 1, DropTake(s, slot, n)
        PROVE  NewcomersOwnNothing'
    BY <2>6 DEF DropTake
  <2>7. CASE SpawnWorldItem(s)
    BY <2>7 DEF SpawnWorldItem
  <2>. QED
    BY <2>1, <2>2, <2>3, <2>4, <2>5, <2>6, <2>7 DEF Session
<1>3. ASSUME LInv, UNCHANGED vars PROVE EmptyHands' /\ NewcomersOwnNothing'
  BY <1>3 DEF LInv, vars, EmptyHands, NewcomersOwnNothing, InWorld
<1>. QED
  BY <1>1, <1>2, <1>3, NextIInv DEF Next, LInv

\* The ledger's state, in the words of this module.
Token(i) == [id |-> i, kind |-> item[i].stack.kind, qty |-> item[i].stack.qty]

Lies(i) ==
    /\ IsItem(i)
    /\ \/ item[i].qty > 0
       \/ \E s \in Sessions : pc[s] \in {"taken", "refused"} /\ target[s] = i

Owns == [s \in Sessions |-> [k \in Kinds |-> Owned(s, k)]]

LEMMA GroundIsTokens == OnGround = {Token(i) : i \in {j \in Ids : Lies(j)}}
  BY DEF OnGround, Token, Lies

\* The same items lie on the ground when each lies there as before.
LEMMA SameGround ==
  ASSUME \A i \in Ids : Lies(i)' = Lies(i), \A i \in Ids : Lies(i) => Token(i)' = Token(i)
  PROVE  OnGround' = OnGround
<1>1. OnGround' = {Token(i)' : i \in {j \in Ids : Lies(j)'}}
  BY DEF OnGround, Token, Lies
<1>2. {j \in Ids : Lies(j)'} = {j \in Ids : Lies(j)}
  OBVIOUS
<1>. QED
  BY <1>1, <1>2, GroundIsTokens

LEMMA OwnedType ==
  ASSUME LInv, NEW s \in Sessions, NEW k \in Kinds
  PROVE  /\ Owned(s, k) \in Nat
         /\ Units(inv[s], k) \in Nat
         /\ pc[s] # "dropping" => Owned(s, k) = Units(inv[s], k)
<1>1. hand[s] \in Stacks \cup {Empty} /\ NoKind \notin Kinds
  BY InventoryAssumption DEF LInv, IInv, TypeOK
<1>2. Units(inv[s], k) \in Nat
  BY UnitsType
<1>3. hand[s].qty \in Nat
  BY <1>1 DEF Stacks, Empty
<1>4. pc[s] # "dropping" => hand[s].kind # k
  BY <1>1 DEF LInv, EmptyHands, Empty
<1>. QED
  BY <1>2, <1>3, <1>4 DEF Owned

\* A step that moves no unit between ground and possession is a stutter.
LEMMA LedgerStutters ==
  ASSUME OnGround' = OnGround, nextId' = nextId, Owns' = Owns
  PROVE  UNCHANGED Ledger!vars
  BY DEF Ledger!vars, Owns

LEMMA LedgerInit == Init => Ledger!Init
<1>. SUFFICES ASSUME Init PROVE Ledger!Init
  OBVIOUS
<1>1. InitialIds \subseteq Ids /\ 1 .. nextId = InitialIds
  BY LootTypes DEF Init, InitialIds, Ids
<1>2. ASSUME NEW i \in Ids
      PROVE  /\ Lies(i) <=> i \in InitialIds
             /\ i \in InitialIds => Token(i) = [id |-> i, kind |-> InitialLoot[i].kind, qty |-> InitialLoot[i].qty]
  BY LootTypes, WorldItemType DEF Init, Lies, IsItem, Token
<1>3. OnGround = {[id |-> i, kind |-> InitialLoot[i].kind, qty |-> InitialLoot[i].qty] : i \in InitialIds}
  BY <1>1, <1>2, GroundIsTokens
<1>4. {g.id : g \in {[id |-> i, kind |-> InitialLoot[i].kind, qty |-> InitialLoot[i].qty] : i \in InitialIds}}
        = 1 .. nextId
  <2>. DEFINE new(i) == [id |-> i, kind |-> InitialLoot[i].kind, qty |-> InitialLoot[i].qty]
              G == {new(i) : i \in InitialIds}
  <2>1. \A i \in InitialIds : new(i).id = i
    OBVIOUS
  <2>2. {g.id : g \in G} = InitialIds
    <3>1. ASSUME NEW g \in G PROVE g.id \in InitialIds
      BY <2>1
    <3>2. ASSUME NEW i \in InitialIds PROVE \E g \in G : g.id = i
      <4>1. new(i) \in G
        OBVIOUS
      <4>. QED
        BY <2>1, <4>1
    <3>. HIDE DEF G
    <3>. QED
      BY <3>1, <3>2
  <2>. QED
    BY <1>1, <2>2
<1>5. ASSUME NEW s \in Sessions, NEW k \in Kinds PROVE Owned(s, k) = 0
  <2>1. Units(inv[s], k) = 0
    BY EmptyUnits DEF Init
  <2>2. hand[s].kind # k
    BY InventoryAssumption DEF Init, Empty
  <2>. QED
    BY <2>1, <2>2 DEF Owned
<1>6. Owns = [s \in Sessions |-> [k \in Kinds |-> 0]]
  BY <1>5 DEF Owns
<1>. QED
  BY <1>3, <1>4, <1>6 DEF Ledger!Init, Ledger!Nothing, Owns

LEMMA JoinStep ==
  ASSUME LInv, NEW s \in Sessions, AddPlayer(s)
  PROVE  Ledger!Join(s)
<1>. USE DEF LInv, IInv, AddPlayer
<1>1. nextId \in Nat /\ nextId + 1 \in Ids /\ nextId' = nextId + 1
  BY LootTypes DEF TypeOK, IdAvailable, Ids
<1>2. nextId + 1 \in Ids \ (1 .. nextId) /\ 1 .. nextId' = 1 .. nextId \cup {nextId + 1}
  BY <1>1
<1>3. OnGround' = OnGround
  BY DEF OnGround, IsItem
<1>4. pc[s] # "dropping" /\ inv[s] = EmptyInventory
  BY DEF IdleOutside, NewcomersOwnNothing
<1>5. hand[s] = Empty
  BY <1>4 DEF EmptyHands
<1>6. ASSUME NEW k \in Kinds
      PROVE  Owned(s, k) = 0 /\ Owned(s, k)' = Units(LoadedInventory, k)
  <2>1. NoKind # k /\ Empty.kind = NoKind
    BY InventoryAssumption DEF Empty
  <2>2. Units(LoadedInventory, k) \in Nat
    BY UnitsType
  <2>3. inv'[s] = LoadedInventory /\ hand' = hand
    BY DEF TypeOK
  <2>. QED
    BY <1>4, <1>5, <2>1, <2>2, <2>3, EmptyUnits DEF Owned
<1>7. ASSUME NEW t \in Sessions \ {s}, NEW k \in Kinds
      PROVE  Owned(t, k)' = Owned(t, k)
  BY DEF Owned, TypeOK
<1>8. Owns[s] = [k \in Kinds |-> 0]
  BY <1>6 DEF Owns
<1>9. Owns' = [Owns EXCEPT ![s] = [k \in Kinds |-> Units(LoadedInventory, k)]]
  BY <1>6, <1>7 DEF Owns
<1>. QED
  BY <1>2, <1>3, <1>8, <1>9 DEF Ledger!Join, Ledger!Nothing, Owns

\* The steps that neither take nor give units, of pickups and of leaving.
LEMMA QuietSteps ==
  ASSUME LInv, NEW s \in Sessions,
         \/ RemovePlayer(s) \/ (\E i \in objects : PickupFind(s, i))
         \/ PickupSeeActive(s) \/ PickupFits(s) \/ PickupFail(s)
  PROVE  UNCHANGED Ledger!vars
<1>. USE DEF LInv, IInv, TypeOK, RemovePlayer, PickupFind, PickupSeeActive, PickupFits, PickupFail
<1>1. nextId' = nextId /\ item' = item /\ inv' = inv /\ hand' = hand
  OBVIOUS
<1>2. \A t \in Sessions : pc[t] \in {"taken", "refused"} <=> pc'[t] \in {"taken", "refused"}
  OBVIOUS
<1>3. \A t \in Sessions : pc[t] \in {"taken", "refused"} => target'[t] = target[t]
  OBVIOUS
<1>4. OnGround' = OnGround
  BY <1>1, <1>2, <1>3, SameGround DEF Lies, IsItem, Token
<1>5. Owns' = Owns
  BY <1>1 DEF Owns, Owned
<1>. QED
  BY <1>1, <1>4, <1>5, LedgerStutters

\* An emptied item counts as lying on the ground until its units are stored.
LEMMA TakeStep ==
  ASSUME LInv, NEW s \in Sessions, TryTakeAll(s)
  PROVE  UNCHANGED Ledger!vars
<1>. USE DEF LInv, TryTakeAll
<1>1. target[s] \in Ids /\ IsItem(target[s])
  BY DEF IInv, TargetsAreItems
<1>2. /\ item[target[s]].qty > 0 /\ item[target[s]].stack \in Stacks
      /\ item' = [item EXCEPT ![target[s]] = Taken(item[target[s]])]
  BY <1>1 DEF IInv, Takeable, ItemsAreSpawned
<1>3. /\ item'[target[s]].qty = 0 /\ item'[target[s]].stack = item[target[s]].stack
      /\ \A i \in Ids : i # target[s] => item'[i] = item[i]
  BY <1>1 DEF IInv, TypeOK, Taken
<1>4. NoItem.stack = Empty
  BY DEF NoItem
<1>5. IsItem(target[s])'
  BY <1>2, <1>3, <1>4, LootTypes DEF IsItem
<1>6. /\ pc'[s] = "taken" /\ target' = target
      /\ \A t \in Sessions : t # s => pc'[t] = pc[t]
      /\ pc[s] = "fits"
  BY DEF IInv, TypeOK
<1>7. ASSUME NEW i \in Ids PROVE Lies(i)' = Lies(i) /\ (Lies(i) => Token(i)' = Token(i))
  <2>1. CASE i = target[s]
    BY <1>1, <1>2, <1>3, <1>5, <1>6, <2>1 DEF Lies, Token
  <2>2. CASE i # target[s]
    BY <1>3, <1>6, <2>2 DEF Lies, Token, IsItem
  <2>. QED
    BY <2>1, <2>2
<1>8. OnGround' = OnGround
  BY <1>7, SameGround
<1>9. Owns' = Owns
  BY DEF Owns, Owned
<1>. QED
  BY <1>8, <1>9, LedgerStutters

\* The whole item reaches the inventory: the ledger's pickup.
LEMMA StoreStep ==
  ASSUME LInv, NEW s \in Sessions, PickupStore(s)
  PROVE  \E g \in OnGround : Ledger!Pickup(s, g)
<1>. DEFINE i == target[s]
            k == item[i].stack.kind
            n == item[i].stack.qty
            g == Token(i)
<1>. USE DEF LInv, PickupStore
<1>1. i \in Ids /\ IsItem(i) /\ item[i].stack \in Stacks /\ item[i].qty = 0
  BY DEF IInv, TargetsAreItems, ItemsAreSpawned, HoldersEmptiedTheItem, Holds
<1>2. k \in Kinds /\ n \in Nat /\ inv[s] \in Inventories /\ qty[s] = n
  BY <1>1 DEF IInv, Stacks, TypeOK, HoldersEmptiedTheItem, Holds
<1>3. AddedQuantity(inv[s], k, n) = n
  BY <1>2, CheckedAddFits DEF IInv, CheckStillHolds
<1>4. /\ pc'[s] = "stored" /\ \A t \in Sessions : t # s => pc'[t] = pc[t]
      /\ target' = target /\ item' = item /\ hand' = hand /\ nextId' = nextId
      /\ inv'[s] = AddItem(inv[s], k, n) /\ \A t \in Sessions : t # s => inv'[t] = inv[t]
  BY <1>2, <1>3 DEF IInv, TypeOK
<1>5. ASSUME NEW t \in Sessions, t # s, pc[t] \in {"taken", "refused"} PROVE target[t] # i
  BY <1>5 DEF IInv, OneTaker, Holds
<1>6. Lies(i) /\ ~Lies(i)'
  BY <1>1, <1>4, <1>5 DEF Lies
<1>7. ASSUME NEW j \in Ids, j # i PROVE Lies(j)' = Lies(j)
  BY <1>4, <1>7 DEF Lies, IsItem
<1>8. g \in OnGround
  BY <1>1, <1>6, GroundIsTokens
<1>9. OnGround' = OnGround \ {g}
  <2>1. OnGround' = {Token(j)' : j \in {j \in Ids : Lies(j)'}}
    BY DEF OnGround, Token, Lies
  <2>2. \A j \in Ids : Token(j)' = Token(j) /\ Token(j).id = j
    BY <1>4 DEF Token
  <2>3. \A j \in Ids : Token(j) = g => j = i
    BY <2>2, <1>1
  <2>4. {j \in Ids : Lies(j)'} = {j \in Ids : Lies(j)} \ {i}
    BY <1>6, <1>7
  <2>. QED
    BY <1>1, <1>6, <2>1, <2>2, <2>3, <2>4, GroundIsTokens
<1>10. ASSUME NEW j \in Kinds
       PROVE  Owned(s, j)' = Owned(s, j) + IF j = k THEN n ELSE 0
  <2>1. Units(AddItem(inv[s], k, n), j) = Units(inv[s], j) + IF j = k THEN n ELSE 0
    BY <1>2, <1>3, AddItemUnits
  <2>2. Owned(s, j)' = Units(inv'[s], j) + IF hand[s].kind = j THEN hand[s].qty ELSE 0
    BY <1>4 DEF Owned
  <2>3. hand[s].kind # j
    BY InventoryAssumption DEF EmptyHands, Empty
  <2>. QED
    BY <1>2, <1>4, <2>1, <2>2, <2>3, UnitsType DEF Owned
<1>11. ASSUME NEW t \in Sessions, t # s, NEW j \in Kinds PROVE Owned(t, j)' = Owned(t, j)
  BY <1>4, <1>11 DEF Owned
<1>12. Owns' = [Owns EXCEPT ![s][k] = @ + n]
  <2>1. Owns' = [t \in Sessions |-> [j \in Kinds |-> Owned(t, j)']]
    BY DEF Owns
  <2>2. [Owns EXCEPT ![s][k] = @ + n] =
          [t \in Sessions |-> [j \in Kinds |-> IF t = s /\ j = k THEN Owned(t, j) + n ELSE Owned(t, j)]]
    BY <1>2 DEF Owns
  <2>3. ASSUME NEW j \in Kinds PROVE Owned(s, j) \in Nat
    BY <2>3, OwnedType
  <2>. HIDE DEF k, n
  <2>4. \A t \in Sessions, j \in Kinds :
          Owned(t, j)' = IF t = s /\ j = k THEN Owned(t, j) + n ELSE Owned(t, j)
    BY <1>2, <1>10, <1>11, <2>3
  <2>. QED
    BY <2>1, <2>2, <2>4
<1>13. g.kind = k /\ g.qty = n
  BY DEF Token
<1>14. Ledger!Pickup(s, g)
  BY <1>4, <1>8, <1>9, <1>12, <1>13 DEF Ledger!Pickup, Owns
<1>. QED
  BY <1>8, <1>14

LEMMA FinishStep ==
  ASSUME LInv, NEW s \in Sessions, PickupFinish(s)
  PROVE  UNCHANGED Ledger!vars
<1>. USE DEF LInv, PickupFinish
<1>1. pc[s] = "stored" /\ item' = item /\ nextId' = nextId /\ inv' = inv /\ hand' = hand
  BY DEF IInv, UndoNeverRuns
<1>2. /\ pc'[s] = "idle"
      /\ \A t \in Sessions : t # s => pc'[t] = pc[t] /\ target'[t] = target[t]
  BY DEF IInv, TypeOK
<1>3. ASSUME NEW i \in Ids PROVE Lies(i)' = Lies(i) /\ Token(i)' = Token(i)
  BY <1>1, <1>2 DEF Lies, Token, IsItem
<1>4. OnGround' = OnGround
  BY <1>3, SameGround
<1>5. Owns' = Owns
  BY <1>1 DEF Owns, Owned
<1>. QED
  BY <1>1, <1>4, <1>5, LedgerStutters

\* The units that leave a slot are in the session's hand.
LEMMA DropTakeStep ==
  ASSUME LInv, NEW s \in Sessions, NEW slot \in Slots, NEW n \in Nat \ {0}, DropTake(s, slot, n)
  PROVE  UNCHANGED Ledger!vars
<1>. DEFINE k == inv[s][slot].kind
            m == TakenQuantity(inv[s], slot, n)
<1>. USE DEF LInv, DropTake
<1>1. inv[s] \in Inventories /\ hand[s] = Empty
  BY DEF IInv, TypeOK, EmptyHands
<1>2. /\ inv'[s] = TakeItemFromSlot(inv[s], slot, n) /\ \A t \in Sessions : t # s => inv'[t] = inv[t]
      /\ hand'[s] = [kind |-> k, qty |-> m] /\ \A t \in Sessions : t # s => hand'[t] = hand[t]
      /\ pc'[s] = "dropping" /\ \A t \in Sessions : t # s => pc'[t] = pc[t]
      /\ item' = item /\ nextId' = nextId /\ target' = target
  BY DEF IInv, TypeOK
<1>3. ASSUME NEW i \in Ids PROVE Lies(i)' = Lies(i) /\ Token(i)' = Token(i)
  BY <1>2 DEF Lies, Token, IsItem
<1>4. OnGround' = OnGround
  BY <1>3, SameGround
<1>5. ASSUME NEW j \in Kinds PROVE Owned(s, j)' = Owned(s, j)
  <2>1. /\ Units(inv[s], j) = Units(inv'[s], j) + IF j = k THEN m ELSE 0
        /\ (IF j = k THEN m ELSE 0) \in Nat
    BY <1>1, <1>2, TakeUnits
  <2>2. NoKind # j
    BY InventoryAssumption
  <2>3. Owned(s, j) = Units(inv[s], j)
    BY <1>1, <2>2, UnitsType DEF Owned, Empty
  <2>4. Owned(s, j)' = Units(inv'[s], j) + IF j = k THEN m ELSE 0
    BY <1>2 DEF Owned
  <2>. QED
    BY <2>1, <2>3, <2>4
<1>6. ASSUME NEW t \in Sessions, t # s, NEW j \in Kinds PROVE Owned(t, j)' = Owned(t, j)
  BY <1>2, <1>6 DEF Owned
<1>7. Owns' = Owns
  BY <1>5, <1>6 DEF Owns
<1>. QED
  BY <1>2, <1>4, <1>7, LedgerStutters

\* The units in the hand become an item under a new id: the ledger's drop.
LEMMA SpawnStep ==
  ASSUME LInv, NEW s \in Sessions, SpawnWorldItem(s)
  PROVE  \E k \in Kinds, id \in Ids : \E n \in 1 .. Owned(s, k) : Ledger!Drop(s, k, n, id)
<1>. DEFINE k == hand[s].kind
            n == hand[s].qty
<1>. USE DEF LInv, SpawnWorldItem
<1>0. nextId + 1 \in Ids /\ nextId \in Nat
  BY LootTypes DEF IInv, TypeOK, IdAvailable, Ids
<1>. SUFFICES ASSUME NEW new \in Ids, new = nextId + 1
              PROVE  \E m \in 1 .. Owned(s, k) : k \in Kinds /\ Ledger!Drop(s, k, m, new)
  BY <1>0
<1>1. nextId' = new /\ new \notin 1 .. nextId /\ 1 .. nextId' = 1 .. nextId \cup {new}
  BY <1>0
<1>2. hand[s] \in Stacks /\ k \in Kinds /\ n \in Nat /\ n > 0
  BY DEF IInv, HandsAreFull, Stacks
<1>3. ~IsItem(new)
  BY <1>0 DEF IInv, ItemsAreSpawned
<1>4. /\ item'[new] = WorldItem(hand[s]) /\ \A j \in Ids : j # new => item'[j] = item[j]
      /\ hand'[s] = Empty /\ \A t \in Sessions : t # s => hand'[t] = hand[t]
      /\ pc[s] = "dropping" /\ pc'[s] = "idle" /\ \A t \in Sessions : t # s => pc'[t] = pc[t]
      /\ target' = target /\ inv' = inv
  BY <1>0, <1>1 DEF IInv, TypeOK
<1>5. ~Lies(new) /\ Lies(new)' /\ Token(new)' = [id |-> new, kind |-> k, qty |-> n]
  BY <1>1, <1>2, <1>3, <1>4, WorldItemType DEF Lies, IsItem, Token
<1>6. ASSUME NEW j \in Ids, j # new PROVE Lies(j)' = Lies(j) /\ Token(j)' = Token(j)
  BY <1>4, <1>6 DEF Lies, IsItem, Token
<1>7. OnGround' = OnGround \cup {[id |-> new, kind |-> k, qty |-> n]}
  <2>1. OnGround' = {Token(j)' : j \in {j \in Ids : Lies(j)'}}
    BY DEF OnGround, Token, Lies
  <2>2. {j \in Ids : Lies(j)'} = {j \in Ids : Lies(j)} \cup {new}
    BY <1>1, <1>5, <1>6
  <2>3. \A j \in Ids : Lies(j) => Token(j)' = Token(j)
    BY <1>5, <1>6
  <2>. HIDE DEF k, n
  <2>. QED
    BY <1>5, <2>1, <2>2, <2>3, GroundIsTokens
<1>8. ASSUME NEW j \in Kinds
      PROVE  Owned(s, j) = Owned(s, j)' + IF j = k THEN n ELSE 0
  <2>1. NoKind # j
    BY InventoryAssumption
  <2>2. Owned(s, j)' = Units(inv[s], j)
    BY <1>4, <2>1, UnitsType DEF Owned, Empty
  <2>. QED
    BY <2>2 DEF Owned
<1>9. ASSUME NEW t \in Sessions, t # s, NEW j \in Kinds PROVE Owned(t, j)' = Owned(t, j)
  BY <1>4, <1>9 DEF Owned
<1>10. ASSUME NEW j \in Kinds PROVE Owned(s, j)' \in Nat
  <2>1. NoKind # j
    BY InventoryAssumption
  <2>. QED
    BY <1>4, <2>1, UnitsType DEF Owned, Empty
<1>11. n \in 1 .. Owned(s, k)
  BY <1>2, <1>8, <1>10
<1>12. Owns' = [Owns EXCEPT ![s][k] = @ - n]
  <2>1. Owns' = [t \in Sessions |-> [j \in Kinds |-> Owned(t, j)']]
    BY DEF Owns
  <2>2. [Owns EXCEPT ![s][k] = @ - n] =
          [t \in Sessions |-> [j \in Kinds |-> IF t = s /\ j = k THEN Owned(t, j) - n ELSE Owned(t, j)]]
    BY <1>2 DEF Owns
  <2>. HIDE DEF k, n
  <2>3. \A t \in Sessions, j \in Kinds :
          Owned(t, j)' = IF t = s /\ j = k THEN Owned(t, j) - n ELSE Owned(t, j)
    BY <1>2, <1>8, <1>9, <1>10
  <2>. QED
    BY <2>1, <2>2, <2>3
<1>13. Ledger!Drop(s, k, n, new)
  BY <1>0, <1>1, <1>2, <1>7, <1>11, <1>12 DEF Ledger!Drop, Owns
<1>. QED
  BY <1>1, <1>2, <1>11, <1>13

LEMMA LedgerNext == LInv /\ [Next]_vars => [Ledger!Next]_(Ledger!vars)
<1>1. ASSUME LInv, NEW s \in Sessions, Session(s) PROVE [Ledger!Next]_(Ledger!vars)
  <2>. USE <1>1
  <2>1. CASE AddPlayer(s)
    BY <2>1, JoinStep DEF Ledger!Next
  <2>2. CASE \/ RemovePlayer(s) \/ (\E i \in objects : PickupFind(s, i))
             \/ PickupSeeActive(s) \/ PickupFits(s) \/ PickupFail(s)
    BY <2>2, QuietSteps
  <2>3. CASE TryTakeAll(s) \/ PickupFinish(s)
    BY <2>3, TakeStep, FinishStep
  <2>4. CASE PickupStore(s)
    BY <2>4, StoreStep DEF Ledger!Next
  <2>5. ASSUME NEW slot \in Slots, NEW n \in 1 .. inv[s][slot].qty + 1, DropTake(s, slot, n)
        PROVE  UNCHANGED Ledger!vars
    <3>1. inv[s][slot].qty \in Nat
      BY SlotType DEF LInv, IInv, TypeOK
    <3>2. n \in Nat \ {0}
      BY <3>1
    <3>. QED
      BY <2>5, <3>2, DropTakeStep
  <2>6. CASE SpawnWorldItem(s)
    <3>1. \A k \in Kinds : Owned(s, k) = Owns[s][k]
      BY DEF Owns
    <3>. QED
      BY <2>6, <3>1, SpawnStep DEF Ledger!Next, Owns
  <2>. QED
    BY <2>1, <2>2, <2>3, <2>4, <2>5, <2>6 DEF Session
<1>2. ASSUME UNCHANGED vars PROVE UNCHANGED Ledger!vars
  BY <1>2 DEF vars, Ledger!vars, OnGround, Owned, IsItem
<1>. QED
  BY <1>1, <1>2 DEF Next

\* Loot is neither lost, duplicated nor given to two players: every step of any
\* number of interleaved pickups and drops, in the order of the accesses of
\* GameWorld.cs:332-542, is one atomic step of the ledger or none.
THEOREM LootImplementsLedger == Spec => ImplementsLedger
<1>1. Init => LInv /\ Ledger!Init
  BY InitLInv, LedgerInit
<1>2. LInv /\ [Next]_vars => LInv' /\ [Ledger!Next]_(Ledger!vars)
  BY NextLInv, LedgerNext
<1>. QED
  BY <1>1, <1>2, PTL DEF Spec, ImplementsLedger, Ledger!Spec
===============================================================================
