---------------------------- MODULE InventoryOps ----------------------------
(***************************************************************************)
(* What the methods of StalkerOnline.Shared/Game/PlayerInventory.cs        *)
(* compute, as operators over an inventory value.  Each method runs under  *)
(* the inventory's own lock, so other modules use these as single steps;   *)
(* module PlayerInventory runs AddItem's loops one iteration at a time and *)
(* checks that they compute what is defined here.                          *)
(*                                                                         *)
(* A kind stands for the pair (ItemTemplateId, MaxStack) that CanStackWith *)
(* compares: two stacks of one template with different limits never merge  *)
(* in the code, and are different kinds here.  Weight and display name are *)
(* left out: no operation decides on them.                                 *)
(***************************************************************************)
EXTENDS Integers, FiniteSets

CONSTANTS
    Capacity,   \* number of slots of an inventory
    Kinds,      \* item kinds: a template with its stack limit
    NoKind,     \* the kind of an empty slot
    MaxStack    \* stack limit of each kind

ASSUME InventoryAssumption ==
    /\ Capacity \in Nat \ {0}
    /\ NoKind \notin Kinds
    /\ MaxStack \in [Kinds -> Nat \ {0}]

Slots == 0 .. Capacity - 1

Empty == [kind |-> NoKind, qty |-> 0]

Stacks == {st \in [kind : Kinds, qty : Nat \ {0}] : st.qty <= MaxStack[st.kind]}

Inventories == [Slots -> Stacks \cup {Empty}]

EmptyInventory == [s \in Slots |-> Empty]

MinOf(a, b) == IF a <= b THEN a ELSE b

-----------------------------------------------------------------------------
(***************************************************************************)
(* Unit places.  A place <<s, u>> is room for the u-th unit of slot s.     *)
(***************************************************************************)
Place(k) == Slots \X (1 .. MaxStack[k])

FreeSlots(inv) == {s \in Slots : inv[s] = Empty}

\* InventoryItem.CanStackWith: the slots a merge of kind k may top up.
CanStackWith(inv, k) ==
    {s \in Slots : /\ inv[s].kind = k
                   /\ MaxStack[k] > 1
                   /\ inv[s].qty < MaxStack[k]}

\* The places a merge of kind k fills, and the ones new stacks offer.
MergePlaces(inv, k) == {p \in Place(k) : p[1] \in CanStackWith(inv, k) /\ p[2] > inv[p[1]].qty}
OpenPlaces(inv, k) == {p \in Place(k) : p[1] \in FreeSlots(inv)}
FreePlaces(inv, k) == MergePlaces(inv, k) \cup OpenPlaces(inv, k)

\* The order in which AddItem fills them: matching stacks by slot, then new
\* stacks in the lowest free slots.
FilledBefore(inv, p, q) ==
    \/ inv[p[1]] # Empty /\ inv[q[1]] = Empty
    \/ /\ (inv[p[1]] = Empty) <=> (inv[q[1]] = Empty)
       /\ p[1] < q[1] \/ (p[1] = q[1] /\ p[2] < q[2])

\* The places that receive a unit when n units of kind k are added.
Filled(inv, k, n) ==
    LET free == FreePlaces(inv, k)
    IN  {p \in free : Cardinality({q \in free : FilledBefore(inv, q, p)}) < n}

\* How many units of kind k the inventory holds.
Units(inv, k) == Cardinality({p \in Place(k) : inv[p[1]].kind = k /\ p[2] <= inv[p[1]].qty})

-----------------------------------------------------------------------------
(***************************************************************************)
(* The methods.                                                            *)
(***************************************************************************)

\* AddItem: the inventory after adding n units of kind k as far as they fit.
\* Gain is what one slot receives.
Gain(inv, k, n, s) == Cardinality({p \in Filled(inv, k, n) : p[1] = s})

AddItem(inv, k, n) ==
    [s \in Slots |-> IF Gain(inv, k, n, s) = 0 THEN inv[s]
                     ELSE [kind |-> k, qty |-> inv[s].qty + Gain(inv, k, n, s)]]

\* AddItem's AddedQuantity.
AddedQuantity(inv, k, n) == MinOf(n, Cardinality(FreePlaces(inv, k)))

\* Mutant of CanFullyAddItem: the slots needed are rounded down.
CanFullyAddItem_RoundsDown(inv, k, n) ==
    LET remaining == n - MinOf(n, Cardinality(MergePlaces(inv, k)))
    IN  /\ n > 0
        /\ remaining > 0 => remaining \div MaxStack[k] <= Cardinality(FreeSlots(inv))

\* CanFullyAddItem: merge room first, then whole slots, rounded up.
CanFullyAddItem(inv, k, n) ==
    LET remaining == n - MinOf(n, Cardinality(MergePlaces(inv, k)))
        required == (remaining + MaxStack[k] - 1) \div MaxStack[k]
    IN  /\ n > 0
        /\ remaining > 0 => required <= Cardinality(FreeSlots(inv))

\* Mutant: the quantity asked for leaves the slot.
TakenQuantity_AsAsked(inv, s, n) == n

\* TakeItemFromSlot: what leaves the slot, and the inventory without it.
TakenQuantity(inv, s, n) == MinOf(n, inv[s].qty)

TakeItemFromSlot(inv, s, n) ==
    [inv EXCEPT ![s] = IF n >= inv[s].qty THEN Empty
                       ELSE [kind |-> inv[s].kind, qty |-> inv[s].qty - n]]

\* TryAddItemToSlot, used when a saved inventory is loaded.
CanAddItemToSlot(inv, s, k, n) ==
    /\ s \in Slots
    /\ n > 0 /\ n <= MaxStack[k]
    /\ inv[s] = Empty

TryAddItemToSlot(inv, s, k, n) ==
    IF CanAddItemToSlot(inv, s, k, n)
    THEN [inv EXCEPT ![s] = [kind |-> k, qty |-> n]]
    ELSE inv
=============================================================================
