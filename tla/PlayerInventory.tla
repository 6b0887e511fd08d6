--------------------------- MODULE PlayerInventory ---------------------------
(***************************************************************************)
(* One PlayerInventory object and its methods.  AddItem runs as the code   *)
(* does, one iteration of its two loops per step, holding the lock; every  *)
(* other method is one step taken while no AddItem is under way.  (Proofs  *)
(* about LootWorld extend those of this module: hence the long names.)     *)
(***************************************************************************)
EXTENDS InventoryOps

CONSTANTS MaxRequest    \* largest quantity a caller passes (a bound of the runs)

ASSUME RequestAssumption == MaxRequest \in Nat \ {0}

VARIABLES
    items,      \* _items, by SlotIndex
    call,       \* the AddItem call holding the lock
    start       \* the inventory when that call took the lock

inventoryVars == <<items, call, start>>

Phases == {"idle", "merge", "open", "done"}

Calls == [phase : Phases, kind : Kinds \cup {NoKind}, cursor : 0 .. Capacity,
          requested : 0 .. MaxRequest, remaining : Int, added : Int]

NoCall == [phase |-> "idle", kind |-> NoKind, cursor |-> 0,
           requested |-> 0, remaining |-> 0, added |-> 0]

InventoryInit ==
    /\ items = EmptyInventory
    /\ call = NoCall
    /\ start = EmptyInventory

-----------------------------------------------------------------------------
(***************************************************************************)
(* AddItem.                                                                *)
(***************************************************************************)

\* The call passes its argument checks and takes the lock.
BeginAdd(k, n) ==
    /\ call.phase = "idle"
    /\ call' = [phase |-> "merge", kind |-> k, cursor |-> 0,
                requested |-> n, remaining |-> n, added |-> 0]
    /\ start' = items
    /\ UNCHANGED items

\* How much of the rest goes onto the stack of slot s.
\* Mutant: the stack is filled up, whatever remains.
AddToStack_FillsUp(s, n) == MaxStack[call.kind] - items[s].qty
AddToStack(s, n) == MinOf(MaxStack[call.kind] - items[s].qty, n)

\* One iteration of the foreach over the stacks in slot order.
MergeStep ==
    LET s == call.cursor
        moved == AddToStack(s, call.remaining)
    IN  /\ call.phase = "merge"
        /\ call.remaining > 0 /\ s < Capacity
        /\ IF s \in CanStackWith(items, call.kind)
           THEN /\ items' = [items EXCEPT ![s].qty = @ + moved]
                /\ call' = [call EXCEPT !.cursor = s + 1, !.remaining = @ - moved,
                                        !.added = @ + moved]
           ELSE /\ call' = [call EXCEPT !.cursor = s + 1]
                /\ UNCHANGED items
        /\ UNCHANGED start

\* The foreach ends: every stack was visited, or nothing remains.
EndMerge ==
    /\ call.phase = "merge"
    /\ call.remaining <= 0 \/ call.cursor = Capacity
    /\ call' = [call EXCEPT !.phase = "open"]
    /\ UNCHANGED <<items, start>>

\* How much of the rest a new stack takes.
StackQuantity(n) == MinOf(MaxStack[call.kind], n)

\* FindFreeSlotUnsafe: the lowest free slot, or none.
\* Mutant: any free slot.
FindFreeSlot_Any == FreeSlots(items)
FindFreeSlot == {s \in FreeSlots(items) : \A t \in FreeSlots(items) : s <= t}

\* One iteration of the while: a new stack in the lowest free slot.
OpenStack ==
    LET moved == StackQuantity(call.remaining)
    IN  /\ call.phase = "open"
        /\ call.remaining > 0
        /\ \E s \in FindFreeSlot :
              /\ items' = [items EXCEPT ![s] = [kind |-> call.kind, qty |-> moved]]
              /\ call' = [call EXCEPT !.remaining = @ - moved, !.added = @ + moved]
        /\ UNCHANGED start

\* The while ends: nothing remains, or there is no free slot.
EndOpen ==
    /\ call.phase = "open"
    /\ call.remaining = 0 \/ FreeSlots(items) = {}
    /\ call' = [call EXCEPT !.phase = "done"]
    /\ UNCHANGED <<items, start>>

\* The lock is released and the InventoryAddResult returned.
ReturnAdd ==
    /\ call.phase = "done"
    /\ call' = NoCall
    /\ start' = EmptyInventory
    /\ UNCHANGED items

-----------------------------------------------------------------------------
(***************************************************************************)
(* The methods that are one step.                                          *)
(***************************************************************************)
Take(s, n) ==
    /\ call.phase = "idle"
    /\ items[s] # Empty
    /\ items' = TakeItemFromSlot(items, s, n)
    /\ UNCHANGED <<call, start>>

AddToSlot(s, k, n) ==
    /\ call.phase = "idle"
    /\ CanAddItemToSlot(items, s, k, n)
    /\ items' = TryAddItemToSlot(items, s, k, n)
    /\ UNCHANGED <<call, start>>

Clear ==
    /\ call.phase = "idle"
    /\ items' = EmptyInventory
    /\ UNCHANGED <<call, start>>

AddItemStep == MergeStep \/ EndMerge \/ OpenStack \/ EndOpen \/ ReturnAdd

InventoryNext ==
    \/ \E k \in Kinds, n \in 1 .. MaxRequest : BeginAdd(k, n)
    \/ AddItemStep
    \/ \E s \in Slots, n \in 1 .. MaxRequest : Take(s, n)
    \/ \E s \in Slots, k \in Kinds, n \in 1 .. MaxRequest : AddToSlot(s, k, n)
    \/ Clear

InventorySpec == InventoryInit /\ [][InventoryNext]_inventoryVars

-----------------------------------------------------------------------------
(***************************************************************************)
(* Properties.                                                             *)
(***************************************************************************)

\* Every slot is empty or holds between one unit and its kind's stack limit.
InventoryTypeOK ==
    /\ items \in Inventories
    /\ start \in Inventories
    /\ call \in Calls

Success == call.remaining = 0

\* The result AddItem returns is exact: what was added and what remains make
\* up the request, the units in the inventory grew by what was added, and no
\* stack shrank, changed kind or vanished.
ResultIsExact ==
    call.phase # "idle" =>
        /\ call.added + call.remaining = call.requested
        /\ call.added >= 0 /\ call.remaining >= 0
        /\ Units(items, call.kind) = Units(start, call.kind) + call.added
        /\ \A s \in Slots : start[s] # Empty =>
              items[s].kind = start[s].kind /\ items[s].qty >= start[s].qty

\* AddItem adds exactly what fits, within the limits of all stacks: its result
\* is exact, a new stack is opened only when no stack of the kind has room, and
\* units are refused only when no slot is free either
\* (PlayerInventory.cs:90-141).
AddStoresWhatFits ==
    /\ InventoryTypeOK /\ ResultIsExact
    /\ call.phase \in {"open", "done"} /\ call.remaining > 0 => CanStackWith(items, call.kind) = {}
    /\ call.phase = "done" /\ call.remaining > 0 => FreeSlots(items) = {}

\* The loops compute what InventoryOps says the method computes
\* (PlayerInventory.cs:75-147).
LoopsMatchOperator ==
    call.phase = "done" =>
        /\ items = AddItem(start, call.kind, call.requested)
        /\ call.added = AddedQuantity(start, call.kind, call.requested)

\* CanFullyAddItem, asked before AddItem on the same inventory, answers what
\* AddItem then does (GameWorld.cs:404 relies on it before 427).
CheckPredictsAdd ==
    call.phase = "done" => (CanFullyAddItem(start, call.kind, call.requested) <=> Success)
=============================================================================
