------------------------- MODULE InventoryStoreProofs -------------------------
(***************************************************************************)
(* Saves of InventoryStore for any number of sessions, characters and      *)
(* slots: what an undisturbed save leaves in the table, and that it cannot *)
(* throw without an error of the database.                                 *)
(***************************************************************************)
EXTENDS InventoryStore, TLAPS, WellFoundedInduction

-----------------------------------------------------------------------------
(***************************************************************************)
(* The inductive invariant: what the rows are while a save is alone.       *)
(***************************************************************************)
Running(v) == v.at \in {"clear", "insert", "find"}

\* A running save is of a character, and begins with all its stacks to insert.
WellBegun(p) ==
    /\ Running(save[p]) => save[p].of \in Characters
    /\ save[p].at = "clear" => save[p].left = Filled(save[p].snap)
    /\ save[p].at = "find" => save[p].left # {}

\* No other save of the character of a save that is alone runs.
AloneIsAlone(p) ==
    Running(save[p]) /\ save[p].alone =>
        \A q \in Savers : Running(save[q]) /\ save[q].of = save[p].of => q = p

\* The table holds a snapshot, but for the slots still to be inserted.
Holds(content, snap, without) ==
    \A i \in Slots : content[i] = IF i \in without THEN Nothing ELSE snap[i]

RowsFollow(p) ==
    save[p].alone =>
        /\ save[p].at = "insert" => Holds(rows[save[p].of], save[p].snap, save[p].left)
        /\ save[p].at = "find" =>
              save[p].mine /\ Holds(rows[save[p].of], save[p].snap, save[p].left \ {NextSlot(p)})

\* Without a fault, only a save that was overlapped has failed.
FailsIfOverlapped(p) == faults = 0 /\ save[p].at = "failed" => ~save[p].alone

SaveInv(p) == WellBegun(p) /\ AloneIsAlone(p) /\ RowsFollow(p) /\ FailsIfOverlapped(p)

IInv == TypeOK /\ \A p \in Savers : SaveInv(p)

-----------------------------------------------------------------------------
(***************************************************************************)
(* Constants, and the slot that is next.                                   *)
(***************************************************************************)
LEMMA Constants ==
  /\ NSlots \in Nat /\ MaxFaults \in Nat /\ MaxChanges \in Nat
  /\ Nothing \notin Stacks
  /\ NoRows \in Contents /\ Starter \in Contents
  /\ Filled(NoRows) = {}
  /\ NoSave \in Saves /\ IdleRound \in Rounds
  /\ Slots \subseteq Nat
  BY StoreAssumption DEF NoRows, Contents, Slots, NoSave, Saves, IdleRound, Rounds, Filled

LEMMA CharacterType == \A s \in Sessions : Character[s] \in Characters
  BY DEF Characters

LEMMA MinOfSlots ==
  ASSUME NEW S \in SUBSET Nat, S # {}
  PROVE  Min(S) \in S
<1>. DEFINE R == OpToRel(<, Nat)
<1>1. IsWellFoundedOn(R, Nat)
  BY NatLessThanWellFounded
<1>2. ASSUME NEW x \in Nat, NEW y \in Nat, y < x PROVE <<y, x>> \in R
  BY <1>2 DEF OpToRel
<1>. HIDE DEF R
<1>3. PICK x \in S : \A y \in S : <<y, x>> \notin R
  BY <1>1, WFMin
<1>4. ASSUME NEW y \in S PROVE x <= y
  <2>1. x \in Nat /\ y \in Nat
    OBVIOUS
  <2>2. ~(y < x)
    BY <1>2, <1>3, <2>1
  <2>. QED BY <2>1, <2>2
<1>. QED BY <1>4 DEF Min

LEMMA NextSlotIsLeft ==
  ASSUME TypeOK, NEW p \in Savers, save[p].left # {}
  PROVE  NextSlot(p) \in save[p].left /\ NextSlot(p) \in Slots
<1>1. save[p].left \in SUBSET Slots
  BY DEF TypeOK, Saves
<1>. QED BY <1>1, Constants, MinOfSlots DEF NextSlot

-----------------------------------------------------------------------------
(***************************************************************************)
(* The steps of a save.                                                    *)
(***************************************************************************)

\* A step that leaves the saves and the rows alone.
LEMMA SavesUntouched ==
  ASSUME IInv, UNCHANGED <<rows, save>>, faults' = 0 => faults = 0
  PROVE  \A p \in Savers : SaveInv(p)'
  BY DEF IInv, SaveInv, WellBegun, AloneIsAlone, RowsFollow, FailsIfOverlapped, NextSlot

\* A saver begins a save.
LEMMA SaveBegins ==
  ASSUME IInv, NEW p \in Savers, NEW c \in Characters, NEW content \in Contents,
         save' = SaveWith(p, c, content), UNCHANGED rows, faults' = 0 => faults = 0
  PROVE  /\ save' \in [Savers -> Saves]
         /\ \A q \in Savers : save'[q].left \subseteq {i \in Slots : save'[q].snap[i] # Nothing}
         /\ \A q \in Savers : SaveInv(q)'
<1>. DEFINE v == [at |-> "clear", of |-> c, snap |-> content, left |-> Filled(content),
                  mine |-> FALSE, alone |-> SavesOf(c) \ {p} = {}]
<1>1. v \in Saves /\ Filled(content) = {i \in Slots : content[i] # Nothing}
  BY DEF Saves, Filled
<1>2. save \in [Savers -> Saves]
  BY DEF IInv, TypeOK
<1>3. /\ save'[p] = v
      /\ \A q \in Savers \ {p} :
            save'[q] = IF q \in SavesOf(c) THEN [save[q] EXCEPT !.alone = FALSE] ELSE save[q]
  BY DEF SaveWith
<1>4. save' \in [Savers -> Saves]
  BY <1>1, <1>2 DEF SaveWith, Saves
<1>5. \A q \in Savers : q \in SavesOf(c) <=> Running(save[q]) /\ save[q].of = c
  BY <1>2 DEF SavesOf, Running, Saves
<1>6. \A q \in Savers \ {p} :
          /\ save'[q].at = save[q].at /\ save'[q].of = save[q].of
          /\ save'[q].snap = save[q].snap /\ save'[q].left = save[q].left
          /\ save'[q].mine = save[q].mine
          /\ save'[q].alone => save[q].alone /\ q \notin SavesOf(c)
          /\ save'[q].alone = save[q].alone \/ q \in SavesOf(c)
  BY <1>2, <1>3 DEF Saves
<1>0. /\ save'[p].at = "clear" /\ save'[p].of = c /\ save'[p].snap = content
      /\ save'[p].left = Filled(content)
      /\ save'[p].alone => \A q \in SavesOf(c) : q = p
  <2>. DEFINE others == SavesOf(c) \ {p} = {}
  <2>4. others \in BOOLEAN
    OBVIOUS
  <2>5. save'[p] = [at |-> "clear", of |-> c, snap |-> content, left |-> Filled(content),
                    mine |-> FALSE, alone |-> others]
    BY <1>3
  <2>. HIDE DEF others
  <2>6. save'[p].alone = others
    BY <2>4, <2>5
  <2>1. save'[p].alone <=> SavesOf(c) \ {p} = {}
    BY <2>6, Zenon DEF others
  <2>2. SavesOf(c) \ {p} = {} => \A q \in SavesOf(c) : q = p
    OBVIOUS
  <2>3. /\ save'[p].at = "clear" /\ save'[p].of = c /\ save'[p].snap = content
        /\ save'[p].left = Filled(content)
    BY <1>3
  <2>. QED BY <2>1, <2>2, <2>3
<1>. HIDE DEF v
<1>7. \A q \in Savers : save'[q].left \subseteq {i \in Slots : save'[q].snap[i] # Nothing}
  BY <1>0, <1>1, <1>6 DEF IInv, TypeOK
<1>8. ASSUME NEW q \in Savers PROVE WellBegun(q)'
  BY <1>0, <1>6 DEF IInv, SaveInv, WellBegun, Running
<1>9. ASSUME NEW q \in Savers PROVE AloneIsAlone(q)'
  <2>1. CASE q = p
    BY <1>0, <1>5, <1>6, <2>1 DEF AloneIsAlone, Running
  <2>2. CASE q # p
    BY <1>0, <1>5, <1>6, <2>2 DEF IInv, SaveInv, AloneIsAlone, Running
  <2>. QED BY <2>1, <2>2
<1>10. ASSUME NEW q \in Savers PROVE RowsFollow(q)' /\ FailsIfOverlapped(q)'
  <2>1. CASE q = p
    BY <1>0, <2>1 DEF RowsFollow, FailsIfOverlapped
  <2>2. CASE q # p
    <3>1. NextSlot(q)' = NextSlot(q)
      BY <1>6, <2>2 DEF NextSlot
    <3>2. RowsFollow(q)'
      BY <1>6, <2>2, <3>1 DEF IInv, SaveInv, RowsFollow, Holds
    <3>3. FailsIfOverlapped(q)'
      BY <1>5, <1>6, <2>2 DEF IInv, SaveInv, FailsIfOverlapped, Running
    <3>. QED BY <3>2, <3>3
  <2>. QED BY <2>1, <2>2
<1>. QED BY <1>4, <1>7, <1>8, <1>9, <1>10 DEF SaveInv

\* The save of p goes on or ends, and no other save's rows change.
LEMMA OneSaveSteps ==
  ASSUME IInv, NEW p \in Savers, NEW v \in Saves,
         save' = [save EXCEPT ![p] = v], faults' = 0 => faults = 0,
         v.left \subseteq {i \in Slots : v.snap[i] # Nothing},
         Running(v) => Running(save[p]) /\ v.of = save[p].of /\ v.alone = save[p].alone,
         \A q \in Savers \ {p} : save[q].alone /\ Running(save[q]) => rows'[save[q].of] = rows[save[q].of],
         WellBegun(p)', RowsFollow(p)', FailsIfOverlapped(p)'
  PROVE  /\ save' \in [Savers -> Saves]
         /\ \A q \in Savers : save'[q].left \subseteq {i \in Slots : save'[q].snap[i] # Nothing}
         /\ \A q \in Savers : SaveInv(q)'
<1>1. save \in [Savers -> Saves]
  BY DEF IInv, TypeOK
<1>2. save'[p] = v /\ \A q \in Savers \ {p} : save'[q] = save[q]
  BY <1>1
<1>3. save' \in [Savers -> Saves]
  BY <1>1
<1>4. \A q \in Savers : save'[q].left \subseteq {i \in Slots : save'[q].snap[i] # Nothing}
  BY <1>2 DEF IInv, TypeOK
<1>5. ASSUME NEW q \in Savers PROVE AloneIsAlone(q)'
  <2>1. \A r \in Savers : Running(save'[r]) =>
            Running(save[r]) /\ save'[r].of = save[r].of /\ save'[r].alone = save[r].alone
    BY <1>2
  <2>. QED BY <2>1 DEF IInv, SaveInv, AloneIsAlone
<1>6. ASSUME NEW q \in Savers, q # p PROVE WellBegun(q)' /\ RowsFollow(q)' /\ FailsIfOverlapped(q)'
  <2>1. save'[q] = save[q] /\ SaveInv(q)
    BY <1>2, <1>6 DEF IInv
  <2>2. NextSlot(q)' = NextSlot(q)
    BY <2>1 DEF NextSlot
  <2>3. RowsFollow(q)'
    BY <1>6, <2>1, <2>2 DEF SaveInv, RowsFollow, Running
  <2>. QED BY <2>1, <2>3 DEF SaveInv, WellBegun, FailsIfOverlapped
<1>. QED BY <1>3, <1>4, <1>5, <1>6 DEF SaveInv

\* A save ends, with its overlaps remembered or not.
LEMMA SaveEnds ==
  ASSUME IInv, NEW p \in Savers, NEW v \in Saves, save' = [save EXCEPT ![p] = v],
         UNCHANGED rows, faults' = 0 => faults = 0, v.left = {}, ~Running(v),
         faults' = 0 /\ v.at = "failed" => ~v.alone
  PROVE  /\ save' \in [Savers -> Saves]
         /\ \A q \in Savers : save'[q].left \subseteq {i \in Slots : save'[q].snap[i] # Nothing}
         /\ \A q \in Savers : SaveInv(q)'
<1>1. save'[p] = v
  BY DEF IInv, TypeOK
<1>2. WellBegun(p)' /\ RowsFollow(p)' /\ FailsIfOverlapped(p)'
  BY <1>1 DEF WellBegun, RowsFollow, FailsIfOverlapped, Running
<1>. QED BY <1>2, OneSaveSteps

LEMMA EndedIsASave ==
  ASSUME TypeOK, NEW p \in Savers, NEW outcome \in {"done", "failed"}
  PROVE  \E v \in Saves : /\ Ended(p, outcome) = [save EXCEPT ![p] = v]
                          /\ v.at = outcome /\ v.left = {} /\ v.alone = save[p].alone
<1>. DEFINE v == [NoSave EXCEPT !.at = outcome, !.alone = save[p].alone]
<1>1. save[p] \in Saves
  BY DEF TypeOK
<1>2. v \in Saves /\ v.at = outcome /\ v.left = {} /\ v.alone = save[p].alone
  BY <1>1, Constants DEF NoSave, Saves
<1>. QED BY <1>2 DEF Ended

\* What a step of the saves preserves.
Preserved ==
    /\ rows' \in [Characters -> Contents]
    /\ save' \in [Savers -> Saves]
    /\ \A q \in Savers : save'[q].left \subseteq {i \in Slots : save'[q].snap[i] # Nothing}
    /\ \A q \in Savers : SaveInv(q)'

LEMMA SaveEnded ==
  ASSUME IInv, NEW p \in Savers, NEW outcome \in {"done", "failed"},
         save' = Ended(p, outcome), UNCHANGED rows, faults' = 0 => faults = 0,
         outcome = "failed" /\ faults' = 0 => ~save[p].alone
  PROVE  Preserved
<1>1. PICK v \in Saves : /\ save' = [save EXCEPT ![p] = v]
                         /\ v.at = outcome /\ v.left = {} /\ v.alone = save[p].alone
  BY EndedIsASave DEF IInv
<1>2. ~Running(v)
  BY <1>1 DEF Running
<1>3. rows' \in [Characters -> Contents]
  BY DEF IInv, TypeOK
<1>. QED BY <1>1, <1>2, <1>3, SaveEnds DEF Preserved

LEMMA SaveReturns ==
  ASSUME IInv, NEW p \in Savers, save' = Returned(p), UNCHANGED <<rows, faults>>
  PROVE  Preserved
<1>1. NoSave \in Saves /\ NoSave.left = {} /\ ~Running(NoSave) /\ NoSave.at # "failed"
  BY Constants DEF NoSave, Running
<1>2. save' = [save EXCEPT ![p] = NoSave]
  BY DEF Returned
<1>3. rows' \in [Characters -> Contents]
  BY DEF IInv, TypeOK
<1>. QED BY <1>1, <1>2, <1>3, SaveEnds DEF Preserved

\* InventoryRepository.ClearInventory: the saves of the character that were
\* not alone lose the row they have inserted.
LEMMA ClearStep ==
  ASSUME IInv, NEW p \in Savers, ClearInventory(p)
  PROVE  Preserved
<1>. DEFINE c == save[p].of
<1>1. save \in [Savers -> Saves] /\ rows \in [Characters -> Contents] /\ save[p] \in Saves
  BY DEF IInv, TypeOK
<1>2. c \in Characters /\ Running(save[p]) /\ save[p].left = Filled(save[p].snap)
  BY DEF ClearInventory, IInv, SaveInv, WellBegun, Running
<1>3. rows' = [rows EXCEPT ![c] = NoRows] /\ save[p].at = "clear" /\ faults' = faults
  BY DEF ClearInventory, counts
<1>4. /\ save'[p] = [save[p] EXCEPT !.at = "insert"]
      /\ \A q \in Savers \ {p} :
            save'[q] = IF q \in SavesOf(c) THEN [save[q] EXCEPT !.mine = FALSE] ELSE save[q]
  BY DEF ClearInventory
<1>5. save' \in [Savers -> Saves]
  BY <1>1 DEF ClearInventory, Saves
<1>6. rows' \in [Characters -> Contents]
  BY <1>1, <1>2, <1>3, Constants
<1>7. /\ save'[p].at = "insert"
      /\ save'[p].of = save[p].of /\ save'[p].snap = save[p].snap
      /\ save'[p].left = save[p].left /\ save'[p].alone = save[p].alone
  BY <1>1, <1>4, Zenon DEF Saves
<1>8. ASSUME NEW q \in Savers, q # p
       PROVE  /\ save'[q].of = save[q].of /\ save'[q].snap = save[q].snap
              /\ save'[q].left = save[q].left /\ save'[q].alone = save[q].alone
              /\ save'[q].at = save[q].at
  <2>1. save[q] \in Saves
    BY <1>1
  <2>2. save'[q] = save[q] \/ save'[q] = [save[q] EXCEPT !.mine = FALSE]
    BY <1>4, <1>8
  <2>. QED BY <2>1, <2>2 DEF Saves
<1>9. \A q \in Savers :
          /\ save'[q].of = save[q].of /\ save'[q].snap = save[q].snap
          /\ save'[q].left = save[q].left /\ save'[q].alone = save[q].alone
          /\ Running(save'[q]) <=> Running(save[q])
  BY <1>3, <1>7, <1>8 DEF Running
<1>10. \A q \in Savers : save'[q].left \subseteq {i \in Slots : save'[q].snap[i] # Nothing}
  BY <1>9 DEF IInv, TypeOK
<1>11. ASSUME NEW q \in Savers PROVE WellBegun(q)' /\ AloneIsAlone(q)' /\ FailsIfOverlapped(q)'
  <2>1. WellBegun(q)'
    BY <1>9, <1>7, <1>8 DEF IInv, SaveInv, WellBegun
  <2>2. AloneIsAlone(q)'
    BY <1>9 DEF IInv, SaveInv, AloneIsAlone
  <2>3. FailsIfOverlapped(q)'
    BY <1>3, <1>9, <1>7, <1>8 DEF IInv, SaveInv, FailsIfOverlapped
  <2>. QED BY <2>1, <2>2, <2>3
<1>12. ASSUME NEW q \in Savers PROVE RowsFollow(q)'
  <2>1. CASE q = p
    <3>1. rows'[c] = NoRows
      BY <1>1, <1>2, <1>3
    <3>2. Holds(NoRows, save[p].snap, Filled(save[p].snap))
      BY DEF Holds, NoRows, Filled
    <3>. QED BY <1>2, <1>9, <1>7, <2>1, <3>1, <3>2 DEF RowsFollow
  <2>2. CASE q # p /\ save[q].alone /\ Running(save[q])
    <3>1. save[q].of # c /\ save[q].of \in Characters
      BY <1>2, <2>2 DEF IInv, SaveInv, AloneIsAlone, WellBegun
    <3>2. q \notin SavesOf(c)
      BY <3>1 DEF SavesOf
    <3>3. save'[q] = save[q] /\ rows'[save[q].of] = rows[save[q].of]
      BY <1>1, <1>3, <1>4, <2>2, <3>1, <3>2
    <3>4. NextSlot(q)' = NextSlot(q)
      BY <3>3 DEF NextSlot
    <3>. QED BY <3>3, <3>4 DEF IInv, SaveInv, RowsFollow
  <2>3. CASE q # p /\ ~(save[q].alone /\ Running(save[q]))
    BY <1>9, <2>3 DEF RowsFollow, Running
  <2>. QED BY <2>1, <2>2, <2>3
<1>. QED BY <1>5, <1>6, <1>10, <1>11, <1>12 DEF SaveInv, Preserved

\* InventoryRepository.InsertItem: an undisturbed save finds its slot empty.
LEMMA InsertStep ==
  ASSUME IInv, NEW p \in Savers, InsertItem(p)
  PROVE  Preserved
<1>. DEFINE c == save[p].of
            i == NextSlot(p)
<1>1. save \in [Savers -> Saves] /\ rows \in [Characters -> Contents] /\ save[p] \in Saves
  BY DEF IInv, TypeOK
<1>2. /\ save[p].at = "insert" /\ save[p].left # {} /\ faults' = faults
      /\ c \in Characters /\ Running(save[p])
  BY DEF InsertItem, IInv, SaveInv, WellBegun, Running, counts
<1>3. i \in save[p].left /\ i \in Slots
  BY <1>2, NextSlotIsLeft DEF IInv
<1>4. save[p].left \subseteq {j \in Slots : save[p].snap[j] # Nothing}
  BY DEF IInv, TypeOK
<1>5. save[p].alone => Holds(rows[c], save[p].snap, save[p].left)
  BY <1>2 DEF IInv, SaveInv, RowsFollow
<1>6. save[p].alone => rows[c][i] = Nothing
  BY <1>3, <1>5 DEF Holds
<1>7. CASE rows[c][i] = Nothing
  <2>. DEFINE v == [save[p] EXCEPT !.at = "find", !.mine = TRUE]
  <2>1. /\ rows' = [rows EXCEPT ![c] = [rows[c] EXCEPT ![i] = save[p].snap[i]]]
        /\ save' = [save EXCEPT ![p] = v]
    BY <1>1, <1>7 DEF InsertItem
  <2>2. /\ v \in Saves /\ v.at = "find" /\ v.mine = TRUE /\ v.of = c /\ v.snap = save[p].snap
        /\ v.left = save[p].left /\ v.alone = save[p].alone
    BY <1>1 DEF Saves
  <2>. HIDE DEF v
  <2>3. save'[p] = v
    BY <1>1, <2>1
  <2>4. NextSlot(p)' = i
    BY <2>2, <2>3 DEF NextSlot
  <2>5. save[p].snap[i] \in Stacks \cup {Nothing}
    BY <1>1, <1>3 DEF Saves, Contents
  <2>6. /\ rows'[c] = [rows[c] EXCEPT ![i] = save[p].snap[i]]
        /\ rows[c] \in Contents
        /\ \A d \in Characters \ {c} : rows'[d] = rows[d]
    BY <1>1, <1>2, <2>1
  <2>7. rows'[c] \in Contents
    BY <1>3, <2>5, <2>6 DEF Contents
  <2>8. rows' \in [Characters -> Contents]
    BY <1>1, <1>2, <2>1, <2>6, <2>7
  <2>9. save[p].alone => Holds(rows'[c], save[p].snap, save[p].left \ {i})
    <3>1. \A j \in Slots : rows'[c][j] = IF j = i THEN save[p].snap[i] ELSE rows[c][j]
      BY <1>3, <2>6 DEF Contents
    <3>. QED BY <1>3, <1>5, <3>1 DEF Holds
  <2>10. WellBegun(p)' /\ RowsFollow(p)' /\ FailsIfOverlapped(p)'
    BY <1>2, <2>2, <2>3, <2>4, <2>9 DEF WellBegun, RowsFollow, FailsIfOverlapped, Running
  <2>11. \A q \in Savers \ {p} : save[q].alone /\ Running(save[q]) =>
             rows'[save[q].of] = rows[save[q].of]
    BY <1>2, <2>6 DEF IInv, SaveInv, AloneIsAlone, WellBegun
  <2>12. Running(v)
    BY <2>2 DEF Running
  <2>. QED BY <1>2, <1>4, <2>1, <2>2, <2>8, <2>10, <2>11, <2>12, OneSaveSteps DEF Preserved
<1>8. CASE rows[c][i] # Nothing
  <2>1. save' = Ended(p, "failed") /\ UNCHANGED rows /\ ~save[p].alone
    BY <1>6, <1>8 DEF InsertItem
  <2>. QED BY <1>2, <2>1, SaveEnded
<1>. QED BY <1>7, <1>8

\* InventoryRepository.FindItemById.
LEMMA FindStep ==
  ASSUME IInv, NEW p \in Savers, FindItemById(p)
  PROVE  Preserved
<1>1. save \in [Savers -> Saves] /\ rows \in [Characters -> Contents] /\ save[p] \in Saves
  BY DEF IInv, TypeOK
<1>2. /\ save[p].at = "find" /\ faults' = faults /\ rows' = rows /\ Running(save[p])
      /\ save[p].of \in Characters
  BY DEF FindItemById, counts, IInv, SaveInv, WellBegun, Running
<1>3. CASE save[p].mine
  <2>. DEFINE v == [save[p] EXCEPT !.at = "insert", !.left = LeftAfter(p), !.mine = FALSE]
  <2>1. save' = [save EXCEPT ![p] = v]
    BY <1>1, <1>3 DEF FindItemById
  <2>2. /\ v \in Saves /\ v.at = "insert" /\ v.of = save[p].of /\ v.snap = save[p].snap
        /\ v.left = save[p].left \ {NextSlot(p)} /\ v.alone = save[p].alone
    BY <1>1 DEF Saves, LeftAfter
  <2>. HIDE DEF v
  <2>3. save'[p] = v
    BY <1>1, <2>1
  <2>4. save[p].left \subseteq {j \in Slots : save[p].snap[j] # Nothing}
    BY DEF IInv, TypeOK
  <2>5. WellBegun(p)' /\ FailsIfOverlapped(p)'
    BY <1>2, <2>2, <2>3 DEF WellBegun, FailsIfOverlapped, Running
  <2>6. RowsFollow(p)'
    BY <1>2, <2>2, <2>3 DEF IInv, SaveInv, RowsFollow
  <2>7. v.left \subseteq {j \in Slots : v.snap[j] # Nothing}
    BY <2>2, <2>4
  <2>. QED BY <1>1, <1>2, <2>1, <2>2, <2>5, <2>6, <2>7, OneSaveSteps DEF Preserved
<1>4. CASE ~save[p].mine
  <2>1. save' = Ended(p, "failed") /\ ~save[p].alone
    BY <1>2, <1>4 DEF FindItemById, IInv, SaveInv, RowsFollow
  <2>. QED BY <1>2, <2>1, SaveEnded
<1>. QED BY <1>3, <1>4

LEMMA SaveStepPreserves ==
  ASSUME IInv, NEW p \in Savers, SaveStep(p)
  PROVE  Preserved
<1>1. CASE SaveDone(p)
  BY <1>1, SaveEnded DEF SaveDone, counts
<1>2. CASE SaveThrows(p)
  <2>1. faults \in Nat /\ faults' = faults + 1 /\ save' = Ended(p, "failed") /\ rows' = rows
    BY <1>2, Constants DEF SaveThrows, IInv, TypeOK
  <2>2. faults' # 0
    BY <2>1
  <2>. QED BY <2>1, <2>2, SaveEnded
<1>. QED BY <1>1, <1>2, ClearStep, InsertStep, FindStep DEF SaveStep

-----------------------------------------------------------------------------
(***************************************************************************)
(* The other steps.  Rest is what TypeOK says of the variables that are    *)
(* neither the saves nor the rows.                                         *)
(***************************************************************************)
Rest ==
    /\ stateRow \in [Characters -> States]
    /\ pc \in [Sessions -> {"out", "starter", "loaded", "online", "saving", "leaving",
                            "lastSave", "removing", "gone"}]
    /\ inv \in [Sessions -> Contents]
    /\ state \in [Sessions -> States]
    /\ inWorld \subseteq {s \in Sessions : pc[s] \in {"online", "saving", "leaving", "lastSave", "removing"}}
    /\ rounds \in [Threads -> Rounds]
    /\ server \in Serving \cup {"closed", "cleared", "down"}
    /\ faults \in 0 .. MaxFaults /\ changes \in 0 .. MaxChanges

LEMMA TypeParts == IInv => Rest
  BY DEF IInv, TypeOK, Rest

LEMMA IInvParts == Preserved /\ Rest' => IInv'
  BY DEF Preserved, Rest, IInv, TypeOK

LEMMA Untouched ==
  ASSUME IInv, UNCHANGED <<rows, save>>, faults' = 0 => faults = 0
  PROVE  Preserved
  BY SavesUntouched DEF Preserved, IInv, TypeOK

LEMMA Begun ==
  ASSUME IInv, NEW p \in Savers, NEW c \in Characters, NEW content \in Contents,
         save' = SaveWith(p, c, content), UNCHANGED rows, faults' = 0 => faults = 0
  PROVE  Preserved
<1>1. rows' \in [Characters -> Contents]
  BY DEF IInv, TypeOK
<1>. QED BY <1>1, SaveBegins DEF Preserved

\* A statement that throws counts as a fault.
LEMMA FaultCounts ==
  ASSUME Rest, faults' = faults \/ (faults < MaxFaults /\ faults' = faults + 1)
  PROVE  faults' \in 0 .. MaxFaults /\ (faults' = 0 => faults = 0)
  BY Constants DEF Rest

LEMMA SaveStepKeeps ==
  ASSUME IInv, NEW p \in Savers, SaveStep(p)
  PROVE  IInv'
<1>1. Rest
  BY TypeParts
<1>2. /\ UNCHANGED <<stateRow, pc, inv, state, inWorld, rounds, server, changes>>
      /\ faults' = faults \/ (faults < MaxFaults /\ faults' = faults + 1)
  BY DEF SaveStep, ClearInventory, InsertItem, FindItemById, SaveDone, SaveThrows, session, counts
<1>3. Rest'
  BY <1>1, <1>2, FaultCounts DEF Rest
<1>. QED BY <1>3, SaveStepPreserves, IInvParts

LEMMA SessionKeeps ==
  ASSUME IInv, NEW s \in Sessions, Session(s)
  PROVE  IInv'
<1>0. /\ Rest /\ rows \in [Characters -> Contents] /\ Character[s] \in Characters
      /\ s \in Savers /\ inv[s] \in Contents /\ state[s] \in States
  BY TypeParts, CharacterType DEF IInv, TypeOK, Savers
<1>1. CASE Load(s)
  <2>1. CASE rows[Character[s]] = NoRows
    <3>1. Preserved
      BY <1>0, <1>1, <2>1, Constants, Begun DEF Load, counts
    <3>2. Rest'
      BY <1>0, <1>1, <2>1, Constants DEF Load, Goto, counts, Rest
    <3>. QED BY <3>1, <3>2, IInvParts
  <2>2. CASE rows[Character[s]] # NoRows
    <3>1. Preserved
      BY <1>1, <2>2, Untouched DEF Load, counts
    <3>2. Rest'
      BY <1>0, <1>1, <2>2 DEF Load, Goto, counts, Rest
    <3>. QED BY <3>1, <3>2, IInvParts
  <2>. QED BY <2>1, <2>2
<1>2. CASE StarterSaved(s)
  <2>1. Preserved
    BY <1>0, <1>2, SaveReturns DEF StarterSaved, counts
  <2>2. Rest'
    BY <1>0, <1>2 DEF StarterSaved, Goto, counts, Rest
  <2>. QED BY <2>1, <2>2, IInvParts
<1>3. CASE AddPlayer(s)
  <2>1. Preserved
    BY <1>3, Untouched DEF AddPlayer, counts
  <2>2. Rest'
    BY <1>0, <1>3 DEF AddPlayer, Goto, counts, Rest
  <2>. QED BY <2>1, <2>2, IInvParts
<1>4. CASE ApplyMovement(s)
  <2>1. Preserved
    BY <1>4, Untouched DEF ApplyMovement
  <2>2. Rest'
    BY <1>0, <1>4, Constants DEF ApplyMovement, Rest, States
  <2>. QED BY <2>1, <2>2, IInvParts
<1>5. CASE PickupOrDrop(s)
  <2>1. PICK i \in Slots, k \in Stacks \cup {Nothing} :
            /\ inv' = [inv EXCEPT ![s] = [inv[s] EXCEPT ![i] = k]]
            /\ save' = SaveWith(s, Character[s], [inv[s] EXCEPT ![i] = k])
    BY <1>5 DEF PickupOrDrop
  <2>2. [inv[s] EXCEPT ![i] = k] \in Contents
    BY <1>0 DEF Contents
  <2>3. Preserved
    BY <1>0, <1>5, <2>1, <2>2, Begun DEF PickupOrDrop
  <2>4. /\ s \in inWorld /\ pc' = [pc EXCEPT ![s] = "saving"]
        /\ changes < MaxChanges /\ changes' = changes + 1
        /\ UNCHANGED <<stateRow, state, inWorld, rounds, server, faults>>
    BY <1>5 DEF PickupOrDrop, Goto
  <2>5. Rest'
    BY <1>0, <2>1, <2>2, <2>4, Constants DEF Rest
  <2>. QED BY <2>3, <2>5, IInvParts
<1>6. CASE Saved(s)
  <2>1. Preserved
    BY <1>0, <1>6, SaveReturns DEF Saved, counts
  <2>2. Rest'
    BY <1>0, <1>6 DEF Saved, Goto, counts, Rest
  <2>. QED BY <2>1, <2>2, IInvParts
<1>7. CASE Disconnect(s)
  <2>1. Preserved
    BY <1>7, Untouched DEF Disconnect, counts
  <2>2. Rest'
    BY <1>0, <1>7 DEF Disconnect, Goto, counts, Rest
  <2>. QED BY <2>1, <2>2, IInvParts
<1>8. CASE SaveOnLeaving(s)
  <2>1. /\ faults' \in 0 .. MaxFaults /\ (faults' = 0 => faults = 0)
        /\ stateRow' \in [Characters -> States]
    BY <1>0, <1>8, FaultCounts DEF SaveOnLeaving, Rest
  <2>2. Preserved
    <3>1. CASE s \in inWorld
      BY <1>0, <1>8, <2>1, <3>1, Begun DEF SaveOnLeaving
    <3>2. CASE s \notin inWorld
      BY <1>8, <2>1, <3>2, Untouched DEF SaveOnLeaving
    <3>. QED BY <3>1, <3>2
  <2>3. Rest'
    BY <1>0, <1>8, <2>1 DEF SaveOnLeaving, Goto, Rest
  <2>. QED BY <2>2, <2>3, IInvParts
<1>9. CASE LastSaved(s)
  <2>1. Preserved
    BY <1>0, <1>9, SaveReturns DEF LastSaved, counts
  <2>2. Rest'
    BY <1>0, <1>9 DEF LastSaved, Goto, counts, Rest
  <2>. QED BY <2>1, <2>2, IInvParts
<1>10. CASE RemovePlayer(s)
  <2>1. Preserved
    BY <1>10, Untouched DEF RemovePlayer, counts
  <2>2. Rest'
    BY <1>0, <1>10 DEF RemovePlayer, Goto, counts, Rest
  <2>. QED BY <2>1, <2>2, IInvParts
<1>. QED BY <1>1, <1>2, <1>3, <1>4, <1>5, <1>6, <1>7, <1>8, <1>9, <1>10 DEF Session, LeaveStep

LEMMA RoundKeeps ==
  ASSUME IInv, NEW t \in Threads, SaveOnlinePlayers(t)
  PROVE  IInv'
<1>0. /\ Rest /\ t \in Savers /\ rounds[t] \in Rounds /\ inWorld \subseteq Sessions
      /\ inv \in [Sessions -> Contents] /\ state \in [Sessions -> States]
  BY TypeParts DEF Rest, Savers
<1>1. CASE BeginRound(t)
  <2>. DEFINE states == {<<s, state[s]>> : s \in inWorld}
  <2>0. states \subseteq Sessions \X States
    BY <1>0
  <2>. HIDE DEF states
  <2>1. [IdleRound EXCEPT !.at = "states", !.began = inWorld, !.states = states] \in Rounds
    BY <1>0, <2>0, Constants DEF Rounds, IdleRound
  <2>2. Preserved
    BY <1>1, Untouched DEF BeginRound, counts
  <2>3. Rest'
    BY <1>0, <1>1, <2>1 DEF BeginRound, session, counts, Rest, Serving, states
  <2>. QED BY <2>2, <2>3, IInvParts
<1>2. CASE SavePlayerState(t)
  <2>1. PICK e \in rounds[t].states :
            /\ rounds' = [rounds EXCEPT ![t] = [rounds[t] EXCEPT !.states = rounds[t].states \ {e}]]
            /\ \/ stateRow' = [stateRow EXCEPT ![Character[e[1]]] = e[2]] /\ UNCHANGED faults
               \/ faults < MaxFaults /\ faults' = faults + 1 /\ UNCHANGED stateRow
    BY <1>2 DEF SavePlayerState
  <2>2. e \in Sessions \X States /\ Character[e[1]] \in Characters
    BY <1>0, CharacterType DEF Rounds
  <2>3. [rounds[t] EXCEPT !.states = rounds[t].states \ {e}] \in Rounds
    BY <1>0 DEF Rounds
  <2>4. /\ faults' \in 0 .. MaxFaults /\ (faults' = 0 => faults = 0)
        /\ stateRow' \in [Characters -> States]
    BY <1>0, <2>1, <2>2, FaultCounts DEF Rest
  <2>5. Preserved
    BY <1>2, <2>4, Untouched DEF SavePlayerState
  <2>6. Rest'
    BY <1>0, <1>2, <2>1, <2>3, <2>4 DEF SavePlayerState, session, Rest
  <2>. QED BY <2>5, <2>6, IInvParts
<1>3. CASE CreateInventorySnapshots(t)
  <2>. DEFINE invs == {<<s, inv[s]>> : s \in inWorld}
  <2>0. invs \subseteq Sessions \X Contents
    BY <1>0
  <2>. HIDE DEF invs
  <2>1. [rounds[t] EXCEPT !.at = "inventories", !.invs = invs] \in Rounds
    BY <1>0, <2>0 DEF Rounds
  <2>2. Preserved
    BY <1>3, Untouched DEF CreateInventorySnapshots, counts
  <2>3. rounds' = [rounds EXCEPT ![t] = [rounds[t] EXCEPT !.at = "inventories", !.invs = invs]]
    BY <1>0, <1>3 DEF CreateInventorySnapshots, SnapshotsToSave, Rest, invs
  <2>4. Rest'
    BY <1>0, <1>3, <2>1, <2>3 DEF CreateInventorySnapshots, session, counts, Rest
  <2>. QED BY <2>2, <2>4, IInvParts
<1>4. CASE SaveNextInventory(t)
  <2>1. PICK e \in rounds[t].invs :
            /\ rounds' = [rounds EXCEPT ![t] = [rounds[t] EXCEPT !.invs = rounds[t].invs \ {e},
                                                    !.tried = rounds[t].tried \cup {e[1]}]]
            /\ save' = SaveWith(t, Character[e[1]], e[2])
    BY <1>0, <1>4 DEF SaveNextInventory, Rest
  <2>2. e[1] \in Sessions /\ e[2] \in Contents /\ Character[e[1]] \in Characters
    BY <1>0, CharacterType DEF Rounds
  <2>3. [rounds[t] EXCEPT !.invs = rounds[t].invs \ {e},
                          !.tried = rounds[t].tried \cup {e[1]}] \in Rounds
    BY <1>0, <2>2 DEF Rounds
  <2>4. Preserved
    BY <1>0, <1>4, <2>1, <2>2, Begun DEF SaveNextInventory, counts
  <2>5. Rest'
    BY <1>0, <1>4, <2>1, <2>3 DEF SaveNextInventory, session, counts, Rest
  <2>. QED BY <2>4, <2>5, IInvParts
<1>5. CASE InventorySaved(t)
  <2>1. rounds' = rounds
    BY <1>0, <1>5 DEF InventorySaved, LeftToSave, Rest, Rounds
  <2>2. Preserved
    BY <1>0, <1>5, SaveReturns DEF InventorySaved, counts
  <2>3. Rest'
    BY <1>0, <1>5, <2>1 DEF InventorySaved, session, counts, Rest
  <2>. QED BY <2>2, <2>3, IInvParts
<1>6. CASE EndRound(t)
  <2>1. [IdleRound EXCEPT !.began = rounds[t].began] \in Rounds /\ IdleRound \in Rounds
    BY <1>0, Constants DEF Rounds, IdleRound
  <2>2. Preserved
    BY <1>6, Untouched DEF EndRound, counts
  <2>3. rounds' \in [Threads -> Rounds]
    BY <1>0, <1>6, <2>1 DEF EndRound, Rest
  <2>4. Rest'
    BY <1>0, <1>6, <2>3 DEF EndRound, session, counts, Rest, Serving
  <2>. QED BY <2>2, <2>4, IInvParts
<1>. QED BY <1>1, <1>2, <1>3, <1>4, <1>5, <1>6 DEF SaveOnlinePlayers

\* The process ends: every save is cut where it is.
LEMMA CutSaves ==
  ASSUME IInv, ProcessEnds, UNCHANGED rows
  PROVE  Preserved /\ rounds' \in [Threads -> Rounds]
<1>1. NoSave \in Saves /\ NoSave.left = {} /\ ~Running(NoSave) /\ NoSave.at = "none"
  BY Constants DEF NoSave, Running
<1>2. save' = [p \in Savers |-> NoSave]
  BY DEF ProcessEnds
<1>3. \A p \in Savers : save'[p] = NoSave
  BY <1>2
<1>4. \A p \in Savers : SaveInv(p)'
  BY <1>1, <1>3 DEF SaveInv, WellBegun, AloneIsAlone, RowsFollow, FailsIfOverlapped, Running
<1>5. save' \in [Savers -> Saves] /\ rows' \in [Characters -> Contents]
  BY <1>1, <1>2 DEF IInv, TypeOK
<1>6. \A t \in Threads : [IdleRound EXCEPT !.began = rounds[t].began] \in Rounds
  BY Constants DEF IInv, TypeOK, Rounds, IdleRound
<1>7. rounds' \in [Threads -> Rounds]
  BY <1>6 DEF ProcessEnds
<1>8. \A p \in Savers : save'[p].left \subseteq {i \in Slots : save'[p].snap[i] # Nothing}
  BY <1>1, <1>3
<1>. QED BY <1>4, <1>5, <1>7, <1>8 DEF Preserved

LEMMA StopKeeps ==
  ASSUME IInv, ServerStop \/ Crash
  PROVE  IInv'
<1>0. Rest
  BY TypeParts
<1>1. CASE CancelKeyPress \/ NobodyToSave \/ CloseSessions \/ ClearWorld
  <2>1. Preserved
    BY <1>1, Untouched DEF CancelKeyPress, NobodyToSave, CloseSessions, ClearWorld, Stopping, counts
  <2>2. Rest'
    BY <1>0, <1>1 DEF CancelKeyPress, NobodyToSave, CloseSessions, ClearWorld, Stopping,
                      session, counts, Rest, Serving
  <2>. QED BY <2>1, <2>2, IInvParts
<1>2. CASE Exit
  <2>1. ProcessEnds /\ UNCHANGED <<rows, stateRow, faults, changes>> /\ server' = "down"
        /\ pc' = [s \in Sessions |-> "gone"]
    BY <1>2 DEF Exit, Stopping, counts
  <2>2. Preserved /\ rounds' \in [Threads -> Rounds]
    BY <2>1, CutSaves
  <2>3. Rest'
    BY <1>0, <2>1, <2>2 DEF ProcessEnds, Rest
  <2>. QED BY <2>2, <2>3, IInvParts
<1>3. CASE Crash
  <2>1. ProcessEnds /\ UNCHANGED <<rows, stateRow, changes>> /\ server' = "up"
        /\ faults < MaxFaults /\ faults' = faults + 1
        /\ pc' = [s \in Sessions |-> IF pc[s] = "out" THEN "out" ELSE "gone"]
    BY <1>3 DEF Crash
  <2>2. Preserved /\ rounds' \in [Threads -> Rounds]
    BY <2>1, CutSaves
  <2>3. faults' \in 0 .. MaxFaults
    BY <1>0, <2>1, FaultCounts
  <2>4. Rest'
    BY <1>0, <2>1, <2>2, <2>3 DEF ProcessEnds, Rest, Serving
  <2>. QED BY <2>2, <2>4, IInvParts
<1>. QED BY <1>1, <1>2, <1>3 DEF ServerStop

-----------------------------------------------------------------------------
(***************************************************************************)
(* Rounds: whom a round found in the world has entered it for good, and is *)
(* tried, waits for its turn, or has left, once the snapshots are made.    *)
(***************************************************************************)
Entered == {s \in Sessions : pc[s] \notin {"out", "starter", "loaded"}}
Queued(t) == {e[1] : e \in rounds[t].invs}
RoundInv ==
    \A t \in Threads :
        /\ rounds[t].began \subseteq Entered
        /\ rounds[t].at = "inventories" =>
              rounds[t].began \cap inWorld \subseteq rounds[t].tried \cup Queued(t)

\* A step of another part: nobody who has entered enters again.
LEMMA RoundsUntouched ==
  ASSUME RoundInv, UNCHANGED rounds, Entered \subseteq Entered', inWorld' \cap Entered \subseteq inWorld
  PROVE  RoundInv'
  BY DEF RoundInv, Queued

LEMMA SessionsKeepRounds ==
  ASSUME IInv, RoundInv, NEW s \in Sessions, Session(s)
  PROVE  RoundInv'
<1>0. pc \in [Sessions -> {"out", "starter", "loaded", "online", "saving", "leaving",
                           "lastSave", "removing", "gone"}]
  BY DEF IInv, TypeOK
<1>1. CASE Load(s)
  <2>1. pc[s] = "out" /\ \A r \in Sessions \ {s} : pc'[r] = pc[r]
    BY <1>0, <1>1 DEF Load, Goto
  <2>. QED BY <1>1, <2>1, RoundsUntouched DEF Load, Entered
<1>2. CASE StarterSaved(s)
  <2>1. pc[s] = "starter" /\ \A r \in Sessions \ {s} : pc'[r] = pc[r]
    BY <1>0, <1>2 DEF StarterSaved, Goto
  <2>. QED BY <1>2, <2>1, RoundsUntouched DEF StarterSaved, Entered
<1>3. CASE AddPlayer(s)
  <2>1. pc[s] = "loaded" /\ \A r \in Sessions \ {s} : pc'[r] = pc[r]
    BY <1>0, <1>3 DEF AddPlayer, Goto
  <2>2. inWorld' = inWorld \cup {s} /\ s \notin Entered /\ UNCHANGED rounds
    BY <1>3, <2>1 DEF AddPlayer, Entered
  <2>. QED BY <2>1, <2>2, RoundsUntouched DEF Entered
<1>4. CASE ApplyMovement(s)
  BY <1>4, RoundsUntouched DEF ApplyMovement, Entered
<1>5. CASE PickupOrDrop(s) \/ Disconnect(s) \/ Saved(s) \/ SaveOnLeaving(s) \/ LastSaved(s)
  <2>1. /\ pc'[s] \in {"saving", "online", "leaving", "lastSave", "removing"}
        /\ \A r \in Sessions \ {s} : pc'[r] = pc[r]
        /\ UNCHANGED <<rounds, inWorld>>
    BY <1>0, <1>5 DEF PickupOrDrop, Disconnect, Saved, SaveOnLeaving, LastSaved, Goto
  <2>. QED BY <2>1, RoundsUntouched DEF Entered
<1>6. CASE RemovePlayer(s)
  <2>1. pc'[s] = "gone" /\ \A r \in Sessions \ {s} : pc'[r] = pc[r]
    BY <1>0, <1>6 DEF RemovePlayer, Goto
  <2>. QED BY <1>6, <2>1, RoundsUntouched DEF RemovePlayer, Entered
<1>. QED BY <1>1, <1>2, <1>3, <1>4, <1>5, <1>6 DEF Session, LeaveStep

\* A step of one thread's round.
LEMMA RoundOf ==
  ASSUME RoundInv, NEW t \in Threads, NEW r, rounds' = [rounds EXCEPT ![t] = r],
         UNCHANGED <<pc, inWorld>>, rounds \in [Threads -> Rounds],
         r.began \subseteq Entered,
         r.at = "inventories" => r.began \cap inWorld \subseteq r.tried \cup {e[1] : e \in r.invs}
  PROVE  RoundInv'
<1>1. rounds'[t] = r /\ \A u \in Threads \ {t} : rounds'[u] = rounds[u]
  OBVIOUS
<1>2. Entered' = Entered
  BY DEF Entered
<1>. QED BY <1>1, <1>2 DEF RoundInv, Queued

LEMMA RoundsKeepRounds ==
  ASSUME IInv, RoundInv, NEW t \in Threads, SaveOnlinePlayers(t)
  PROVE  RoundInv'
<1>0. /\ rounds \in [Threads -> Rounds] /\ rounds[t] \in Rounds
      /\ inWorld \subseteq Entered
      /\ rounds[t].began \subseteq Entered
      /\ rounds[t].at = "inventories" => rounds[t].began \cap inWorld \subseteq rounds[t].tried \cup Queued(t)
  BY DEF IInv, TypeOK, Entered, RoundInv
<1>1. CASE BeginRound(t)
  <2>. DEFINE states == {<<s, state[s]>> : s \in inWorld}
              r == [IdleRound EXCEPT !.at = "states", !.began = inWorld, !.states = states]
  <2>1. rounds' = [rounds EXCEPT ![t] = r] /\ UNCHANGED <<pc, inWorld>>
    BY <1>1 DEF BeginRound, session
  <2>2. r.began = inWorld /\ r.at = "states"
    BY DEF IdleRound
  <2>. HIDE DEF r
  <2>. QED BY <1>0, <2>1, <2>2, RoundOf
<1>2. CASE SavePlayerState(t)
  <2>1. PICK e \in rounds[t].states :
            rounds' = [rounds EXCEPT ![t] = [rounds[t] EXCEPT !.states = rounds[t].states \ {e}]]
    BY <1>2 DEF SavePlayerState
  <2>. DEFINE r == [rounds[t] EXCEPT !.states = rounds[t].states \ {e}]
  <2>2. r.began = rounds[t].began /\ r.at = "states"
    BY <1>0, <1>2 DEF SavePlayerState, Rounds
  <2>3. rounds' = [rounds EXCEPT ![t] = r] /\ UNCHANGED <<pc, inWorld>>
    BY <1>2, <2>1 DEF SavePlayerState, session
  <2>. HIDE DEF r
  <2>. QED BY <1>0, <2>2, <2>3, RoundOf
<1>3. CASE CreateInventorySnapshots(t)
  <2>. DEFINE r == [rounds[t] EXCEPT !.at = "inventories", !.invs = SnapshotsToSave]
  <2>1. r.began = rounds[t].began /\ r.invs = SnapshotsToSave
    BY <1>0 DEF Rounds
  <2>2. inWorld \subseteq {e[1] : e \in SnapshotsToSave}
    <3>1. ASSUME NEW s \in inWorld PROVE s \in {e[1] : e \in SnapshotsToSave}
      <4>1. <<s, inv[s]>> \in SnapshotsToSave /\ <<s, inv[s]>>[1] = s
        BY DEF SnapshotsToSave
      <4>. QED BY <4>1
    <3>. QED BY <3>1
  <2>3. rounds' = [rounds EXCEPT ![t] = r] /\ UNCHANGED <<pc, inWorld>>
    BY <1>0, <1>3 DEF CreateInventorySnapshots, session
  <2>. HIDE DEF r
  <2>. QED BY <1>0, <2>1, <2>2, <2>3, RoundOf
<1>4. CASE SaveNextInventory(t)
  <2>1. PICK e \in rounds[t].invs :
            rounds' = [rounds EXCEPT ![t] = [rounds[t] EXCEPT !.invs = rounds[t].invs \ {e},
                                                    !.tried = rounds[t].tried \cup {e[1]}]]
    BY <1>0, <1>4 DEF SaveNextInventory
  <2>. DEFINE r == [rounds[t] EXCEPT !.invs = rounds[t].invs \ {e}, !.tried = rounds[t].tried \cup {e[1]}]
  <2>2. /\ r.began = rounds[t].began /\ r.at = rounds[t].at
        /\ r.invs = rounds[t].invs \ {e} /\ r.tried = rounds[t].tried \cup {e[1]}
    BY <1>0 DEF Rounds
  <2>3. rounds' = [rounds EXCEPT ![t] = r] /\ UNCHANGED <<pc, inWorld>>
    BY <1>4, <2>1 DEF SaveNextInventory, session
  <2>. HIDE DEF r
  <2>4. rounds[t].tried \cup Queued(t) \subseteq r.tried \cup {d[1] : d \in r.invs}
    BY <2>2 DEF Queued
  <2>. QED BY <1>0, <2>2, <2>3, <2>4, RoundOf
<1>5. CASE InventorySaved(t)
  <2>1. rounds' = rounds /\ UNCHANGED <<pc, inWorld>>
    BY <1>0, <1>5 DEF InventorySaved, LeftToSave, Rounds, session
  <2>. QED BY <2>1, RoundsUntouched DEF Entered
<1>6. CASE EndRound(t)
  <2>. DEFINE r == IF t = Stop THEN [IdleRound EXCEPT !.began = rounds[t].began] ELSE IdleRound
  <2>1. r.began \subseteq Entered /\ r.at = "idle"
    BY <1>0 DEF IdleRound
  <2>2. rounds' = [rounds EXCEPT ![t] = r] /\ UNCHANGED <<pc, inWorld>>
    BY <1>6 DEF EndRound, session
  <2>. HIDE DEF r
  <2>. QED BY <1>0, <2>1, <2>2, RoundOf
<1>. QED BY <1>1, <1>2, <1>3, <1>4, <1>5, <1>6 DEF SaveOnlinePlayers

\* A process that ends leaves its rounds idle.
LEMMA CutRounds ==
  ASSUME RoundInv, ProcessEnds, Entered \subseteq Entered'
  PROVE  RoundInv'
<1>1. \A t \in Threads : rounds'[t] = [IdleRound EXCEPT !.began = rounds[t].began]
  BY DEF ProcessEnds
<1>2. \A t \in Threads : rounds'[t].at = "idle" /\ rounds'[t].began = rounds[t].began
  BY <1>1 DEF IdleRound
<1>. QED BY <1>2 DEF RoundInv

LEMMA NextRoundInv ==
  ASSUME IInv, RoundInv, [Next]_vars
  PROVE  RoundInv'
<1>1. CASE UNCHANGED vars
  BY <1>1, RoundsUntouched DEF vars, session, Entered
<1>2. ASSUME NEW p \in Savers, SaveStep(p) PROVE RoundInv'
  BY <1>2, RoundsUntouched DEF SaveStep, ClearInventory, InsertItem, FindItemById, SaveDone, SaveThrows,
                               session, Entered
<1>3. CASE CancelKeyPress \/ NobodyToSave \/ CloseSessions \/ ClearWorld
  BY <1>3, RoundsUntouched DEF CancelKeyPress, NobodyToSave, CloseSessions, ClearWorld, session, Entered
<1>4. CASE Exit
  BY <1>4, CutRounds DEF Exit, Entered
<1>5. CASE Crash
  BY <1>5, CutRounds DEF Crash, Entered
<1>. QED BY <1>1, <1>2, <1>3, <1>4, <1>5, SessionsKeepRounds, RoundsKeepRounds DEF Next, ServerStop

-----------------------------------------------------------------------------
(***************************************************************************)
(* The theorems.                                                           *)
(***************************************************************************)
LEMMA InitIInv == Init => IInv
<1>. SUFFICES ASSUME Init PROVE IInv
  OBVIOUS
<1>1. NoSave.left = {} /\ NoSave.at = "none"
  BY DEF NoSave
<1>2. \A p \in Savers : save[p] = NoSave
  BY DEF Init
<1>3. TypeOK
  BY <1>1, <1>2, Constants DEF Init, TypeOK, States, Serving
<1>4. \A p \in Savers : SaveInv(p)
  BY <1>1, <1>2 DEF SaveInv, WellBegun, AloneIsAlone, RowsFollow, FailsIfOverlapped, Running
<1>. QED BY <1>3, <1>4 DEF IInv

LEMMA NextIInv == IInv /\ [Next]_vars => IInv'
<1>. SUFFICES ASSUME IInv, [Next]_vars PROVE IInv'
  OBVIOUS
<1>1. CASE UNCHANGED vars
  <2>1. Preserved /\ Rest'
    BY <1>1, Untouched, TypeParts DEF vars, session, counts, Rest
  <2>. QED BY <2>1, IInvParts
<1>2. CASE Next
  BY <1>2, SessionKeeps, SaveStepKeeps, RoundKeeps, StopKeeps DEF Next
<1>. QED BY <1>1, <1>2

\* Every reachable state satisfies the inductive invariant.
LEMMA Inductive == Spec => []IInv
  BY InitIInv, NextIInv, PTL DEF Spec

\* Rows, inventories, states, saves and rounds stay well typed, for any number
\* of sessions, characters and slots.
THEOREM TypeCorrect == Spec => []TypeOK
<1>1. IInv => TypeOK
  BY DEF IInv
<1>. QED BY <1>1, Inductive, PTL

\* A save that no other one of its character overlapped leaves exactly its
\* snapshot in inventory_items (InventoryService.cs:71-118).
THEOREM UndisturbedSavesAreExact == Spec => UndisturbedSaveIsExact
<1>1. IInv => \A p \in Savers : SaveDone(p) /\ save[p].alone => rows[save[p].of] = save[p].snap
  <2>. SUFFICES ASSUME IInv, NEW p \in Savers, SaveDone(p), save[p].alone
                PROVE  rows[save[p].of] = save[p].snap
    OBVIOUS
  <2>1. save[p].at = "insert" /\ save[p].left = {}
    BY DEF SaveDone
  <2>2. Holds(rows[save[p].of], save[p].snap, {}) /\ save[p].of \in Characters
    BY <2>1 DEF IInv, SaveInv, RowsFollow, WellBegun, Running
  <2>3. rows[save[p].of] \in Contents /\ save[p].snap \in Contents
    BY <2>2 DEF IInv, TypeOK, Saves
  <2>. QED BY <2>2, <2>3 DEF Holds, Contents
<1>. QED BY <1>1, Inductive, PTL DEF UndisturbedSaveIsExact

\* Without an error of the database, a save only fails when another save of the
\* same character ran at the same time.
THEOREM OnlyOverlappedSavesFail == Spec => []OnlyOverlapsFail
<1>1. IInv => OnlyOverlapsFail
  BY DEF IInv, SaveInv, FailsIfOverlapped, OnlyOverlapsFail
<1>. QED BY <1>1, Inductive, PTL

\* However many players there are, a round tries to save every one that was in
\* the world all through it, also after errors saving others
\* (GameServer.cs:186-227).
THEOREM RoundsTryEverybody == Spec => RoundTriesEverybody
<1>1. Init => RoundInv
  BY DEF Init, RoundInv, IdleRound
<1>2. IInv /\ RoundInv /\ [Next]_vars => RoundInv'
  BY NextRoundInv
<1>3. RoundInv => \A t \in Threads : EndRound(t) => rounds[t].began \cap inWorld \subseteq rounds[t].tried
  BY DEF RoundInv, EndRound, Queued
<1>4. RoundInv /\ [Next]_vars =>
         [\A t \in Threads : EndRound(t) => rounds[t].began \cap inWorld \subseteq rounds[t].tried]_vars
  BY <1>3
<1>. QED BY <1>1, <1>2, <1>4, Inductive, PTL DEF Spec, RoundTriesEverybody
===============================================================================
