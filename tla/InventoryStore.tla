--------------------------- MODULE InventoryStore ---------------------------
(***************************************************************************)
(* Saving and loading: the rows of the inventory_items table and of the    *)
(* characters table, the sessions that load a character at login and save  *)
(* it after a pickup, after a drop and on leaving, and the rounds that     *)
(* save everybody: the autosave thread's and Stop's.  SaveInventory-       *)
(* Snapshot deletes the rows and inserts the stacks one statement at a     *)
(* time, without a transaction or a lock, so saves of one character        *)
(* interleave; every statement may throw.                                  *)
(*                                                                         *)
(* Ids of rows matter only to the read that follows an insert: mine says   *)
(* that the row a save has just inserted is still there.                   *)
(***************************************************************************)
EXTENDS Integers, FiniteSets, FiniteSetsExt

CONSTANTS
    Sessions,       \* session ids, each used by one connection
    Character,      \* the character each session logs in to
    NSlots,         \* slots of an inventory
    Stacks,         \* what a slot can hold
    Nothing,        \* an empty slot
    Starter,        \* the starter inventory
    Guests,         \* bound: sessions that only log in and stay, when no autosave runs
    MaxFaults,      \* bound on database errors and server crashes
    MaxChanges,     \* bound on moves, pickups and drops
    Autosave, Stop,     \* the autosave thread, and the main thread in Stop
    Threads         \* which of the two run

Slots == 0 .. NSlots - 1
Contents == [Slots -> Stacks \cup {Nothing}]
NoRows == [i \in Slots |-> Nothing]
Characters == {Character[s] : s \in Sessions}
Savers == Sessions \cup Threads
States == {"start", "moved"}

ASSUME StoreAssumption ==
    /\ NSlots \in Nat \ {0} /\ MaxFaults \in Nat /\ MaxChanges \in Nat
    /\ Nothing \notin Stacks /\ Guests \subseteq Sessions
    /\ Autosave # Stop /\ Threads \subseteq {Autosave, Stop} /\ Threads \cap Sessions = {}
    /\ Starter \in Contents /\ Starter # NoRows

VARIABLES
    rows,       \* inventory_items of each character, by slot
    stateRow,   \* the characters row of each character
    pc,         \* where a session is
    inv,        \* a session's inventory
    state,      \* a session's PlayerState
    save,       \* the SaveInventorySnapshot call of a saver
    inWorld,    \* sessions with a player in the world
    rounds,     \* each thread's round of SaveOnlinePlayers
    server,     \* how far the server has stopped
    faults,     \* database errors and crashes so far
    changes     \* moves, pickups and drops so far

session == <<pc, inv, state>>
counts == <<faults, changes>>
vars == <<rows, stateRow, session, save, inWorld, rounds, server, counts>>

NoSave == [at |-> "none", of |-> 0, snap |-> NoRows, left |-> {}, mine |-> FALSE, alone |-> FALSE]
IdleRound == [at |-> "idle", states |-> {}, invs |-> {}, began |-> {}, tried |-> {}]

Init ==
    /\ rows = [c \in Characters |-> NoRows]
    /\ stateRow = [c \in Characters |-> "start"]
    /\ pc = [s \in Sessions |-> "out"]
    /\ inv = [s \in Sessions |-> NoRows]
    /\ state = [s \in Sessions |-> "start"]
    /\ save = [p \in Savers |-> NoSave]
    /\ inWorld = {}
    /\ rounds = [t \in Threads |-> IdleRound]
    /\ server = "up"
    /\ faults = 0 /\ changes = 0

-----------------------------------------------------------------------------
(***************************************************************************)
(* SaveInventorySnapshot, called by saver p.                               *)
(***************************************************************************)
SavesOf(c) == {p \in Savers : save[p].at \notin {"none", "done", "failed"} /\ save[p].of = c}

\* The slots a save has to insert.
Filled(content) == {i \in Slots : content[i] # Nothing}

\* p begins; a save is alone while no other one of its character runs.
SaveWith(p, c, content) ==
    [q \in Savers |->
        IF q = p
        THEN [at |-> "clear", of |-> c, snap |-> content,
              left |-> Filled(content),
              mine |-> FALSE, alone |-> SavesOf(c) \ {p} = {}]
        ELSE IF q \in SavesOf(c) THEN [save[q] EXCEPT !.alone = FALSE] ELSE save[q]]

ClearInventory(p) ==
    LET c == save[p].of
    IN  /\ save[p].at = "clear"
        /\ rows' = [rows EXCEPT ![c] = NoRows]
        /\ save' = [q \in Savers |->
                       IF q = p THEN [save[q] EXCEPT !.at = "insert"]
                       ELSE IF q \in SavesOf(c) THEN [save[q] EXCEPT !.mine = FALSE]
                       ELSE save[q]]
        /\ UNCHANGED <<stateRow, session, inWorld, rounds, server, counts>>

Ended(p, outcome) ==
    [save EXCEPT ![p] = [NoSave EXCEPT !.at = outcome, !.alone = save[p].alone]]

\* The stacks are inserted in the order of their slots; the table's unique key
\* refuses a second row in a slot.
NextSlot(p) == Min(save[p].left)

InsertItem(p) ==
    LET c == save[p].of
        i == NextSlot(p)
    IN  /\ save[p].at = "insert" /\ save[p].left # {}
        /\ IF rows[c][i] = Nothing
           THEN /\ rows' = [rows EXCEPT ![c][i] = save[p].snap[i]]
                /\ save' = [save EXCEPT ![p].at = "find", ![p].mine = TRUE]
           ELSE /\ save' = Ended(p, "failed")
                /\ UNCHANGED rows
        /\ UNCHANGED <<stateRow, session, inWorld, rounds, server, counts>>

\* What is still to be inserted once the row is found.
\* Mutants: one slot more is left out; the slot stays.
LeftAfter_SkipsOne(p) == {i \in save[p].left : i > NextSlot(p) + 1}
LeftAfter_Keeps(p) == save[p].left
LeftAfter(p) == save[p].left \ {NextSlot(p)}

\* InsertItem reads its row back, and throws if it is gone.
FindItemById(p) ==
    /\ save[p].at = "find"
    /\ save' = IF save[p].mine
               THEN [save EXCEPT ![p].at = "insert", ![p].left = LeftAfter(p), ![p].mine = FALSE]
               ELSE Ended(p, "failed")
    /\ UNCHANGED <<rows, stateRow, session, inWorld, rounds, server, counts>>

SaveDone(p) ==
    /\ save[p].at = "insert" /\ save[p].left = {}
    /\ save' = Ended(p, "done")
    /\ UNCHANGED <<rows, stateRow, session, inWorld, rounds, server, counts>>

\* A statement throws.
SaveThrows(p) ==
    /\ save[p].at \in {"clear", "insert", "find"}
    /\ faults < MaxFaults
    /\ faults' = faults + 1
    /\ save' = Ended(p, "failed")
    /\ UNCHANGED <<rows, stateRow, session, inWorld, rounds, server, changes>>

SaveReturned(p) == save[p].at \in {"done", "failed"}
Returned(p) == [save EXCEPT ![p] = NoSave]

-----------------------------------------------------------------------------
(***************************************************************************)
(* A session.                                                              *)
(***************************************************************************)
Goto(s, place) == pc' = [pc EXCEPT ![s] = place]

\* Stop has not closed the sessions yet.
Serving == {"up", "cancelled", "saving", "saved"}

\* Login: the character and the rows are read; without rows the starter items
\* are given and saved before the player enters the world.
Load(s) ==
    LET c == Character[s]
    IN  /\ pc[s] = "out" /\ server \in Serving
        /\ s \in Guests => \A t \in Threads \ {Stop} : rounds[t].at = "idle"
        /\ state' = [state EXCEPT ![s] = stateRow[c]]
        /\ IF rows[c] = NoRows
           THEN /\ inv' = [inv EXCEPT ![s] = Starter]
                /\ save' = SaveWith(s, c, Starter)
                /\ Goto(s, "starter")
           ELSE /\ inv' = [inv EXCEPT ![s] = rows[c]]
                /\ Goto(s, "loaded")
                /\ UNCHANGED save
        /\ UNCHANGED <<rows, stateRow, inWorld, rounds, server, counts>>

\* An error in the login ends the session: there is no player to remove.
StarterSaved(s) ==
    /\ pc[s] = "starter" /\ SaveReturned(s)
    /\ Goto(s, IF save[s].at = "done" THEN "loaded" ELSE "gone")
    /\ save' = Returned(s)
    /\ UNCHANGED <<rows, stateRow, inv, state, inWorld, rounds, server, counts>>

AddPlayer(s) ==
    /\ pc[s] = "loaded"
    /\ Goto(s, "online")
    /\ inWorld' = inWorld \cup {s}
    /\ UNCHANGED <<rows, stateRow, inv, state, save, rounds, server, counts>>

ApplyMovement(s) ==
    /\ pc[s] = "online" /\ s \in inWorld /\ server \in Serving /\ s \notin Guests
    /\ state[s] = "start" /\ changes < MaxChanges
    /\ changes' = changes + 1
    /\ state' = [state EXCEPT ![s] = "moved"]
    /\ UNCHANGED <<rows, stateRow, pc, inv, save, inWorld, rounds, server, faults>>

\* A pickup fills a slot and a drop empties one; both are saved.
PickupOrDrop(s) ==
    /\ pc[s] = "online" /\ s \in inWorld /\ server \in Serving /\ s \notin Guests
    /\ changes < MaxChanges
    /\ changes' = changes + 1
    /\ \E i \in Slots, k \in Stacks \cup {Nothing} :
        /\ (inv[s][i] = Nothing) # (k = Nothing)
        /\ inv' = [inv EXCEPT ![s][i] = k]
        /\ save' = SaveWith(s, Character[s], [inv[s] EXCEPT ![i] = k])
    /\ Goto(s, "saving")
    /\ UNCHANGED <<rows, stateRow, state, inWorld, rounds, server, faults>>

\* An error in that save ends the session, which then leaves.
Saved(s) ==
    /\ pc[s] = "saving" /\ SaveReturned(s)
    /\ Goto(s, IF save[s].at = "done" THEN "online" ELSE "leaving")
    /\ save' = Returned(s)
    /\ UNCHANGED <<rows, stateRow, inv, state, inWorld, rounds, server, counts>>

Disconnect(s) ==
    /\ pc[s] = "online" /\ (s \in Guests => server \notin Serving)
    /\ Goto(s, "leaving")
    /\ UNCHANGED <<rows, stateRow, inv, state, save, inWorld, rounds, server, counts>>

\* RemoveFromWorldIfNeededAsync: the state is saved, then the inventory.
\* Errors of both are caught, and a player no longer in the world has no
\* inventory to save.
SaveOnLeaving(s) ==
    /\ pc[s] = "leaving"
    /\ \/ stateRow' = [stateRow EXCEPT ![Character[s]] = state[s]] /\ UNCHANGED faults
       \/ faults < MaxFaults /\ faults' = faults + 1 /\ UNCHANGED stateRow
    /\ IF s \in inWorld
       THEN save' = SaveWith(s, Character[s], inv[s]) /\ Goto(s, "lastSave")
       ELSE Goto(s, "removing") /\ UNCHANGED save
    /\ UNCHANGED <<rows, inv, state, inWorld, rounds, server, changes>>

\* Mutant: an error of the last save is not caught.
LastSaved_NotCaught(s) ==
    /\ pc[s] = "lastSave" /\ save[s].at = "done"
    /\ Goto(s, "removing")
    /\ save' = Returned(s)
    /\ UNCHANGED <<rows, stateRow, inv, state, inWorld, rounds, server, counts>>

LastSaved(s) ==
    /\ pc[s] = "lastSave" /\ SaveReturned(s)
    /\ Goto(s, "removing")
    /\ save' = Returned(s)
    /\ UNCHANGED <<rows, stateRow, inv, state, inWorld, rounds, server, counts>>

RemovePlayer(s) ==
    /\ pc[s] = "removing"
    /\ Goto(s, "gone")
    /\ inWorld' = inWorld \ {s}
    /\ UNCHANGED <<rows, stateRow, inv, state, save, rounds, server, counts>>

-----------------------------------------------------------------------------
(***************************************************************************)
(* SaveOnlinePlayers: the states of all players are copied and then saved  *)
(* one by one, then the same for the inventories.  Every error is caught.  *)
(***************************************************************************)
BeginRound(t) ==
    /\ rounds[t].at = "idle" /\ inWorld # {}
    /\ \/ t = Autosave /\ server = "up" /\ UNCHANGED server /\ \A s \in Guests : pc[s] = "out"
       \/ t = Stop /\ server = "cancelled" /\ server' = "saving"
    /\ rounds' = [rounds EXCEPT ![t] =
                     [IdleRound EXCEPT !.at = "states", !.began = inWorld,
                                       !.states = {<<s, state[s]>> : s \in inWorld}]]
    /\ UNCHANGED <<rows, stateRow, session, save, inWorld, counts>>

SavePlayerState(t) ==
    /\ rounds[t].at = "states"
    /\ \E e \in rounds[t].states :
        /\ rounds' = [rounds EXCEPT ![t].states = @ \ {e}]
        /\ \/ stateRow' = [stateRow EXCEPT ![Character[e[1]]] = e[2]] /\ UNCHANGED faults
           \/ faults < MaxFaults /\ faults' = faults + 1 /\ UNCHANGED stateRow
    /\ UNCHANGED <<rows, session, save, inWorld, server, changes>>

SnapshotsToSave == {<<s, inv[s]>> : s \in inWorld}

CreateInventorySnapshots(t) ==
    /\ rounds[t].at = "states" /\ rounds[t].states = {}
    /\ rounds' = [rounds EXCEPT ![t].at = "inventories",
                                ![t].invs = SnapshotsToSave]
    /\ UNCHANGED <<rows, stateRow, session, save, inWorld, server, counts>>

SaveNextInventory(t) ==
    /\ rounds[t].at = "inventories" /\ save[t] = NoSave
    /\ \E e \in rounds[t].invs :
        /\ rounds' = [rounds EXCEPT ![t].invs = @ \ {e}, ![t].tried = @ \cup {e[1]}]
        /\ save' = SaveWith(t, Character[e[1]], e[2])
    /\ UNCHANGED <<rows, stateRow, session, inWorld, server, counts>>

\* What is left to save after a save returned, also when it threw.
\* Mutant: the try is around the loop, so that an error ends the round.
LeftToSave_RoundEnds(t, outcome) == IF outcome = "failed" THEN {} ELSE rounds[t].invs
LeftToSave(t, outcome) == rounds[t].invs

InventorySaved(t) ==
    /\ rounds[t].at = "inventories" /\ SaveReturned(t)
    /\ rounds' = [rounds EXCEPT ![t].invs = LeftToSave(t, save[t].at)]
    /\ save' = Returned(t)
    /\ UNCHANGED <<rows, stateRow, session, inWorld, server, counts>>

\* began stays behind Stop's round, to say whom it found.
EndRound(t) ==
    /\ rounds[t].at = "inventories" /\ rounds[t].invs = {} /\ save[t] = NoSave
    /\ rounds' = [rounds EXCEPT ![t] =
                     IF t = Stop THEN [IdleRound EXCEPT !.began = rounds[t].began] ELSE IdleRound]
    /\ server' = IF t = Stop THEN "saved" ELSE server
    /\ UNCHANGED <<rows, stateRow, session, save, inWorld, counts>>

-----------------------------------------------------------------------------
(***************************************************************************)
(* Ctrl+C: no new autosave round begins, the main thread runs Stop and the *)
(* process ends, whatever its other threads are doing.                     *)
(***************************************************************************)
Stopping(from, to) ==
    /\ Stop \in Threads /\ server = from
    /\ server' = to
    /\ UNCHANGED <<rows, stateRow, counts>>

CancelKeyPress == Stopping("up", "cancelled") /\ UNCHANGED <<session, save, inWorld, rounds>>

NobodyToSave ==
    /\ inWorld = {}
    /\ Stopping("cancelled", "saved") /\ UNCHANGED <<session, save, inWorld, rounds>>

CloseSessions == Stopping("saved", "closed") /\ UNCHANGED <<session, save, inWorld, rounds>>

ClearWorld ==
    /\ Stopping("closed", "cleared")
    /\ inWorld' = {}
    /\ UNCHANGED <<session, save, rounds>>

ProcessEnds ==
    /\ save' = [p \in Savers |-> NoSave]
    /\ inWorld' = {}
    /\ rounds' = [t \in Threads |-> [IdleRound EXCEPT !.began = rounds[t].began]]
    /\ UNCHANGED <<inv, state>>

Exit ==
    /\ Stopping("cleared", "down")
    /\ pc' = [s \in Sessions |-> "gone"]
    /\ ProcessEnds

\* The server process dies and is started again: only the tables remain.
Crash ==
    /\ faults < MaxFaults
    /\ faults' = faults + 1
    /\ \E s \in Sessions : pc[s] \notin {"out", "gone"}
    /\ pc' = [s \in Sessions |-> IF pc[s] = "out" THEN "out" ELSE "gone"]
    /\ server' = "up"
    /\ ProcessEnds
    /\ UNCHANGED <<rows, stateRow, changes>>

SaveStep(p) ==
    ClearInventory(p) \/ InsertItem(p) \/ FindItemById(p) \/ SaveDone(p) \/ SaveThrows(p)

LeaveStep(s) == Saved(s) \/ SaveOnLeaving(s) \/ LastSaved(s) \/ RemovePlayer(s)

Session(s) ==
    \/ Load(s) \/ StarterSaved(s) \/ AddPlayer(s)
    \/ ApplyMovement(s) \/ PickupOrDrop(s) \/ Disconnect(s)
    \/ LeaveStep(s)

SaveOnlinePlayers(t) ==
    \/ BeginRound(t) \/ SavePlayerState(t) \/ CreateInventorySnapshots(t)
    \/ SaveNextInventory(t) \/ InventorySaved(t) \/ EndRound(t)

ServerStop == CancelKeyPress \/ NobodyToSave \/ CloseSessions \/ ClearWorld \/ Exit

Next ==
    \/ \E s \in Sessions : Session(s)
    \/ \E p \in Savers : SaveStep(p)
    \/ \E t \in Threads : SaveOnlinePlayers(t)
    \/ ServerStop
    \/ Crash

Spec == Init /\ [][Next]_vars

\* Statements return or throw, and a session that leaves goes on leaving.
FairSpec ==
    /\ Spec
    /\ \A p \in Savers : WF_vars(SaveStep(p))
    /\ \A s \in Sessions : WF_vars(LeaveStep(s))

-----------------------------------------------------------------------------
(***************************************************************************)
(* Properties.                                                             *)
(***************************************************************************)
Saves == [at : {"none", "clear", "insert", "find", "done", "failed"}, of : Characters \cup {0},
          snap : Contents, left : SUBSET Slots, mine : BOOLEAN, alone : BOOLEAN]
Rounds == [at : {"idle", "states", "inventories"}, states : SUBSET (Sessions \X States),
           invs : SUBSET (Sessions \X Contents), began : SUBSET Sessions, tried : SUBSET Sessions]

TypeOK ==
    /\ rows \in [Characters -> Contents]
    /\ stateRow \in [Characters -> States]
    /\ pc \in [Sessions -> {"out", "starter", "loaded", "online", "saving", "leaving",
                            "lastSave", "removing", "gone"}]
    /\ inv \in [Sessions -> Contents]
    /\ state \in [Sessions -> States]
    /\ save \in [Savers -> Saves]
    /\ \A p \in Savers : save[p].left \subseteq {i \in Slots : save[p].snap[i] # Nothing}
    /\ inWorld \subseteq {s \in Sessions : pc[s] \in {"online", "saving", "leaving", "lastSave", "removing"}}
    /\ rounds \in [Threads -> Rounds]
    /\ server \in Serving \cup {"closed", "cleared", "down"}
    /\ faults \in 0 .. MaxFaults /\ changes \in 0 .. MaxChanges

\* A save that no other save of its character overlapped leaves exactly its
\* snapshot in the table, whatever it found there: the rest of a save that
\* threw or died half-way is cleared away, and the unique key stops nothing
\* (InventoryService.cs:71-118).
UndisturbedSaveIsExact ==
    [][\A p \in Savers : SaveDone(p) /\ save[p].alone => rows[save[p].of] = save[p].snap]_vars

\* A session never throws from a save that nothing disturbed: only a database
\* error or an overlapping save ends a session.
OnlyOverlapsFail ==
    faults = 0 => \A p \in Savers : save[p].at = "failed" => ~save[p].alone

\* A round tries to save every player that was in the world all through it,
\* also after errors saving others (GameServer.cs:215-227).
RoundTriesEverybody ==
    [][\A t \in Threads : EndRound(t) => rounds[t].began \cap inWorld \subseteq rounds[t].tried]_vars

\* A session that leaves gets out of the world, whether its saves throw or not
\* (ClientSession.cs:634-660).
LeavingEnds == \A s \in Sessions : pc[s] = "leaving" ~> pc[s] = "gone"

\* Nobody disturbed what s left behind.
Alone(s) == \A t \in Sessions \ {s} : pc[t] = "out" \/ Character[t] # Character[s]
StoredAsLeft(s) == rows[Character[s]] = inv[s] /\ stateRow[Character[s]] = state[s]

\* What the feature list promises: without a database error a character is
\* stored as its session left it, by disconnecting or in the world of a server
\* that Stop saves.  It is violated in two ways.  An autosave that copied an
\* older state or inventory (GameServer.cs:188, 211) writes it after the
\* session's last save, or gets mixed with it.  And the process ends
\* (Program.cs:31) without waiting for the saves that the sessions make when
\* Stop closes them (GameServer.cs:691-694): it cuts them between their delete
\* and their inserts.
SavedOnStopOrDisconnect ==
    \A s \in Sessions :
        /\ pc[s] = "gone" /\ \A t \in Threads : rounds[t].at = "idle"
        /\ \/ server = "up"
           \/ server = "down" /\ \E t \in Threads : t = Stop /\ s \in rounds[t].began
        /\ faults = 0 /\ Alone(s)
        => StoredAsLeft(s)
=============================================================================
