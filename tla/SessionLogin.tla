---------------------------- MODULE SessionLogin ----------------------------
(***************************************************************************)
(* Registering and logging in: the accounts, characters and inventories    *)
(* tables with their unique keys, and the handlers of ClientSession that   *)
(* read them and insert into them one statement at a time.  Handlers of    *)
(* different sessions interleave between statements; a statement may       *)
(* throw, a session may be closed under its handler, the server may die.   *)
(*                                                                         *)
(* A request whose fields do not validate changes nothing and is left out. *)
(* The rows of the items are InventoryStore's: what it shows of a starter  *)
(* save, that only an error or another save of the character makes it      *)
(* throw, is taken here.                                                   *)
(***************************************************************************)
EXTENDS Integers, FiniteSets

CONSTANTS
    Sessions,       \* connections, each used once
    Logins, Emails, \* what clients ask for
    MaxRegisters,   \* bound on registrations begun
    MaxFaults       \* bound on database errors and server crashes

ASSUME LoginAssumption ==
    /\ IsFiniteSet(Sessions)
    /\ MaxRegisters \in Nat /\ MaxFaults \in Nat

VARIABLES
    accounts,       \* rows of accounts
    characters,     \* rows of characters
    inventories,    \* the characters with a row in inventories
    at,             \* where a session's handler is; "idle" is the receive loop
    request,        \* login and email of the request being handled
    found,          \* the id the handler has read or inserted, 0 before
    account,        \* AccountId of an authorized session, 0 before
    player,         \* the character a session has in the world, 0 for none
    closed,         \* sessions that are closed
    overlapped,     \* sessions that shared their account with another one
    played,         \* characters in the world at some time since the server's start
    told,           \* answers to registrations
    registers, faults

tables == <<accounts, characters, inventories>>
handler == <<at, request, found>>
flags == <<account, player, closed, overlapped, played>>
counts == <<registers, faults>>
vars == <<tables, handler, flags, told, counts>>

Requests == Logins \X Emails
NoRequest == <<>>
Register(s) == at[s] \in {"findLogin", "findEmail", "create", "findById"}
LoggingIn(s) == at[s] \in {"findCharacter", "createCharacter", "findInventory",
                           "createInventory", "loadItems", "addPlayer"}
Live(s) == at[s] \notin {"failed", "gone"}

Init ==
    /\ accounts = {} /\ characters = {} /\ inventories = {}
    /\ at = [s \in Sessions |-> "idle"]
    /\ request = [s \in Sessions |-> NoRequest]
    /\ found = [s \in Sessions |-> 0]
    /\ account = [s \in Sessions |-> 0]
    /\ player = [s \in Sessions |-> 0]
    /\ closed = {} /\ overlapped = {} /\ played = {} /\ told = {}
    /\ registers = 0 /\ faults = 0

-----------------------------------------------------------------------------
Goto(s, place) == at' = [at EXCEPT ![s] = place]

\* A handler returns to the receive loop, or ends the session.
Return(s, place) ==
    /\ Goto(s, place)
    /\ request' = [request EXCEPT ![s] = NoRequest]
    /\ found' = [found EXCEPT ![s] = 0]

\* SendPacketAsync sends nothing on a closed session.
Answer(s, kind) ==
    /\ Return(s, "idle")
    /\ told' = IF s \in closed THEN told
               ELSE told \cup {[to |-> s, kind |-> kind, id |-> found[s],
                                login |-> request[s][1], email |-> request[s][2]]}

WithLogin(l) == {a \in accounts : a.login = l}
WithEmail(e) == {a \in accounts : a.email = e}

Asks(s, r, place) ==
    /\ at[s] = "idle" /\ s \notin closed /\ account[s] = 0
    /\ request' = [request EXCEPT ![s] = r]
    /\ Goto(s, place)
    /\ UNCHANGED <<tables, found, flags, told, faults>>

(***************************************************************************)
(* HandleRegisterRequestAsync and AccountService.Register.                 *)
(***************************************************************************)
BeginRegister(s) ==
    /\ registers < MaxRegisters
    /\ registers' = registers + 1
    /\ \E r \in Requests : Asks(s, r, "findLogin")

FindByLogin(s) ==
    /\ at[s] = "findLogin"
    /\ IF WithLogin(request[s][1]) # {}
       THEN Answer(s, "exists")
       ELSE Goto(s, "findEmail") /\ UNCHANGED <<request, found, told>>
    /\ UNCHANGED <<tables, flags, counts>>

FindByEmail(s) ==
    /\ at[s] = "findEmail"
    /\ IF WithEmail(request[s][2]) # {}
       THEN Answer(s, "exists")
       ELSE Goto(s, "create") /\ UNCHANGED <<request, found, told>>
    /\ UNCHANGED <<tables, flags, counts>>

\* The unique keys of the table: another handler may have inserted since.
\* Mutant: no key on the email.
AccountKeysFree_LoginOnly(r) == WithLogin(r[1]) = {}
AccountKeysFree(r) == WithLogin(r[1]) = {} /\ WithEmail(r[2]) = {}

\* AUTO_INCREMENT; rows are never deleted.
NewAccountId == Cardinality(accounts) + 1
NewCharacterId == Cardinality(characters) + 1

CreateAccount(s) ==
    LET r == request[s]
    IN  /\ at[s] = "create"
        /\ IF AccountKeysFree(r)
           THEN /\ accounts' = accounts \cup
                       {[id |-> NewAccountId, login |-> r[1], email |-> r[2]]}
                /\ found' = [found EXCEPT ![s] = NewAccountId]
                /\ Goto(s, "findById")
                /\ UNCHANGED <<request, told>>
           ELSE Answer(s, "exists") /\ UNCHANGED accounts
        /\ UNCHANGED <<characters, inventories, flags, counts>>

FindById(s) ==
    /\ at[s] = "findById"
    /\ Answer(s, "created")
    /\ UNCHANGED <<tables, flags, counts>>

RegisterThrows(s) ==
    /\ Register(s)
    /\ faults < MaxFaults
    /\ faults' = faults + 1
    /\ Answer(s, "error")
    /\ UNCHANGED <<tables, flags, registers>>

-----------------------------------------------------------------------------
(***************************************************************************)
(* HandleLoginRequestAsync.                                                *)
(***************************************************************************)
BeginLogin(s) ==
    /\ \E l \in Logins : Asks(s, <<l>>, "validate")
    /\ UNCHANGED registers

\* No such account, a ban, a wrong password, an error.
RejectLogin(s) ==
    /\ at[s] = "validate"
    /\ Return(s, "idle")
    /\ UNCHANGED <<tables, flags, told, counts>>

Sharers(s, id) == {t \in Sessions \ {s} : account[t] = id /\ Live(t)}

\* The client is told, and the session authorized, before anything is loaded.
AcceptLogin(s) ==
    /\ at[s] = "validate"
    /\ \E a \in WithLogin(request[s][1]) :
        /\ account' = [account EXCEPT ![s] = a.id]
        /\ overlapped' = IF Sharers(s, a.id) = {} THEN overlapped
                         ELSE overlapped \cup {s} \cup Sharers(s, a.id)
    /\ Goto(s, "findCharacter")
    /\ UNCHANGED <<tables, request, found, player, closed, played, told, counts>>

CharactersOf(id) == {c \in characters : c.account = id}

FindByAccountId(s) ==
    /\ at[s] = "findCharacter"
    /\ \/ /\ CharactersOf(account[s]) = {}
          /\ Goto(s, "createCharacter")
          /\ UNCHANGED found
       \/ \E c \in CharactersOf(account[s]) :
             /\ found' = [found EXCEPT ![s] = c.id]
             /\ Goto(s, "findInventory")
    /\ UNCHANGED <<tables, request, flags, told, counts>>

\* The unique key of characters.
CharacterKeyFree(id) == \A c \in characters : c.account # id

\* An exception while the player is loaded.
\* Mutant: the handler's errors are caught and the session goes on.
AfterError_GoesOn == "idle"
AfterError == "failed"

\* CreateDefault does not catch the duplicate key: the session ends.
CreateCharacter(s) ==
    /\ at[s] = "createCharacter"
    /\ IF CharacterKeyFree(account[s])
       THEN /\ characters' = characters \cup {[id |-> NewCharacterId, account |-> account[s]]}
            /\ found' = [found EXCEPT ![s] = NewCharacterId]
            /\ Goto(s, "findInventory")
            /\ UNCHANGED request
       ELSE Return(s, AfterError) /\ UNCHANGED characters
    /\ UNCHANGED <<accounts, inventories, flags, told, counts>>

FindInventory(s) ==
    /\ at[s] = "findInventory"
    /\ Goto(s, IF found[s] \in inventories THEN "loadItems" ELSE "createInventory")
    /\ UNCHANGED <<tables, request, found, flags, told, counts>>

\* Whose inventory it is.
Owner(s) == found[s]

\* Here the duplicate key is caught: the row is read again.
CreateInventory(s) ==
    /\ at[s] = "createInventory"
    /\ inventories' = inventories \cup {Owner(s)}
    /\ Goto(s, "loadItems")
    /\ UNCHANGED <<accounts, characters, request, found, flags, told, counts>>

\* Saves of the character by others: those of a session on the same account,
\* and those of a round of SaveOnlinePlayers, which may have copied whoever was
\* in the world and writes the copy after he has left.
OthersMaySave(s) == s \in overlapped \/ found[s] \in played

\* Without items the starter items are saved, which meets the unique key of the
\* slots when another save has inserted since.
LoadItems(s) ==
    /\ at[s] = "loadItems"
    /\ \/ Goto(s, "addPlayer") /\ UNCHANGED <<request, found>>
       \/ OthersMaySave(s) /\ Return(s, AfterError)
    /\ UNCHANGED <<tables, flags, told, counts>>

AddPlayer(s) ==
    /\ at[s] = "addPlayer"
    /\ player' = [player EXCEPT ![s] = found[s]]
    /\ played' = played \cup {found[s]}
    /\ Return(s, "idle")
    /\ UNCHANGED <<tables, account, closed, overlapped, told, counts>>

LoginThrows(s) ==
    /\ LoggingIn(s)
    /\ faults < MaxFaults
    /\ faults' = faults + 1
    /\ Return(s, AfterError)
    /\ UNCHANGED <<tables, flags, told, registers>>

-----------------------------------------------------------------------------
\* The client closes, the monitor times it out, a send fails: the handler that
\* runs is not interrupted.
Close(s) ==
    /\ Live(s) /\ s \notin closed
    /\ closed' = closed \cup {s}
    /\ UNCHANGED <<tables, handler, account, player, overlapped, played, told, counts>>

\* What happens on the way out, save by save and packet by packet, is in
\* InventoryStore and PlayerVisibility.
Leave(s) ==
    /\ at[s] = "idle" /\ s \in closed
    /\ player' = [player EXCEPT ![s] = 0]
    /\ account' = [account EXCEPT ![s] = 0]
    /\ Goto(s, "gone")
    /\ UNCHANGED <<tables, request, found, closed, overlapped, played, told, counts>>

\* The server dies: the sessions are gone, the tables stay.  Connections made
\* after the restart are sessions that have not begun a request yet.
Crash ==
    LET begun == {s \in Sessions : at[s] # "idle" \/ account[s] # 0}
    IN  /\ faults < MaxFaults
        /\ faults' = faults + 1
        /\ at' = [s \in Sessions |-> IF s \in begun THEN "gone" ELSE at[s]]
        /\ request' = [s \in Sessions |-> NoRequest]
        /\ found' = [s \in Sessions |-> 0]
        /\ player' = [s \in Sessions |-> 0]
        /\ account' = [s \in Sessions |-> 0]
        /\ played' = {}
        /\ UNCHANGED <<tables, closed, overlapped, told, registers>>

RegisterStep(s) ==
    \/ BeginRegister(s) \/ FindByLogin(s) \/ FindByEmail(s)
    \/ CreateAccount(s) \/ FindById(s) \/ RegisterThrows(s)

LoginStep(s) ==
    \/ BeginLogin(s) \/ RejectLogin(s) \/ AcceptLogin(s)
    \/ FindByAccountId(s) \/ CreateCharacter(s)
    \/ FindInventory(s) \/ CreateInventory(s)
    \/ LoadItems(s) \/ AddPlayer(s) \/ LoginThrows(s)

Next ==
    \/ \E s \in Sessions : RegisterStep(s) \/ LoginStep(s) \/ Close(s) \/ Leave(s)
    \/ Crash

Spec == Init /\ [][Next]_vars

-----------------------------------------------------------------------------
(***************************************************************************)
(* Properties.                                                             *)
(***************************************************************************)
Accounts == [id : Nat, login : Logins, email : Emails]
Answers == [to : Sessions, id : Nat, login : Logins, email : Emails,
            kind : {"exists", "created", "error"}]

TypeOK ==
    /\ accounts \subseteq Accounts /\ IsFiniteSet(accounts)
    /\ characters \subseteq [id : Nat, account : Nat] /\ IsFiniteSet(characters)
    /\ inventories \subseteq {c.id : c \in characters}
    /\ at \in [Sessions -> {"idle", "findLogin", "findEmail", "create", "findById",
                            "validate", "findCharacter", "createCharacter", "findInventory",
                            "createInventory", "loadItems", "addPlayer", "failed", "gone"}]
    /\ request \in [Sessions -> {NoRequest} \cup {<<l>> : l \in Logins} \cup Requests]
    /\ \A s \in Sessions : Register(s) => request[s] \in Requests
    /\ found \in [Sessions -> Nat]
    /\ account \in [Sessions -> Nat]
    /\ player \in [Sessions -> Nat]
    /\ closed \subseteq Sessions /\ overlapped \subseteq Sessions
    /\ played \subseteq {c.id : c \in characters}
    /\ told \subseteq Answers
    /\ registers \in 0 .. MaxRegisters /\ faults \in 0 .. MaxFaults

\* What clients are told about registrations is true, however the handlers
\* interleave between their reads and their insert: an account reported as
\* created is there with the login and email asked for and was reported to one
\* request only, accounts share neither login nor email, and "already exists"
\* is only said when it does (AccountService.cs:22-50).
AnswersAreTrue ==
    /\ TypeOK
    /\ \A a, b \in accounts : a.login = b.login \/ a.email = b.email \/ a.id = b.id => a = b
    /\ \A m \in told : m.kind = "created" =>
          [id |-> m.id, login |-> m.login, email |-> m.email] \in accounts
    /\ \A m, n \in told : m.kind = "created" /\ n.kind = "created" /\ m.id = n.id => m = n
    /\ \A m \in told : m.kind = "exists" =>
          \E a \in accounts : a.login = m.login \/ a.email = m.email

\* A login that was accepted ends in the world or ends the session.  A session
\* that is authorized and reads its next packet plays its account's character,
\* the only one, also when two sessions log in to a new account at once.  And
\* one that failed met a database error, another session on its account, or the
\* character's saves from an earlier one of this server's life: rows left by
\* crashed or failed logins, with or without a character or an inventory, stop
\* nobody (ClientSession.cs:243-265, 140-149; CharacterService.cs:14-34).
AcceptedLoginsPlay ==
    /\ \A s \in Sessions : at[s] = "idle" /\ account[s] # 0 => player[s] # 0
    /\ \A s \in Sessions : player[s] # 0 =>
          {c \in characters : c.account = account[s]} = {[id |-> player[s], account |-> account[s]]}
    /\ \A s \in Sessions : at[s] = "failed" =>
          \/ faults > 0 \/ s \in overlapped
          \/ \E c \in CharactersOf(account[s]) : c.id \in played
=============================================================================
