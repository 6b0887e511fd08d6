--------------------------- MODULE ServerLifeProofs ---------------------------
(***************************************************************************)
(* Safety of a server's life, for any number of servers on one database,   *)
(* sessions, logins and emails, and any number of crashes.                 *)
(***************************************************************************)
EXTENDS ServerLife, Sequences, FiniteSetTheorems, TLAPS

-----------------------------------------------------------------------------
(***************************************************************************)
(* The schema.                                                             *)
(***************************************************************************)
Statement(i) == Migrations!Statements[i]
Places == DOMAIN Migrations!Statements

\* The twelve statements, one by one.
LEMMA StatementList ==
  /\ Places = 1 .. 12 /\ Len(Migrations!Statements) = 12
  /\ Statement(1) = Migrations!Creates("database", {})
  /\ Statement(2) = Migrations!Creates("schema_migrations", {"database"})
  /\ Statement(3) = Migrations!Checks(1)
  /\ Statement(4) = Migrations!Creates("accounts", {"database"})
  /\ Statement(5) = Migrations!Creates("characters", {"accounts"})
  /\ Statement(6) = Migrations!Records(1)
  /\ Statement(7) = Migrations!Checks(2)
  /\ Statement(8) = Migrations!Creates("item_templates", {"database"})
  /\ Statement(9) = Migrations!Creates("inventories", {"characters"})
  /\ Statement(10) = Migrations!Creates("inventory_items", {"inventories", "item_templates"})
  /\ Statement(11) = Migrations!Creates("starter_items", {"item_templates"})
  /\ Statement(12) = Migrations!Records(2)
  BY DEF Statement, Places, Migrations!Statements

LEMMA StatementFields ==
  /\ \A i \in Places : Statement(i).op = IF i \in {3, 7} THEN "check" ELSE IF i \in {6, 12} THEN "record" ELSE "create"
  /\ \A i \in Places : Statement(i).id = IF i \in {3, 6} THEN 1 ELSE IF i \in {7, 12} THEN 2 ELSE 0
  /\ \A i \in Places : Statement(i).what = "nothing" <=> i \in {3, 6, 7, 12}
<1>. USE StatementList DEF Migrations!Creates, Migrations!Checks, Migrations!Records
<1>1. ASSUME NEW i \in Places
      PROVE  \/ i = 1 \/ i = 2 \/ i = 3 \/ i = 4 \/ i = 5 \/ i = 6
             \/ i = 7 \/ i = 8 \/ i = 9 \/ i = 10 \/ i = 11 \/ i = 12
  OBVIOUS
<1>2. /\ Statement(3).op = "check" /\ Statement(7).op = "check"
      /\ Statement(6).op = "record" /\ Statement(12).op = "record"
      /\ \A i \in {1, 2, 4, 5, 8, 9, 10, 11} : Statement(i).op = "create"
  OBVIOUS
<1>3. /\ Statement(3).id = 1 /\ Statement(7).id = 2 /\ Statement(6).id = 1 /\ Statement(12).id = 2
      /\ \A i \in {1, 2, 4, 5, 8, 9, 10, 11} : Statement(i).id = 0
  OBVIOUS
<1>4. /\ Statement(3).what = "nothing" /\ Statement(7).what = "nothing" /\ Statement(6).what = "nothing" /\ Statement(12).what = "nothing"
      /\ \A i \in {1, 2, 4, 5, 8, 9, 10, 11} : Statement(i).what # "nothing"
  OBVIOUS
<1>. QED
  BY <1>1, <1>2, <1>3, <1>4


LEMMA CheckStatement ==
  ASSUME NEW i \in Places, Statement(i).op = "check"
  PROVE  (i = 3 /\ Statement(i).id = 1) \/ (i = 7 /\ Statement(i).id = 2)
<1>1. i = 3 \/ i = 7
  BY StatementFields
<1>2. ASSUME i = 3 PROVE Statement(i).id = 1
  BY <1>2, StatementFields
<1>3. ASSUME i = 7 PROVE Statement(i).id = 2
  BY <1>3, StatementFields
<1>. QED
  BY <1>1, <1>2, <1>3

LEMMA RecordStatement ==
  ASSUME NEW i \in Places, Statement(i).op = "record"
  PROVE  (i = 6 /\ Statement(i).id = 1) \/ (i = 12 /\ Statement(i).id = 2)
<1>1. i = 6 \/ i = 12
  BY StatementFields
<1>2. ASSUME i = 6 PROVE Statement(i).id = 1
  BY <1>2, StatementFields
<1>3. ASSUME i = 12 PROVE Statement(i).id = 2
  BY <1>3, StatementFields
<1>. QED
  BY <1>1, <1>2, <1>3

LEMMA Indices ==
  /\ Migrations!IndexOf("check", 1) = 3 /\ Migrations!IndexOf("record", 1) = 6
  /\ Migrations!IndexOf("check", 2) = 7 /\ Migrations!IndexOf("record", 2) = 12
<1>. DEFINE Found(op, m) == {i \in 1 .. Len(Migrations!Statements) : Statement(i).op = op /\ Statement(i).id = m}
<1>1. Found("check", 1) = {3} /\ Found("record", 1) = {6} /\ Found("check", 2) = {7} /\ Found("record", 2) = {12}
  BY StatementList, StatementFields
<1>2. \A i \in Nat : Migrations!Min({i}) = i
  BY DEF Migrations!Min
<1>3. ASSUME NEW op, NEW m
      PROVE  Migrations!IndexOf(op, m) = IF Found(op, m) # {} THEN Migrations!Min(Found(op, m)) ELSE 0
  BY DEF Migrations!IndexOf, Migrations!SelectInSeq, Statement
<1>. HIDE DEF Found
<1>. QED
  BY <1>1, <1>2, <1>3

\* A server has made exist, or found, whatever the statements before its own
\* make; a migration that was skipped is recorded, and so complete.
Done(i, made, applied) ==
    \A j \in Places : j < i =>
        /\ Statement(j).op = "create" => Statement(j).what \in made
        /\ Statement(j).op = "record" => Statement(j).id \in applied

SchemaInv ==
    /\ Migrations!TypeOK
    /\ Migrations!RecordedIsComplete
    /\ \A s \in Servers : Done(pc[s], schema, recorded)
    /\ (\E s \in Servers : outcome[s] = "ready") => Done(13, schema, recorded)

\* What a migration creates is made by the statements between its check and
\* its record.
LEMMA CreatedByMigrations ==
  /\ Migrations!CreatedBy(1) = {Statement(i).what : i \in 4 .. 5}
  /\ Migrations!CreatedBy(2) = {Statement(i).what : i \in 8 .. 11}
  /\ Migrations!Everything = {Statement(i).what : i \in {1, 2, 4, 5, 8, 9, 10, 11}}
<1>1. /\ Migrations!CreatedBy(1) = {Statement(i).what : i \in 3 + 1 .. 6 - 1}
      /\ Migrations!CreatedBy(2) = {Statement(i).what : i \in 7 + 1 .. 12 - 1}
  BY Indices DEF Migrations!CreatedBy, Statement
<1>2. Migrations!Everything = {Statement(i).what : i \in Places} \ {"nothing"}
  BY DEF Migrations!Everything, Statement, Places
<1>3. \A i \in Places : Statement(i).what # "nothing" <=> i \in {1, 2, 4, 5, 8, 9, 10, 11}
  BY StatementList, StatementFields
<1>4. Migrations!Everything = {Statement(i).what : i \in {1, 2, 4, 5, 8, 9, 10, 11}}
  BY <1>2, <1>3, StatementList
<1>. QED
  BY <1>1, <1>4

\* Once all statements are done, everything is there.
LEMMA AllDone ==
  ASSUME Migrations!TypeOK, Done(13, schema, recorded)
  PROVE  schema = Migrations!Everything /\ recorded = Migrations!Migrations
<1>1. \A i \in {1, 2, 4, 5, 8, 9, 10, 11} : Statement(i).what \in schema
  BY StatementList, StatementFields DEF Done
<1>2. 1 \in recorded /\ 2 \in recorded
  BY StatementList, StatementFields DEF Done
<1>. QED
  BY ZenonT(60), <1>1, <1>2, CreatedByMigrations DEF Migrations!TypeOK, Migrations!Migrations

\* A step that only adds to the schema and the records keeps what is done.
LEMMA DoneStays ==
  ASSUME schema \subseteq schema', recorded \subseteq recorded', NEW i
  PROVE  Done(i, schema, recorded) => Done(i, schema', recorded')
  BY DEF Done

\* Moving a server to a statement whose predecessors are done, or to the end.
LEMMA ContinueSchema ==
  ASSUME SchemaInv, NEW s \in Servers, NEW i \in 1 .. 13, Migrations!Continue(s, i),
         schema \subseteq schema', schema' \subseteq Migrations!Everything,
         recorded \subseteq recorded', recorded' \subseteq Migrations!Migrations,
         startFaults' = startFaults, Migrations!RecordedIsComplete', Done(i, schema', recorded')
  PROVE  SchemaInv'
<1>1. \A j : Done(j, schema, recorded) => Done(j, schema', recorded')
  BY DoneStays
<1>2. CASE i = 13
  <2>1. pc' = [pc EXCEPT ![s] = 0] /\ outcome' = [outcome EXCEPT ![s] = "ready"]
    BY <1>2, StatementList DEF Migrations!Continue, Migrations!Goto
  <2>2. Done(0, schema', recorded') /\ Done(13, schema', recorded')
    BY <1>2, StatementList DEF Done
  <2>. QED
    BY <1>1, <2>1, <2>2 DEF SchemaInv, Migrations!TypeOK
<1>3. CASE i \in 1 .. 12
  <2>1. pc' = [pc EXCEPT ![s] = i] /\ outcome' = outcome
    BY <1>3, StatementList DEF Migrations!Continue, Migrations!Goto
  <2>2. i \in Places
    BY <1>3, StatementList
  <2>. QED
    BY <1>1, <2>1, <2>2 DEF SchemaInv, Migrations!TypeOK, Places
<1>. QED
  BY <1>2, <1>3

\* A server that stops for any reason.
LEMMA StopsSchema ==
  ASSUME SchemaInv, NEW s \in Servers, NEW place \in {0, 1},
         NEW end \in {"none", "failed", "crashed"},
         pc' = [pc EXCEPT ![s] = place], outcome' = [outcome EXCEPT ![s] = end],
         schema' = schema, recorded' = recorded, startFaults' \in 0 .. MaxStartFaults
  PROVE  SchemaInv'
<1>1. \A j : Done(j, schema', recorded') <=> Done(j, schema, recorded)
  BY DEF Done
<1>2. place \in {0} \cup Places /\ Done(place, schema, recorded)
  BY StatementList DEF Done
<1>3. Migrations!TypeOK'
  BY <1>2 DEF SchemaInv, Migrations!TypeOK, Places
<1>. QED
  BY <1>1, <1>2, <1>3 DEF SchemaInv, Migrations!TypeOK, Migrations!RecordedIsComplete

LEMMA ThrowSchema ==
  ASSUME SchemaInv, NEW s \in Servers, Migrations!Throw(s),
         schema' = schema, recorded' = recorded, startFaults' = startFaults
  PROVE  SchemaInv'
  BY StopsSchema DEF SchemaInv, Migrations!TypeOK, Migrations!Throw, Migrations!Goto

LEMMA CreateSchema ==
  ASSUME SchemaInv, NEW s \in Servers, Migrations!Create(s)
  PROVE  SchemaInv'
<1>1. /\ pc[s] \in Places /\ Statement(pc[s]).op = "create"
      /\ recorded' = recorded /\ startFaults' = startFaults
  BY DEF Migrations!Create, Migrations!Running, Migrations!Current, Statement, Places
<1>2. CASE Migrations!CanCreate(s)
  <2>1. schema' = schema \cup {Statement(pc[s]).what} /\ Migrations!Continue(s, pc[s] + 1)
    BY <1>2 DEF Migrations!Create, Migrations!Current, Migrations!NextStatement, Statement
  <2>2. pc[s] + 1 \in 1 .. 13
    BY <1>1, StatementList
  <2>3. schema' \subseteq Migrations!Everything
    BY <1>1, <2>1, StatementList, StatementFields, CreatedByMigrations DEF SchemaInv, Migrations!TypeOK
  <2>4. Done(pc[s] + 1, schema', recorded')
    BY <1>1, <2>1, StatementList DEF SchemaInv, Done
  <2>5. Migrations!RecordedIsComplete'
    BY <1>1, <2>1 DEF SchemaInv, Migrations!RecordedIsComplete, Migrations!CreatedBy
  <2>. QED
    BY <1>1, <2>1, <2>2, <2>3, <2>4, <2>5, ContinueSchema DEF SchemaInv, Migrations!TypeOK
<1>3. CASE ~Migrations!CanCreate(s)
  <2>1. Migrations!Throw(s) /\ schema' = schema
    BY <1>3 DEF Migrations!Create
  <2>. QED
    BY <1>1, <2>1, ThrowSchema
<1>. QED
  BY <1>2, <1>3

LEMMA CheckSchema ==
  ASSUME SchemaInv, NEW s \in Servers, Migrations!Check(s)
  PROVE  SchemaInv'
<1>1. /\ pc[s] \in Places /\ Statement(pc[s]).op = "check"
      /\ schema' = schema /\ recorded' = recorded /\ startFaults' = startFaults
  BY DEF Migrations!Check, Migrations!Running, Migrations!Current, Statement, Places
<1>2. (pc[s] = 3 /\ Statement(pc[s]).id = 1) \/ (pc[s] = 7 /\ Statement(pc[s]).id = 2)
  BY <1>1, CheckStatement
<1>. DEFINE last == IF pc[s] = 3 THEN 6 ELSE 12
            m == IF pc[s] = 3 THEN 1 ELSE 2
            next == IF m \in recorded THEN last + 1 ELSE pc[s] + 1
<1>3. Migrations!Continue(s, next) \/ Migrations!Throw(s)
  <2>1. Migrations!Current(s).id = m
    BY <1>2 DEF Migrations!Current, Statement
  <2>2. Migrations!IndexOf("record", m) = last
    BY Indices
  <2>. QED
    BY <2>1, <2>2 DEF Migrations!Check, Migrations!IsMigrationApplied, Migrations!NextStatement
<1>4. CASE Migrations!Continue(s, next)
  <2>1. next \in 1 .. 13
    BY <1>2
  <2>2. Migrations!RecordedIsComplete'
    BY <1>1 DEF SchemaInv, Migrations!RecordedIsComplete
  <2>3. Done(next, schema, recorded)
    <3>1. CASE m \notin recorded
      BY <1>1, <1>2, <3>1, StatementList DEF SchemaInv, Done
    <3>2. CASE m \in recorded
      <4>1. Migrations!CreatedBy(m) \subseteq schema
        BY <3>2 DEF SchemaInv, Migrations!RecordedIsComplete
      <4>2. \A j \in Places : pc[s] < j /\ j < last => Statement(j).what \in schema
        <5>1. CASE pc[s] = 3
          BY <4>1, <5>1, CreatedByMigrations, StatementList
        <5>2. CASE pc[s] = 7
          BY <4>1, <5>2, CreatedByMigrations, StatementList
        <5>. QED
          BY <1>2, <5>1, <5>2
      <4>3. \A j \in Places : j >= pc[s] /\ j < next /\ Statement(j).op = "record" => Statement(j).id \in recorded
        BY <1>2, <3>2, StatementList, StatementFields
      <4>. QED
        BY <1>1, <1>2, <3>2, <4>2, <4>3, StatementList, StatementFields DEF SchemaInv, Done
    <3>. QED
      BY <3>1, <3>2
  <2>. QED
    BY <1>1, <1>4, <2>1, <2>2, <2>3, DoneStays, ContinueSchema DEF SchemaInv, Migrations!TypeOK
<1>5. CASE Migrations!Throw(s)
  BY <1>1, <1>5, ThrowSchema
<1>. QED
  BY <1>3, <1>4, <1>5

LEMMA RecordSchema ==
  ASSUME SchemaInv, NEW s \in Servers, Migrations!Record(s)
  PROVE  SchemaInv'
<1>1. /\ pc[s] \in Places /\ Statement(pc[s]).op = "record"
      /\ schema' = schema /\ startFaults' = startFaults
  BY DEF Migrations!Record, Migrations!Running, Migrations!Current, Statement, Places
<1>2. (pc[s] = 6 /\ Statement(pc[s]).id = 1) \/ (pc[s] = 12 /\ Statement(pc[s]).id = 2)
  BY <1>1, RecordStatement
<1>. DEFINE m == Statement(pc[s]).id
<1>3. \/ recorded' = recorded \cup {m} /\ Migrations!Continue(s, pc[s] + 1)
      \/ recorded' = recorded /\ Migrations!Throw(s)
  BY DEF Migrations!Record, Migrations!Current, Migrations!NextStatement, Statement
<1>4. CASE recorded' = recorded \cup {m} /\ Migrations!Continue(s, pc[s] + 1)
  <2>1. pc[s] + 1 \in 1 .. 13 /\ m \in Migrations!Migrations
    BY <1>2 DEF Migrations!Migrations
  <2>2. Migrations!CreatedBy(m) \subseteq schema
    BY <1>2, CreatedByMigrations, StatementList, StatementFields DEF SchemaInv, Done
  <2>3. Migrations!RecordedIsComplete'
    BY <1>1, <1>4, <2>2 DEF SchemaInv, Migrations!RecordedIsComplete, Migrations!CreatedBy
  <2>4. Done(pc[s] + 1, schema', recorded')
    BY <1>1, <1>4, StatementList DEF SchemaInv, Done
  <2>. QED
    BY <1>1, <1>4, <2>1, <2>3, <2>4, ContinueSchema DEF SchemaInv, Migrations!TypeOK
<1>5. CASE recorded' = recorded /\ Migrations!Throw(s)
  BY <1>1, <1>5, ThrowSchema
<1>. QED
  BY <1>3, <1>4, <1>5

LEMMA InitSchema == ServerInit => SchemaInv
<1>. SUFFICES ASSUME ServerInit PROVE SchemaInv
  OBVIOUS
<1>1. Done(0, schema, recorded)
  BY StatementList DEF Done
<1>. QED
  BY <1>1, ServerAssumption
  DEF ServerInit, Migrations!Init, SchemaInv, Migrations!TypeOK, Migrations!RecordedIsComplete

LEMMA NextSchema == SchemaInv /\ [ServerNext]_<<vars, startup>> => SchemaInv'
<1>. SUFFICES ASSUME SchemaInv, [ServerNext]_<<vars, startup>> PROVE SchemaInv'
  OBVIOUS
<1>1. ASSUME NEW s \in Servers, StartServer(s) PROVE SchemaInv'
  BY <1>1, StopsSchema DEF StartServer, Migrations!Start, Migrations!Goto, SchemaInv, Migrations!TypeOK
<1>2. ASSUME NEW s \in Servers, Initialize(s) PROVE SchemaInv'
  BY <1>2, CreateSchema, CheckSchema, RecordSchema DEF Initialize, Migrations!Initialize
<1>3. ASSUME NEW s \in Servers, StartCrashes(s) PROVE SchemaInv'
  <2>1. startFaults' \in 0 .. MaxStartFaults
    BY <1>3, ServerAssumption DEF StartCrashes, Migrations!Crash, SchemaInv, Migrations!TypeOK
  <2>. QED
    BY <1>3, <2>1, StopsSchema DEF StartCrashes, Migrations!Crash, Migrations!Goto
<1>4. ASSUME schema' = schema, recorded' = recorded, pc' = pc, startFaults' \in 0 .. MaxStartFaults,
             outcome' = outcome \/ outcome' = [outcome EXCEPT ![Main] = "crashed"]
      PROVE  SchemaInv'
  BY <1>4, ServerAssumption
  DEF SchemaInv, Migrations!TypeOK, Migrations!RecordedIsComplete, Done
<1>5. CASE Listen
  BY <1>4, <1>5, ServerAssumption DEF Listen
<1>6. CASE Serve \/ ServerCrash
  BY <1>4, <1>6 DEF Serve, ServerCrash, startup, SchemaInv, Migrations!TypeOK
<1>7. CASE UNCHANGED <<vars, startup>>
  BY <1>4, <1>7 DEF startup, SchemaInv, Migrations!TypeOK
<1>. QED
  BY <1>1, <1>2, <1>3, <1>5, <1>6, <1>7 DEF ServerNext

\* Whatever crashed and whoever else was migrating, a recorded migration is
\* complete, and a server listens only on a complete schema with all of them
\* recorded (DatabaseInitializer.cs:16-271, 323-332).
THEOREM SchemaStaysComplete == ServerSpec => []SchemaIsComplete
<1>1. SchemaInv => SchemaIsComplete
  BY AllDone DEF SchemaInv, SchemaIsComplete, Migrations!ReadyIsComplete
<1>. QED
  BY <1>1, InitSchema, NextSchema, PTL DEF ServerSpec

-----------------------------------------------------------------------------
(***************************************************************************)
(* Registrations and logins: the inductive invariant.                      *)
(***************************************************************************)

\* The unique keys of the tables, and ids that a table has handed out.
KeysAreUnique ==
    /\ \A a, b \in accounts : a.login = b.login \/ a.email = b.email \/ a.id = b.id => a = b
    /\ \A a \in accounts : a.id \in 1 .. Cardinality(accounts)
    /\ \A c, d \in characters : c.account = d.account => c = d
    /\ \A c \in characters : c.id # 0

AnswersMatch ==
    /\ \A m \in told : m.kind = "created" =>
          [id |-> m.id, login |-> m.login, email |-> m.email] \in accounts
    /\ \A m, n \in told : m.kind = "created" /\ n.kind = "created" /\ m.id = n.id => m = n
    /\ \A m \in told : m.kind = "exists" =>
          \E a \in accounts : a.login = m.login \/ a.email = m.email

\* A registration that reads its account again has inserted it, and nobody
\* else has or was told of it.
CreatorsOwnTheirAccount ==
    \A s \in Sessions : at[s] = "findById" =>
        /\ [id |-> found[s], login |-> request[s][1], email |-> request[s][2]] \in accounts
        /\ \A m \in told : m.kind = "created" => m.id # found[s]
        /\ \A t \in Sessions \ {s} : at[t] = "findById" => found[t] # found[s]

Loading(s) == at[s] \in {"findInventory", "createInventory", "loadItems", "addPlayer"}

\* What a login works on, and a session plays, is its account's character.
LoginsOwnTheirCharacter ==
    \A s \in Sessions :
        /\ Loading(s) => [id |-> found[s], account |-> account[s]] \in characters
        /\ player[s] # 0 => [id |-> player[s], account |-> account[s]] \in characters

\* A session is authorized from the answer to its login to its end, and plays
\* when it reads packets again.
OnlyPlayersIdle ==
    \A s \in Sessions :
        /\ Register(s) \/ at[s] \in {"validate", "gone"} => account[s] = 0
        /\ LoggingIn(s) => account[s] # 0
        /\ player[s] # 0 => account[s] # 0
        /\ at[s] = "idle" /\ account[s] # 0 => player[s] # 0

\* Sessions that share an account while both live are noted; only such a one
\* can have created the character that a handler was about to create.
OverlapsAreNoted ==
    /\ \A s, t \in Sessions :
          s # t /\ Live(s) /\ Live(t) /\ account[s] = account[t] /\ account[s] # 0 => s \in overlapped
    /\ \A s \in Sessions : at[s] = "createCharacter" =>
          s \in overlapped \/ \A c \in characters : c.account # account[s]

\* Whom a session that failed may have collided with.
MetOthers(s) == s \in overlapped \/ \E c \in characters : c.account = account[s] /\ c.id \in played

FailuresHaveCauses == \A s \in Sessions : at[s] = "failed" => faults > 0 \/ MetOthers(s)

LoginInv ==
    /\ TypeOK
    /\ KeysAreUnique
    /\ AnswersMatch
    /\ CreatorsOwnTheirAccount
    /\ LoginsOwnTheirCharacter
    /\ OnlyPlayersIdle
    /\ OverlapsAreNoted
    /\ FailuresHaveCauses

-----------------------------------------------------------------------------
(***************************************************************************)
(* Registrations and logins: the steps.                                    *)
(***************************************************************************)
LEMMA RequestFields ==
  ASSUME NEW r \in Requests
  PROVE  r[1] \in Logins /\ r[2] \in Emails
  BY DEF Requests

LEMMA AnswerTypes ==
  ASSUME TypeOK, NEW s \in Sessions, Register(s), NEW kind \in {"exists", "created", "error"}, Answer(s, kind)
  PROVE  /\ at' = [at EXCEPT ![s] = "idle"]
         /\ told' \subseteq Answers
         /\ told' \subseteq told \cup {[to |-> s, kind |-> kind, id |-> found[s],
                                        login |-> request[s][1], email |-> request[s][2]]}
         /\ told \subseteq told'
<1>. DEFINE m == [to |-> s, kind |-> kind, id |-> found[s], login |-> request[s][1], email |-> request[s][2]]
<1>1. m \in Answers
  BY RequestFields DEF TypeOK, Answers
<1>2. told' = told \/ told' = told \cup {m}
  BY DEF Answer
<1>. QED
  BY <1>1, <1>2 DEF TypeOK, Answer, Return, Goto

LEMMA BeginRegisterLoginInv ==
  ASSUME LoginInv, NEW s \in Sessions, BeginRegister(s)
  PROVE  LoginInv'
<1>. USE DEF LoginInv, BeginRegister, Asks, Goto, Requests, tables, handler, flags
<1>1. TypeOK'
  BY LoginAssumption DEF TypeOK, Register, Requests, Accounts, Answers
<1>2. KeysAreUnique'
  BY DEF KeysAreUnique
<1>3. AnswersMatch'
  BY DEF AnswersMatch, TypeOK, CreatorsOwnTheirAccount
<1>4. CreatorsOwnTheirAccount'
  BY DEF CreatorsOwnTheirAccount, TypeOK
<1>5. LoginsOwnTheirCharacter'
  BY DEF LoginsOwnTheirCharacter, Loading, TypeOK
<1>6. OnlyPlayersIdle'
  BY DEF OnlyPlayersIdle, Register, LoggingIn, TypeOK, LoginsOwnTheirCharacter, Loading, KeysAreUnique
<1>7. OverlapsAreNoted'
  BY DEF OverlapsAreNoted, Live, TypeOK
<1>8. FailuresHaveCauses'
  BY DEF FailuresHaveCauses, MetOthers, TypeOK, Register, LoggingIn
<1>. QED
  BY <1>1, <1>2, <1>3, <1>4, <1>5, <1>6, <1>7, <1>8

LEMMA FindByLoginLoginInv ==
  ASSUME LoginInv, NEW s \in Sessions, FindByLogin(s)
  PROVE  LoginInv'
<1>. USE DEF LoginInv, FindByLogin, Answer, Return, Goto, WithLogin, counts, tables, handler, flags
<1>1. TypeOK'
  BY LoginAssumption DEF TypeOK, Register, Requests, Accounts, Answers
<1>2. KeysAreUnique'
  BY DEF KeysAreUnique
<1>3. AnswersMatch'
  BY DEF AnswersMatch, TypeOK, CreatorsOwnTheirAccount
<1>4. CreatorsOwnTheirAccount'
  BY DEF CreatorsOwnTheirAccount, TypeOK
<1>5. LoginsOwnTheirCharacter'
  BY DEF LoginsOwnTheirCharacter, Loading, TypeOK
<1>6. OnlyPlayersIdle'
  BY DEF OnlyPlayersIdle, Register, LoggingIn, TypeOK, LoginsOwnTheirCharacter, Loading, KeysAreUnique
<1>7. OverlapsAreNoted'
  BY DEF OverlapsAreNoted, Live, TypeOK
<1>8. FailuresHaveCauses'
  BY DEF FailuresHaveCauses, MetOthers, TypeOK, Register, LoggingIn
<1>. QED
  BY <1>1, <1>2, <1>3, <1>4, <1>5, <1>6, <1>7, <1>8

LEMMA FindByEmailLoginInv ==
  ASSUME LoginInv, NEW s \in Sessions, FindByEmail(s)
  PROVE  LoginInv'
<1>. USE DEF LoginInv, FindByEmail, Answer, Return, Goto, WithEmail, counts, tables, handler, flags
<1>1. TypeOK'
  BY LoginAssumption DEF TypeOK, Register, Requests, Accounts, Answers
<1>2. KeysAreUnique'
  BY DEF KeysAreUnique
<1>3. AnswersMatch'
  BY DEF AnswersMatch, TypeOK, CreatorsOwnTheirAccount
<1>4. CreatorsOwnTheirAccount'
  BY DEF CreatorsOwnTheirAccount, TypeOK
<1>5. LoginsOwnTheirCharacter'
  BY DEF LoginsOwnTheirCharacter, Loading, TypeOK
<1>6. OnlyPlayersIdle'
  BY DEF OnlyPlayersIdle, Register, LoggingIn, TypeOK, LoginsOwnTheirCharacter, Loading, KeysAreUnique
<1>7. OverlapsAreNoted'
  BY DEF OverlapsAreNoted, Live, TypeOK
<1>8. FailuresHaveCauses'
  BY DEF FailuresHaveCauses, MetOthers, TypeOK, Register, LoggingIn
<1>. QED
  BY <1>1, <1>2, <1>3, <1>4, <1>5, <1>6, <1>7, <1>8

LEMMA FindByIdLoginInv ==
  ASSUME LoginInv, NEW s \in Sessions, FindById(s)
  PROVE  LoginInv'
<1>. USE DEF LoginInv, FindById, Answer, Return, Goto, counts, tables, handler, flags
<1>1. TypeOK'
  BY LoginAssumption DEF TypeOK, Register, Requests, Accounts, Answers
<1>2. KeysAreUnique'
  BY DEF KeysAreUnique
<1>3. AnswersMatch'
  <2>1. told' \subseteq told \cup {[to |-> s, kind |-> "created", id |-> found[s],
                                   login |-> request[s][1], email |-> request[s][2]]}
    BY AnswerTypes DEF Register
  <2>2. [id |-> found[s], login |-> request[s][1], email |-> request[s][2]] \in accounts
    BY DEF CreatorsOwnTheirAccount
  <2>3. \A m \in told : m.kind = "created" => m.id # found[s]
    BY DEF CreatorsOwnTheirAccount
  <2>4. \A m \in told' : m.kind = "created" =>
           [id |-> m.id, login |-> m.login, email |-> m.email] \in accounts'
    BY <2>1, <2>2 DEF AnswersMatch
  <2>5. \A m, n \in told' : m.kind = "created" /\ n.kind = "created" /\ m.id = n.id => m = n
    BY <2>1, <2>3 DEF AnswersMatch
  <2>6. \A m \in told' : m.kind = "exists" =>
           \E a \in accounts' : a.login = m.login \/ a.email = m.email
    BY <2>1 DEF AnswersMatch
  <2>. QED
    BY <2>4, <2>5, <2>6 DEF AnswersMatch
<1>4. CreatorsOwnTheirAccount'
  BY DEF CreatorsOwnTheirAccount, TypeOK
<1>5. LoginsOwnTheirCharacter'
  BY DEF LoginsOwnTheirCharacter, Loading, TypeOK
<1>6. OnlyPlayersIdle'
  BY DEF OnlyPlayersIdle, Register, LoggingIn, TypeOK, LoginsOwnTheirCharacter, Loading, KeysAreUnique
<1>7. OverlapsAreNoted'
  BY DEF OverlapsAreNoted, Live, TypeOK
<1>8. FailuresHaveCauses'
  BY DEF FailuresHaveCauses, MetOthers, TypeOK, Register, LoggingIn
<1>. QED
  BY <1>1, <1>2, <1>3, <1>4, <1>5, <1>6, <1>7, <1>8

LEMMA RegisterThrowsLoginInv ==
  ASSUME LoginInv, NEW s \in Sessions, RegisterThrows(s)
  PROVE  LoginInv'
<1>. USE DEF LoginInv, RegisterThrows, Answer, Return, Goto, tables, handler, flags
<1>1. TypeOK'
  BY LoginAssumption DEF TypeOK, Register, Requests, Accounts, Answers
<1>2. KeysAreUnique'
  BY DEF KeysAreUnique
<1>3. AnswersMatch'
  BY DEF AnswersMatch, TypeOK, CreatorsOwnTheirAccount
<1>4. CreatorsOwnTheirAccount'
  BY DEF CreatorsOwnTheirAccount, TypeOK
<1>5. LoginsOwnTheirCharacter'
  BY DEF LoginsOwnTheirCharacter, Loading, TypeOK
<1>6. OnlyPlayersIdle'
  BY DEF OnlyPlayersIdle, Register, LoggingIn, TypeOK, LoginsOwnTheirCharacter, Loading, KeysAreUnique
<1>7. OverlapsAreNoted'
  <2>1. at' = [at EXCEPT ![s] = "idle"] /\ account' = account /\ characters' = characters
        /\ overlapped' = overlapped
    OBVIOUS
  <2>2. at[s] \notin {"failed", "gone"} /\ (faults > 0 => faults' > 0)
    BY DEF TypeOK, Register
  <2>. QED
    BY <2>1, <2>2 DEF OverlapsAreNoted, Live, TypeOK
<1>8. FailuresHaveCauses'
  BY DEF FailuresHaveCauses, MetOthers, TypeOK, Register, LoggingIn
<1>. QED
  BY <1>1, <1>2, <1>3, <1>4, <1>5, <1>6, <1>7, <1>8

LEMMA BeginLoginLoginInv ==
  ASSUME LoginInv, NEW s \in Sessions, BeginLogin(s)
  PROVE  LoginInv'
<1>. USE DEF LoginInv, BeginLogin, Asks, Goto, tables, handler, flags
<1>1. TypeOK'
  BY LoginAssumption DEF TypeOK, Register, Requests, Accounts, Answers
<1>2. KeysAreUnique'
  BY DEF KeysAreUnique
<1>3. AnswersMatch'
  BY DEF AnswersMatch, TypeOK, CreatorsOwnTheirAccount
<1>4. CreatorsOwnTheirAccount'
  BY DEF CreatorsOwnTheirAccount, TypeOK
<1>5. LoginsOwnTheirCharacter'
  BY DEF LoginsOwnTheirCharacter, Loading, TypeOK
<1>6. OnlyPlayersIdle'
  BY DEF OnlyPlayersIdle, Register, LoggingIn, TypeOK, LoginsOwnTheirCharacter, Loading, KeysAreUnique
<1>7. OverlapsAreNoted'
  BY DEF OverlapsAreNoted, Live, TypeOK
<1>8. FailuresHaveCauses'
  BY DEF FailuresHaveCauses, MetOthers, TypeOK, Register, LoggingIn
<1>. QED
  BY <1>1, <1>2, <1>3, <1>4, <1>5, <1>6, <1>7, <1>8

LEMMA RejectLoginLoginInv ==
  ASSUME LoginInv, NEW s \in Sessions, RejectLogin(s)
  PROVE  LoginInv'
<1>. USE DEF LoginInv, RejectLogin, Return, Goto, counts, tables, handler, flags
<1>1. TypeOK'
  BY LoginAssumption DEF TypeOK, Register, Requests, Accounts, Answers
<1>2. KeysAreUnique'
  BY DEF KeysAreUnique
<1>3. AnswersMatch'
  BY DEF AnswersMatch, TypeOK, CreatorsOwnTheirAccount
<1>4. CreatorsOwnTheirAccount'
  BY DEF CreatorsOwnTheirAccount, TypeOK
<1>5. LoginsOwnTheirCharacter'
  BY DEF LoginsOwnTheirCharacter, Loading, TypeOK
<1>6. OnlyPlayersIdle'
  BY DEF OnlyPlayersIdle, Register, LoggingIn, TypeOK, LoginsOwnTheirCharacter, Loading, KeysAreUnique
<1>7. OverlapsAreNoted'
  BY DEF OverlapsAreNoted, Live, TypeOK
<1>8. FailuresHaveCauses'
  BY DEF FailuresHaveCauses, MetOthers, TypeOK, Register, LoggingIn
<1>. QED
  BY <1>1, <1>2, <1>3, <1>4, <1>5, <1>6, <1>7, <1>8

LEMMA FindByAccountIdLoginInv ==
  ASSUME LoginInv, NEW s \in Sessions, FindByAccountId(s)
  PROVE  LoginInv'
<1>. USE DEF LoginInv, FindByAccountId, CharactersOf, Goto, counts, tables, handler, flags
<1>1. TypeOK'
  BY LoginAssumption DEF TypeOK, Register, Requests, Accounts, Answers
<1>2. KeysAreUnique'
  BY DEF KeysAreUnique
<1>3. AnswersMatch'
  BY DEF AnswersMatch, TypeOK, CreatorsOwnTheirAccount
<1>4. CreatorsOwnTheirAccount'
  BY DEF CreatorsOwnTheirAccount, TypeOK
<1>5. LoginsOwnTheirCharacter'
  <2>1. CASE at' = [at EXCEPT ![s] = "createCharacter"] /\ found' = found
    BY <2>1 DEF LoginsOwnTheirCharacter, Loading, TypeOK
  <2>2. ASSUME NEW c \in CharactersOf(account[s]),
               found' = [found EXCEPT ![s] = c.id], at' = [at EXCEPT ![s] = "findInventory"]
        PROVE  LoginsOwnTheirCharacter'
    <3>1. c = [id |-> found'[s], account |-> account[s]]
      BY <2>2 DEF TypeOK
    <3>. QED
      BY <2>2, <3>1 DEF LoginsOwnTheirCharacter, Loading, TypeOK
  <2>. QED
    BY <2>1, <2>2
<1>6. OnlyPlayersIdle'
  BY DEF OnlyPlayersIdle, Register, LoggingIn, TypeOK, LoginsOwnTheirCharacter, Loading, KeysAreUnique
<1>7. OverlapsAreNoted'
  BY DEF OverlapsAreNoted, Live, TypeOK
<1>8. FailuresHaveCauses'
  BY DEF FailuresHaveCauses, MetOthers, TypeOK, Register, LoggingIn
<1>. QED
  BY <1>1, <1>2, <1>3, <1>4, <1>5, <1>6, <1>7, <1>8

LEMMA FindInventoryLoginInv ==
  ASSUME LoginInv, NEW s \in Sessions, FindInventory(s)
  PROVE  LoginInv'
<1>. USE DEF LoginInv, FindInventory, Goto, counts, tables, handler, flags
<1>1. TypeOK'
  BY LoginAssumption DEF TypeOK, Register, Requests, Accounts, Answers
<1>2. KeysAreUnique'
  BY DEF KeysAreUnique
<1>3. AnswersMatch'
  BY DEF AnswersMatch, TypeOK, CreatorsOwnTheirAccount
<1>4. CreatorsOwnTheirAccount'
  BY DEF CreatorsOwnTheirAccount, TypeOK
<1>5. LoginsOwnTheirCharacter'
  BY DEF LoginsOwnTheirCharacter, Loading, TypeOK
<1>6. OnlyPlayersIdle'
  BY DEF OnlyPlayersIdle, Register, LoggingIn, TypeOK, LoginsOwnTheirCharacter, Loading, KeysAreUnique
<1>7. OverlapsAreNoted'
  BY DEF OverlapsAreNoted, Live, TypeOK
<1>8. FailuresHaveCauses'
  BY DEF FailuresHaveCauses, MetOthers, TypeOK, Register, LoggingIn
<1>. QED
  BY <1>1, <1>2, <1>3, <1>4, <1>5, <1>6, <1>7, <1>8

LEMMA CreateInventoryLoginInv ==
  ASSUME LoginInv, NEW s \in Sessions, CreateInventory(s)
  PROVE  LoginInv'
<1>. USE DEF LoginInv, CreateInventory, Owner, Goto, counts, tables, handler, flags
<1>1. TypeOK'
  <2>1. [id |-> found[s], account |-> account[s]] \in characters
    BY DEF LoginsOwnTheirCharacter, Loading
  <2>2. inventories' \subseteq {c.id : c \in characters'}
    BY <2>1 DEF TypeOK
  <2>. QED
    BY <2>2 DEF TypeOK, Register
<1>2. KeysAreUnique'
  BY DEF KeysAreUnique
<1>3. AnswersMatch'
  BY DEF AnswersMatch, TypeOK, CreatorsOwnTheirAccount
<1>4. CreatorsOwnTheirAccount'
  BY DEF CreatorsOwnTheirAccount, TypeOK
<1>5. LoginsOwnTheirCharacter'
  BY DEF LoginsOwnTheirCharacter, Loading, TypeOK
<1>6. OnlyPlayersIdle'
  BY DEF OnlyPlayersIdle, Register, LoggingIn, TypeOK, LoginsOwnTheirCharacter, Loading, KeysAreUnique
<1>7. OverlapsAreNoted'
  BY DEF OverlapsAreNoted, Live, TypeOK
<1>8. FailuresHaveCauses'
  BY DEF FailuresHaveCauses, MetOthers, TypeOK, Register, LoggingIn
<1>. QED
  BY <1>1, <1>2, <1>3, <1>4, <1>5, <1>6, <1>7, <1>8

LEMMA LoadItemsLoginInv ==
  ASSUME LoginInv, NEW s \in Sessions, LoadItems(s)
  PROVE  LoginInv'
<1>. USE DEF LoginInv, LoadItems, Return, AfterError, Goto, counts, tables, handler, flags
<1>1. TypeOK'
  BY LoginAssumption DEF TypeOK, Register, Requests, Accounts, Answers
<1>2. KeysAreUnique'
  BY DEF KeysAreUnique
<1>3. AnswersMatch'
  BY DEF AnswersMatch, TypeOK, CreatorsOwnTheirAccount
<1>4. CreatorsOwnTheirAccount'
  BY DEF CreatorsOwnTheirAccount, TypeOK
<1>5. LoginsOwnTheirCharacter'
  BY DEF LoginsOwnTheirCharacter, Loading, TypeOK
<1>6. OnlyPlayersIdle'
  BY DEF OnlyPlayersIdle, Register, LoggingIn, TypeOK, LoginsOwnTheirCharacter, Loading, KeysAreUnique
<1>7. OverlapsAreNoted'
  BY DEF OverlapsAreNoted, Live, TypeOK
<1>8. FailuresHaveCauses'
  <2>1. ASSUME OthersMaySave(s) PROVE MetOthers(s)
    <3>. DEFINE c == [id |-> found[s], account |-> account[s]]
    <3>1. c \in characters /\ c.id = found[s] /\ c.account = account[s]
      BY DEF LoginsOwnTheirCharacter, Loading
    <3>. QED
      BY <2>1, <3>1 DEF OthersMaySave, MetOthers
  <2>2. \/ at' = [at EXCEPT ![s] = "addPlayer"]
        \/ at' = [at EXCEPT ![s] = "failed"] /\ MetOthers(s)
    BY <2>1
  <2>3. UNCHANGED <<characters, account, overlapped, played, faults>>
    OBVIOUS
  <2>. QED
    BY <2>2, <2>3 DEF FailuresHaveCauses, MetOthers, TypeOK
<1>. QED
  BY <1>1, <1>2, <1>3, <1>4, <1>5, <1>6, <1>7, <1>8

LEMMA AddPlayerLoginInv ==
  ASSUME LoginInv, NEW s \in Sessions, AddPlayer(s)
  PROVE  LoginInv'
<1>. USE DEF LoginInv, AddPlayer, Return, Goto, counts, tables, handler, flags
<1>1. TypeOK'
  <2>1. [id |-> found[s], account |-> account[s]] \in characters
    BY DEF LoginsOwnTheirCharacter, Loading
  <2>2. played' \subseteq {c.id : c \in characters'}
    BY <2>1 DEF TypeOK
  <2>. QED
    BY <2>2 DEF TypeOK, Register
<1>2. KeysAreUnique'
  BY DEF KeysAreUnique
<1>3. AnswersMatch'
  BY DEF AnswersMatch, TypeOK, CreatorsOwnTheirAccount
<1>4. CreatorsOwnTheirAccount'
  BY DEF CreatorsOwnTheirAccount, TypeOK
<1>5. LoginsOwnTheirCharacter'
  BY DEF LoginsOwnTheirCharacter, Loading, TypeOK
<1>6. OnlyPlayersIdle'
  BY DEF OnlyPlayersIdle, Register, LoggingIn, TypeOK, LoginsOwnTheirCharacter, Loading, KeysAreUnique
<1>7. OverlapsAreNoted'
  BY DEF OverlapsAreNoted, Live, TypeOK
<1>8. FailuresHaveCauses'
  BY DEF FailuresHaveCauses, MetOthers, TypeOK, Register, LoggingIn
<1>. QED
  BY <1>1, <1>2, <1>3, <1>4, <1>5, <1>6, <1>7, <1>8

LEMMA LoginThrowsLoginInv ==
  ASSUME LoginInv, NEW s \in Sessions, LoginThrows(s)
  PROVE  LoginInv'
<1>. USE DEF LoginInv, LoginThrows, Return, AfterError, Goto, tables, handler, flags
<1>1. TypeOK'
  BY LoginAssumption DEF TypeOK, Register, Requests, Accounts, Answers
<1>2. KeysAreUnique'
  BY DEF KeysAreUnique
<1>3. AnswersMatch'
  BY DEF AnswersMatch, TypeOK, CreatorsOwnTheirAccount
<1>4. CreatorsOwnTheirAccount'
  BY DEF CreatorsOwnTheirAccount, TypeOK
<1>5. LoginsOwnTheirCharacter'
  BY DEF LoginsOwnTheirCharacter, Loading, TypeOK
<1>6. OnlyPlayersIdle'
  BY DEF OnlyPlayersIdle, Register, LoggingIn, TypeOK, LoginsOwnTheirCharacter, Loading, KeysAreUnique
<1>7. OverlapsAreNoted'
  BY DEF OverlapsAreNoted, Live, TypeOK
<1>8. FailuresHaveCauses'
  BY DEF FailuresHaveCauses, MetOthers, TypeOK, Register, LoggingIn
<1>. QED
  BY <1>1, <1>2, <1>3, <1>4, <1>5, <1>6, <1>7, <1>8

LEMMA CloseLoginInv ==
  ASSUME LoginInv, NEW s \in Sessions, Close(s)
  PROVE  LoginInv'
<1>. USE DEF LoginInv, Close, counts, tables, handler, flags
<1>1. TypeOK'
  BY LoginAssumption DEF TypeOK, Register, Requests, Accounts, Answers
<1>2. KeysAreUnique'
  BY DEF KeysAreUnique
<1>3. AnswersMatch'
  BY DEF AnswersMatch, TypeOK, CreatorsOwnTheirAccount
<1>4. CreatorsOwnTheirAccount'
  BY DEF CreatorsOwnTheirAccount, TypeOK
<1>5. LoginsOwnTheirCharacter'
  BY DEF LoginsOwnTheirCharacter, Loading, TypeOK
<1>6. OnlyPlayersIdle'
  BY DEF OnlyPlayersIdle, Register, LoggingIn, TypeOK, LoginsOwnTheirCharacter, Loading, KeysAreUnique
<1>7. OverlapsAreNoted'
  BY DEF OverlapsAreNoted, Live, TypeOK
<1>8. FailuresHaveCauses'
  BY DEF FailuresHaveCauses, MetOthers, TypeOK, Register, LoggingIn
<1>. QED
  BY <1>1, <1>2, <1>3, <1>4, <1>5, <1>6, <1>7, <1>8

LEMMA LeaveLoginInv ==
  ASSUME LoginInv, NEW s \in Sessions, Leave(s)
  PROVE  LoginInv'
<1>. USE DEF LoginInv, Leave, Goto, counts, tables, handler, flags
<1>1. TypeOK'
  BY LoginAssumption DEF TypeOK, Register, Requests, Accounts, Answers
<1>2. KeysAreUnique'
  BY DEF KeysAreUnique
<1>3. AnswersMatch'
  BY DEF AnswersMatch, TypeOK, CreatorsOwnTheirAccount
<1>4. CreatorsOwnTheirAccount'
  BY DEF CreatorsOwnTheirAccount, TypeOK
<1>5. LoginsOwnTheirCharacter'
  BY DEF LoginsOwnTheirCharacter, Loading, TypeOK
<1>6. OnlyPlayersIdle'
  BY DEF OnlyPlayersIdle, Register, LoggingIn, TypeOK, LoginsOwnTheirCharacter, Loading, KeysAreUnique
<1>7. OverlapsAreNoted'
  BY DEF OverlapsAreNoted, Live, TypeOK
<1>8. FailuresHaveCauses'
  BY DEF FailuresHaveCauses, MetOthers, TypeOK, Register, LoggingIn
<1>. QED
  BY <1>1, <1>2, <1>3, <1>4, <1>5, <1>6, <1>7, <1>8

LEMMA CreateAccountLoginInv ==
  ASSUME LoginInv, NEW s \in Sessions, CreateAccount(s)
  PROVE  LoginInv'
<1>. DEFINE r == request[s]
            new == [id |-> NewAccountId, login |-> r[1], email |-> r[2]]
<1>1. /\ at[s] = "create" /\ r \in Requests /\ r[1] \in Logins /\ r[2] \in Emails
      /\ UNCHANGED <<characters, inventories, flags, counts>>
  BY RequestFields DEF CreateAccount, LoginInv, TypeOK, Register
<1>2. /\ IsFiniteSet(accounts) /\ Cardinality(accounts) \in Nat
      /\ NewAccountId \in Nat /\ NewAccountId = Cardinality(accounts) + 1
  BY FS_CardinalityType DEF LoginInv, TypeOK, NewAccountId
<1>3. CASE AccountKeysFree(r)
  <2>1. /\ accounts' = accounts \cup {new} /\ found' = [found EXCEPT ![s] = NewAccountId]
        /\ at' = [at EXCEPT ![s] = "findById"] /\ request' = request /\ told' = told
    BY <1>3 DEF CreateAccount, Goto
  <2>2. \A a \in accounts : a.login # r[1] /\ a.email # r[2] /\ a.id # NewAccountId
    BY <1>2, <1>3 DEF AccountKeysFree, WithLogin, WithEmail, LoginInv, KeysAreUnique
  <2>3. IsFiniteSet(accounts') /\ Cardinality(accounts') = Cardinality(accounts) + 1
    BY ZenonT(60), <1>2, <2>1, <2>2, FS_AddElement
  <2>4. TypeOK'
    BY <1>1, <1>2, <2>1, <2>3 DEF LoginInv, TypeOK, Register, Accounts, flags, counts
  <2>5. KeysAreUnique'
    BY <1>1, <1>2, <2>1, <2>2, <2>3 DEF LoginInv, KeysAreUnique
  <2>6. AnswersMatch'
    BY <2>1 DEF LoginInv, AnswersMatch
  <2>7. CreatorsOwnTheirAccount'
    <3>1. \A m \in told : m.kind = "created" => m.id # NewAccountId
      BY <2>2 DEF LoginInv, AnswersMatch
    <3>2. \A t \in Sessions : at[t] = "findById" => found[t] # NewAccountId
      BY <2>2 DEF LoginInv, CreatorsOwnTheirAccount
    <3>. QED
      BY <1>1, <2>1, <3>1, <3>2 DEF LoginInv, TypeOK, CreatorsOwnTheirAccount
  <2>8. LoginsOwnTheirCharacter' /\ OnlyPlayersIdle' /\ OverlapsAreNoted' /\ FailuresHaveCauses'
    BY <1>1, <2>1 DEF LoginInv, TypeOK, LoginsOwnTheirCharacter, OnlyPlayersIdle, OverlapsAreNoted,
                      FailuresHaveCauses, MetOthers, Loading, Register, LoggingIn, Live, flags, counts
  <2>. QED
    BY <2>4, <2>5, <2>6, <2>7, <2>8 DEF LoginInv
<1>4. CASE ~AccountKeysFree(r)
  <2>1. Answer(s, "exists") /\ accounts' = accounts
    BY <1>4 DEF CreateAccount
  <2>2. /\ at' = [at EXCEPT ![s] = "idle"] /\ told' \subseteq Answers
        /\ told' \subseteq told \cup {[to |-> s, kind |-> "exists", id |-> found[s],
                                       login |-> r[1], email |-> r[2]]}
    BY <1>1, <2>1, AnswerTypes DEF LoginInv, Register
  <2>3. TypeOK'
    BY <1>1, <2>1, <2>2 DEF LoginInv, TypeOK, Answer, Return, Register, flags, counts
  <2>4. KeysAreUnique'
    BY <1>1, <2>1 DEF LoginInv, KeysAreUnique
  <2>5. AnswersMatch'
    BY <1>4, <2>1, <2>2 DEF LoginInv, AnswersMatch, AccountKeysFree, WithLogin, WithEmail
  <2>6. CreatorsOwnTheirAccount'
    BY <1>1, <2>1, <2>2 DEF LoginInv, TypeOK, CreatorsOwnTheirAccount, Answer, Return
  <2>7. LoginsOwnTheirCharacter' /\ OnlyPlayersIdle' /\ OverlapsAreNoted' /\ FailuresHaveCauses'
    BY <1>1, <2>1, <2>2 DEF LoginInv, TypeOK, LoginsOwnTheirCharacter, OnlyPlayersIdle, OverlapsAreNoted,
                      FailuresHaveCauses, MetOthers, Loading, Register, LoggingIn, Live, Answer, Return, flags, counts
  <2>. QED
    BY <2>3, <2>4, <2>5, <2>6, <2>7 DEF LoginInv
<1>. QED
  BY <1>3, <1>4

LEMMA AcceptLoginLoginInv ==
  ASSUME LoginInv, NEW s \in Sessions, AcceptLogin(s)
  PROVE  LoginInv'
<1>1. /\ at[s] = "validate" /\ account[s] = 0 /\ player[s] = 0
      /\ at' = [at EXCEPT ![s] = "findCharacter"]
      /\ UNCHANGED <<tables, request, found, player, closed, played, told, counts>>
  BY DEF AcceptLogin, Goto, LoginInv, OnlyPlayersIdle
<1>2. PICK a \in accounts :
        /\ account' = [account EXCEPT ![s] = a.id]
        /\ overlapped' = IF Sharers(s, a.id) = {} THEN overlapped
                         ELSE overlapped \cup {s} \cup Sharers(s, a.id)
  BY DEF AcceptLogin, WithLogin
<1>3. a.id \in Nat /\ a.id # 0
  BY FS_CardinalityType DEF LoginInv, TypeOK, Accounts, KeysAreUnique
<1>4. TypeOK'
  BY <1>1, <1>2, <1>3 DEF LoginInv, TypeOK, Register, Sharers, tables, counts
<1>5. KeysAreUnique' /\ AnswersMatch' /\ CreatorsOwnTheirAccount'
  BY <1>1 DEF LoginInv, TypeOK, KeysAreUnique, AnswersMatch, CreatorsOwnTheirAccount, tables
<1>6. LoginsOwnTheirCharacter' /\ OnlyPlayersIdle'
  BY <1>1, <1>2, <1>3 DEF LoginInv, TypeOK, LoginsOwnTheirCharacter, OnlyPlayersIdle, Loading,
                          Register, LoggingIn, tables
<1>7. OverlapsAreNoted'
  <2>1. overlapped \subseteq overlapped'
    BY <1>2
  <2>2. ASSUME NEW t \in Sessions \ {s}, Live(t), account[t] = a.id
        PROVE  s \in overlapped' /\ t \in overlapped'
    BY <1>2, <2>2 DEF Sharers
  <2>. QED
    BY <1>1, <1>2, <2>1, <2>2 DEF LoginInv, TypeOK, OverlapsAreNoted, Live, tables, counts
<1>8. FailuresHaveCauses'
  BY <1>1, <1>2 DEF LoginInv, TypeOK, FailuresHaveCauses, MetOthers, tables, counts
<1>. QED
  BY <1>4, <1>5, <1>6, <1>7, <1>8 DEF LoginInv

LEMMA CreateCharacterLoginInv ==
  ASSUME LoginInv, NEW s \in Sessions, CreateCharacter(s)
  PROVE  LoginInv'
<1>. DEFINE new == [id |-> NewCharacterId, account |-> account[s]]
<1>1. at[s] = "createCharacter" /\ UNCHANGED <<accounts, inventories, flags, told, counts>>
  BY DEF CreateCharacter
<1>2. IsFiniteSet(characters) /\ NewCharacterId \in Nat /\ NewCharacterId # 0 /\ account[s] \in Nat
  BY FS_CardinalityType DEF LoginInv, TypeOK, NewCharacterId
<1>3. CASE CharacterKeyFree(account[s])
  <2>1. /\ characters' = characters \cup {new} /\ found' = [found EXCEPT ![s] = NewCharacterId]
        /\ at' = [at EXCEPT ![s] = "findInventory"] /\ request' = request
    BY <1>3 DEF CreateCharacter, Goto
  <2>2. IsFiniteSet(characters')
    BY <1>2, <2>1, FS_AddElement
  <2>3. TypeOK'
    BY <1>1, <1>2, <2>1, <2>2 DEF LoginInv, TypeOK, Register, flags, counts
  <2>4. KeysAreUnique'
    BY <1>1, <1>2, <1>3, <2>1 DEF LoginInv, KeysAreUnique, CharacterKeyFree
  <2>5. AnswersMatch' /\ CreatorsOwnTheirAccount'
    BY <1>1, <2>1 DEF LoginInv, TypeOK, AnswersMatch, CreatorsOwnTheirAccount
  <2>6. LoginsOwnTheirCharacter' /\ OnlyPlayersIdle'
    BY <1>1, <2>1 DEF LoginInv, TypeOK, LoginsOwnTheirCharacter, OnlyPlayersIdle, Loading,
                      Register, LoggingIn, flags
  <2>7. OverlapsAreNoted'
    <3>1. account[s] # 0
      BY <1>1 DEF LoginInv, OnlyPlayersIdle, LoggingIn
    <3>2. \A t \in Sessions \ {s} : at[t] = "createCharacter" /\ account[t] = account[s] => t \in overlapped
      BY <1>1, <3>1 DEF LoginInv, OverlapsAreNoted, Live
    <3>. QED
      BY <1>1, <2>1, <3>2 DEF LoginInv, TypeOK, OverlapsAreNoted, Live, flags, counts
  <2>8. FailuresHaveCauses'
    BY <1>1, <2>1 DEF LoginInv, TypeOK, FailuresHaveCauses, MetOthers, flags, counts
  <2>. QED
    BY <2>3, <2>4, <2>5, <2>6, <2>7, <2>8 DEF LoginInv
<1>4. CASE ~CharacterKeyFree(account[s])
  <2>1. characters' = characters /\ Return(s, "failed")
    BY <1>4 DEF CreateCharacter, AfterError
  <2>2. s \in overlapped
    BY <1>1, <1>4 DEF LoginInv, OverlapsAreNoted, CharacterKeyFree
  <2>3. TypeOK'
    BY <1>1, <2>1 DEF LoginInv, TypeOK, Register, Return, Goto, flags, counts
  <2>4. KeysAreUnique' /\ AnswersMatch' /\ CreatorsOwnTheirAccount'
    BY <1>1, <2>1 DEF LoginInv, TypeOK, KeysAreUnique, AnswersMatch, CreatorsOwnTheirAccount, Return, Goto
  <2>5. LoginsOwnTheirCharacter' /\ OnlyPlayersIdle'
    BY <1>1, <2>1 DEF LoginInv, TypeOK, LoginsOwnTheirCharacter, OnlyPlayersIdle, Loading,
                      Register, LoggingIn, Return, Goto, flags
  <2>6. OverlapsAreNoted' /\ FailuresHaveCauses'
    BY <1>1, <2>1, <2>2 DEF LoginInv, TypeOK, OverlapsAreNoted, FailuresHaveCauses, MetOthers, Live,
                            Return, Goto, flags, counts
  <2>. QED
    BY <2>3, <2>4, <2>5, <2>6 DEF LoginInv
<1>. QED
  BY <1>3, <1>4

LEMMA CrashLoginInv ==
  ASSUME LoginInv, Crash
  PROVE  LoginInv'
<1>1. /\ \A s \in Sessions : at'[s] = "gone" \/ at'[s] = "idle"
      /\ at' \in [Sessions -> {"idle", "gone"}]
      /\ request' = [s \in Sessions |-> NoRequest] /\ found' = [s \in Sessions |-> 0]
      /\ player' = [s \in Sessions |-> 0] /\ account' = [s \in Sessions |-> 0]
      /\ UNCHANGED <<tables, closed, overlapped, told, registers>> /\ played' = {}
      /\ faults' \in 0 .. MaxFaults
  BY LoginAssumption DEF Crash, LoginInv, TypeOK
<1>2. TypeOK'
  BY <1>1 DEF LoginInv, TypeOK, Register, tables
<1>. QED
  BY <1>1, <1>2 DEF LoginInv, KeysAreUnique, AnswersMatch, CreatorsOwnTheirAccount, LoginsOwnTheirCharacter,
                    OnlyPlayersIdle, OverlapsAreNoted, FailuresHaveCauses, MetOthers, Loading, Register, LoggingIn, Live, tables

LEMMA InitLoginInv == Init => LoginInv
  BY LoginAssumption, FS_EmptySet
  DEF Init, LoginInv, TypeOK, KeysAreUnique, AnswersMatch, CreatorsOwnTheirAccount, LoginsOwnTheirCharacter,
      OnlyPlayersIdle, OverlapsAreNoted, FailuresHaveCauses, MetOthers, Loading, Register, LoggingIn, Live

LEMMA NextLoginInv == LoginInv /\ [Next]_vars => LoginInv'
<1>. SUFFICES ASSUME LoginInv, [Next]_vars PROVE LoginInv'
  OBVIOUS
<1>1. ASSUME NEW s \in Sessions, RegisterStep(s) PROVE LoginInv'
  BY <1>1, BeginRegisterLoginInv, FindByLoginLoginInv, FindByEmailLoginInv, CreateAccountLoginInv,
     FindByIdLoginInv, RegisterThrowsLoginInv DEF RegisterStep
<1>2. ASSUME NEW s \in Sessions, LoginStep(s) PROVE LoginInv'
  BY <1>2, BeginLoginLoginInv, RejectLoginLoginInv, AcceptLoginLoginInv, FindByAccountIdLoginInv,
     CreateCharacterLoginInv, FindInventoryLoginInv, CreateInventoryLoginInv, LoadItemsLoginInv,
     AddPlayerLoginInv, LoginThrowsLoginInv DEF LoginStep
<1>3. CASE UNCHANGED vars
  BY <1>3 DEF vars, tables, handler, flags, counts, LoginInv, TypeOK, KeysAreUnique, AnswersMatch,
              CreatorsOwnTheirAccount, LoginsOwnTheirCharacter, OnlyPlayersIdle, OverlapsAreNoted,
              FailuresHaveCauses, MetOthers, Loading, Register, LoggingIn, Live
<1>. QED
  BY <1>1, <1>2, <1>3, CloseLoginInv, LeaveLoginInv, CrashLoginInv DEF Next

\* Every step of the server's life is one of its sessions or changes no table.
LEMMA ServerStepLogin == [ServerNext]_<<vars, startup>> => [Next]_vars
  BY DEF ServerNext, StartServer, Initialize, StartCrashes, Listen, Serve, ServerCrash, Next

LEMMA ServerLogin == ServerSpec => []LoginInv
<1>1. ServerInit => LoginInv
  BY InitLoginInv DEF ServerInit
<1>. QED
  BY <1>1, NextLoginInv, ServerStepLogin, PTL DEF ServerSpec

\* What clients are told about registrations is true, for any number of
\* sessions whose handlers interleave between reads and inserts, and whatever
\* throws or crashes (AccountService.cs:22-50).
THEOREM AnswersStayTrue == ServerSpec => []AnswersAreTrue
<1>1. LoginInv => AnswersAreTrue
  BY DEF LoginInv, AnswersAreTrue, KeysAreUnique, AnswersMatch
<1>. QED
  BY <1>1, ServerLogin, PTL

\* A session that was accepted and reads packets plays its account's only
\* character, and only a database error, another session of its account, or an
\* earlier one of its character that a round may still be saving, ends one that
\* was accepted (ClientSession.cs:243-265; CharacterService.cs:14-34).
THEOREM AcceptedLoginsAlwaysPlay == ServerSpec => []AcceptedLoginsPlay
<1>1. ASSUME LoginInv, NEW s \in Sessions, player[s] # 0
      PROVE  {c \in characters : c.account = account[s]} = {[id |-> player[s], account |-> account[s]]}
  <2>1. [id |-> player[s], account |-> account[s]] \in characters
    BY <1>1 DEF LoginInv, LoginsOwnTheirCharacter
  <2>2. ASSUME NEW c \in characters, c.account = account[s]
        PROVE  c = [id |-> player[s], account |-> account[s]]
    BY <1>1, <2>1, <2>2 DEF LoginInv, KeysAreUnique
  <2>. QED
    BY <2>1, <2>2
<1>2. LoginInv => AcceptedLoginsPlay
  BY <1>1 DEF LoginInv, AcceptedLoginsPlay, OnlyPlayersIdle, FailuresHaveCauses, MetOthers, CharactersOf
<1>. QED
  BY <1>2, ServerLogin, PTL
===============================================================================
