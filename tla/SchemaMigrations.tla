-------------------------- MODULE SchemaMigrations --------------------------
(***************************************************************************)
(* DatabaseInitializer.Initialize: what a server does to the schema before *)
(* it listens.  MySQL commits every CREATE TABLE by itself, so a process   *)
(* that dies leaves a prefix of a migration behind, unrecorded, and two    *)
(* servers started on one database interleave statement by statement.      *)
(***************************************************************************)
EXTENDS Integers, Sequences, SequencesExt, FiniteSets

CONSTANTS
    Servers,        \* processes started on the database
    MaxFaults       \* bound on errors of the database and dying processes

VARIABLES
    schema,         \* the database, its tables and the starter rows that exist
    recorded,       \* rows of schema_migrations
    pc,             \* each server's next statement; 0 off
    outcome,        \* how its last start ended
    faults

vars == <<schema, recorded, pc, outcome, faults>>

-----------------------------------------------------------------------------
Creates(what, after) == [op |-> "create", id |-> 0, what |-> what, after |-> after]
Checks(m) == [op |-> "check", id |-> m, what |-> "nothing", after |-> {"schema_migrations"}]
Records(m) == [op |-> "record", id |-> m, what |-> "nothing", after |-> {"schema_migrations"}]

\* Each statement with what must exist for it not to be an error: the
\* database, the tables that foreign keys name, the table inserted into.
Statements ==
    << Creates("database", {}),
       Creates("schema_migrations", {"database"}),
       Checks(1),
       Creates("accounts", {"database"}),
       Creates("characters", {"accounts"}),
       Records(1),
       Checks(2),
       Creates("item_templates", {"database"}),
       Creates("inventories", {"characters"}),
       Creates("inventory_items", {"inventories", "item_templates"}),
       Creates("starter_items", {"item_templates"}),
       Records(2) >>

\* What a migration creates lies between its check and its record.
IndexOf(op, m) == SelectInSeq(Statements, LAMBDA i : i.op = op /\ i.id = m)
CreatedBy(m) ==
    {Statements[i].what : i \in IndexOf("check", m) + 1 .. IndexOf("record", m) - 1}
Everything == {Statements[i].what : i \in DOMAIN Statements} \ {"nothing"}
Migrations == {1, 2}

Init ==
    /\ schema = {} /\ recorded = {}
    /\ pc = [s \in Servers |-> 0]
    /\ outcome = [s \in Servers |-> "none"]
    /\ faults = 0

-----------------------------------------------------------------------------
Current(s) == Statements[pc[s]]
Running(s) == pc[s] \in DOMAIN Statements
Goto(s, i) == pc' = [pc EXCEPT ![s] = i]

\* A start, or a restart after a crash or an error.
Start(s) ==
    /\ pc[s] = 0 /\ outcome[s] # "ready"
    /\ Goto(s, 1)
    /\ outcome' = [outcome EXCEPT ![s] = "none"]
    /\ UNCHANGED <<schema, recorded, faults>>

\* The statement after this one, or the end of Initialize.
\* Mutant: the migration is recorded before its last statement.
NextStatement_RecordsEarly(s) ==
    IF Current(s).what = "inventories" THEN Len(Statements) ELSE pc[s] + 1
NextStatement(s) == pc[s] + 1

Continue(s, i) ==
    IF i > Len(Statements)
    THEN Goto(s, 0) /\ outcome' = [outcome EXCEPT ![s] = "ready"]
    ELSE Goto(s, i) /\ UNCHANGED outcome

\* A statement throws: Initialize does not catch it, and the process ends.
\* Mutant: the statement is tried again.
Throw_Retries(s) == UNCHANGED <<pc, outcome>>
Throw(s) == Goto(s, 0) /\ outcome' = [outcome EXCEPT ![s] = "failed"]

Possible(s) == Current(s).after \subseteq schema

\* CREATE ... IF NOT EXISTS, and the insert with ON DUPLICATE KEY UPDATE.
CanCreate(s) == Possible(s)

Create(s) ==
    /\ Running(s) /\ Current(s).op = "create"
    /\ IF CanCreate(s)
       THEN schema' = schema \cup {Current(s).what} /\ Continue(s, NextStatement(s))
       ELSE Throw(s) /\ UNCHANGED schema
    /\ UNCHANGED <<recorded, faults>>

\* IsMigrationApplied: an applied migration is skipped with its record.
IsMigrationApplied(m) == m \in recorded

Check(s) ==
    /\ Running(s) /\ Current(s).op = "check"
    /\ IF Possible(s)
       THEN Continue(s, IF IsMigrationApplied(Current(s).id)
                        THEN IndexOf("record", Current(s).id) + 1
                        ELSE NextStatement(s))
       ELSE Throw(s)
    /\ UNCHANGED <<schema, recorded, faults>>

\* RecordMigration: the primary key refuses a second record.
Record(s) ==
    /\ Running(s) /\ Current(s).op = "record"
    /\ IF Possible(s) /\ Current(s).id \notin recorded
       THEN recorded' = recorded \cup {Current(s).id} /\ Continue(s, NextStatement(s))
       ELSE Throw(s) /\ UNCHANGED recorded
    /\ UNCHANGED <<schema, faults>>

\* The process dies, or a statement fails for a reason of the database's.
Crash(s) ==
    /\ Running(s) /\ faults < MaxFaults
    /\ faults' = faults + 1
    /\ Goto(s, 0)
    /\ outcome' = [outcome EXCEPT ![s] = "crashed"]
    /\ UNCHANGED <<schema, recorded>>

Initialize(s) == Create(s) \/ Check(s) \/ Record(s)

Next == \E s \in Servers : Start(s) \/ Initialize(s) \/ Crash(s)

Spec == Init /\ [][Next]_vars

-----------------------------------------------------------------------------
(***************************************************************************)
(* Properties.                                                             *)
(***************************************************************************)
TypeOK ==
    /\ schema \subseteq Everything
    /\ recorded \subseteq Migrations
    /\ pc \in [Servers -> {0} \cup DOMAIN Statements]
    /\ outcome \in [Servers -> {"none", "ready", "failed", "crashed"}]
    /\ faults \in 0 .. MaxFaults

\* A recorded migration is complete, whatever crashed and whoever else was
\* migrating: nobody will run its statements again (DatabaseInitializer.cs:
\* 323-332).
RecordedIsComplete == \A m \in recorded : CreatedBy(m) \subseteq schema

\* A server listens only on a complete schema with every migration recorded
\* (GameServer.cs:68, DatabaseInitializer.cs:16-271).
ReadyIsComplete ==
    (\E s \in Servers : outcome[s] = "ready") =>
        schema = Everything /\ recorded = Migrations
=============================================================================
