----------------------------- MODULE ServerLife -----------------------------
(***************************************************************************)
(* A server from its start to its crash and its next start: GameServer     *)
(* brings the schema up to date (SchemaMigrations) before it listens, and  *)
(* then its sessions register and log in (SessionLogin).  When it crashes  *)
(* it migrates again, on tables with rows that half-finished logins left.  *)
(*                                                                         *)
(* Sessions are only explored while no server is starting: the schema is   *)
(* complete once anybody listens, and a start leaves it as it is.  The     *)
(* bound on faults is one for every time the servers start.                *)
(***************************************************************************)
EXTENDS SessionLogin

CONSTANTS
    Servers,        \* processes started on one database
    Main,           \* the one that clients connect to
    MaxStartFaults  \* bound on errors and crashes in a start

ASSUME ServerAssumption == Main \in Servers /\ MaxStartFaults \in Nat

VARIABLES schema, recorded, pc, outcome, startFaults

Migrations == INSTANCE SchemaMigrations
                  WITH faults <- startFaults, MaxFaults <- MaxStartFaults

startup == <<schema, recorded, pc, outcome, startFaults>>

ServerInit == Init /\ Migrations!Init

Listening == \A s \in Servers : outcome[s] = "ready"
Serving == Listening /\ startFaults = 0

StartServer(s) == Migrations!Start(s) /\ UNCHANGED vars
Initialize(s) == Migrations!Initialize(s) /\ UNCHANGED vars
StartCrashes(s) == Migrations!Crash(s) /\ UNCHANGED vars

Listen ==
    /\ Listening /\ ~Serving
    /\ startFaults' = 0
    /\ UNCHANGED <<vars, schema, recorded, pc, outcome>>

ServerCrash ==
    /\ Serving
    /\ Crash
    /\ outcome' = [outcome EXCEPT ![Main] = "crashed"]
    /\ UNCHANGED <<schema, recorded, pc, startFaults>>

Serve ==
    /\ Serving
    /\ \E s \in Sessions : RegisterStep(s) \/ LoginStep(s) \/ Close(s) \/ Leave(s)
    /\ UNCHANGED startup

ServerNext ==
    \/ \E s \in Servers : StartServer(s) \/ Initialize(s) \/ StartCrashes(s)
    \/ Listen \/ Serve \/ ServerCrash

\* A process goes on running; its operator starts it again when it has died.
ServerSpec ==
    /\ ServerInit /\ [][ServerNext]_<<vars, startup>>
    /\ \A s \in Servers :
          WF_<<vars, startup>>(Initialize(s)) /\ WF_<<vars, startup>>(StartServer(s))

-----------------------------------------------------------------------------
(***************************************************************************)
(* Properties: SessionLogin's, and those of the starts.                    *)
(***************************************************************************)
\* A recorded migration is complete, whatever crashed and whoever else was
\* migrating, for nobody will run its statements again; and a server listens
\* only on a complete schema (DatabaseInitializer.cs:16-271, 323-332).
SchemaIsComplete ==
    Migrations!TypeOK /\ Migrations!RecordedIsComplete /\ Migrations!ReadyIsComplete

\* After crashes and collisions, in starts and while serving, every server
\* listens in the end: nothing that an earlier start left behind, stopped at
\* any statement, is in the way of a later one (GameServer.cs:66-77,
\* DatabaseInitializer.cs:20, 44, 95, 127, 156, 257).
EverybodyListens == \A s \in Servers : <>[](outcome[s] = "ready")
=============================================================================
