------------------------------ MODULE Startup ------------------------------
(***************************************************************************)
(* Several processes start on one SQLite file: each runs Migrate and then  *)
(* CheckPragmas, any of them may die at any point, and a supervisor starts *)
(* it again.                                                               *)
(*                                                                         *)
(* A migration file is a number and holds the statements 1..Statements.    *)
(* SQLite lets one transaction write at a time, shows its changes to the   *)
(* others when it commits, and rolls it back when its process dies.        *)
(***************************************************************************)
EXTENDS Integers, FiniteSets

CONSTANTS Processes,
          Files,       \* the number of embedded up-migrations
          Statements,  \* the statements of a file
          Nobody,
          MaxCrashes   \* bound on the crashes

ASSUME FilesAssumption == Files \in Nat \ {0} /\ Statements \in Nat \ {0}
ASSUME NobodyAssumption == Nobody \notin Processes

VARIABLES
  pragmas, \* the pragmas that the DSN sets
  schema,  \* the committed statements <<file, statement>>
  marked,  \* the rows of cryden_schema_migrations
  tx,      \* the open write transaction: [owner, done, mark]
  proc,    \* proc[p]: [pc, applied, file, next]
  crashes

startupVars == <<pragmas, schema, marked, tx, proc, crashes>>

NoTx == [owner |-> Nobody, done |-> {}, mark |-> {}]

Down == [pc |-> "down", applied |-> {}, file |-> 0, next |-> 0]

At(p, pc) == proc[p].pc = pc
Goto(p, pc) == proc' = [proc EXCEPT ![p].pc = pc]

Body(f) == {<<f, k>> : k \in 1..Statements}

StartupInit ==
  /\ pragmas \in SUBSET {"foreign_keys", "busy_timeout"}
  /\ schema = {} /\ marked = {}
  /\ tx = NoTx
  /\ proc = [p \in Processes |-> Down]
  /\ crashes = 0

-----------------------------------------------------------------------------
(* Migrate *)

\* The marker table is created IF NOT EXISTS, which nobody is in the way of.
Start(p) ==
  /\ At(p, "down")
  /\ Goto(p, "read")
  /\ UNCHANGED <<pragmas, schema, marked, tx, crashes>>

\* Mutant: the markers are not looked at.
AppliedMigrationsNone == {}

AppliedMigrations == marked

\* appliedMigrations, then the first file; the list is not read again.
ReadApplied(p) ==
  /\ At(p, "read")
  /\ proc' = [proc EXCEPT ![p] = [pc |-> "file", applied |-> AppliedMigrations,
                                  file |-> 1, next |-> 1]]
  /\ UNCHANGED <<pragmas, schema, marked, tx, crashes>>

\* upMigrationNames sorts by name, so files come in the order of their number.
Skip(p) ==
  /\ At(p, "file")
  /\ proc[p].file <= Files /\ proc[p].file \in proc[p].applied
  /\ proc' = [proc EXCEPT ![p].file = @ + 1]
  /\ UNCHANGED <<pragmas, schema, marked, tx, crashes>>

MigrateReturns(p) ==
  /\ At(p, "file") /\ proc[p].file > Files
  /\ Goto(p, "pragmas")
  /\ UNCHANGED <<pragmas, schema, marked, tx, crashes>>

\* applyMigration's BeginTx, up to the lock that the body's first statement
\* takes.
BeginTx(p) ==
  /\ At(p, "file")
  /\ proc[p].file <= Files /\ proc[p].file \notin proc[p].applied
  /\ tx.owner = Nobody
  /\ tx' = [owner |-> p, done |-> {}, mark |-> {}]
  /\ proc' = [proc EXCEPT ![p].pc = "body", ![p].next = 1]
  /\ UNCHANGED <<pragmas, schema, marked, crashes>>

\* A statement of the body: CREATE TABLE and CREATE INDEX fail where the
\* object exists.
ExecBody(p) ==
  LET stmt == <<proc[p].file, proc[p].next>>
  IN  /\ At(p, "body") /\ proc[p].next <= Statements
      /\ stmt \notin schema
      /\ tx' = [tx EXCEPT !.done = @ \cup {stmt}]
      /\ proc' = [proc EXCEPT ![p].next = @ + 1]
      /\ UNCHANGED <<pragmas, schema, marked, crashes>>

\* Mutant: the marker is written outside of the transaction.
RecordMarkerApart(p) ==
  /\ At(p, "body") /\ proc[p].next > Statements
  /\ marked' = marked \cup {proc[p].file}
  /\ Goto(p, "commit")
  /\ UNCHANGED <<pragmas, schema, tx, crashes>>

\* The INSERT of the marker, in the same transaction.  It does not collide
\* with another one: the body would have failed first.
RecordMarker(p) ==
  /\ At(p, "body") /\ proc[p].next > Statements
  /\ tx' = [tx EXCEPT !.mark = {proc[p].file}]
  /\ Goto(p, "commit")
  /\ UNCHANGED <<pragmas, schema, marked, crashes>>

Commit(p) ==
  /\ At(p, "commit")
  /\ schema' = schema \cup tx.done
  /\ marked' = marked \cup tx.mark
  /\ tx' = NoTx
  /\ proc' = [proc EXCEPT ![p].pc = "file", ![p].file = @ + 1]
  /\ UNCHANGED <<pragmas, crashes>>

\* A statement fails: because its object exists, or because another process
\* writes and the busy timeout ran out or is not set.  The deferred Rollback
\* undoes the body and Migrate returns the error, which ends the process.
MigrateFails(p) ==
  /\ \/ At(p, "body") /\ proc[p].next <= Statements
        /\ <<proc[p].file, proc[p].next>> \in schema
     \/ At(p, "file") /\ proc[p].file <= Files
        /\ proc[p].file \notin proc[p].applied /\ tx.owner # Nobody
     \/ At(p, "read") /\ tx.owner # Nobody
  /\ tx' = IF tx.owner = p THEN NoTx ELSE tx
  /\ proc' = [proc EXCEPT ![p] = Down]
  /\ UNCHANGED <<pragmas, schema, marked, crashes>>

-----------------------------------------------------------------------------

\* The problems that CheckPragmas reports, all of them.
PragmaProblems == {"foreign_keys", "busy_timeout"} \ pragmas

\* A host that is told of a problem stops there.
CheckPragmas(p) ==
  /\ At(p, "pragmas")
  /\ Goto(p, IF PragmaProblems = {} THEN "serving" ELSE "refused")
  /\ UNCHANGED <<pragmas, schema, marked, tx, crashes>>

\* The process dies and its transaction with it.
Crash(p) ==
  /\ crashes < MaxCrashes
  /\ ~At(p, "down")
  /\ crashes' = crashes + 1
  /\ tx' = IF tx.owner = p THEN NoTx ELSE tx
  /\ proc' = [proc EXCEPT ![p] = Down]
  /\ UNCHANGED <<pragmas, schema, marked>>

Step(p) ==
  \/ Start(p) \/ ReadApplied(p) \/ Skip(p) \/ MigrateReturns(p)
  \/ BeginTx(p) \/ ExecBody(p) \/ RecordMarker(p) \/ Commit(p)
  \/ MigrateFails(p) \/ CheckPragmas(p)

StartupNext == \E p \in Processes : Step(p) \/ Crash(p)

\* The scheduler runs every process, and the supervisor starts it again.
StartupSpec ==
  /\ StartupInit /\ [][StartupNext]_startupVars
  /\ \A p \in Processes : WF_startupVars(Step(p))

-----------------------------------------------------------------------------
(* Properties *)

(***************************************************************************)
(* Whoever dies or loses a race, the database has whole files only, a      *)
(* marker for exactly the files it has, and no file without the ones       *)
(* before it; and no process serves before all of them are there.          *)
(* (applyMigration's transaction, upMigrationNames' order)                 *)
(***************************************************************************)
MarkersTellTheSchema ==
  /\ schema = UNION {Body(f) : f \in marked}
  /\ \A f \in marked : \A g \in 1..f : g \in marked
  /\ \A p \in Processes : At(p, "serving") => marked = 1..Files

\* The version that the markers are those of; -1 where they are of none.
Version ==
  IF \E n \in 0..Files : marked = 1..n
  THEN CHOOSE n \in 0..Files : marked = 1..n ELSE -1

Versions == INSTANCE SchemaVersions WITH
  Latest   <- Files,
  Contents <- [n \in 0..Files |-> UNION {Body(f) : f \in 1..n}],
  version  <- Version,
  serving  <- {p \in Processes : At(p, "serving")}

(***************************************************************************)
(* What the processes see is a database that goes from one whole version   *)
(* to the next, whichever of them wins a race over a file or dies halfway  *)
(* through one, and the ones that serve never see it change.               *)
(* (Migrate, applyMigration, CheckPragmas)                                 *)
(***************************************************************************)
UpgradesByVersion == Versions!Spec

(***************************************************************************)
(* Processes that start together get in each other's way, and every one    *)
(* that is started again often enough gets to serve: a file that another   *)
(* process applied is an error once and skipped after the restart.  With a *)
(* pragma missing every one stops at the check instead.                    *)
(* (Migrate, CheckPragmas)                                                 *)
(***************************************************************************)
EveryoneServes ==
  <>[](\A p \in Processes :
         At(p, IF PragmaProblems = {} THEN "serving" ELSE "refused"))

=============================================================================
