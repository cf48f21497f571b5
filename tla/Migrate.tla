------------------------------ MODULE Migrate ------------------------------
(***************************************************************************)
(* The schema migrator (gridpulse/storage/migrate.py).                     *)
(*                                                                         *)
(* A run reads public._migrations once, then applies the files that were   *)
(* not recorded, in order, each in a transaction that executes the file    *)
(* and inserts its version.  Nothing stops two runs at a time: what they   *)
(* have read of _migrations goes stale, and only the locks and unique      *)
(* keys of Postgres keep them apart.  Runs crash and are repeated; a       *)
(* deployment brings more files.                                           *)
(***************************************************************************)
EXTENDS Naturals

CONSTANTS
  Migrator,      \* processes that run the migrator
  NFiles,        \* files that exist in the end
  Repeatable,    \* files whose SQL may be executed twice (IF NOT EXISTS, ON CONFLICT)
  MaxFailures    \* bound on crashes, refused statements and lost acknowledgements

File == 1..NFiles

ASSUME MigrateAssumption ==
  /\ NFiles \in Nat \ {0}
  /\ Repeatable \subseteq File
  /\ MaxFailures \in Nat

VARIABLES
  release,   \* files of the deployed image are 1..release
  schema,    \* files whose effects are committed
  ledger,    \* versions committed in public._migrations
  pc,        \* control state of each migrator
  known,     \* files of the image it was started from
  todo,      \* files it still has to apply, by what it read of the ledger
  failures   \* failures so far

vars == <<release, schema, ledger, pc, known, todo, failures>>

TypeOK ==
  /\ release \in File
  /\ schema \subseteq File
  /\ ledger \subseteq File
  /\ pc \in [Migrator -> {"idle", "connect", "loop", "executed", "recorded", "done", "failed"}]
  /\ known \in [Migrator -> File]
  /\ todo \in [Migrator -> SUBSET File]
  /\ failures \in 0..MaxFailures

Init ==
  /\ release = 1
  /\ schema = {}
  /\ ledger = {}
  /\ pc = [m \in Migrator |-> "idle"]
  /\ known = [m \in Migrator |-> 1]
  /\ todo = [m \in Migrator |-> {}]
  /\ failures = 0

-----------------------------------------------------------------------------
Running(m) == pc[m] \in {"connect", "loop", "executed", "recorded"}

(* Mutant of IsNext: the files are not sorted.                             *)
IsAny(m, f) == f \in todo[m]

(* sorted(MIGRATIONS_DIR.glob("*.sql")), the recorded ones skipped. *)
IsNext(m, f) == f \in todo[m] /\ \A g \in todo[m] : f <= g

Executing(m, f) == pc[m] \in {"executed", "recorded"} /\ IsNext(m, f)

(* An open transaction's objects and row of _migrations are locked. *)
CreatedElsewhere(m, f) ==
  f \notin schema /\ \E n \in Migrator \ {m} : Executing(n, f)

RecordedElsewhere(m, f) ==
  \E n \in Migrator \ {m} : pc[n] = "recorded" /\ IsNext(n, f)

(* A deployment ships an image with more files; it does not migrate. *)
Deploy ==
  /\ release < NFiles
  /\ release' = release + 1
  /\ UNCHANGED <<schema, ledger, pc, known, todo, failures>>

Start(m) ==
  /\ ~Running(m)
  /\ pc' = [pc EXCEPT ![m] = "connect"]
  /\ known' = [known EXCEPT ![m] = release]
  /\ UNCHANGED <<release, schema, ledger, todo, failures>>

(* Mutant of ReadLedger: files are numbered from 0.                        *)
ReadLedgerFromZero(m) ==
  /\ pc[m] = "connect"
  /\ pc' = [pc EXCEPT ![m] = "loop"]
  /\ todo' = [todo EXCEPT ![m] = (0..known[m]) \ ledger]
  /\ UNCHANGED <<release, schema, ledger, known, failures>>

(* BOOTSTRAP_SQL and the one SELECT of the recorded versions. *)
ReadLedger(m) ==
  /\ pc[m] = "connect"
  /\ pc' = [pc EXCEPT ![m] = "loop"]
  /\ todo' = [todo EXCEPT ![m] = (1..known[m]) \ ledger]
  /\ UNCHANGED <<release, schema, ledger, known, failures>>

(* Mutant of Execute: an autocommit connection.                            *)
ExecuteAutocommit(m, f) ==
  /\ pc[m] = "loop"
  /\ IsNext(m, f)
  /\ ~CreatedElsewhere(m, f)
  /\ f \in schema => f \in Repeatable
  /\ pc' = [pc EXCEPT ![m] = "executed"]
  /\ schema' = schema \cup {f}
  /\ UNCHANGED <<release, ledger, known, todo, failures>>

Execute(m, f) ==
  /\ pc[m] = "loop"
  /\ IsNext(m, f)
  /\ ~CreatedElsewhere(m, f)
  /\ f \in schema => f \in Repeatable
  /\ pc' = [pc EXCEPT ![m] = "executed"]
  /\ UNCHANGED <<release, schema, ledger, known, todo, failures>>

(* Mutant of Record: _migrations.version is not unique.                    *)
RecordAgain(m, f) ==
  /\ pc[m] = "executed"
  /\ IsNext(m, f)
  /\ pc' = [pc EXCEPT ![m] = "recorded"]
  /\ UNCHANGED <<release, schema, ledger, known, todo, failures>>

Record(m, f) ==
  /\ pc[m] = "executed"
  /\ IsNext(m, f)
  /\ ~RecordedElsewhere(m, f)
  /\ f \notin ledger
  /\ pc' = [pc EXCEPT ![m] = "recorded"]
  /\ UNCHANGED <<release, schema, ledger, known, todo, failures>>

Commit(m, f) ==
  /\ pc[m] = "recorded"
  /\ IsNext(m, f)
  /\ schema' = schema \cup {f}
  /\ ledger' = ledger \cup {f}
  /\ todo' = [todo EXCEPT ![m] = @ \ {f}]
  /\ pc' = [pc EXCEPT ![m] = "loop"]
  /\ UNCHANGED <<release, known, failures>>

Finish(m) ==
  /\ pc[m] = "loop"
  /\ todo[m] = {}
  /\ pc' = [pc EXCEPT ![m] = "done"]
  /\ UNCHANGED <<release, schema, ledger, known, todo, failures>>

(* Mutant of Fail: the exception is logged and main() returns 0.           *)
FailQuietly(m) ==
  /\ pc' = [pc EXCEPT ![m] = "done"]
  /\ todo' = [todo EXCEPT ![m] = {}]

(* rollback and raise; main() returns 1. *)
Fail(m) ==
  /\ pc' = [pc EXCEPT ![m] = "failed"]
  /\ todo' = [todo EXCEPT ![m] = {}]

(* The file's objects exist already ... *)
AlreadyExists(m, f) ==
  /\ pc[m] = "loop"
  /\ IsNext(m, f)
  /\ f \in schema \ Repeatable
  /\ Fail(m)
  /\ UNCHANGED <<release, schema, ledger, known, failures>>

(* ... or its version: what the run read of the ledger was stale. *)
DuplicateVersion(m, f) ==
  /\ pc[m] = "executed"
  /\ IsNext(m, f)
  /\ ~RecordedElsewhere(m, f)
  /\ f \in ledger
  /\ Fail(m)
  /\ UNCHANGED <<release, schema, ledger, known, failures>>

(* A crash, a refused statement or a lost connection; the open transaction *)
(* is rolled back.                                                         *)
Break(m) ==
  /\ Running(m)
  /\ failures < MaxFailures
  /\ failures' = failures + 1
  /\ Fail(m)
  /\ UNCHANGED <<release, schema, ledger, known>>

(* The transaction commits but its acknowledgement never arrives. *)
LoseAck(m, f) ==
  /\ pc[m] = "recorded"
  /\ IsNext(m, f)
  /\ failures < MaxFailures
  /\ failures' = failures + 1
  /\ schema' = schema \cup {f}
  /\ ledger' = ledger \cup {f}
  /\ Fail(m)
  /\ UNCHANGED <<release, known>>

-----------------------------------------------------------------------------
FileStep(m, f) ==
  \/ Execute(m, f) \/ Record(m, f) \/ Commit(m, f)
  \/ AlreadyExists(m, f) \/ DuplicateVersion(m, f)

Step(m) == ReadLedger(m) \/ Finish(m) \/ \E f \in File : FileStep(m, f)

Next ==
  \/ Deploy
  \/ \E m \in Migrator :
       \/ Start(m) \/ Step(m) \/ Break(m)
       \/ \E f \in File : LoseAck(m, f)

Spec == Init /\ [][Next]_vars

(* A started run goes on, and the operator runs the migrator again: it is  *)
(* the manual step after every deployment.  Failures are finitely many.    *)
FairSpec == Spec /\ \A m \in Migrator : WF_vars(Start(m)) /\ WF_vars(Step(m))

-----------------------------------------------------------------------------
(* Properties.                                                             *)

(* "Each file runs inside a single transaction": the ledger says exactly   *)
(* which files have taken effect, after any crash and any overlap.         *)
LedgerIsTruthful == schema = ledger

(* At most one run is about to commit a file, and only if it is not yet    *)
(* applied, although every overlapping run believes it still has to.       *)
EachFileOnce ==
  \A m, n \in Migrator, f \in File :
    /\ pc[m] = "recorded" /\ IsNext(m, f)
    => f \notin ledger /\ (pc[n] = "recorded" /\ IsNext(n, f) => n = m)

(* Files take effect in numeric order, so no file ever runs on a schema    *)
(* that lacks an earlier one.                                              *)
AppliedInOrder == \A f \in ledger : 1..f \subseteq ledger

(* Exit code 0 means that every file of the run's image is applied.        *)
DoneMeansApplied == \A m \in Migrator : pc[m] = "done" => 1..known[m] \subseteq ledger

(* "Re-running the migrator is safe": repeated runs apply every deployed   *)
(* file, and no crash or overlap leaves a state in which every run fails.  *)
Converges == \A f \in File : f <= release ~> f \in ledger

(* All the runs together, with their stale lists, crashes and lost         *)
(* acknowledgements, look like one database that is upgraded in one step   *)
(* per file ("Each file runs inside a single transaction").                *)
Database == INSTANCE AtomicUpgrade
              WITH shipped <- release, effects <- schema, records <- ledger

UpgradesAtomically == Database!Spec
=============================================================================
