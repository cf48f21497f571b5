--------------------------- MODULE MigrateProofs ---------------------------
(***************************************************************************)
(* Proofs about Migrate for every number of migrators, files and failures. *)
(***************************************************************************)
EXTENDS Migrate, WellFoundedInduction, TLAPS

(* What a run still has to do covers what is missing of its image: it may  *)
(* believe too much to be open, never too little.                          *)
TodoCoversMissing ==
  \A m \in Migrator :
    pc[m] \in {"loop", "executed", "recorded"} =>
      /\ (1..known[m]) \ ledger \subseteq todo[m]
      /\ todo[m] \subseteq 1..known[m]

Inv ==
  /\ TypeOK
  /\ LedgerIsTruthful
  /\ AppliedInOrder
  /\ TodoCoversMissing
  /\ DoneMeansApplied
  /\ EachFileOnce

LEMMA InitInv == Init => Inv
BY MigrateAssumption
   DEF Init, Inv, TypeOK, LedgerIsTruthful, AppliedInOrder, TodoCoversMissing,
       DoneMeansApplied, EachFileOnce, File

LEMMA NextType == TypeOK /\ [Next]_vars => TypeOK'
<1>. SUFFICES ASSUME TypeOK, [Next]_vars PROVE TypeOK'
  OBVIOUS
<1>. USE MigrateAssumption DEF TypeOK
<1>1. CASE Deploy
  BY <1>1 DEF Deploy, File
<1>2. ASSUME NEW m \in Migrator, Start(m) PROVE TypeOK'
  BY <1>2 DEF Start
<1>3. ASSUME NEW m \in Migrator, ReadLedger(m) PROVE TypeOK'
  BY <1>3 DEF ReadLedger, File
<1>4. ASSUME NEW m \in Migrator, Finish(m) PROVE TypeOK'
  BY <1>4 DEF Finish
<1>5. ASSUME NEW m \in Migrator, Break(m) PROVE TypeOK'
  BY <1>5 DEF Break, Fail
<1>6. ASSUME NEW m \in Migrator, NEW f \in File, LoseAck(m, f) PROVE TypeOK'
  BY <1>6 DEF LoseAck, Fail
<1>7. ASSUME NEW m \in Migrator, NEW f \in File, FileStep(m, f) PROVE TypeOK'
  BY <1>7 DEF FileStep, Execute, Record, Commit, AlreadyExists, DuplicateVersion, Fail
<1>8. CASE UNCHANGED vars
  BY <1>8 DEF vars
<1>. QED
  BY <1>1, <1>2, <1>3, <1>4, <1>5, <1>6, <1>7, <1>8 DEF Next, Step

LEMMA OneIsNext ==
  ASSUME TypeOK, NEW m \in Migrator, NEW f \in File, NEW g \in File, IsNext(m, f), IsNext(m, g)
  PROVE  f = g
BY DEF IsNext, File

(* The earlier files of the image of a run that is at f are applied. *)
LEMMA EarlierApplied ==
  ASSUME Inv, NEW m \in Migrator, NEW f \in File, IsNext(m, f),
         pc[m] \in {"loop", "executed", "recorded"}
  PROVE  1..f \subseteq ledger \cup {f}
<1>. SUFFICES ASSUME NEW g \in 1..f, g # f, g \notin ledger
              PROVE  FALSE
  OBVIOUS
<1>1. f \in Nat /\ g \in Nat /\ 1 <= g /\ g < f
  BY DEF File
<1>2. todo[m] \subseteq 1..known[m] /\ (1..known[m]) \ ledger \subseteq todo[m] /\ known[m] \in Nat
  BY DEF Inv, TypeOK, TodoCoversMissing, File
<1>3. f \in 1..known[m]
  BY <1>2 DEF IsNext
<1>4. g \in todo[m]
  BY <1>1, <1>2, <1>3
<1>. QED
  BY <1>1, <1>4 DEF IsNext

(* A step that records f: by Commit or with a lost acknowledgement.        *)
LEMMA CommitKeeps ==
  ASSUME Inv, NEW m \in Migrator, NEW f \in File, pc[m] = "recorded", IsNext(m, f),
         schema' = schema \cup {f}, ledger' = ledger \cup {f}, UNCHANGED known,
         TypeOK',
         \/ todo' = [todo EXCEPT ![m] = @ \ {f}] /\ pc' = [pc EXCEPT ![m] = "loop"]
         \/ Fail(m)
  PROVE  Inv'
<1>. USE DEF Inv
<1>1. LedgerIsTruthful'
  BY DEF LedgerIsTruthful
<1>2. AppliedInOrder'
  <2>1. 1..f \subseteq ledger'
    BY EarlierApplied
  <2>. QED
    BY <2>1 DEF AppliedInOrder
<1>3. TodoCoversMissing'
  BY DEF TodoCoversMissing, TypeOK, Fail
<1>4. DoneMeansApplied'
  BY DEF DoneMeansApplied, TypeOK, Fail
<1>5. EachFileOnce'
  <2>1. \A n \in Migrator \ {m} : pc'[n] = pc[n] /\ todo'[n] = todo[n]
    BY DEF TypeOK, Fail
  <2>2. pc'[m] # "recorded"
    BY DEF TypeOK, Fail
  <2>3. \A n \in Migrator \ {m}, g \in File : IsNext(n, g)' <=> IsNext(n, g)
    BY <2>1 DEF IsNext
  <2>. QED
    BY <2>1, <2>2, <2>3 DEF EachFileOnce
<1>. QED
  BY <1>1, <1>2, <1>3, <1>4, <1>5

(* A step that leaves the database alone keeps the invariant if the run    *)
(* that moves is not about to commit, knows what is missing and does not   *)
(* report too early.                                                       *)
LEMMA QuietKeeps ==
  ASSUME Inv, NEW m \in Migrator, UNCHANGED <<schema, ledger>>, TypeOK',
         \A n \in Migrator \ {m} : pc'[n] = pc[n] /\ todo'[n] = todo[n] /\ known'[n] = known[n],
         pc'[m] # "recorded",
         pc'[m] \in {"loop", "executed"} =>
           (1..known'[m]) \ ledger \subseteq todo'[m] /\ todo'[m] \subseteq 1..known'[m],
         pc'[m] = "done" => 1..known'[m] \subseteq ledger
  PROVE  Inv'
<1>. USE DEF Inv
<1>1. LedgerIsTruthful' /\ AppliedInOrder'
  BY DEF LedgerIsTruthful, AppliedInOrder
<1>2. TodoCoversMissing'
  BY DEF TodoCoversMissing
<1>3. DoneMeansApplied'
  BY DEF DoneMeansApplied
<1>4. EachFileOnce'
  <2>1. \A n \in Migrator \ {m}, g \in File : IsNext(n, g)' <=> IsNext(n, g)
    BY DEF IsNext
  <2>. QED
    BY <2>1 DEF EachFileOnce
<1>. QED
  BY <1>1, <1>2, <1>3, <1>4

LEMMA NextInv == Inv /\ [Next]_vars => Inv'
<1>. SUFFICES ASSUME Inv, [Next]_vars PROVE Inv'
  OBVIOUS
<1>0. TypeOK /\ TypeOK'
  BY NextType DEF Inv
<1>1. CASE Deploy
  BY <1>0, <1>1 DEF Deploy, Inv, LedgerIsTruthful, AppliedInOrder, TodoCoversMissing,
                    DoneMeansApplied, EachFileOnce, IsNext
<1>2. ASSUME NEW m \in Migrator, Start(m) PROVE Inv'
  BY <1>0, <1>2, QuietKeeps DEF Start, TypeOK
<1>3. ASSUME NEW m \in Migrator, ReadLedger(m) PROVE Inv'
  BY <1>0, <1>3, QuietKeeps DEF ReadLedger, TypeOK
<1>4. ASSUME NEW m \in Migrator, Finish(m) PROVE Inv'
  <2>1. 1..known[m] \subseteq ledger
    BY <1>4 DEF Finish, Inv, TodoCoversMissing
  <2>. QED
    BY <1>0, <1>4, <2>1, QuietKeeps DEF Finish, TypeOK
<1>5. ASSUME NEW m \in Migrator, Fail(m), UNCHANGED <<schema, ledger, known>> PROVE Inv'
  BY <1>0, <1>5, QuietKeeps DEF Fail, TypeOK
<1>6. ASSUME NEW m \in Migrator, NEW f \in File, LoseAck(m, f) PROVE Inv'
  BY <1>0, <1>6, CommitKeeps DEF LoseAck
<1>7. ASSUME NEW m \in Migrator, NEW f \in File, Commit(m, f) PROVE Inv'
  BY <1>0, <1>7, CommitKeeps DEF Commit
<1>8. ASSUME NEW m \in Migrator, NEW f \in File, Execute(m, f) PROVE Inv'
  <2>1. (1..known[m]) \ ledger \subseteq todo[m] /\ todo[m] \subseteq 1..known[m]
    BY <1>8 DEF Execute, Inv, TodoCoversMissing
  <2>. QED
    BY <1>0, <1>8, <2>1, QuietKeeps DEF Execute, TypeOK
<1>9. ASSUME NEW m \in Migrator, NEW f \in File, Record(m, f) PROVE Inv'
  <2>1. \A n \in Migrator, g \in File : IsNext(n, g)' <=> IsNext(n, g)
    BY <1>9 DEF Record, IsNext
  <2>2. \A n \in Migrator \ {m} : pc'[n] = pc[n]
    BY <1>0, <1>9 DEF Record, TypeOK
  <2>3. pc[m] = "executed" /\ pc'[m] = "recorded"
    BY <1>0, <1>9 DEF Record, TypeOK
  <2>4. LedgerIsTruthful' /\ AppliedInOrder'
    BY <1>9 DEF Record, Inv, LedgerIsTruthful, AppliedInOrder
  <2>5. TodoCoversMissing'
    BY <1>9, <2>2, <2>3 DEF Record, Inv, TodoCoversMissing
  <2>6. DoneMeansApplied'
    BY <1>9, <2>2, <2>3 DEF Record, Inv, DoneMeansApplied
  <2>7. \A g \in File : IsNext(m, g) => g = f
    BY <1>0, <1>9, OneIsNext DEF Record
  <2>8. f \notin ledger /\ \A n \in Migrator \ {m} : ~(pc[n] = "recorded" /\ IsNext(n, f))
    BY <1>9 DEF Record, RecordedElsewhere
  <2>9. EachFileOnce'
    <3>. SUFFICES ASSUME NEW n \in Migrator, NEW o \in Migrator, NEW g \in File,
                         pc'[n] = "recorded", IsNext(n, g)
                  PROVE  g \notin ledger /\ (pc'[o] = "recorded" /\ IsNext(o, g) => o = n)
      BY <1>9, <2>1 DEF Record, EachFileOnce
    <3>. QED
      BY <2>2, <2>7, <2>8 DEF Inv, EachFileOnce
  <2>. QED
    BY <1>0, <2>4, <2>5, <2>6, <2>9 DEF Inv
<1>10. CASE UNCHANGED vars
  BY <1>10 DEF vars, Inv, TypeOK, LedgerIsTruthful, AppliedInOrder, TodoCoversMissing,
               DoneMeansApplied, EachFileOnce, IsNext
<1>. QED
  BY <1>1, <1>2, <1>3, <1>4, <1>5, <1>6, <1>7, <1>8, <1>9, <1>10
  DEF Next, Step, FileStep, AlreadyExists, DuplicateVersion, Break

(* Every variable of the migrator keeps its type (apply_migrations).       *)
THEOREM TypeCorrect == Spec => []TypeOK
<1>1. Inv => TypeOK
  BY DEF Inv
<1>. QED
  BY <1>1, InitInv, NextInv, PTL DEF Spec

(* Whatever migrators overlap or crash, public._migrations records exactly *)
(* the files that have taken effect.                                       *)
THEOREM LedgerCorrect == Spec => []LedgerIsTruthful
<1>1. Inv => LedgerIsTruthful
  BY DEF Inv
<1>. QED
  BY <1>1, InitInv, NextInv, PTL DEF Spec

(* No run of apply_migrations, stale or not, ever executes a file on a     *)
(* schema that lacks an earlier one.                                       *)
THEOREM NoFileSkipped == Spec => []AppliedInOrder
<1>1. Inv => AppliedInOrder
  BY DEF Inv
<1>. QED
  BY <1>1, InitInv, NextInv, PTL DEF Spec

(* No file is committed by two runs of apply_migrations.                   *)
THEOREM OnlyOnce == Spec => []EachFileOnce
<1>1. Inv => EachFileOnce
  BY DEF Inv
<1>. QED
  BY <1>1, InitInv, NextInv, PTL DEF Spec

(* A run of main() that returns 0 leaves its whole image applied.          *)
THEOREM DoneIsApplied == Spec => []DoneMeansApplied
<1>1. Inv => DoneMeansApplied
  BY DEF Inv
<1>. QED
  BY <1>1, InitInv, NextInv, PTL DEF Spec

-----------------------------------------------------------------------------
(* One database, upgraded step by step.                                    *)

ShippedFirst == \A m \in Migrator : known[m] <= release

HasVersion == \E version \in 0..NFiles : ledger = 1..version

UpgradeInv == Inv /\ ShippedFirst /\ HasVersion

LEMMA InitUpgrade == Init => UpgradeInv
<1>. SUFFICES ASSUME Init PROVE UpgradeInv
  OBVIOUS
<1>1. 0 \in 0..NFiles /\ ledger = 1..0
  BY MigrateAssumption DEF Init
<1>2. ShippedFirst
  <2>. SUFFICES ASSUME NEW m \in Migrator PROVE known[m] <= release
    BY DEF ShippedFirst
  <2>1. known[m] = 1 /\ release = 1
    BY DEF Init
  <2>. QED
    BY <2>1
<1>. QED
  BY <1>1, <1>2, InitInv DEF UpgradeInv, HasVersion

(* The file a run commits, if nobody has, is the next version.             *)
LEMMA CommitIsNextVersion ==
  ASSUME UpgradeInv, NEW m \in Migrator, NEW f \in File, pc[m] = "recorded", IsNext(m, f)
  PROVE  /\ f - 1 \in Nat /\ f - 1 < release
         /\ ledger = 1..(f - 1) /\ schema = 1..(f - 1)
         /\ ledger \cup {f} = 1..f
<1>1. PICK version \in 0..NFiles : ledger = 1..version
  BY DEF UpgradeInv, HasVersion
<1>2. f \notin ledger
  BY DEF UpgradeInv, Inv, EachFileOnce
<1>3. 1..f \subseteq ledger \cup {f}
  BY EarlierApplied DEF UpgradeInv
<1>4. f \in Nat /\ f >= 1 /\ version \in Nat
  BY MigrateAssumption DEF File
<1>5. version < f
  BY <1>1, <1>2, <1>4
<1>6. f <= version + 1
  <2>. SUFFICES ASSUME version + 1 < f PROVE FALSE
    BY <1>4
  <2>1. version + 1 \in 1..f /\ version + 1 # f /\ version + 1 \notin ledger
    BY <1>1, <1>4
  <2>. QED
    BY <1>3, <2>1
<1>7. version = f - 1 /\ ledger \cup {f} = 1..f
  BY <1>1, <1>4, <1>5, <1>6
<1>8. f <= known[m] /\ known[m] <= release /\ known[m] \in Nat /\ release \in Nat
  BY DEF UpgradeInv, ShippedFirst, Inv, TodoCoversMissing, IsNext, TypeOK, File
<1>9. schema = ledger
  BY DEF UpgradeInv, Inv, LedgerIsTruthful
<1>. QED
  BY <1>1, <1>4, <1>7, <1>8, <1>9

(* A step that records f, with or without the run learning of it.          *)
LEMMA CommitUpgrades ==
  ASSUME UpgradeInv, NEW m \in Migrator, NEW f \in File, pc[m] = "recorded", IsNext(m, f),
         schema' = schema \cup {f}, ledger' = ledger \cup {f}, UNCHANGED <<release, known>>
  PROVE  Database!Next /\ ShippedFirst' /\ HasVersion'
<1>1. /\ f - 1 \in Nat /\ f - 1 < release
      /\ ledger = 1..(f - 1) /\ schema = 1..(f - 1) /\ ledger' = 1..f /\ schema' = 1..f
  BY CommitIsNextVersion
<1>2. release \in Nat /\ f \in 0..NFiles /\ (f - 1) + 1 = f
  BY MigrateAssumption DEF UpgradeInv, Inv, TypeOK, File
<1>3. f - 1 \in 0..release
  BY <1>1, <1>2
<1>4. Database!Upgrade(f - 1)
  BY <1>1, <1>2 DEF Database!Upgrade
<1>. QED
  BY <1>1, <1>2, <1>3, <1>4 DEF Database!Next, UpgradeInv, ShippedFirst, HasVersion

LEMMA NextUpgrade ==
  ASSUME UpgradeInv, [Next]_vars
  PROVE  UpgradeInv' /\ [Database!Next]_<<release, schema, ledger>>
<1>0. Inv' /\ TypeOK /\ ShippedFirst /\ HasVersion
  BY NextInv DEF UpgradeInv, Inv
<1>1. CASE Deploy
  <2>1. ShippedFirst'
    BY <1>0, <1>1 DEF Deploy, ShippedFirst, TypeOK, File
  <2>. QED
    BY <1>0, <1>1, <2>1 DEF Deploy, UpgradeInv, HasVersion, Database!Next, Database!Ship
<1>2. ASSUME NEW m \in Migrator, Start(m) PROVE UpgradeInv' /\ UNCHANGED <<release, schema, ledger>>
  BY <1>0, <1>2 DEF Start, UpgradeInv, ShippedFirst, HasVersion, TypeOK, File
<1>3. ASSUME NEW m \in Migrator, NEW f \in File, Commit(m, f) \/ LoseAck(m, f)
      PROVE  UpgradeInv' /\ Database!Next
  BY <1>0, <1>3, CommitUpgrades DEF Commit, LoseAck, UpgradeInv
<1>4. CASE UNCHANGED <<release, schema, ledger, known>>
  BY <1>0, <1>4 DEF UpgradeInv, ShippedFirst, HasVersion
<1>5. \/ Deploy
      \/ \E m \in Migrator : Start(m)
      \/ \E m \in Migrator, f \in File : Commit(m, f) \/ LoseAck(m, f)
      \/ UNCHANGED <<release, schema, ledger, known>>
  BY DEF Next, Step, FileStep, ReadLedger, Finish, Execute, Record, AlreadyExists,
         DuplicateVersion, Break, vars
<1>. QED
  BY <1>1, <1>2, <1>3, <1>4, <1>5

(* Any number of overlapping, stale, crashing runs of apply_migrations are *)
(* one database that goes from version to version, a file's effects and    *)
(* its row of _migrations at a time.                                       *)
THEOREM ImplementsAtomicUpgrade == Spec => UpgradesAtomically
<1>1. Init => Database!Init
  BY DEF Init, Database!Init
<1>. QED
  BY <1>1, InitUpgrade, NextUpgrade, PTL DEF Spec, UpgradesAtomically, Database!Spec

-----------------------------------------------------------------------------
(* The locks of open transactions.  A run waits for one at its own file,   *)
(* which is a step ahead of it, so there is no cycle.                      *)

CanGoOn(m) ==
  \/ pc[m] = "connect"
  \/ pc[m] = "loop" /\ todo[m] = {}
  \/ \E f \in File :
       /\ IsNext(m, f)
       /\ \/ pc[m] = "loop" /\ ~CreatedElsewhere(m, f)
          \/ pc[m] = "executed" /\ ~RecordedElsewhere(m, f)
          \/ pc[m] = "recorded"

AtSameFile(m, n) == \E f \in File : IsNext(m, f) /\ IsNext(n, f)

NoMigratorHangs ==
  \A m \in Migrator : Running(m) =>
    CanGoOn(m) \/ \E n \in Migrator : Running(n) /\ CanGoOn(n) /\ AtSameFile(m, n)

(* A run with an open transaction is at a file. *)
HasFile == \A m \in Migrator : pc[m] \in {"executed", "recorded"} => todo[m] # {}

FileInv == TypeOK /\ HasFile

LEMMA FirstFile ==
  ASSUME NEW S \in SUBSET File, S # {}
  PROVE  \E f \in S : \A g \in S : f <= g
<1>1. S \subseteq Nat
  BY MigrateAssumption DEF File
<1>2. PICK f \in S : \A g \in S : ~(<<g, f>> \in OpToRel(<, Nat))
  BY <1>1, NatLessThanWellFounded, WFMin
<1>3. \A g \in S : ~(g < f)
  BY <1>1, <1>2 DEF OpToRel
<1>. QED
  BY <1>1, <1>3

LEMMA FileInvariant == Spec => []FileInv
<1>1. Init => FileInv
  BY InitInv DEF Inv, Init, FileInv, HasFile
<1>2. FileInv /\ [Next]_vars => FileInv'
  <2>. SUFFICES ASSUME FileInv, [Next]_vars PROVE HasFile'
    BY NextType DEF FileInv
  <2>. USE DEF FileInv, TypeOK, HasFile
  <2>1. ASSUME NEW m \in Migrator, NEW f \in File, FileStep(m, f) \/ LoseAck(m, f) PROVE HasFile'
    BY <2>1
    DEF FileStep, Execute, Record, Commit, AlreadyExists, DuplicateVersion, LoseAck, Fail, IsNext
  <2>2. ASSUME NEW m \in Migrator, Start(m) \/ ReadLedger(m) \/ Finish(m) \/ Break(m) PROVE HasFile'
    BY <2>2 DEF Start, ReadLedger, Finish, Break, Fail
  <2>3. CASE Deploy \/ UNCHANGED vars
    BY <2>3 DEF Deploy, vars
  <2>. QED
    BY <2>1, <2>2, <2>3 DEF Next, Step
<1>. QED
  BY <1>1, <1>2, PTL DEF Spec

(* A run that has to wait, for the objects or the row of _migrations of an *)
(* open transaction, waits for one that is at the same file and can go on: *)
(* overlapping migrators never hang (apply_migrations executes and records *)
(* a file in one transaction).                                             *)
THEOREM NobodyHangs == Spec => []NoMigratorHangs
<1>1. FileInv => NoMigratorHangs
  <2>. SUFFICES ASSUME FileInv, NEW m \in Migrator, Running(m), ~CanGoOn(m)
                PROVE  \E n \in Migrator : Running(n) /\ CanGoOn(n) /\ AtSameFile(m, n)
    BY DEF NoMigratorHangs
  <2>1. PICK f \in File : IsNext(m, f)
    <3>1. todo[m] # {} /\ todo[m] \in SUBSET File
      BY DEF Running, CanGoOn, FileInv, TypeOK, HasFile
    <3>. QED
      BY <3>1, FirstFile DEF IsNext
  <2>2. ASSUME NEW n \in Migrator, pc[n] = "recorded", IsNext(n, f)
        PROVE  Running(n) /\ CanGoOn(n) /\ AtSameFile(m, n)
    BY <2>1, <2>2 DEF Running, CanGoOn, AtSameFile
  <2>3. CASE \E n \in Migrator : pc[n] = "recorded" /\ IsNext(n, f)
    BY <2>2, <2>3
  <2>4. CASE ~\E n \in Migrator : pc[n] = "recorded" /\ IsNext(n, f)
    <3>1. pc[m] = "loop" /\ CreatedElsewhere(m, f)
      BY <2>1, <2>4 DEF Running, CanGoOn, RecordedElsewhere
    <3>2. PICK n \in Migrator : pc[n] = "executed" /\ IsNext(n, f)
      BY <2>4, <3>1 DEF CreatedElsewhere, Executing
    <3>3. Running(n) /\ CanGoOn(n) /\ AtSameFile(m, n)
      BY <2>1, <2>4, <3>2 DEF Running, CanGoOn, RecordedElsewhere, AtSameFile
    <3>. QED
      BY <3>3
  <2>. QED
    BY <2>3, <2>4
<1>. QED
  BY <1>1, FileInvariant, PTL
=============================================================================
