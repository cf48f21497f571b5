---------------------------- MODULE BackupProofs ----------------------------
(***************************************************************************)
(* Proofs about Backup for every number of runs, chunks and days, provided *)
(* that no two runs of a day are active at the same time.                  *)
(***************************************************************************)
EXTENDS Backup, TLAPS

(* The file of a run that has written n chunks.                            *)
Upto(r, n) == [i \in Chunk |-> IF i <= n THEN r ELSE None]

Blank == [i \in Chunk |-> None]

(* An open file that was not unlinked is at its path.                      *)
OpenFileExists ==
  \A r \in Slot : fd[r] = "path" => pc[r] = "dump" /\ file[date[r]] \in Content

(* Runs that are active at the same time have different files.             *)
OneRunPerFile ==
  \A r, s \in Slot : pc[r] # "idle" /\ pc[s] # "idle" /\ date[r] = date[s] => r = s

(* What a run has written is at its path, and nothing else is.             *)
OwnFile(r) ==
  /\ pc[r] \in {"idle", "open"} => sent[r] = 0
  /\ pc[r] = "dump" =>
       /\ fd[r] = "path"
       /\ file[date[r]] = Upto(r, sent[r])
       /\ snap[r] = "data" \/ sent[r] = 0
  /\ pc[r] = "check" => file[date[r]] \in {Upto(r, 0), Upto(r, NChunks)}
  /\ pc[r] = "upload" => file[date[r]] = Upto(r, NChunks)
  /\ pc[r] \in {"unlink", "stored"} => r2[date[r]] = "whole"

Inv ==
  /\ TypeOK
  /\ OpenFileExists
  /\ OneRunPerFile
  /\ \A r \in Slot : OwnFile(r)
  /\ OnlyWholeDumps

LEMMA BlankType == Blank \in Content /\ Blank # None
BY BackupAssumption DEF Blank, Content, Chunk

LEMMA UptoNone ==
  ASSUME NEW r
  PROVE  Upto(r, 0) = Blank
BY DEF Upto, Blank, Chunk

LEMMA UptoMore ==
  ASSUME NEW r, NEW n \in Nat
  PROVE  [Upto(r, n) EXCEPT ![n + 1] = r] = Upto(r, n + 1)
<1>1. \A i \in Chunk : i \in Nat /\ (i <= n + 1 <=> i <= n \/ i = n + 1)
  BY DEF Chunk
<1>. QED
  BY <1>1 DEF Upto

LEMMA UptoAll ==
  ASSUME NEW r \in Slot
  PROVE  IsWhole(Upto(r, NChunks))
BY DEF Upto, IsWhole, Chunk

LEMMA InitInv == Init => Inv
BY BackupAssumption
   DEF Init, Inv, TypeOK, OpenFileExists, OneRunPerFile, OwnFile, OnlyWholeDumps, PC, Day

LEMMA LeaveType ==
  ASSUME TypeOK, NEW S \in SUBSET Slot, NEW outcome \in PC, Leave(S, outcome)
  PROVE  /\ pc' \in [Slot -> PC]
         /\ fd' \in [Slot -> {"none", "path", "orphan"}]
         /\ snap' \in [Slot -> {"data", "empty"}]
         /\ sent' \in [Slot -> 0..NChunks]
<1>1. pc' \in [Slot -> PC]
  BY DEF TypeOK, Leave
<1>2. fd' \in [Slot -> {"none", "path", "orphan"}]
  BY DEF TypeOK, Leave
<1>3. snap' \in [Slot -> {"data", "empty"}]
  BY DEF TypeOK, Leave
<1>4. sent' \in [Slot -> 0..NChunks]
  BY BackupAssumption DEF TypeOK, Leave
<1>. QED
  BY <1>1, <1>2, <1>3, <1>4

LEMMA NextType == TypeOK /\ OpenFileExists /\ [Next]_vars => TypeOK' /\ OpenFileExists'
<1>. SUFFICES ASSUME TypeOK, OpenFileExists, [Next]_vars
              PROVE  TypeOK' /\ OpenFileExists'
  OBVIOUS
<1>1. CASE Midnight
  BY <1>1, BackupAssumption DEF Midnight, TypeOK, OpenFileExists, runVars, Day
<1>2. CASE LoseOrRestore
  BY <1>2 DEF LoseOrRestore, TypeOK, OpenFileExists, runVars
<1>3. CASE Recreate
  <2>1. Slot \in SUBSET Slot /\ "idle" \in PC /\ 1 \in Day
    BY BackupAssumption DEF PC, Day
  <2>2. OpenFileExists'
    BY <1>3 DEF Recreate, Leave, OpenFileExists
  <2>. QED
    BY <1>3, <2>1, <2>2, LeaveType DEF Recreate, TypeOK
<1>4. ASSUME NEW r \in Slot, Begin(r) PROVE TypeOK' /\ OpenFileExists'
  BY <1>4 DEF Begin, TypeOK, OpenFileExists, PC
<1>5. ASSUME NEW r \in Slot, Open(r) PROVE TypeOK' /\ OpenFileExists'
  <2>1. file' \in [Day -> Content \cup {None}] /\ file'[date[r]] \in Content
    BY <1>5, BlankType DEF Open, TypeOK, Blank
  <2>2. OpenFileExists'
    BY <1>5, <2>1 DEF Open, TypeOK, OpenFileExists
  <2>. QED
    BY <1>5, <2>1, <2>2 DEF Open, TypeOK, PC
<1>6. ASSUME NEW r \in Slot, WriteChunk(r) PROVE TypeOK' /\ OpenFileExists'
  <2>1. sent[r] + 1 \in 0..NChunks /\ date[r] \in Day
    BY <1>6, BackupAssumption DEF WriteChunk, TypeOK
  <2>2. sent' \in [Slot -> 0..NChunks]
    BY <1>6, <2>1 DEF WriteChunk, TypeOK
  <2>3. CASE fd[r] = "path"
    <3>. DEFINE content == [file[date[r]] EXCEPT ![sent[r] + 1] = r]
    <3>1. content \in Content
      BY <2>3 DEF OpenFileExists, Content
    <3>2. file' = [file EXCEPT ![date[r]] = content]
      BY <1>6, <2>3 DEF WriteChunk
    <3>. HIDE DEF content
    <3>3. file' \in [Day -> Content \cup {None}]
      BY <3>1, <3>2 DEF TypeOK
    <3>4. OpenFileExists'
      BY <1>6, <3>1, <3>2 DEF WriteChunk, TypeOK, OpenFileExists
    <3>. QED
      BY <1>6, <2>2, <3>3, <3>4 DEF WriteChunk, TypeOK
  <2>4. CASE fd[r] # "path"
    BY <1>6, <2>2, <2>4 DEF WriteChunk, TypeOK, OpenFileExists
  <2>. QED
    BY <2>3, <2>4
<1>7. ASSUME NEW r \in Slot, DumpDone(r) PROVE TypeOK' /\ OpenFileExists'
  BY <1>7 DEF DumpDone, TypeOK, OpenFileExists, PC
<1>8. ASSUME NEW r \in Slot, Raise(r) PROVE TypeOK' /\ OpenFileExists'
  <2>1. {r} \in SUBSET Slot /\ "raised" \in PC
    BY DEF PC
  <2>2. OpenFileExists'
    BY <1>8 DEF Raise, Leave, TypeOK, OpenFileExists
  <2>. QED
    BY <1>8, <2>1, <2>2, LeaveType DEF Raise, TypeOK
<1>9. ASSUME NEW r \in Slot, CheckSize(r) PROVE TypeOK' /\ OpenFileExists'
  BY <1>9 DEF CheckSize, TypeOK, OpenFileExists, PC
<1>10. ASSUME NEW r \in Slot, Upload(r) PROVE TypeOK' /\ OpenFileExists'
  BY <1>10 DEF Upload, TypeOK, OpenFileExists, PC
<1>11. ASSUME NEW r \in Slot, Unlink(r) PROVE TypeOK' /\ OpenFileExists'
  <2>1. OpenFileExists'
    BY <1>11 DEF Unlink, TypeOK, OpenFileExists
  <2>. QED
    BY <1>11, <2>1 DEF Unlink, TypeOK, PC
<1>12. ASSUME NEW r \in Slot, End(r) \/ Kill(r) PROVE TypeOK' /\ OpenFileExists'
  <2>1. {r} \in SUBSET Slot /\ "idle" \in PC /\ 1 \in Day
    BY BackupAssumption DEF PC, Day
  <2>2. OpenFileExists'
    <3>1. /\ fd' = [s \in Slot |-> IF s \in {r} THEN "none" ELSE fd[s]]
          /\ pc' = [s \in Slot |-> IF s \in {r} THEN "idle" ELSE pc[s]]
          /\ date' = [date EXCEPT ![r] = 1] /\ UNCHANGED file
      BY <1>12 DEF End, Kill, Leave
    <3>. QED
      BY <3>1 DEF TypeOK, OpenFileExists
  <2>. QED
    BY <1>12, <2>1, <2>2, LeaveType DEF End, Kill, TypeOK
<1>13. CASE UNCHANGED vars
  BY <1>13 DEF vars, runVars, TypeOK, OpenFileExists
<1>. QED
  BY <1>1, <1>2, <1>3, <1>4, <1>5, <1>6, <1>7, <1>8, <1>9, <1>10, <1>11, <1>12, <1>13
  DEF Next, Fails, TooSmall

(* Every variable of the backup keeps its type, also when runs of a day    *)
(* share a file (backup_postgres).                                         *)
THEOREM TypeCorrect == Spec => []TypeOK
<1>1. Init => TypeOK /\ OpenFileExists
  BY InitInv DEF Inv
<1>. QED
  BY <1>1, NextType, PTL DEF Spec

-----------------------------------------------------------------------------
(* The files and the state of every other active run are untouched by a    *)
(* step that stays at the moving run's own file and object.                *)
LEMMA OthersKeep ==
  ASSUME Inv, NEW r \in Slot, NEW s \in Slot \ {r},
         pc[r] # "idle" \/ UNCHANGED <<file, r2>>,
         \A d \in Day \ {date[r]} : file'[d] = file[d] /\ r2'[d] = r2[d],
         pc'[s] = pc[s], date'[s] = date[s], snap'[s] = snap[s], sent'[s] = sent[s],
         fd'[s] = fd[s] \/ (pc[r] # "idle" /\ date[s] = date[r])
  PROVE  OwnFile(s)'
<1>1. CASE pc[s] = "idle"
  BY <1>1 DEF Inv, OwnFile
<1>2. CASE pc[s] # "idle" /\ pc[r] # "idle"
  <2>1. date[s] # date[r] /\ date[s] \in Day /\ OwnFile(s)
    BY <1>2 DEF Inv, OneRunPerFile, TypeOK
  <2>2. file'[date'[s]] = file[date[s]] /\ r2'[date'[s]] = r2[date[s]] /\ fd'[s] = fd[s]
    BY <2>1
  <2>. QED
    BY <2>1, <2>2 DEF OwnFile
<1>3. CASE pc[s] # "idle" /\ pc[r] = "idle"
  <2>1. OwnFile(s) /\ UNCHANGED <<file, r2>> /\ fd'[s] = fd[s]
    BY <1>3 DEF Inv
  <2>. QED
    BY <2>1 DEF OwnFile
<1>. QED
  BY <1>1, <1>2, <1>3

LEMMA NextInv ==
  ASSUME OnePerDay
  PROVE  Inv /\ [Next]_vars => Inv'
<1>. SUFFICES ASSUME Inv, [Next]_vars PROVE Inv'
  OBVIOUS
<1>0. TypeOK /\ TypeOK' /\ OpenFileExists'
  BY NextType DEF Inv
<1>1. CASE Midnight \/ LoseOrRestore \/ UNCHANGED vars
  BY <1>0, <1>1 DEF Midnight, LoseOrRestore, vars, runVars, Inv, OneRunPerFile, OwnFile,
                    OnlyWholeDumps
<1>2. CASE Recreate
  BY <1>0, <1>2 DEF Recreate, Leave, Inv, OneRunPerFile, OwnFile, OnlyWholeDumps
<1>3. ASSUME NEW r \in Slot, Begin(r) PROVE Inv'
  <2>1. OneRunPerFile'
    BY <1>0, <1>3 DEF Begin, Inv, OneRunPerFile, TypeOK
  <2>2. OwnFile(r)'
    <3>1. pc[r] = "idle" /\ pc'[r] = "open" /\ UNCHANGED sent /\ OwnFile(r)
      BY <1>0, <1>3 DEF Begin, Inv, TypeOK
    <3>. QED
      BY <3>1 DEF OwnFile
  <2>3. \A s \in Slot \ {r} : OwnFile(s)'
    BY <1>0, <1>3, OthersKeep DEF Begin, TypeOK
  <2>. QED
    BY <1>0, <1>3, <2>1, <2>2, <2>3 DEF Begin, Inv, OnlyWholeDumps
(* A step of an active run keeps the invariant if it keeps the run's own   *)
(* books and stays away from other days.                                   *)
<1>4. ASSUME NEW r \in Slot, pc[r] # "idle", OwnFile(r)',
             UNCHANGED date \/ pc'[r] = "idle",
             \A d \in Day \ {date[r]} : file'[d] = file[d] /\ r2'[d] = r2[d],
             r2'[date[r]] # "broken",
             \A s \in Slot \ {r} :
               /\ pc'[s] = pc[s] /\ date'[s] = date[s] /\ snap'[s] = snap[s]
               /\ sent'[s] = sent[s] /\ (fd'[s] = fd[s] \/ date[s] = date[r])
      PROVE  Inv'
  <2>1. OneRunPerFile'
    BY <1>4 DEF Inv, OneRunPerFile
  <2>2. \A s \in Slot \ {r} : OwnFile(s)'
    BY <1>4, OthersKeep
  <2>3. OnlyWholeDumps'
    BY <1>4 DEF Inv, OnlyWholeDumps
  <2>. QED
    BY <1>0, <1>4, <2>1, <2>2, <2>3 DEF Inv
<1>5. \A r \in Slot : r2[date[r]] # "broken" /\ date[r] \in Day /\ OwnFile(r)
  BY <1>0 DEF Inv, OnlyWholeDumps, TypeOK
<1>6. ASSUME NEW r \in Slot, Open(r) PROVE Inv'
  <2>1. Blank = Upto(r, 0)
    BY UptoNone
  <2>2. /\ file'[date[r]] = Blank /\ sent[r] = 0 /\ pc'[r] = "dump"
        /\ fd'[r] = "path" /\ UNCHANGED <<date, sent>>
    BY <1>0, <1>5, <1>6 DEF Open, OwnFile, TypeOK, Blank
  <2>3. OwnFile(r)'
    BY <2>1, <2>2 DEF OwnFile
  <2>. QED
    BY <1>0, <1>4, <1>5, <1>6, <2>3 DEF Open, TypeOK
<1>7. ASSUME NEW r \in Slot, WriteChunk(r) PROVE Inv'
  <2>. DEFINE i == sent[r] + 1
  <2>1. /\ file[date[r]] = Upto(r, sent[r]) /\ fd[r] = "path" /\ snap[r] = "data"
        /\ sent[r] \in Nat
    BY <1>0, <1>5, <1>7 DEF WriteChunk, OwnFile, TypeOK
  <2>2. [Upto(r, sent[r]) EXCEPT ![i] = r] = Upto(r, i)
    BY <2>1, UptoMore
  <2>3. file' = [file EXCEPT ![date[r]] = [file[date[r]] EXCEPT ![i] = r]]
    BY <1>7, <2>1 DEF WriteChunk
  <2>4. file'[date[r]] = Upto(r, i)
    BY <1>0, <1>5, <2>1, <2>2, <2>3 DEF TypeOK
  <2>5. sent'[r] = i /\ UNCHANGED <<pc, date, fd, snap, r2>> /\ pc[r] = "dump"
    BY <1>0, <1>7 DEF WriteChunk, TypeOK
  <2>6. OwnFile(r)'
    BY <2>1, <2>4, <2>5 DEF OwnFile
  <2>7. \A d \in Day \ {date[r]} : file'[d] = file[d]
    BY <1>0, <2>3 DEF TypeOK
  <2>. QED
    BY <1>0, <1>4, <1>5, <1>7, <2>5, <2>6, <2>7 DEF WriteChunk, TypeOK
<1>8. ASSUME NEW r \in Slot, DumpDone(r) PROVE Inv'
  <2>1. file[date[r]] \in {Upto(r, 0), Upto(r, NChunks)}
    BY <1>5, <1>8 DEF DumpDone, OwnFile
  <2>2. pc'[r] = "check" /\ UNCHANGED <<file, date>>
    BY <1>0, <1>8 DEF DumpDone, TypeOK
  <2>3. OwnFile(r)'
    BY <2>1, <2>2 DEF OwnFile
  <2>. QED
    BY <1>0, <1>4, <1>5, <1>8, <2>3 DEF DumpDone, TypeOK
<1>9. ASSUME NEW r \in Slot, Raise(r), pc[r] # "idle" PROVE Inv'
  BY <1>0, <1>4, <1>5, <1>9 DEF Raise, Leave, OwnFile, TypeOK
<1>10. ASSUME NEW r \in Slot, CheckSize(r) PROVE Inv'
  <2>1. file[date[r]] # Blank
    BY <1>10 DEF CheckSize, SomethingAt, Blank
  <2>2. file[date[r]] = Upto(r, NChunks)
    BY <1>5, <1>10, <2>1, UptoNone DEF CheckSize, OwnFile
  <2>3. pc'[r] = "upload" /\ UNCHANGED <<file, date>>
    BY <1>0, <1>10 DEF CheckSize, TypeOK
  <2>4. OwnFile(r)'
    BY <2>2, <2>3 DEF OwnFile
  <2>. QED
    BY <1>0, <1>4, <1>5, <1>10, <2>4 DEF CheckSize, TypeOK
<1>11. ASSUME NEW r \in Slot, Upload(r) PROVE Inv'
  <2>1. IsWhole(file[date[r]])
    BY <1>5, <1>11, UptoAll DEF Upload, OwnFile
  <2>2. r2'[date[r]] = "whole" /\ pc'[r] = "unlink" /\ UNCHANGED date
    BY <1>0, <1>5, <1>11, <2>1 DEF Upload, TypeOK
  <2>3. OwnFile(r)'
    BY <2>2 DEF OwnFile
  <2>. QED
    BY <1>0, <1>4, <1>5, <1>11, <2>2, <2>3 DEF Upload, TypeOK
<1>12. ASSUME NEW r \in Slot, Unlink(r) PROVE Inv'
  <2>1. pc'[r] = "stored" /\ r2[date[r]] = "whole" /\ UNCHANGED <<r2, date>>
    BY <1>0, <1>5, <1>12 DEF Unlink, OwnFile, TypeOK
  <2>2. OwnFile(r)'
    BY <2>1 DEF OwnFile
  <2>. QED
    BY <1>0, <1>4, <1>5, <1>12, <2>2 DEF Unlink, TypeOK
<1>13. ASSUME NEW r \in Slot, End(r) \/ Kill(r) PROVE Inv'
  <2>1. pc[r] # "idle" /\ pc'[r] = "idle" /\ OwnFile(r)'
    BY <1>0, <1>13 DEF End, Kill, Leave, OwnFile, TypeOK
  <2>2. /\ UNCHANGED <<file, r2>>
        /\ \A s \in Slot \ {r} :
             /\ pc'[s] = pc[s] /\ date'[s] = date[s] /\ snap'[s] = snap[s]
             /\ sent'[s] = sent[s] /\ fd'[s] = fd[s]
    BY <1>0, <1>13 DEF End, Kill, Leave, TypeOK
  <2>. QED
    BY <1>4, <1>5, <2>1, <2>2
<1>. QED
  BY <1>1, <1>2, <1>3, <1>6, <1>7, <1>8, <1>9, <1>10, <1>11, <1>12, <1>13
  DEF Next, Fails, TooSmall

(* With one run of backup_postgres per day at a time, the object of a day  *)
(* is always the whole dump of a database that had data.                   *)
THEOREM BackupsAreWhole ==
  ASSUME OnePerDay
  PROVE  Spec => []OnlyWholeDumps
<1>1. Inv => OnlyWholeDumps
  BY DEF Inv
<1>. QED
  BY <1>1, InitInv, NextInv, PTL DEF Spec

(* A run that will report success has its day's backup in place.           *)
THEOREM StoredIsBackedUp ==
  ASSUME OnePerDay
  PROVE  Spec => []StoredMeansBackedUp
<1>1. Inv => StoredMeansBackedUp
  BY DEF Inv, OwnFile, StoredMeansBackedUp
<1>. QED
  BY <1>1, InitInv, NextInv, PTL DEF Spec

(* A day that has its backup keeps it, whatever a later run of that day    *)
(* meets: it may raise, die half way or find the database empty ("re-      *)
(* running on the same day overwrites today's backup", with a whole one).  *)
BackupKept == [][\A d \in Day : r2[d] = "whole" => r2'[d] = "whole"]_vars

(* With one run of backup_postgres per day at a time no later run costs a  *)
(* day the backup that it has.                                             *)
THEOREM BackupsAreKept ==
  ASSUME OnePerDay
  PROVE  Spec => BackupKept
<1>1. Inv /\ Inv' /\ [Next]_vars => \A d \in Day : r2[d] = "whole" => r2'[d] = "whole"
  <2>. SUFFICES ASSUME Inv, Inv', [Next]_vars, NEW d \in Day, r2[d] = "whole"
                PROVE  r2'[d] = "whole"
    OBVIOUS
  <2>1. CASE r2' = r2
    BY <2>1
  <2>2. ASSUME NEW r \in Slot, Upload(r) PROVE r2'[d] # "none"
    <3>1. r2' = [r2 EXCEPT ![date[r]] = IF IsWhole(file[date[r]]) THEN "whole" ELSE "broken"]
      BY <2>2 DEF Upload
    <3>. QED
      BY <3>1 DEF Inv, TypeOK
  <2>3. r2'[d] \in {"none", "whole"}
    BY DEF Inv, TypeOK, OnlyWholeDumps
  <2>. QED
    BY <2>1, <2>2, <2>3
    DEF Next, Midnight, LoseOrRestore, Recreate, Begin, Open, WriteChunk, DumpDone, Fails,
        Raise, CheckSize, TooSmall, Unlink, End, Kill, runVars, vars
<1>. QED
  BY <1>1, InitInv, NextInv, PTL DEF Spec, BackupKept
=============================================================================
