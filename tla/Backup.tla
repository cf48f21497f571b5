------------------------------- MODULE Backup -------------------------------
(***************************************************************************)
(* The nightly Postgres backup (gridpulse/dagster_defs/backup_assets.py).  *)
(*                                                                         *)
(* A run of backup_postgres streams pg_dump into a gzip file under /tmp    *)
(* whose name holds the UTC date, refuses a file that is too small,        *)
(* uploads it under a key that holds the same date, and unlinks it.        *)
(* Dagster's default launcher runs it as a process of the daemon's         *)
(* container: every run of a day shares the path, and what a run leaves    *)
(* behind stays until the container is recreated.                          *)
(*                                                                         *)
(* The pings of with_heartbeat around the run are modelled in Ingest.      *)
(*                                                                         *)
(* A dump of a database with data is NChunks chunks of at least the        *)
(* minimum size each; the dump of an empty one is smaller than a chunk.    *)
(* The content of a file says which run wrote each chunk.                  *)
(***************************************************************************)
EXTENDS Naturals

CONSTANTS
  Slot,       \* processes that run backup_postgres
  NChunks,    \* chunks of a dump
  OnePerDay,  \* TRUE: a run starts only if no other run of its day is active
  MaxDay,     \* bound on days
  None        \* no file, no writer

ASSUME BackupAssumption ==
  /\ NChunks \in Nat \ {0}
  /\ OnePerDay \in BOOLEAN
  /\ MaxDay \in Nat \ {0}
  /\ None \notin Slot
  /\ None \notin [1..NChunks -> Slot \cup {None}]

Day == 1..MaxDay
Chunk == 1..NChunks
Content == [Chunk -> Slot \cup {None}]

VARIABLES
  now,    \* the current UTC day
  db,     \* what is in Postgres: data, or after a loss nothing
  file,   \* [day -> content of the local file of that day, or None]
  r2,     \* [day -> object under the day's key]
  pc,     \* control state of each run
  date,   \* the day a run works for
  fd,     \* its open file: none, the one at its path, or an unlinked one
  snap,   \* what its pg_dump's snapshot holds
  sent    \* chunks it has written

runVars == <<pc, date, fd, snap, sent>>
vars == <<now, db, file, r2, runVars>>

PC == {"idle", "open", "dump", "check", "upload", "unlink", "stored", "raised"}

TypeOK ==
  /\ now \in Day
  /\ db \in {"data", "empty"}
  /\ file \in [Day -> Content \cup {None}]
  /\ r2 \in [Day -> {"none", "whole", "broken"}]
  /\ pc \in [Slot -> PC]
  /\ date \in [Slot -> Day]
  /\ fd \in [Slot -> {"none", "path", "orphan"}]
  /\ snap \in [Slot -> {"data", "empty"}]
  /\ sent \in [Slot -> 0..NChunks]

Init ==
  /\ now = 1
  /\ db = "data"
  /\ file = [d \in Day |-> None]
  /\ r2 = [d \in Day |-> "none"]
  /\ pc = [r \in Slot |-> "idle"]
  /\ date = [r \in Slot |-> 1]
  /\ fd = [r \in Slot |-> "none"]
  /\ snap = [r \in Slot |-> "empty"]
  /\ sent = [r \in Slot |-> 0]

-----------------------------------------------------------------------------
(* The world around the backup.                                            *)

Midnight ==
  /\ now < MaxDay
  /\ now' = now + 1
  /\ UNCHANGED <<db, file, r2, runVars>>

(* The data is lost (a DROP TABLE, a bad migration), or it is restored. *)
LoseOrRestore ==
  /\ db' = IF db = "data" THEN "empty" ELSE "data"
  /\ UNCHANGED <<now, file, r2, runVars>>

(* The run is over; its file descriptor is closed. *)
Leave(S, outcome) ==
  /\ pc' = [r \in Slot |-> IF r \in S THEN outcome ELSE pc[r]]
  /\ fd' = [r \in Slot |-> IF r \in S THEN "none" ELSE fd[r]]
  /\ snap' = [r \in Slot |-> IF r \in S THEN "empty" ELSE snap[r]]
  /\ sent' = [r \in Slot |-> IF r \in S THEN 0 ELSE sent[r]]

(* A deployment recreates the container: its runs die and /tmp is new. *)
Recreate ==
  /\ \E r \in Slot : pc[r] # "idle"
  /\ Leave(Slot, "idle")
  /\ file' = [d \in Day |-> None]
  /\ date' = [r \in Slot |-> 1]
  /\ UNCHANGED <<now, db, r2>>

-----------------------------------------------------------------------------
(* A run.                                                                  *)

Begin(r) ==
  /\ pc[r] = "idle"
  /\ OnePerDay => \A s \in Slot : pc[s] = "idle" \/ date[s] # now
  /\ pc' = [pc EXCEPT ![r] = "open"]
  /\ date' = [date EXCEPT ![r] = now]
  /\ UNCHANGED <<now, db, file, r2, fd, snap, sent>>

(* gzip.open(..., "wb") creates or truncates the file; pg_dump takes its   *)
(* snapshot.                                                               *)
Open(r) ==
  /\ pc[r] = "open"
  /\ file' = [file EXCEPT ![date[r]] = [i \in Chunk |-> None]]
  /\ pc' = [pc EXCEPT ![r] = "dump"]
  /\ fd' = [fd EXCEPT ![r] = "path"]
  /\ snap' = [snap EXCEPT ![r] = db]
  /\ UNCHANGED <<now, db, r2, date, sent>>

(* Mutant of WriteChunk: the copy loop never sees the end of the pipe.     *)
WriteChunkForever(r) ==
  /\ pc[r] = "dump"
  /\ snap[r] = "data"
  /\ sent' = [sent EXCEPT ![r] = @ + 1]
  /\ UNCHANGED <<now, db, file, r2, pc, date, fd, snap>>

(* A write goes to the run's own offset of the file it has open.  The file *)
(* at the path is still that one unless somebody unlinked it.              *)
WriteChunk(r) ==
  LET i == sent[r] + 1 IN
  /\ pc[r] = "dump"
  /\ snap[r] = "data"
  /\ sent[r] < NChunks
  /\ sent' = [sent EXCEPT ![r] = i]
  /\ file' = IF fd[r] = "path" THEN [file EXCEPT ![date[r]][i] = r] ELSE file
  /\ UNCHANGED <<now, db, r2, pc, date, fd, snap>>

(* Mutant of DumpDone: the exit status of pg_dump is ignored.              *)
DumpUnchecked(r) ==
  /\ pc[r] = "dump"
  /\ pc' = [pc EXCEPT ![r] = "check"]
  /\ fd' = [fd EXCEPT ![r] = "none"]
  /\ UNCHANGED <<now, db, file, r2, date, snap, sent>>

(* pg_dump has exited 0 and the file is closed. *)
DumpDone(r) ==
  /\ pc[r] = "dump"
  /\ snap[r] = "data" => sent[r] = NChunks
  /\ pc' = [pc EXCEPT ![r] = "check"]
  /\ fd' = [fd EXCEPT ![r] = "none"]
  /\ UNCHANGED <<now, db, file, r2, date, snap, sent>>

Raise(r) ==
  /\ Leave({r}, "raised")
  /\ UNCHANGED <<now, db, file, r2, date>>

(* Mutant of Fails: a refused upload is logged and the run goes on.        *)
FailsQuietly(r) ==
  /\ pc[r] = "upload"
  /\ pc' = [pc EXCEPT ![r] = "unlink"]
  /\ UNCHANGED <<now, db, file, r2, date, fd, snap, sent>>

(* pg_dump exits with an error or hangs, the disk is snap, R2 refuses. *)
Fails(r) ==
  /\ pc[r] \in {"open", "dump", "upload"}
  /\ Raise(r)

SomethingAt(d) == file[d] # None /\ \E i \in Chunk : file[d][i] # None

(* os.path.getsize by path: the file may be gone, or too small. *)
CheckSize(r) ==
  /\ pc[r] = "check"
  /\ SomethingAt(date[r])
  /\ pc' = [pc EXCEPT ![r] = "upload"]
  /\ UNCHANGED <<now, db, file, r2, date, fd, snap, sent>>

TooSmall(r) ==
  /\ pc[r] = "check"
  /\ ~SomethingAt(date[r])
  /\ Raise(r)

IsWhole(content) == \E s \in Slot : \A i \in Chunk : content[i] = s

(* upload_file reads whatever is at the path now; the put is atomic. *)
Upload(r) ==
  /\ pc[r] = "upload"
  /\ file[date[r]] # None
  /\ r2' = [r2 EXCEPT ![date[r]] = IF IsWhole(file[date[r]]) THEN "whole" ELSE "broken"]
  /\ pc' = [pc EXCEPT ![r] = "unlink"]
  /\ UNCHANGED <<now, db, file, date, fd, snap, sent>>

(* os.unlink with errors suppressed: whoever has the file open keeps an    *)
(* orphan.                                                                 *)
Unlink(r) ==
  /\ pc[r] = "unlink"
  /\ file' = [file EXCEPT ![date[r]] = None]
  /\ pc' = [pc EXCEPT ![r] = "stored"]
  /\ fd' = [s \in Slot |-> IF fd[s] = "path" /\ date[s] = date[r] THEN "orphan" ELSE fd[s]]
  /\ UNCHANGED <<now, db, r2, date, snap, sent>>

(* The last ping is sent, or the exception is reported. *)
End(r) ==
  /\ pc[r] \in {"stored", "raised"}
  /\ Leave({r}, "idle")
  /\ date' = [date EXCEPT ![r] = 1]
  /\ UNCHANGED <<now, db, file, r2>>

(* The process alone is killed: what it wrote stays. *)
Kill(r) ==
  /\ pc[r] # "idle"
  /\ Leave({r}, "idle")
  /\ date' = [date EXCEPT ![r] = 1]
  /\ UNCHANGED <<now, db, file, r2>>

Next ==
  \/ Midnight
  \/ LoseOrRestore
  \/ Recreate
  \/ \E r \in Slot :
       \/ Begin(r) \/ Open(r) \/ WriteChunk(r) \/ DumpDone(r) \/ Fails(r)
       \/ CheckSize(r) \/ TooSmall(r) \/ Upload(r) \/ Unlink(r)
       \/ End(r) \/ Kill(r)

Spec == Init /\ [][Next]_vars

-----------------------------------------------------------------------------
(* Properties.                                                             *)

(* The object of a day is the whole dump of one run: a failed, refused or  *)
(* killed run never replaces a backup, and neither does the dump of a      *)
(* database that has lost its data.                                        *)
OnlyWholeDumps == \A d \in Day : r2[d] # "broken"

(* A run that will report success has put the backup of its day in place.  *)
StoredMeansBackedUp ==
  \A r \in Slot : pc[r] \in {"unlink", "stored"} => r2[date[r]] = "whole"
=============================================================================
