------------------------------ MODULE HotStore ------------------------------
(***************************************************************************)
(* What the ingest side promises, without connections, locks, statements   *)
(* or retries: a run holds one batch, either applies the WHOLE batch to    *)
(* the hot store in one step or none of it, and the monitor of an asset    *)
(* turns "up" only on the report of a run that has applied its batch.      *)
(***************************************************************************)
EXTENDS RawRows

CONSTANTS Slot, Asset, None

VARIABLES
  table,   \* the raw.* rows readers see
  hc,      \* state of each asset's check at healthchecks.io
  job,     \* the asset each slot works for
  phase,   \* "idle", "working", "holding", "stored" or "lost"
  batch    \* the rows each slot is to store

vars == <<table, hc, job, phase, batch>>

Phases == {"idle", "working", "holding", "stored", "lost"}

Check == {"new", "started", "up", "down"}

Init ==
  /\ table = EmptyTable
  /\ hc = [a \in Asset |-> "new"]
  /\ job = [s \in Slot |-> None]
  /\ phase = [s \in Slot |-> "idle"]
  /\ batch = [s \in Slot |-> EmptyTable]

(* A report that reaches the monitor sets the check; a lost one does not. *)
Report(a, verdict) == hc' \in {hc, [hc EXCEPT ![a] = verdict]}

Begin(s, a) ==
  /\ phase[s] = "idle"
  /\ phase' = [phase EXCEPT ![s] = "working"]
  /\ job' = [job EXCEPT ![s] = a]
  /\ Report(a, "started")
  /\ UNCHANGED <<table, batch>>

(* While working a run collects rows; then it holds them. *)
Collect(s) ==
  /\ phase[s] = "working"
  /\ batch'[s] \in Table
  /\ batch' = [batch EXCEPT ![s] = batch'[s]]
  /\ \E p \in {"working", "holding"} : phase' = [phase EXCEPT ![s] = p]
  /\ UNCHANGED <<table, hc, job>>

(* The whole batch, in one step.  The writer may not learn of it (lost).   *)
Store(s) ==
  /\ phase[s] = "holding"
  /\ table' = Upsert(table, batch[s])
  /\ \E p \in {"stored", "lost"} : phase' = [phase EXCEPT ![s] = p]
  /\ batch' = [batch EXCEPT ![s] = EmptyTable]
  /\ UNCHANGED <<hc, job>>

Drop(s) ==
  /\ phase[s] \in {"working", "holding"}
  /\ phase' = [phase EXCEPT ![s] = "lost"]
  /\ batch' = [batch EXCEPT ![s] = EmptyTable]
  /\ UNCHANGED <<table, hc, job>>

(* The run ends: "up" only after Store, "down" only after a failure, and   *)
(* a killed run says nothing.                                              *)
End(s) ==
  /\ phase[s] # "idle"
  /\ \/ phase[s] = "stored" /\ Report(job[s], "up")
     \/ phase[s] = "lost" /\ Report(job[s], "down")
     \/ UNCHANGED hc
  /\ phase' = [phase EXCEPT ![s] = "idle"]
  /\ batch' = [batch EXCEPT ![s] = EmptyTable]
  /\ job' = [job EXCEPT ![s] = None]
  /\ UNCHANGED table

Next ==
  \E s \in Slot :
    \/ \E a \in Asset : Begin(s, a)
    \/ Collect(s)
    \/ Store(s)
    \/ Drop(s)
    \/ End(s)

Spec == Init /\ [][Next]_vars
=============================================================================
