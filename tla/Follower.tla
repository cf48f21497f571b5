------------------------------ MODULE Follower ------------------------------
(***************************************************************************)
(* What the pipeline promises about a feed, whatever is lost, repeated or  *)
(* out of order in between: the copy always is a stretch of the source     *)
(* without a hole, and it never goes back behind what is settled.  Only    *)
(* the oldest half-hours are ever forgotten.                               *)
(***************************************************************************)
EXTENDS Naturals

VARIABLES
  source,   \* newest half-hour the source has published, 0 for none
  settled,  \* half-hours that every copy from now on has
  copy      \* the half-hours copied

Init ==
  /\ source = 0
  /\ settled = {}
  /\ copy = {}

Stretch(S) == S \subseteq 1..source /\ \A p, q \in S : p..q \subseteq S

Publish ==
  /\ source' \in Nat
  /\ source' > source
  /\ UNCHANGED <<settled, copy>>

Settle ==
  /\ Stretch(settled')
  /\ \A p \in settled \ settled', q \in settled' : p < q
  /\ UNCHANGED source

CatchUp ==
  /\ settled \subseteq copy'
  /\ Stretch(copy')
  /\ UNCHANGED source

Next ==
  \/ Publish
  \/ Settle /\ UNCHANGED copy
  \/ Settle /\ CatchUp

Spec == Init /\ [][Next]_<<source, settled, copy>>
=============================================================================
