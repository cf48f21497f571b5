---------------------------- MODULE AtomicUpgrade ----------------------------
(***************************************************************************)
(* What the migrator promises of a database, however many runs overlap and *)
(* wherever they die: the schema moves from one version to the next, each  *)
(* file takes effect and is recorded in the same moment, none twice, none  *)
(* before the one that precedes it and none before it is shipped.          *)
(***************************************************************************)
EXTENDS Naturals

VARIABLES
  shipped,   \* files of the newest image
  effects,   \* files that have taken effect
  records    \* files that are recorded as applied

Init ==
  /\ shipped = 1
  /\ effects = {}
  /\ records = {}

Ship ==
  /\ shipped' = shipped + 1
  /\ UNCHANGED <<effects, records>>

Upgrade(version) ==
  /\ version < shipped
  /\ effects = 1..version /\ effects' = 1..(version + 1)
  /\ records = 1..version /\ records' = 1..(version + 1)
  /\ UNCHANGED shipped

Next == Ship \/ \E version \in 0..shipped : Upgrade(version)

Spec == Init /\ [][Next]_<<shipped, effects, records>>
=============================================================================
