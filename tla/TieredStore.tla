----------------------------- MODULE TieredStore -----------------------------
(***************************************************************************)
(* What a store of two tiers promises, whoever copies and whatever fails:  *)
(* content is written to the hot tier, copies bring the cold tier forward  *)
(* and never ahead of the hot one, and a partition leaves the hot tier     *)
(* only when the cold tier has all of it, after which nothing is written   *)
(* to it any more (a copy of such a late row would replace the rest).      *)
(***************************************************************************)
EXTENDS Naturals

CONSTANTS Table, Partition

VARIABLES
  hot,   \* [table -> [partition -> version of its content, 0 for none]]
  cold   \* the same in the cold tier

Init ==
  /\ hot \in [Table -> [Partition -> Nat]]
  /\ cold \in [Table -> [Partition -> Nat]]
  /\ \A t \in Table, p \in Partition : cold[t][p] <= hot[t][p]

Write(t, p) ==
  /\ cold[t][p] <= hot[t][p]
  /\ hot' = [hot EXCEPT ![t][p] = @ + 1]
  /\ UNCHANGED cold

Copy(t, p) ==
  /\ \E version \in cold[t][p]..hot[t][p] : cold' = [cold EXCEPT ![t][p] = version]
  /\ UNCHANGED hot

Drop(t, p) ==
  /\ hot[t][p] <= cold[t][p]
  /\ hot' = [hot EXCEPT ![t][p] = 0]
  /\ UNCHANGED cold

Next == \E t \in Table, p \in Partition : Write(t, p) \/ Copy(t, p) \/ Drop(t, p)

Spec == Init /\ [][Next]_<<hot, cold>>
=============================================================================
