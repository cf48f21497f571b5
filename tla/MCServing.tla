----------------------------- MODULE MCServing ------------------------------
(* Small instances of Serving for TLC. *)
EXTENDS Serving

OneProcess == [t \in Thread |-> CHOOSE w \in Worker : TRUE]
=============================================================================
