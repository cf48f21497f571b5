-------------------------- MODULE MCResponseCache --------------------------
(* A small instance of ResponseCache for TLC. *)
EXTENDS ResponseCache

OneProcess == [t \in Thread |-> CHOOSE w \in Worker : TRUE]
=============================================================================
