------------------------------ MODULE MCQueues ------------------------------
(***************************************************************************)
(* Queues for model checking: the clients are alike, and so are the names. *)
(***************************************************************************)
EXTENDS Queues, TLC

Symmetry == Permutations(Proxy) \cup Permutations(Name)
=============================================================================
