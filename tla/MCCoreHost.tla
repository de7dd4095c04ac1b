----------------------------- MODULE MCCoreHost -----------------------------
(* Small instances of CoreHost for TLC. *)
EXTENDS CoreHost, TLC

(* Callers, documents and nodes are interchangeable: nothing in the model  *)
(* tells two of them apart.  Only the runs without liveness use this.      *)
Symmetry == Permutations(Callers) \cup Permutations(Docs) \cup Permutations(Nodes)
=============================================================================
