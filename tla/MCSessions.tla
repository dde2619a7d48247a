----------------------------- MODULE MCSessions -----------------------------
(* The session model on small instances. *)
EXTENDS Sessions, TLC

Symmetry == Permutations(Workers)
=============================================================================
