----------------------------- MODULE MCApiClient -----------------------------
(* The client on small instances, without symmetry: a liveness property is   *)
(* checked.                                                                  *)
EXTENDS ApiClient, TLC
=============================================================================
