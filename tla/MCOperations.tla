----------------------------- MODULE MCOperations -----------------------------
(***************************************************************************)
(* Two clients and three requests: an operation, and another client's or   *)
(* its own cancel or recovery racing it; or one client and every kind of   *)
(* request.                                                                *)
(***************************************************************************)
EXTENDS Operations, TLC

Symmetry == Permutations(Conns)
=============================================================================
