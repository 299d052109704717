---------------------------- MODULE MCTrustConfirm ----------------------------
(***************************************************************************)
(* Two connections and two confirmations, through teardown: one of each,   *)
(* or one client that asks again.                                          *)
(***************************************************************************)
EXTENDS TrustConfirm
=============================================================================
