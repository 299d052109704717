----------------------------- MODULE MCListener -----------------------------
(***************************************************************************)
(* Two processes and an outsider on one socket path.  Two faults allow a   *)
(* failed bind or a crash on top of a replacement or a pause.              *)
(***************************************************************************)
EXTENDS SocketListener
=============================================================================
