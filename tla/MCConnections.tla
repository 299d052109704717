---------------------------- MODULE MCConnections ----------------------------
(***************************************************************************)
(* Small instances of the connection handling: two connections, queues of  *)
(* two frames, reads of up to two frames.                                  *)
(***************************************************************************)
EXTENDS SocketConnections
=============================================================================
