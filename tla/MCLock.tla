------------------------------- MODULE MCLock -------------------------------
(***************************************************************************)
(* Three contenders for one lock path.  Four inodes are enough for every   *)
(* contender to hold a different removed file while the path names a new   *)
(* one; two attempts reach both a retry and its exhaustion.                *)
(***************************************************************************)
EXTENDS SingleInstanceLock
=============================================================================
