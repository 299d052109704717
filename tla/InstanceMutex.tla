---------------------------- MODULE InstanceMutex ----------------------------
(***************************************************************************)
(* What SingleInstanceLock promises its users (the agent transport and the *)
(* prompter): "one server per socket path".  A process may take the path   *)
(* only while nobody has it, and gives it up by releasing it or by dying.  *)
(* How the promise is kept, with a lock file that its holder removes, is   *)
(* the business of module SingleInstanceLock, which implements this one.   *)
(***************************************************************************)
CONSTANT Procs            \* the processes that may serve the path

VARIABLE holders          \* the processes that own the path: at most one

Init == holders = {}

\* SingleInstanceLock::acquire returns a lock.
Acquire(p) ==
    /\ holders = {}
    /\ holders' = {p}

\* ~SingleInstanceLock, or the death of the process.
Release(p) ==
    /\ holders = {p}
    /\ holders' = {}

Next == \E p \in Procs : Acquire(p) \/ Release(p)

Spec == Init /\ [][Next]_holders
=============================================================================
