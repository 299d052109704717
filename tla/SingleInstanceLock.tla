-------------------------- MODULE SingleInstanceLock --------------------------
(***************************************************************************)
(* The lock file `<socketPath>.lock` that keeps two servers off one socket *)
(* path: agent/src/backend/SingleInstanceLock.cpp.                         *)
(*                                                                         *)
(* Each system call is a step of its own, because the contenders are       *)
(* separate processes: open(O_CREAT), flock(LOCK_EX | LOCK_NB), lstat() of *)
(* the path, and on release lstat(), unlink(), close().  A process may die *)
(* between any two of them; the kernel then closes its descriptor, which   *)
(* drops the flock, and the file stays behind.                             *)
(*                                                                         *)
(* An inode lives as long as a directory entry or a descriptor refers to   *)
(* it and may be reused afterwards, as a file system does, so nothing here *)
(* rests on inode numbers being unique in time.                            *)
(***************************************************************************)
EXTENDS Integers, FiniteSets

CONSTANTS
    Procs,              \* the processes contending for the path
    Inodes,             \* the inode numbers of the lock file's directory
    NoInode,            \* "the path names nothing", "no descriptor"
    AcquireAttempts     \* kAcquireAttempts

ASSUME NoInodeAssumption == NoInode \notin Inodes
ASSUME AttemptsAssumption == AcquireAttempts \in Nat \ {0}

VARIABLES
    lockFile,           \* the inode the lock path names, or NoInode
    lockFd,             \* lockFd[p]: the inode p's descriptor refers to
    flocked,            \* flocked[p]: p's descriptor holds the flock
    attempt,            \* attempt[p]: the loop counter of acquire()
    lockState           \* lockState[p]: where p is in acquire() or release()

lockVars == <<lockFile, lockFd, flocked, attempt, lockState>>

(***************************************************************************)
(* "out": not running.  "opening" .. "granted": inside acquire().  "held": *)
(* owns a SingleInstanceLock.  "releasing", "removing" and "closing":      *)
(* inside release().  "refused" and "failed": acquire() returned           *)
(* AnotherInstance or Failed and the process is about to exit.             *)
(***************************************************************************)
LockStates == {"out", "opening", "opened", "granted", "held",
               "releasing", "removing", "closing", "refused", "failed"}

LockTypeOK ==
    /\ lockFile \in Inodes \cup {NoInode}
    /\ lockFd \in [Procs -> Inodes \cup {NoInode}]
    /\ flocked \in [Procs -> BOOLEAN]
    /\ attempt \in [Procs -> 0..AcquireAttempts]
    /\ lockState \in [Procs -> LockStates]

LockInit ==
    /\ lockFile = NoInode
    /\ lockFd = [p \in Procs |-> NoInode]
    /\ flocked = [p \in Procs |-> FALSE]
    /\ attempt = [p \in Procs |-> 0]
    /\ lockState = [p \in Procs |-> "out"]

(***************************************************************************)
(* Helpers.                                                                *)
(***************************************************************************)

\* Inodes something still refers to; a new file gets any other one.
InUse == {lockFile} \cup {lockFd[p] : p \in Procs}

\* pathNames(): the path names the file p has open.
PathNames(p) == lockFile = lockFd[p]

\* The kernel closes p's descriptor: on ~UniqueFd and on process death.
CloseFd(p) ==
    /\ lockFd' = [lockFd EXCEPT ![p] = NoInode]
    /\ flocked' = [flocked EXCEPT ![p] = FALSE]

GoTo(p, s) == lockState' = [lockState EXCEPT ![p] = s]

(***************************************************************************)
(* SingleInstanceLock::acquire.                                            *)
(***************************************************************************)
Start(p) ==
    /\ lockState[p] = "out"
    /\ GoTo(p, "opening")
    /\ attempt' = [attempt EXCEPT ![p] = 0]
    /\ UNCHANGED <<lockFile, lockFd, flocked>>

\* open(O_RDWR | O_CREAT): the file there is, or a new one.
Open(p) ==
    /\ lockState[p] = "opening"
    /\ \/ /\ lockFile # NoInode
          /\ lockFd' = [lockFd EXCEPT ![p] = lockFile]
          /\ UNCHANGED lockFile
       \/ /\ lockFile = NoInode
          /\ \E i \in Inodes \ InUse :
                /\ lockFile' = i
                /\ lockFd' = [lockFd EXCEPT ![p] = i]
    /\ GoTo(p, "opened")
    /\ UNCHANGED <<flocked, attempt>>

\* open() or fstat() fails, or flock() fails with anything but EWOULDBLOCK.
AcquireFails(p) ==
    /\ lockState[p] \in {"opening", "opened"}
    /\ CloseFd(p)
    /\ GoTo(p, "failed")
    /\ UNCHANGED <<lockFile, attempt>>

FlockContested(p) ==
    \E q \in Procs \ {p} : flocked[q] /\ lockFd[q] = lockFd[p]

\* flock(LOCK_EX | LOCK_NB) is granted.
FlockGranted(p) ==
    /\ lockState[p] = "opened"
    /\ ~FlockContested(p)
    /\ flocked' = [flocked EXCEPT ![p] = TRUE]
    /\ GoTo(p, "granted")
    /\ UNCHANGED <<lockFile, lockFd, attempt>>

\* flock() answers EWOULDBLOCK: ServerStartError::AnotherInstance.
FlockRefused(p) ==
    /\ lockState[p] = "opened"
    /\ FlockContested(p)
    /\ CloseFd(p)
    /\ GoTo(p, "refused")
    /\ UNCHANGED <<lockFile, attempt>>

\* Mutant: trust the flock without looking at the path again.
VerifyUnchecked(p) ==
    /\ lockState[p] = "granted"
    /\ GoTo(p, "held")
    /\ UNCHANGED <<lockFile, lockFd, flocked, attempt>>

\* Granted, but on the file the path names now?
Verify(p) ==
    /\ lockState[p] = "granted"
    /\ PathNames(p)
    /\ GoTo(p, "held")
    /\ UNCHANGED <<lockFile, lockFd, flocked, attempt>>

\* Mutant: the loop counter never advances.
RetryForever(p) ==
    /\ lockState[p] = "granted"
    /\ ~PathNames(p)
    /\ CloseFd(p)
    /\ GoTo(p, "opening")
    /\ UNCHANGED <<attempt, lockFile>>

\* The lock was won on a removed file: drop it and go round the loop again.
Retry(p) ==
    /\ lockState[p] = "granted"
    /\ ~PathNames(p)
    /\ CloseFd(p)
    /\ attempt' = [attempt EXCEPT ![p] = @ + 1]
    /\ GoTo(p, IF attempt[p] + 1 < AcquireAttempts THEN "opening" ELSE "failed")
    /\ UNCHANGED lockFile

(***************************************************************************)
(* SingleInstanceLock::release, from the destructor.                       *)
(***************************************************************************)
Release(p) ==
    /\ lockState[p] = "held"
    /\ GoTo(p, "releasing")
    /\ UNCHANGED <<lockFile, lockFd, flocked, attempt>>

ReleaseCheck(p) ==
    /\ lockState[p] = "releasing"
    /\ GoTo(p, IF PathNames(p) THEN "removing" ELSE "closing")
    /\ UNCHANGED <<lockFile, lockFd, flocked, attempt>>

\* Mutant: close the descriptor first and remove the file afterwards.
ReleaseUnlinkAfterClose(p) ==
    /\ lockState[p] = "removing"
    /\ IF flocked[p] THEN CloseFd(p) /\ UNCHANGED <<lockFile, lockState>>
                     ELSE /\ lockFile' = NoInode
                          /\ GoTo(p, "closing")
                          /\ UNCHANGED <<lockFd, flocked>>
    /\ UNCHANGED attempt

\* unlink() removes whatever the path names at this moment.
ReleaseUnlink(p) ==
    /\ lockState[p] = "removing"
    /\ lockFile' = NoInode
    /\ GoTo(p, "closing")
    /\ UNCHANGED <<lockFd, flocked, attempt>>

ReleaseClose(p) ==
    /\ lockState[p] = "closing"
    /\ CloseFd(p)
    /\ GoTo(p, "out")
    /\ UNCHANGED <<lockFile, attempt>>

(***************************************************************************)
(* The process exits on a refusal (main returns 3) or a failure (1), or    *)
(* dies anywhere else.                                                     *)
(***************************************************************************)
ExitRefused(p) ==
    /\ lockState[p] \in {"refused", "failed"}
    /\ GoTo(p, "out")
    /\ UNCHANGED <<lockFile, lockFd, flocked, attempt>>

Crash(p) ==
    /\ lockState[p] # "out"
    /\ CloseFd(p)
    /\ GoTo(p, "out")
    /\ UNCHANGED <<lockFile, attempt>>

AcquireStep(p) == \/ Open(p)         \/ AcquireFails(p)
                  \/ FlockGranted(p) \/ FlockRefused(p)
                  \/ Verify(p)       \/ Retry(p)

ReleaseStep(p) == ReleaseCheck(p) \/ ReleaseUnlink(p) \/ ReleaseClose(p)

LockNext ==
    \E p \in Procs :
        \/ Start(p) \/ AcquireStep(p)
        \/ Release(p) \/ ReleaseStep(p)
        \/ ExitRefused(p) \/ Crash(p)

LockSpec == LockInit /\ [][LockNext]_lockVars

(***************************************************************************)
(* A running process goes on executing its system calls: the scheduler     *)
(* starves nobody.  Nothing is assumed of starts, releases or crashes.     *)
(***************************************************************************)
FairLockSpec ==
    /\ LockSpec
    /\ \A p \in Procs : WF_lockVars(AcquireStep(p)) /\ WF_lockVars(ReleaseStep(p))

(***************************************************************************)
(* Properties.                                                             *)
(***************************************************************************)

\* The processes that own a SingleInstanceLock and have not yet taken its
\* file off the path.
Holders == {p \in Procs : lockState[p] \in {"held", "releasing", "removing"}}

\* One server per socket path (SingleInstanceLock.h): no interleaving of two
\* acquisitions with a release that removes the file, or with a crash, lets
\* two processes own the path at once.
MutualExclusion == \A p, q \in Holders : p = q

\* The inductive form of MutualExclusion: an owner's descriptor is flocked and
\* the path names its file; a flock belongs to one process per inode, and a
\* process past flock() and before close() has one; a process still in the
\* loop has attempts left.
LockInv ==
    /\ \A p \in Holders : flocked[p] /\ lockFd[p] = lockFile
    /\ \A p \in Procs : lockFd[p] # NoInode <=>
          lockState[p] \in {"opened", "granted", "held", "releasing", "removing", "closing"}
    /\ \A p \in Procs : flocked[p] <=>
          lockState[p] \in {"granted", "held", "releasing", "removing", "closing"}
    /\ \A p, q \in Procs : flocked[p] /\ flocked[q] /\ lockFd[p] = lockFd[q] => p = q
    /\ \A p \in Procs : lockState[p] \in {"opening", "opened", "granted"} =>
          attempt[p] < AcquireAttempts

\* The lock file protocol implements the abstract promise.
Mutex == INSTANCE InstanceMutex WITH holders <- Holders
ImplementsMutex == Mutex!Spec

\* acquire() ends: whatever the other processes do, a process that entered it
\* gets an answer after at most AcquireAttempts rounds.
AcquireEnds ==
    \A p \in Procs : lockState[p] = "opening" ~>
        lockState[p] \in {"held", "refused", "failed", "out"}
=============================================================================
