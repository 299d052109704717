---------------------------- MODULE ListenerProofs ----------------------------
(***************************************************************************)
(* The instance lock and the listener behind it, for any number of         *)
(* processes, inodes and attempts: mutual exclusion of the lock, which     *)
(* implements InstanceMutex; one listener at a time, no process removes    *)
(* another's live socket file, and the listen descriptor is closed in the  *)
(* cancel handler only.                                                    *)
(***************************************************************************)
EXTENDS SocketListener, TLAPS

(***************************************************************************)
(* The lock.                                                               *)
(***************************************************************************)

\* The inductive invariant: types, and what makes an owner the only owner.
LockIInv == LockTypeOK /\ LockInv

\* No process runs yet, so nobody has a descriptor.
LEMMA LockInitInv == LockInit => LockIInv
  BY NoInodeAssumption, AttemptsAssumption
  DEF LockInit, LockIInv, LockTypeOK, LockInv, LockStates, Holders

\* A step of acquire() keeps the invariant: a flock is granted only on an inode
\* nobody else has locked, and a grant becomes ownership only on the file the
\* path names.
LEMMA AcquireKeepsInv ==
  ASSUME NEW p \in Procs, LockIInv, Start(p) \/ AcquireStep(p)
  PROVE  LockIInv'
<1> USE NoInodeAssumption, AttemptsAssumption
    DEF LockIInv, LockTypeOK, LockInv, LockStates, Holders, GoTo, CloseFd, PathNames
<1>1. CASE Start(p)
  BY <1>1 DEF Start
<1>2. CASE Open(p)
  BY <1>2 DEF Open, InUse
<1>3. CASE AcquireFails(p)
  BY <1>3 DEF AcquireFails
<1>4. CASE FlockGranted(p)
  BY <1>4 DEF FlockGranted, FlockContested
<1>5. CASE FlockRefused(p)
  BY <1>5 DEF FlockRefused
<1>6. CASE Verify(p)
  BY <1>6 DEF Verify
<1>7. CASE Retry(p)
  BY <1>7 DEF Retry
<1> QED
  BY <1>1, <1>2, <1>3, <1>4, <1>5, <1>6, <1>7 DEF AcquireStep

\* A step of release(), an exit or a crash keeps it: the path is emptied only
\* by its owner, which is not an owner afterwards.
LEMMA ReleaseKeepsInv ==
  ASSUME NEW p \in Procs, LockIInv,
         Release(p) \/ ReleaseStep(p) \/ ExitRefused(p) \/ Crash(p)
  PROVE  LockIInv'
<1> USE NoInodeAssumption, AttemptsAssumption
    DEF LockIInv, LockTypeOK, LockInv, LockStates, Holders, GoTo, CloseFd, PathNames
<1>1. CASE Release(p)
  BY <1>1 DEF Release
<1>2. CASE ReleaseCheck(p)
  BY <1>2 DEF ReleaseCheck
<1>3. CASE ReleaseUnlink(p)
  BY <1>3 DEF ReleaseUnlink
<1>4. CASE ReleaseClose(p)
  BY <1>4 DEF ReleaseClose
<1>5. CASE ExitRefused(p)
  BY <1>5 DEF ExitRefused
<1>6. CASE Crash(p)
  BY <1>6 DEF Crash
<1> QED
  BY <1>1, <1>2, <1>3, <1>4, <1>5, <1>6 DEF ReleaseStep

LEMMA LockStutterInv == LockIInv /\ UNCHANGED lockVars => LockIInv'
  BY DEF LockIInv, LockTypeOK, LockInv, Holders, lockVars

LEMMA LockNextInv == LockIInv /\ [LockNext]_lockVars => LockIInv'
  BY AcquireKeepsInv, ReleaseKeepsInv, LockStutterInv DEF LockNext

\* Types and the inductive invariant hold in every reachable state.
THEOREM LockInvariant == LockSpec => []LockIInv
  BY LockInitInv, LockNextInv, PTL DEF LockSpec

LEMMA InvImpliesMutex == LockIInv => MutualExclusion
  BY DEF LockIInv, LockInv, MutualExclusion, Holders

\* One server per socket path, for every number of contending processes.
THEOREM LockMutualExclusion == LockSpec => []MutualExclusion
  BY LockInvariant, InvImpliesMutex, PTL

(***************************************************************************)
(* Refinement: Holders, the processes between the end of acquire() and the *)
(* unlink of release(), change as InstanceMutex says.                      *)
(***************************************************************************)
LEMMA InitRefines == LockInit => Mutex!Init
  BY DEF LockInit, Mutex!Init, Holders

\* Becoming an owner finds the path without one.
LEMMA VerifyRefines ==
  ASSUME NEW p \in Procs, LockIInv, Verify(p)
  PROVE  Mutex!Acquire(p)
<1> USE DEF LockIInv, LockTypeOK, LockInv, Holders, Verify, GoTo, PathNames
<1>1. Holders = {}
  OBVIOUS
<1>2. Holders' = {p}
  BY <1>1
<1> QED
  BY <1>1, <1>2 DEF Mutex!Acquire

\* Every other step leaves the owners alone or takes the one owner away.
LEMMA OtherStepRefines ==
  ASSUME NEW p \in Procs, LockIInv,
         \/ Start(p) \/ Open(p) \/ AcquireFails(p) \/ FlockGranted(p) \/ FlockRefused(p)
         \/ Retry(p) \/ Release(p) \/ ReleaseStep(p) \/ ExitRefused(p) \/ Crash(p)
  PROVE  Holders' = Holders \/ Mutex!Release(p)
<1> USE DEF LockIInv, LockTypeOK, LockInv, LockStates, Holders, GoTo, CloseFd
<1>1. CASE Start(p) \/ Open(p) \/ AcquireFails(p) \/ FlockGranted(p) \/ FlockRefused(p)
  BY <1>1 DEF Start, Open, AcquireFails, FlockGranted, FlockRefused
<1>2. CASE Retry(p)
  BY <1>2 DEF Retry
<1>5. CASE Release(p) \/ ReleaseCheck(p)
  BY <1>5 DEF Release, ReleaseCheck, PathNames
<1>6. CASE ReleaseClose(p) \/ ExitRefused(p)
  BY <1>6 DEF ReleaseClose, ExitRefused
<1>3. CASE ReleaseUnlink(p)
  <2>1. Holders = {p} /\ Holders' = {}
    BY <1>3 DEF ReleaseUnlink
  <2> QED
    BY <2>1 DEF Mutex!Release
<1>4. CASE Crash(p)
  <2>1. CASE p \in Holders
    <3>1. Holders = {p} /\ Holders' = {}
      BY <1>4, <2>1 DEF Crash
    <3> QED
      BY <3>1 DEF Mutex!Release
  <2>2. CASE p \notin Holders
    BY <1>4, <2>2 DEF Crash
  <2> QED
    BY <2>1, <2>2
<1> QED
  BY <1>1, <1>2, <1>3, <1>4, <1>5, <1>6 DEF ReleaseStep

LEMMA StepRefines == LockIInv /\ [LockNext]_lockVars => [Mutex!Next]_Holders
<1> SUFFICES ASSUME LockIInv, [LockNext]_lockVars PROVE [Mutex!Next]_Holders
  OBVIOUS
<1>1. CASE UNCHANGED lockVars
  BY <1>1 DEF lockVars, Holders
<1>2. CASE LockNext
  <2>1. PICK p \in Procs : \/ Start(p) \/ AcquireStep(p) \/ Release(p)
                           \/ ReleaseStep(p) \/ ExitRefused(p) \/ Crash(p)
    BY <1>2 DEF LockNext
  <2>2. CASE Verify(p)
    BY <2>2, VerifyRefines DEF Mutex!Next
  <2>3. CASE ~Verify(p)
    <3>1. Holders' = Holders \/ Mutex!Release(p)
      BY <2>1, <2>3, OtherStepRefines DEF AcquireStep
    <3> QED
      BY <3>1 DEF Mutex!Next
  <2> QED
    BY <2>2, <2>3
<1> QED
  BY <1>1, <1>2

\* The lock file protocol implements the abstract mutex.
THEOREM LockRefinesMutex == LockSpec => ImplementsMutex
  BY LockInvariant, InitRefines, StepRefines, PTL DEF LockSpec, ImplementsMutex, Mutex!Spec

(***************************************************************************)
(* The listener.                                                           *)
(***************************************************************************)

USE NoInodeAssumption, SockAssumption DEF SockRef

(***************************************************************************)
(* Helpers on one server object.                                           *)
(***************************************************************************)

\* The cancelled source leaves a due handler and the note of its listener.
LEMMA CancelledAcceptInv ==
  ASSUME NEW s \in Server, s.source # "none"
  PROVE  CancelledAccept(s) =
           [s EXCEPT !.snapshot = s.fd, !.source = "none", !.cancel = "due"]
<1>1. CASE s.source = "live"
  <2>1. [s EXCEPT !.source = s.source] = s
    BY DEF Server
  <2>2. Resumed(s) = s
    BY <1>1, <2>1 DEF Resumed
  <2> QED
    BY <1>1, <2>2 DEF CancelledAccept
<1>2. CASE s.source = "suspended"
  <2> DEFINE r == [s EXCEPT !.source = "live"]
  <2>1. Resumed(s) = r
    BY <1>2 DEF Resumed
  <2>2. r.source = "live" /\ r.fd = s.fd
    BY DEF Server
  <2>3. CancelledAccept(s) = [r EXCEPT !.snapshot = s.fd, !.source = "none", !.cancel = "due"]
    BY <2>1, <2>2 DEF CancelledAccept
  <2>4. [r EXCEPT !.snapshot = s.fd, !.source = "none", !.cancel = "due"]
          = [s EXCEPT !.snapshot = s.fd, !.source = "none", !.cancel = "due"]
    BY DEF Server
  <2> QED
    BY <2>3, <2>4
<1> QED
  BY <1>1, <1>2 DEF Server

\* checkSocketPath() keeps a serving object consistent.
LEMMA CheckedPathInv ==
  ASSUME NEW s \in Server, ServerInv(s), s.stage = "serving", s.bind = "idle"
  PROVE  CheckedPath(s) \in Server /\ ServerInv(CheckedPath(s)) /\ CheckedPath(s).stage = "serving"
<1>1. CASE s.rebind /\ s.fd = NoInode
  BY <1>1 DEF CheckedPath, Server, ServerInv, Down
<1>2. CASE s.rebind /\ s.fd # NoInode
  BY <1>2 DEF CheckedPath
<1>3. CASE ~s.rebind /\ (s.source = "none" \/ StillNames(s))
  BY <1>3 DEF CheckedPath
<1>4. CASE ~s.rebind /\ s.source # "none" /\ ~StillNames(s)
  <2> DEFINE t == [s EXCEPT !.rebind = TRUE]
             u == [t EXCEPT !.snapshot = t.fd, !.source = "none", !.cancel = "due"]
  <2>1. t \in Server /\ t.source # "none"
    BY <1>4 DEF Server
  <2>2. CheckedPath(s) = CancelledAccept(t)
    BY <1>4 DEF CheckedPath
  <2>3. CheckedPath(s) = u
    BY <2>1, <2>2, CancelledAcceptInv
  <2>4. /\ u \in Server
        /\ u.stage = "serving" /\ u.bind = "idle" /\ u.newFd = s.newFd
        /\ u.fd = s.fd /\ u.source = "none" /\ u.cancel = "due"
        /\ u.snapshot = s.fd /\ u.early = s.early
    BY DEF Server
  <2> HIDE DEF t, u
  <2>5. ServerInv(u)
    BY <1>4, <2>4 DEF ServerInv
  <2> QED
    BY <2>3, <2>4, <2>5
<1> QED
  BY <1>1, <1>2, <1>3, <1>4

(***************************************************************************)
(* The inductive invariant.  The lock's part is needed because a listener  *)
(* is exclusive only through the lock, ServersConsistent because a bind    *)
(* or a teardown removes the path only with its own listener closed.       *)
(***************************************************************************)
IInv == TypeOK /\ LockInv /\ ServersConsistent /\ ServersOwnLock

LEMMA ListenerInit == Init => IInv
<1> SUFFICES ASSUME Init PROVE IInv
  OBVIOUS
<1>1. LockTypeOK /\ LockInv
  BY LockInitInv DEF Init, LockIInv
<1>2. Down \in Server /\ ServerInv(Down)
  BY DEF Down, Server, Stages, ServerInv
<1>3. TypeOK
  BY <1>1, <1>2, FaultsAssumption DEF Init, TypeOK
<1>4. ServersConsistent /\ ServersOwnLock
  BY <1>2 DEF Init, ServersConsistent, ServersOwnLock, Down
<1> QED
  BY <1>1, <1>3, <1>4 DEF IInv

\* A handler that leaves the lock alone and replaces one server object by a
\* consistent one keeps the invariant.
LEMMA SetKeepsInv ==
  ASSUME IInv, NEW p \in Procs, NEW s \in Server, ServerInv(s),
         s.stage = "down" \/ lockState[p] = "held",
         Set(p, s), UNCHANGED lockVars, sockFile' \in SockRef, faults' \in 0..MaxFaults
  PROVE  IInv'
<1> USE DEF IInv, TypeOK, Set
<1>1. LockTypeOK' /\ LockInv'
  BY LockStutterInv DEF LockIInv
<1>2. TypeOK'
  BY <1>1
<1>3. ServersConsistent'
  BY DEF ServersConsistent
<1>4. ServersOwnLock'
  BY DEF ServersOwnLock, lockVars
<1> QED
  BY <1>1, <1>2, <1>3, <1>4

\* Whoever binds, serves or tears down owns the lock.
LEMMA BusyOwnsLock ==
  ASSUME IInv, NEW p \in Procs, srv[p].bind # "idle" \/ srv[p].cancel # "no"
                                \/ srv[p].stage # "down"
  PROVE  srv[p].stage # "down" /\ lockState[p] = "held"
  BY DEF IInv, ServersConsistent, ServersOwnLock, ServerInv, Down

LEMMA FaultBound == TypeOK /\ (Fault \/ UNCHANGED faults) => faults' \in 0..MaxFaults
  BY FaultsAssumption DEF TypeOK, Fault

\* create() and the system calls of bindContainerSocket().
LEMMA BindKeepsInv ==
  ASSUME IInv, NEW p \in Procs, BeginCreate(p) \/ BindStep(p)
  PROVE  IInv'
<1> DEFINE s == srv[p]
<1>0. s \in Server /\ ServerInv(s)
  BY DEF IInv, TypeOK, ServersConsistent
<1>f. sockFile \in SockRef /\ faults \in 0..MaxFaults /\ TypeOK
  BY DEF IInv, TypeOK
<1>1. CASE BeginCreate(p)
  <2> DEFINE t == [s EXCEPT !.stage = "create", !.bind = "unlink"]
  <2>1. /\ t \in Server /\ t.stage = "create" /\ t.bind = "unlink" /\ t.newFd = s.newFd
        /\ t.fd = s.fd /\ t.source = s.source /\ t.cancel = s.cancel
        /\ t.snapshot = s.snapshot /\ t.early = s.early
    BY <1>0, ZenonT(60) DEF Server, Stages
  <2>2. s = Down /\ lockState[p] = "held" /\ Set(p, t) /\ Quiet
    BY <1>0, <1>1 DEF BeginCreate, ServerInv
  <2>3. /\ s.newFd = NoInode /\ s.fd = NoInode /\ s.source = "none"
        /\ s.cancel = "no" /\ ~s.early
    BY <2>2 DEF Down
  <2> HIDE DEF t
  <2>4. ServerInv(t)
    BY <2>1, <2>3 DEF ServerInv
  <2> QED
    BY <1>f, <2>1, <2>2, <2>4, SetKeepsInv DEF Quiet
<1>2. CASE BindUnlink(p)
  <2> DEFINE t == [s EXCEPT !.bind = "socket"]
  <2>1. t \in Server /\ ServerInv(t)
    BY <1>0, <1>2 DEF BindUnlink, Server, ServerInv, Down
  <2>2. lockState[p] = "held" /\ Set(p, t) /\ UNCHANGED <<lockVars, faults>> /\ sockFile' = NoInode
    BY <1>2, BusyOwnsLock DEF BindUnlink
  <2> HIDE DEF t
  <2> QED
    BY <1>f, <2>1, <2>2, SetKeepsInv
<1>3. CASE BindSocket(p)
  <2>1. PICK i \in SockInodes : sockFile' = i /\ Set(p, [s EXCEPT !.bind = "stat", !.newFd = i])
    BY <1>3 DEF BindSocket
  <2> DEFINE t == [s EXCEPT !.bind = "stat", !.newFd = i]
  <2>2. /\ t \in Server /\ t.stage = s.stage /\ t.bind = "stat" /\ t.newFd = i
        /\ t.fd = s.fd /\ t.source = s.source /\ t.cancel = s.cancel
        /\ t.snapshot = s.snapshot /\ t.early = s.early
    BY <1>0 DEF Server
  <2>3. /\ s.bind = "socket" /\ s.stage # "down" /\ lockState[p] = "held"
        /\ Set(p, t) /\ UNCHANGED <<lockVars, faults>>
    BY <1>3, <2>1, BusyOwnsLock DEF BindSocket
  <2> HIDE DEF t
  <2>4. ServerInv(t)
    BY <1>0, <2>2, <2>3 DEF ServerInv
  <2> QED
    BY <1>f, <2>1, <2>2, <2>3, <2>4, SetKeepsInv
<1>4. CASE BindStat(p)
  <2> DEFINE t == [s EXCEPT !.bind = "listen", !.newId = sockFile]
  <2>1. /\ t \in Server /\ t.stage = s.stage /\ t.bind = "listen" /\ t.newFd = s.newFd
        /\ t.fd = s.fd /\ t.source = s.source /\ t.cancel = s.cancel
        /\ t.snapshot = s.snapshot /\ t.early = s.early
    BY <1>0, <1>f DEF Server
  <2>2. s.bind = "stat" /\ s.stage # "down" /\ lockState[p] = "held" /\ Set(p, t) /\ Quiet
    BY <1>4, BusyOwnsLock DEF BindStat
  <2> HIDE DEF t
  <2>3. ServerInv(t)
    BY <1>0, <2>1, <2>2 DEF ServerInv
  <2> QED
    BY <1>f, <2>1, <2>2, <2>3, SetKeepsInv DEF Quiet
<1>5. CASE BindListen(p)
  <2> DEFINE t == [s EXCEPT !.stage = "serving", !.bind = "idle",
                            !.fd = s.newFd, !.id = s.newId,
                            !.newFd = NoInode, !.newId = NoInode,
                            !.rebind = FALSE, !.source = "live"]
  <2>1. /\ t \in Server /\ t.stage = "serving" /\ t.bind = "idle" /\ t.newFd = NoInode
        /\ t.fd = s.newFd /\ t.source = "live" /\ t.cancel = s.cancel /\ t.early = s.early
    BY <1>0, ZenonT(60) DEF Server, Stages
  <2>2. s.newFd # NoInode /\ s.cancel = "no" /\ ~s.early
    BY <1>0, <1>5 DEF BindListen, ServerInv, Server
  <2>3. lockState[p] = "held" /\ Set(p, t) /\ Quiet
    BY <1>5, BusyOwnsLock DEF BindListen
  <2> HIDE DEF t
  <2>4. ServerInv(t)
    BY <2>1, <2>2 DEF ServerInv
  <2> QED
    BY <1>f, <2>1, <2>3, <2>4, SetKeepsInv DEF Quiet
<1>6. CASE BindFails(p)
  <2> DEFINE t == [s EXCEPT !.stage = IF s.stage = "create" THEN "closed" ELSE s.stage,
                            !.bind = "idle", !.newFd = NoInode, !.newId = NoInode]
  <2>1. /\ t \in Server /\ t.stage = (IF s.stage = "create" THEN "closed" ELSE s.stage)
        /\ t.bind = "idle" /\ t.newFd = NoInode /\ t.fd = s.fd /\ t.source = s.source
        /\ t.cancel = s.cancel /\ t.snapshot = s.snapshot /\ t.early = s.early
    BY <1>0, ZenonT(60) DEF Server, Stages
  <2>2. s.bind # "idle" /\ Set(p, t) /\ UNCHANGED <<lockVars, sockFile>>
        /\ (Fault \/ UNCHANGED faults)
    BY <1>6 DEF BindFails
  <2>3. s.stage # "down" /\ lockState[p] = "held"
    BY <2>2, BusyOwnsLock
  <2> HIDE DEF t
  <2>4. ServerInv(t)
    BY <1>0, <2>1, <2>2, <2>3 DEF ServerInv
  <2> QED
    BY <1>f, <2>1, <2>2, <2>3, <2>4, SetKeepsInv, FaultBound
<1> QED
  BY <1>1, <1>2, <1>3, <1>4, <1>5, <1>6 DEF BindStep

\* pauseAccepting() and resumeAccepting() touch the source and its timer only.
LEMMA PausedInv ==
  ASSUME NEW s \in Server, ServerInv(s), s.stage = "serving", s.bind = "idle"
  PROVE  /\ Paused(s) \in Server /\ ServerInv(Paused(s))
         /\ Paused(s).stage = "serving" /\ Paused(s).bind = "idle"
<1> DEFINE t == [s EXCEPT !.source = "suspended", !.retry = TRUE]
<1>1. /\ t \in Server /\ t.stage = s.stage /\ t.bind = s.bind /\ t.newFd = s.newFd
      /\ t.fd = s.fd /\ t.source = "suspended" /\ t.cancel = s.cancel
      /\ t.snapshot = s.snapshot /\ t.early = s.early
  BY DEF Server
<1>2. CASE s.source = "live"
  <2>1. Paused(s) = t
    BY <1>2 DEF Paused
  <2> HIDE DEF t
  <2>2. ServerInv(t)
    BY <1>1, <1>2 DEF ServerInv
  <2> QED
    BY <1>1, <2>1, <2>2
<1>3. CASE s.source # "live"
  BY <1>3 DEF Paused
<1> QED
  BY <1>2, <1>3

\* The guard tick, accepting, the pause, its end and the cancel handler.
LEMMA HandlerKeepsInv ==
  ASSUME IInv, NEW p \in Procs,
         \/ PathGuardTick(p) \/ AcceptReady(p) \/ AcceptOutOfFds(p)
         \/ RetryTimer(p) \/ CancelHandler(p)
  PROVE  IInv'
<1> DEFINE s == srv[p]
<1>0. s \in Server /\ ServerInv(s)
  BY DEF IInv, TypeOK, ServersConsistent
<1>f. sockFile \in SockRef /\ faults \in 0..MaxFaults /\ TypeOK
  BY DEF IInv, TypeOK
<1>1. CASE PathGuardTick(p) \/ AcceptReady(p)
  <2>1. LoopIdle(p) /\ Set(p, CheckedPath(s)) /\ Quiet
    BY <1>1 DEF PathGuardTick, AcceptReady
  <2>2. s.stage = "serving" /\ s.bind = "idle"
    BY <2>1 DEF LoopIdle
  <2>3. CheckedPath(s) \in Server /\ ServerInv(CheckedPath(s)) /\ lockState[p] = "held"
    BY <1>0, <2>2, CheckedPathInv, BusyOwnsLock
  <2> QED
    BY <1>f, <2>1, <2>3, SetKeepsInv DEF Quiet
<1>2. CASE AcceptOutOfFds(p)
  <2> DEFINE t == CheckedPath(Paused(s))
  <2>1. LoopIdle(p) /\ Set(p, t) /\ Fault /\ UNCHANGED <<lockVars, sockFile>>
    BY <1>2 DEF AcceptOutOfFds
  <2>2. s.stage = "serving" /\ s.bind = "idle"
    BY <2>1 DEF LoopIdle
  <2>3. t \in Server /\ ServerInv(t) /\ lockState[p] = "held"
    BY <1>0, <2>2, PausedInv, CheckedPathInv, BusyOwnsLock
  <2> HIDE DEF t
  <2> QED
    BY <1>f, <2>1, <2>3, SetKeepsInv, FaultBound
<1>3. CASE RetryTimer(p)
  <2> DEFINE t == [s EXCEPT !.retry = FALSE]
             u == [t EXCEPT !.source = IF t.source = "suspended" THEN "live" ELSE t.source]
  <2>1. LoopIdle(p) /\ Set(p, u) /\ Quiet
    BY <1>3 DEF RetryTimer, Resumed
  <2>2. /\ u \in Server /\ u.stage = s.stage /\ u.bind = s.bind /\ u.newFd = s.newFd
        /\ u.fd = s.fd /\ (u.source = "none" <=> s.source = "none") /\ u.cancel = s.cancel
        /\ u.snapshot = s.snapshot /\ u.early = s.early
    BY <1>0, ZenonT(60) DEF Server
  <2>3. s.stage = "serving" /\ lockState[p] = "held"
    BY <2>1, BusyOwnsLock DEF LoopIdle
  <2> HIDE DEF t, u
  <2>4. ServerInv(u)
    BY <1>0, <2>2, <2>3 DEF ServerInv
  <2> QED
    BY <1>f, <2>1, <2>2, <2>3, <2>4, SetKeepsInv DEF Quiet
<1>4. CASE CancelHandler(p)
  <2> DEFINE t == [s EXCEPT !.cancel = "no", !.snapshot = NoInode, !.fd = NoInode,
                            !.early = s.early \/ s.snapshot = NoInode \/ s.snapshot # s.fd]
             u == [t EXCEPT !.id = NoInode, !.bind = IF t.rebind THEN "unlink" ELSE "idle"]
  <2>1. s.bind = "idle" /\ s.cancel = "due" /\ Quiet
        /\ Set(p, IF t.stage = "stopping" THEN t ELSE u)
    BY <1>4 DEF CancelHandler
  <2>2. s.stage # "down" /\ lockState[p] = "held"
    BY <2>1, BusyOwnsLock
  <2>3. s.snapshot = s.fd /\ s.fd # NoInode /\ ~s.early /\ s.source = "none"
        /\ s.stage \in {"serving", "stopping"} /\ s.newFd = NoInode
    BY <1>0, <2>1, <2>2 DEF ServerInv, Server, Stages
  <2>4. /\ t \in Server /\ t.stage = s.stage /\ t.bind = "idle" /\ t.newFd = s.newFd
        /\ t.fd = NoInode /\ t.source = s.source /\ t.cancel = "no" /\ ~t.early
    BY <1>0, <2>1, <2>3, ZenonT(60) DEF Server
  <2> HIDE DEF t
  <2>5. /\ u \in Server /\ u.stage = s.stage /\ u.newFd = s.newFd
        /\ u.bind \in {"idle", "unlink"}
        /\ u.fd = NoInode /\ u.source = s.source /\ u.cancel = "no" /\ ~u.early
    BY <2>4, ZenonT(60) DEF Server
  <2> HIDE DEF u
  <2>6. CASE s.stage = "stopping"
    <3>1. ServerInv(t)
      BY <2>3, <2>4, <2>6 DEF ServerInv
    <3> QED
      BY <1>f, <2>1, <2>2, <2>4, <2>6, <3>1, SetKeepsInv DEF Quiet
  <2>7. CASE s.stage = "serving"
    <3>1. ServerInv(u)
      BY <2>3, <2>5, <2>7 DEF ServerInv
    <3> QED
      BY <1>f, <2>1, <2>2, <2>4, <2>5, <2>7, <3>1, SetKeepsInv DEF Quiet
  <2> QED
    BY <2>3, <2>6, <2>7
<1> QED
  BY <1>1, <1>2, <1>3, <1>4

\* A step of the lock by p that leaves p's server object down keeps the rest.
LEMMA DownLeaves ==
  ASSUME IInv, NEW p \in Procs, LockIInv', Set(p, Down),
         lockState' = [lockState EXCEPT ![p] = lockState'[p]],
         sockFile' \in SockRef, faults' \in 0..MaxFaults
  PROVE  IInv'
<1> USE DEF IInv, TypeOK, Set, LockIInv
<1>1. Down \in Server /\ ServerInv(Down) /\ Down.stage = "down"
  BY DEF Down, Server, Stages, ServerInv
<1> HIDE DEF Down
<1>2. TypeOK' /\ ServersConsistent'
  BY <1>1 DEF ServersConsistent
<1>3. ServersOwnLock'
  BY <1>1 DEF ServersOwnLock, LockTypeOK
<1> QED
  BY <1>2, <1>3

\* The destructor, and the lock that is released last.
LEMMA TeardownKeepsInv ==
  ASSUME IInv, NEW p \in Procs, Stop(p) \/ TeardownStep(p)
  PROVE  IInv'
<1> DEFINE s == srv[p]
<1>0. s \in Server /\ ServerInv(s)
  BY DEF IInv, TypeOK, ServersConsistent
<1>f. sockFile \in SockRef /\ faults \in 0..MaxFaults /\ TypeOK
  BY DEF IInv, TypeOK
<1>1. CASE Stop(p)
  <2> DEFINE t == [s EXCEPT !.stage = "stopping", !.retry = FALSE]
             u == [t EXCEPT !.snapshot = t.fd, !.source = "none", !.cancel = "due"]
  <2>1. LoopIdle(p) /\ Quiet /\ Set(p, IF t.source = "none" THEN t ELSE CancelledAccept(t))
    BY <1>1 DEF Stop
  <2>2. s.stage = "serving" /\ s.bind = "idle" /\ lockState[p] = "held"
    BY <2>1, BusyOwnsLock DEF LoopIdle
  <2>3. /\ t \in Server /\ t.stage = "stopping" /\ t.bind = s.bind /\ t.newFd = s.newFd
        /\ t.fd = s.fd /\ t.source = s.source /\ t.cancel = s.cancel
        /\ t.snapshot = s.snapshot /\ t.early = s.early
    BY <1>0 DEF Server, Stages
  <2> HIDE DEF t
  <2>4. /\ u \in Server /\ u.stage = "stopping" /\ u.bind = s.bind /\ u.newFd = s.newFd
        /\ u.fd = s.fd /\ u.source = "none" /\ u.cancel = "due"
        /\ u.snapshot = s.fd /\ u.early = s.early
    BY <2>3, ZenonT(60) DEF Server
  <2>5. t.source # "none" => CancelledAccept(t) = u
    BY <2>3, CancelledAcceptInv
  <2> HIDE DEF u
  <2>6. CASE s.source = "none"
    <3>1. ServerInv(t)
      BY <1>0, <2>2, <2>3, <2>6 DEF ServerInv
    <3> QED
      BY <1>f, <2>1, <2>2, <2>3, <2>6, <3>1, SetKeepsInv DEF Quiet
  <2>7. CASE s.source # "none"
    <3>1. ServerInv(u)
      BY <1>0, <2>2, <2>4, <2>7 DEF ServerInv
    <3> QED
      BY <1>f, <2>1, <2>2, <2>3, <2>4, <2>5, <2>7, <3>1, SetKeepsInv DEF Quiet
  <2> QED
    BY <2>6, <2>7
<1>2. CASE TeardownCheck(p) \/ TeardownUnlink(p)
  <2>1. PICK g \in {"unlinking", "closed"} : Set(p, [s EXCEPT !.stage = g])
    BY <1>2 DEF TeardownCheck, TeardownUnlink
  <2> DEFINE t == [s EXCEPT !.stage = g]
  <2>2. s.stage \in {"stopping", "unlinking"} /\ s.cancel = "no"
    BY <1>0, <1>2 DEF TeardownCheck, TeardownUnlink, ServerInv
  <2>3. /\ t \in Server /\ t.stage = g /\ t.bind = s.bind /\ t.newFd = s.newFd
        /\ t.fd = s.fd /\ t.source = s.source /\ t.cancel = s.cancel
        /\ t.snapshot = s.snapshot /\ t.early = s.early
    BY <1>0 DEF Server, Stages
  <2>4. Set(p, t) /\ UNCHANGED <<lockVars, faults>> /\ sockFile' \in SockRef
    BY <1>2, <1>f, <2>1 DEF TeardownCheck, TeardownUnlink, Quiet
  <2>5. lockState[p] = "held"
    BY <2>2, BusyOwnsLock
  <2> HIDE DEF t
  <2>6. ServerInv(t)
    BY <1>0, <2>2, <2>3 DEF ServerInv
  <2> QED
    BY <1>f, <2>3, <2>4, <2>5, <2>6, SetKeepsInv
<1>3. CASE LockReleased(p)
  <2>1. Release(p) /\ Set(p, Down) /\ UNCHANGED <<sockFile, faults>>
    BY <1>3 DEF LockReleased
  <2>2. LockIInv'
    BY <2>1, ReleaseKeepsInv DEF IInv, TypeOK, LockIInv
  <2>3. lockState' = [lockState EXCEPT ![p] = lockState'[p]]
    BY <2>1 DEF Release, GoTo, IInv, TypeOK, LockTypeOK
  <2> QED
    BY <1>f, <2>1, <2>2, <2>3, DownLeaves
<1> QED
  BY <1>1, <1>2, <1>3 DEF TeardownStep

\* The lock's own steps happen while the process has no server object.
LEMMA LockKeepsInv ==
  ASSUME IInv, NEW p \in Procs, LockStep(p), UNCHANGED sockVars
  PROVE  IInv'
<1>1. LockIInv'
  BY AcquireKeepsInv, ReleaseKeepsInv DEF LockStep, IInv, TypeOK, LockIInv
<1>2. TypeOK' /\ ServersConsistent'
  BY <1>1 DEF IInv, TypeOK, LockIInv, ServersConsistent, sockVars
<1>3. lockState[p] # "held" /\ lockState' = [lockState EXCEPT ![p] = lockState'[p]]
  BY DEF LockStep, Start, AcquireStep, Open, AcquireFails, FlockGranted, FlockRefused,
         Verify, Retry, ReleaseStep, ReleaseCheck, ReleaseUnlink, ReleaseClose,
         ExitRefused, GoTo, IInv, TypeOK, LockTypeOK
<1>4. ServersOwnLock'
  BY <1>3 DEF ServersOwnLock, IInv, TypeOK, LockTypeOK, sockVars
<1> QED
  BY <1>1, <1>2, <1>4 DEF IInv, LockIInv

\* A process dies, or an outsider touches the socket file.
LEMMA FaultKeepsInv ==
  ASSUME IInv, Outsider \/ \E p \in Procs : ProcessCrash(p)
  PROVE  IInv'
<1>1. sockFile' \in SockRef /\ faults' \in 0..MaxFaults
  BY FaultBound DEF Outsider, ProcessCrash, IInv, TypeOK
<1>2. CASE Outsider
  <2>1. UNCHANGED lockVars /\ srv' = srv
    BY <1>2 DEF Outsider
  <2>2. LockIInv'
    BY <2>1, LockStutterInv DEF IInv, TypeOK, LockIInv
  <2> QED
    BY <1>1, <2>1, <2>2 DEF IInv, TypeOK, LockIInv, ServersConsistent, ServersOwnLock, lockVars
<1>3. ASSUME NEW p \in Procs, ProcessCrash(p) PROVE IInv'
  <2>1. Crash(p) /\ Set(p, Down)
    BY <1>3 DEF ProcessCrash
  <2>2. LockIInv'
    BY <2>1, ReleaseKeepsInv DEF IInv, TypeOK, LockIInv
  <2>3. lockState' = [lockState EXCEPT ![p] = lockState'[p]]
    BY <2>1 DEF Crash, GoTo, IInv, TypeOK, LockTypeOK
  <2> QED
    BY <1>1, <2>1, <2>2, <2>3, DownLeaves
<1> QED
  BY <1>2, <1>3

LEMMA ListenerNext == IInv /\ [Next]_vars => IInv'
<1> SUFFICES ASSUME IInv, [Next]_vars PROVE IInv'
  OBVIOUS
<1>1. CASE UNCHANGED vars
  <2>1. UNCHANGED <<lockVars, sockFile, srv, faults>>
    BY <1>1 DEF vars, sockVars
  <2>2. LockIInv'
    BY <2>1, LockStutterInv DEF IInv, TypeOK, LockIInv
  <2> QED
    BY <2>1, <2>2 DEF IInv, TypeOK, LockIInv, ServersConsistent, ServersOwnLock, lockVars
<1>2. CASE Next
  BY <1>2, LockKeepsInv, BindKeepsInv, HandlerKeepsInv, TeardownKeepsInv, FaultKeepsInv DEF Next
<1> QED
  BY <1>1, <1>2

\* The inductive invariant holds in every reachable state: types, consistent
\* server objects, and a lock behind each of them.
THEOREM ListenerInvariant == Spec => []IInv
  BY ListenerInit, ListenerNext, PTL DEF Spec

LEMMA InvImpliesOneListener ==
  ASSUME IInv
  PROVE  OneListener
<1> SUFFICES ASSUME NEW p \in Procs, NEW q \in Procs, Listening(p) # {}, Listening(q) # {}
             PROVE  p = q
  BY DEF OneListener
<1>1. srv[p].stage # "down" /\ srv[q].stage # "down"
  BY DEF IInv, ServersConsistent, ServerInv, Down, Listening
<1>2. p \in Holders /\ q \in Holders
  BY <1>1 DEF IInv, ServersOwnLock, Holders
<1> QED
  BY <1>2, InvImpliesMutex DEF IInv, TypeOK, LockIInv, MutualExclusion

\* At most one process listens on the path, whatever crashes and whoever
\* tampers with the socket file.
THEOREM ListenerUnique == Spec => []OneListener
  BY ListenerInvariant, InvImpliesOneListener, PTL

\* The listen descriptor is closed by the cancel handler of its source and
\* nowhere else ("must stay 0").
THEOREM ListenerClosedInHandler == Spec => []ClosedOnlyInHandler
<1>1. IInv => ClosedOnlyInHandler
  BY SMTT(30) DEF IInv, ServersConsistent, ServerInv, ClosedOnlyInHandler
<1> QED
  BY <1>1, ListenerInvariant, PTL

\* The steps that empty the path: whoever takes one has no listener, and being
\* the lock's owner, is the only one who could.
LEMMA PathStep ==
  ASSUME IInv, [Next]_vars, ~Outsider, NEW q \in Procs, sockFile \in Listening(q)
  PROVE  sockFile' = sockFile
<1>0. sockFile # NoInode /\ Listening(q) # {}
  BY DEF Listening
<1>1. ASSUME NEW p \in Procs, BindUnlink(p) \/ TeardownUnlink(p) PROVE FALSE
  <2>1. srv[p].stage # "down"
    BY <1>1, BusyOwnsLock DEF BindUnlink, TeardownUnlink
  <2>2. srv[p].fd = NoInode /\ srv[p].newFd = NoInode
    BY <1>1 DEF BindUnlink, TeardownUnlink, IInv, ServersConsistent, ServerInv
  <2>3. p # q /\ srv[q].stage # "down"
    BY <1>0, <2>2 DEF Listening, IInv, ServersConsistent, ServerInv, Down
  <2>4. p \in Holders /\ q \in Holders
    BY <2>1, <2>3 DEF IInv, ServersOwnLock, Holders
  <2> QED
    BY <2>3, <2>4, InvImpliesMutex DEF IInv, TypeOK, LockIInv, MutualExclusion
<1>2. ASSUME NEW p \in Procs, BindSocket(p) PROVE FALSE
  BY <1>0, <1>2 DEF BindSocket
<1> QED
  BY <1>1, <1>2 DEF Next, vars, sockVars, Quiet, BeginCreate, BindStep, BindStat, BindListen,
       BindFails, PathGuardTick, AcceptReady, AcceptOutOfFds, RetryTimer, CancelHandler, Stop,
       TeardownStep, TeardownCheck, LockReleased, ProcessCrash

\* No process of ours removes a socket file that has a live listener.
THEOREM ListenerPathKept == Spec => ServedPathKept
<1>1. IInv /\ [Next]_vars =>
        [Outsider \/ \A q \in Procs : sockFile \in Listening(q) => sockFile' = sockFile]_vars
  BY PathStep
<1> QED
  BY <1>1, ListenerInvariant, PTL DEF Spec, ServedPathKept
=============================================================================
