---------------------------- MODULE SocketListener ----------------------------
(***************************************************************************)
(* The listening half of a socket server: create(), the replaced-path      *)
(* guard, the pause when descriptors run out, and the destructor           *)
(* (agent/src/backend/SocketTransport.cpp; prompter/PrompterServer.cpp has *)
(* the same code without the pause).  Several processes start, serve, stop *)
(* and crash on one socket path, each behind its SingleInstanceLock, while *)
(* an outsider that takes no lock removes or replaces the socket file.     *)
(*                                                                         *)
(* Inside one process every handler runs on one serial dispatch queue, so  *)
(* a handler is one step, except that bindContainerSocket() is one step    *)
(* per system call: other processes act on the path between them, and no   *)
(* other handler of the same process runs meanwhile (s.bind # "idle").     *)
(***************************************************************************)
EXTENDS SingleInstanceLock

CONSTANTS
    SockInodes,         \* the inode numbers a bind() may give the socket file
    MaxFaults           \* bound on outsider acts, bind failures, pauses, crashes

ASSUME SockAssumption == NoInode \notin SockInodes
ASSUME FaultsAssumption == MaxFaults \in Nat

VARIABLES
    sockFile,           \* the inode the socket path names, or NoInode
    srv,                \* srv[p]: the state of p's server object
    faults              \* faults spent

sockVars == <<sockFile, srv, faults>>
vars == <<lockVars, sockVars>>

(***************************************************************************)
(* A server object.  A listening descriptor is named by the inode its      *)
(* bind() created, so fd = sockFile says that clients reach this listener. *)
(*                                                                         *)
(*   stage     down, create, serving, stopping (destructor), unlinking,    *)
(*             closed (only the lock is left to release)                   *)
(*   bind      the next system call of bindContainerSocket(), or idle      *)
(*   newFd     its descriptor, newId the identity it read                  *)
(*   fd, id    m_listenFd and m_listenIdentity                             *)
(*   source    m_acceptSource; suspended stands for m_acceptPaused too     *)
(*   cancel    a cancelled source's handler: no, due, or stuck, which is   *)
(*             what cancelling a suspended source comes to                 *)
(*   snapshot  m_cancelledListener                                         *)
(*   rebind    m_rebindPending                                             *)
(*   retry     m_acceptRetryTimer is armed                                 *)
(*   early     m_closedListenFdAtCancel is not zero                        *)
(***************************************************************************)
Stages == {"down", "create", "serving", "stopping", "unlinking", "closed"}

SockRef == SockInodes \cup {NoInode}

Server == [stage : Stages,
           bind : {"idle", "unlink", "socket", "stat", "listen"},
           newFd : SockRef, newId : SockRef,
           fd : SockRef, id : SockRef,
           source : {"none", "live", "suspended"},
           cancel : {"no", "due", "stuck"},
           snapshot : SockRef,
           rebind : BOOLEAN, retry : BOOLEAN, early : BOOLEAN]

Down == [stage |-> "down", bind |-> "idle", newFd |-> NoInode, newId |-> NoInode,
         fd |-> NoInode, id |-> NoInode, source |-> "none", cancel |-> "no",
         snapshot |-> NoInode, rebind |-> FALSE, retry |-> FALSE, early |-> FALSE]

\* The values every variable ranges over.
TypeOK ==
    /\ LockTypeOK
    /\ sockFile \in SockRef
    /\ srv \in [Procs -> Server]
    /\ faults \in 0..MaxFaults

Init ==
    /\ LockInit
    /\ sockFile = NoInode
    /\ srv = [p \in Procs |-> Down]
    /\ faults = 0

(***************************************************************************)
(* Helpers on one server object.                                           *)
(***************************************************************************)

\* A bound socket keeps its inode alive, as the path does.
SockInUse == {sockFile} \cup {srv[p].fd : p \in Procs} \cup {srv[p].newFd : p \in Procs}

\* SocketPathIdentity::stillNames.
StillNames(s) == s.id # NoInode /\ s.id = sockFile

\* Mutant: suspend without a timer to resume.
PausedForGood(s) == IF s.source = "live" THEN [s EXCEPT !.source = "suspended"] ELSE s

\* pauseAccepting(): suspend the source and arm the one-shot retry timer.
Paused(s) ==
    IF s.source = "live" THEN [s EXCEPT !.source = "suspended", !.retry = TRUE] ELSE s

\* resumeAccepting().
Resumed(s) == [s EXCEPT !.source = IF @ = "suspended" THEN "live" ELSE @]

\* Mutant: cancel the source without resuming it first.
CancelledSuspended(s) ==
    [s EXCEPT !.snapshot = s.fd, !.source = "none",
              !.cancel = IF s.source = "suspended" THEN "stuck" ELSE "due"]

\* cancelAcceptSource(): resume, note the listener, cancel and release.
CancelledAccept(s) ==
    LET r == Resumed(s) IN
    [r EXCEPT !.snapshot = r.fd, !.source = "none",
              !.cancel = IF r.source = "suspended" THEN "stuck" ELSE "due"]

\* Mutant: close the listener at once instead of in the cancel handler.
CheckedPathClosingEarly(s) ==
    IF s.source = "none" \/ StillNames(s) \/ s.rebind THEN s
    ELSE [CancelledAccept([s EXCEPT !.rebind = TRUE]) EXCEPT !.fd = NoInode]

\* Mutant: a failed re-bind is not tried again.
CheckedPathNoRetry(s) ==
    IF s.rebind \/ s.source = "none" \/ StillNames(s) THEN s
    ELSE CancelledAccept([s EXCEPT !.rebind = TRUE])

\* checkSocketPath(); bind = "unlink" stands for entering rebindListenSocket().
CheckedPath(s) ==
    CASE s.rebind /\ s.fd = NoInode -> [s EXCEPT !.bind = "unlink"]
      [] s.rebind /\ s.fd # NoInode -> s
      [] ~s.rebind /\ (s.source = "none" \/ StillNames(s)) -> s
      [] OTHER -> CancelledAccept([s EXCEPT !.rebind = TRUE])

(***************************************************************************)
(* Step shapes.                                                            *)
(***************************************************************************)
Set(p, s) == srv' = [srv EXCEPT ![p] = s]

Fault == faults < MaxFaults /\ faults' = faults + 1

\* A handler on p's queue that leaves the path and the lock alone.
LoopIdle(p) == srv[p].stage = "serving" /\ srv[p].bind = "idle"
Quiet == UNCHANGED <<lockVars, sockFile, faults>>

(***************************************************************************)
(* bindContainerSocket(), from create() and from rebindListenSocket().     *)
(***************************************************************************)
BeginCreate(p) ==
    /\ lockState[p] = "held"
    /\ srv[p].stage = "down"
    /\ Set(p, [srv[p] EXCEPT !.stage = "create", !.bind = "unlink"])
    /\ Quiet

BindUnlink(p) ==
    /\ srv[p].bind = "unlink"
    /\ sockFile' = NoInode
    /\ Set(p, [srv[p] EXCEPT !.bind = "socket"])
    /\ UNCHANGED <<lockVars, faults>>

BindSocket(p) ==
    /\ srv[p].bind = "socket"
    /\ sockFile = NoInode
    /\ \E i \in SockInodes \ SockInUse :
          /\ sockFile' = i
          /\ Set(p, [srv[p] EXCEPT !.bind = "stat", !.newFd = i])
    /\ UNCHANGED <<lockVars, faults>>

\* SocketPathIdentity::of(path): whatever socket the path names by now.
BindStat(p) ==
    /\ srv[p].bind = "stat"
    /\ sockFile # NoInode
    /\ Set(p, [srv[p] EXCEPT !.bind = "listen", !.newId = sockFile])
    /\ Quiet

\* listen() succeeds: the server adopts descriptor and identity and installs
\* an accept source.
BindListen(p) ==
    /\ srv[p].bind = "listen"
    /\ Set(p, [srv[p] EXCEPT !.stage = "serving", !.bind = "idle",
                             !.fd = srv[p].newFd, !.id = srv[p].newId,
                             !.newFd = NoInode, !.newId = NoInode,
                             !.rebind = FALSE, !.source = "live"])
    /\ Quiet

\* A system call of the bind fails: because an outsider's file is in the way
\* (bind, stat), which is nobody's new fault, or for a reason of its own.
\* create() gives up; a re-bind leaves rebind set for the next guard tick.
BindFails(p) ==
    /\ srv[p].bind \in {"socket", "stat", "listen"}
    /\ \/ srv[p].bind = "socket" /\ sockFile # NoInode /\ UNCHANGED faults
       \/ srv[p].bind = "stat" /\ sockFile = NoInode /\ UNCHANGED faults
       \/ Fault
    /\ Set(p, [srv[p] EXCEPT !.stage = IF @ = "create" THEN "closed" ELSE @,
                             !.bind = "idle", !.newFd = NoInode, !.newId = NoInode])
    /\ UNCHANGED <<lockVars, sockFile>>

(***************************************************************************)
(* Handlers of a serving process.                                          *)
(***************************************************************************)
PathGuardTick(p) ==
    /\ LoopIdle(p)
    /\ Set(p, CheckedPath(srv[p]))
    /\ Quiet

\* onAcceptReady(): accept until drained; every accept looks at the path.
AcceptReady(p) ==
    /\ LoopIdle(p)
    /\ srv[p].source = "live"
    /\ Set(p, CheckedPath(srv[p]))
    /\ Quiet

\* onAcceptReady() runs out of descriptors.
AcceptOutOfFds(p) ==
    /\ LoopIdle(p)
    /\ srv[p].source = "live"
    /\ Set(p, CheckedPath(Paused(srv[p])))
    /\ Fault
    /\ UNCHANGED <<lockVars, sockFile>>

RetryTimer(p) ==
    /\ LoopIdle(p)
    /\ srv[p].retry
    /\ Set(p, Resumed([srv[p] EXCEPT !.retry = FALSE]))
    /\ Quiet

\* onAcceptSourceCancelled(): the one place where the listener is closed.
CancelHandler(p) ==
    /\ srv[p].bind = "idle"
    /\ srv[p].cancel = "due"
    /\ LET s == [srv[p] EXCEPT !.cancel = "no", !.snapshot = NoInode, !.fd = NoInode,
                               !.early = @ \/ srv[p].snapshot = NoInode
                                           \/ srv[p].snapshot # srv[p].fd]
       IN  Set(p, IF s.stage = "stopping" THEN s
                  ELSE [s EXCEPT !.id = NoInode,
                                 !.bind = IF s.rebind THEN "unlink" ELSE "idle"])
    /\ Quiet

(***************************************************************************)
(* ~SocketTransport.                                                       *)
(***************************************************************************)

\* The block the destructor runs on the queue.
Stop(p) ==
    /\ LoopIdle(p)
    /\ LET s == [srv[p] EXCEPT !.stage = "stopping", !.retry = FALSE]
       IN  Set(p, IF s.source = "none" THEN s ELSE CancelledAccept(s))
    /\ Quiet

\* dispatch_group_wait() has returned; is the path still ours?
TeardownCheck(p) ==
    /\ srv[p].stage = "stopping"
    /\ srv[p].cancel = "no"
    /\ Set(p, [srv[p] EXCEPT !.stage = IF StillNames(srv[p]) THEN "unlinking" ELSE "closed"])
    /\ Quiet

TeardownUnlink(p) ==
    /\ srv[p].stage = "unlinking"
    /\ sockFile' = NoInode
    /\ Set(p, [srv[p] EXCEPT !.stage = "closed"])
    /\ UNCHANGED <<lockVars, faults>>

\* Mutant: the lock member goes before the socket file does.
LockReleasedFirst(p) ==
    \/ /\ srv[p].stage = "unlinking"
       /\ Release(p)
       /\ UNCHANGED sockVars
    \/ /\ srv[p].stage = "closed"
       /\ lockState[p] # "held"
       /\ Set(p, Down)
       /\ Quiet

\* Members are destroyed after the body: now ~SingleInstanceLock runs.
LockReleased(p) ==
    /\ srv[p].stage = "closed"
    /\ Release(p)
    /\ Set(p, Down)
    /\ UNCHANGED <<sockFile, faults>>

(***************************************************************************)
(* The process dies: its descriptors close, both files stay.               *)
(***************************************************************************)
ProcessCrash(p) ==
    /\ Crash(p)
    /\ Set(p, Down)
    /\ Fault
    /\ UNCHANGED sockFile

\* Someone without the lock removes the socket file or binds their own.
Outsider ==
    /\ \/ sockFile' = NoInode /\ sockFile # NoInode
       \/ sockFile' \in SockInodes \ SockInUse
    /\ Fault
    /\ UNCHANGED <<lockVars, srv>>

LockStep(p) == Start(p) \/ AcquireStep(p) \/ ReleaseStep(p) \/ ExitRefused(p)

BindStep(p) == BindUnlink(p) \/ BindSocket(p) \/ BindStat(p) \/ BindListen(p) \/ BindFails(p)

TeardownStep(p) == TeardownCheck(p) \/ TeardownUnlink(p) \/ LockReleased(p)

Next ==
    \/ \E p \in Procs :
          \/ LockStep(p) /\ UNCHANGED sockVars
          \/ BeginCreate(p) \/ BindStep(p)
          \/ PathGuardTick(p) \/ AcceptReady(p) \/ AcceptOutOfFds(p)
          \/ RetryTimer(p) \/ CancelHandler(p)
          \/ Stop(p) \/ TeardownStep(p)
          \/ ProcessCrash(p)
    \/ Outsider

Spec == Init /\ [][Next]_vars

(***************************************************************************)
(* A serial queue runs what is on it: timers fire (they repeat, or are     *)
(* one-shot and stay due), a cancel handler is delivered, a call in        *)
(* progress goes on, and a destructor in progress finishes.  Starting and  *)
(* stopping are somebody's decision, accepting depends on clients.         *)
(***************************************************************************)
FairSpec ==
    /\ Spec
    /\ \A p \in Procs :
          /\ WF_vars(AcquireStep(p) /\ UNCHANGED sockVars)
          /\ WF_vars(ReleaseStep(p) /\ UNCHANGED sockVars)
          /\ WF_vars(BeginCreate(p))
          /\ WF_vars(BindStep(p))
          /\ WF_vars(PathGuardTick(p))
          /\ WF_vars(RetryTimer(p))
          /\ WF_vars(CancelHandler(p))
          /\ WF_vars(TeardownStep(p))

(***************************************************************************)
(* Properties.                                                             *)
(***************************************************************************)

\* The descriptors p listens on or is about to.
Listening(p) == {srv[p].fd, srv[p].newFd} \ {NoInode}

\* What a server object's fields have to do with each other; it makes the
\* properties below inductive.  A descriptor is open exactly while a source
\* watches it or a cancel handler is due, which then finds it; a bind finds
\* nothing left of the previous listener.
ServerInv(s) ==
    /\ s.stage = "down" => s = Down
    /\ s.stage = "create" => s.bind # "idle"
    /\ s.stage \in {"stopping", "unlinking", "closed"} => s.bind = "idle" /\ s.source = "none"
    /\ s.stage \in {"create", "unlinking", "closed"} => s.cancel = "no"
    /\ s.bind # "idle" => s.fd = NoInode
    /\ s.bind \in {"stat", "listen"} <=> s.newFd # NoInode
    /\ s.fd # NoInode <=> s.source # "none" \/ s.cancel = "due"
    /\ s.source # "none" => s.cancel = "no" /\ s.stage = "serving"
    /\ s.cancel # "stuck"
    /\ s.cancel = "due" => s.snapshot = s.fd
    /\ ~s.early
ServersConsistent == \A p \in Procs : ServerInv(srv[p])

\* Whoever has a server object owns the lock; so two instances never take the
\* path from each other on every guard tick (SingleInstanceLock.h).
ServersOwnLock == \A p \in Procs : srv[p].stage # "down" => lockState[p] = "held"

\* At most one of our processes has a listener on the path.
OneListener == \A p, q \in Procs : Listening(p) # {} /\ Listening(q) # {} => p = q

\* A socket file with an open listener of ours behind it is removed by no
\* process of ours: not by a starting instance's unlink of a stale file, not
\* by a re-bind, not by a predecessor's teardown that comes late.
ServedPathKept ==
    [][Outsider \/ \A q \in Procs : sockFile \in Listening(q) => sockFile' = sockFile]_vars

\* closedListenFdAtCancelForTest() "must stay 0": every cancel handler finds
\* the listener its source was cancelled on, still open.
ClosedOnlyInHandler == \A p \in Procs : ~srv[p].early

\* A destructor that has begun ends: dispatch_group_wait() does not wait for a
\* handler that will never be delivered, even if accepting was paused.
StopEnds == \A p \in Procs : srv[p].stage = "stopping" ~> srv[p].stage = "down"

\* A serving process whose socket file was replaced binds again, or stops.
\* (id = fd: it knows its own file; a file that replaced ours between bind()
\* and the stat that records the identity is never noticed.)
Reclaims ==
    \A p \in Procs :
        LoopIdle(p) /\ srv[p].id = srv[p].fd /\ sockFile # srv[p].fd
            ~> sockFile \in Listening(p) \/ srv[p].stage # "serving"

\* Running out of descriptors stops accepting only for a while.
AcceptingResumes ==
    \A p \in Procs : srv[p].source = "suspended" ~> srv[p].source # "suspended"
=============================================================================
