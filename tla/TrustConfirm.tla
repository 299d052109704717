----------------------------- MODULE TrustConfirm -----------------------------
(***************************************************************************)
(* Changes of the configuration (SetConfig, ResetConfig and                *)
(* ImportCscaMasterList) in agent/src/backend/SocketFrontend.cpp.  A plain *)
(* key is written at once; a trust key, and an import, go through a        *)
(* person: confirmThenApply().  The loop hands the question to a *)
(* concurrent worker queue, the worker blocks for as long as the person    *)
(* takes, and the answer comes back to the loop as a posted block.         *)
(* Meanwhile clients disconnect, and main() may tear the agent down:       *)
(* quiesce the loop, drain it, destroy the frontend, destroy the transport.*)
(*                                                                         *)
(* Threads: the loop (one block of its FIFO queue a step), one worker per  *)
(* confirmation (the guard mutex makes lock, check, post, unlock separate  *)
(* steps), the main thread, and the person.                                *)
(***************************************************************************)
EXTENDS Integers, Sequences

CONSTANTS
    Conns,              \* connections, one caller token each, never reused
    MaxJobs             \* bound: changes asked for in one behaviour

ASSUME JobsAssumption == MaxJobs \in Nat

VARIABLES
    life,               \* life[c]: the connection, in the transport's map
    inFlight,           \* m_confirmsInFlight
    job,                \* job[j]: a confirmation and the worker that carries it
    posted,             \* the loop's queue of posted blocks
    guard,              \* m_confirmGuard: who holds the mutex, and alive
    config,             \* the stored configuration, per tier: the change applied last
    read,               \* the imports whose descriptor has been read
    quiesced,           \* m_loopQuiesced
    teardown            \* how far main() is with the teardown

vars == <<life, inFlight, job, posted, guard, config, read, quiesced, teardown>>

Jobs == 1..MaxJobs
NoOne == 0              \* the mutex is free
MainThread == -1        \* ... or the frontend's destructor has it
Original == 0           \* no change applied yet

(***************************************************************************)
(* A job: "new"; "asking", the dialog stands; "answered", confirm() has    *)
(* returned; "locked", the worker has the guard; "posted", its block is on *)
(* the loop's queue; "done", answered to the client; "discarded".  A plain *)
(* change is "done" at once.  An import holds the descriptor of its list.  *)
(***************************************************************************)
Verbs == {"write", "import"}    \* SetConfig or ResetConfig; ImportCscaMasterList
Tiers == {"plain", "trust"}     \* DbusMutable, DbusMutableTrust
JobState == {"new", "asking", "answered", "locked", "posted", "done", "discarded"}
Job == [state : JobState, verb : Verbs, conn : Conns \cup {NoOne}, approved : BOOLEAN]
NoJob == [state |-> "new", verb |-> "write", conn |-> NoOne, approved |-> FALSE]

\* Posted blocks: a confirmation's continuation, a client's eviction.
Block == [what : {"continue"}, job : Jobs] \cup [what : {"evict"}, conn : Conns]
Continue(j) == [what |-> "continue", job |-> j]
Evict(c) == [what |-> "evict", conn |-> c]

Queued(b) == \E n \in 1..Len(posted) : posted[n] = b

Teardown == {"running", "quiesced", "drained", "frontendGone", "transportGone"}

FrontendAlive == teardown \in {"running", "quiesced", "drained"}
TransportAlive == teardown # "transportGone"

\* The values every variable ranges over.
TypeOK ==
    /\ life \in [Conns -> {"never", "open", "closed"}]
    /\ inFlight \subseteq Conns
    /\ job \in [Jobs -> Job]
    /\ posted \in Seq(Block)
    /\ guard \in [owner : Jobs \cup {NoOne, MainThread}, alive : BOOLEAN]
    /\ config \in [Tiers -> Jobs \cup {Original}]
    /\ read \subseteq Jobs
    /\ quiesced \in BOOLEAN
    /\ teardown \in Teardown

Init ==
    /\ life = [c \in Conns |-> "never"]
    /\ inFlight = {}
    /\ job = [j \in Jobs |-> NoJob]
    /\ posted = << >>
    /\ guard = [owner |-> NoOne, alive |-> TRUE]
    /\ config = [t \in Tiers |-> Original]
    /\ read = {}
    /\ quiesced = FALSE
    /\ teardown = "running"

(***************************************************************************)
(* On the loop.                                                            *)
(***************************************************************************)

\* acceptOne(): a connection with a caller token of its own.
Connect(c) ==
    /\ TransportAlive
    /\ life[c] = "never"
    /\ life' = [life EXCEPT ![c] = "open"]
    /\ UNCHANGED <<inFlight, job, posted, guard, config, read, quiesced, teardown>>

\* The configuration applyConfigWrite(), applyConfigReset() or an import leaves:
\* the store may refuse the value, the import its list.
Apply(t, j) == config' = [config EXCEPT ![t] = j] \/ UNCHANGED config

\* A request the sink gets, on a number of its own.
Arrives(c, j) ==
    /\ ~quiesced /\ TransportAlive
    /\ life[c] = "open"
    /\ job[j].state = "new" /\ \A i \in Jobs : i < j => job[i].state # "new"

\* SetConfig or ResetConfig of a plain key, once the key is known, may be
\* changed, and the caller is authorized.  Refusals change nothing.
WritePlain(c, j) ==
    /\ Arrives(c, j)
    /\ job' = [job EXCEPT ![j] = [NoJob EXCEPT !.state = "done", !.conn = c]]
    /\ Apply("plain", j)
    /\ UNCHANGED <<life, inFlight, posted, guard, read, quiesced, teardown>>

\* A change of a trust key, or an import, that passed authorization and the
\* rate limit, with a descriptor where one is needed and words that can be put
\* to a person; with a confirmation already waiting on this connection it is
\* refused too (RateLimited).
Request(c, j) ==
    /\ Arrives(c, j)
    /\ c \notin inFlight
    /\ inFlight' = inFlight \cup {c}
    /\ \E v \in Verbs :
          job' = [job EXCEPT ![j] = [NoJob EXCEPT !.state = "asking", !.verb = v, !.conn = c]]
    /\ UNCHANGED <<life, posted, guard, config, read, quiesced, teardown>>

\* closeConnection() and, unless the loop is quiesced, the third disconnect
\* handler: SocketFrontend::onClientDisconnected posts the eviction.
Disconnect(c) ==
    /\ TransportAlive
    /\ life[c] = "open"
    /\ life' = [life EXCEPT ![c] = "closed"]
    /\ posted' = IF quiesced THEN posted ELSE Append(posted, Evict(c))
    /\ UNCHANGED <<inFlight, job, guard, config, read, quiesced, teardown>>

\* A block whose turn has come after quiesceLoop() is dropped by post().
DropBlock ==
    /\ TransportAlive
    /\ posted # << >>
    /\ quiesced
    /\ posted' = Tail(posted)
    /\ job' = IF Head(posted).what = "continue"
              THEN [job EXCEPT ![Head(posted).job].state = "discarded"] ELSE job
    /\ UNCHANGED <<life, inFlight, guard, config, read, quiesced, teardown>>

\* Mutant: the eviction forgets the waiting confirmation.
RunEvictForgetful ==
    /\ TransportAlive
    /\ posted # << >> /\ ~quiesced
    /\ Head(posted).what = "evict"
    /\ posted' = Tail(posted)
    /\ UNCHANGED <<life, inFlight, job, guard, config, read, quiesced, teardown>>

RunEvict ==
    /\ TransportAlive
    /\ posted # << >> /\ ~quiesced
    /\ Head(posted).what = "evict"
    /\ posted' = Tail(posted)
    /\ inFlight' = inFlight \ {Head(posted).conn}
    /\ UNCHANGED <<life, job, guard, config, read, quiesced, teardown>>

\* Mutant: the list is read before the answer is looked at.
ApplyAnswerReadingFirst(j) ==
    /\ read' = IF job[j].verb = "import" THEN read \cup {j} ELSE read
    /\ IF job[j].approved THEN Apply("trust", j) ELSE UNCHANGED config

\* What the continuation does about the answer: nothing for a refusal, and for
\* an approval apply(), which for an import reads the descriptor first (and may
\* find it no regular file, too large or unreadable).
ApplyAnswer(j) ==
    IF job[j].approved
    THEN /\ Apply("trust", j)
         /\ read' = IF job[j].verb = "import" THEN read \cup {j} ELSE read
    ELSE UNCHANGED <<config, read>>

\* The continuation takes the guard; with the frontend alive it frees the
\* connection's place and applies an approved change, whether or not the
\* connection is still there to hear of it.
RunContinue ==
    /\ TransportAlive
    /\ posted # << >> /\ ~quiesced
    /\ Head(posted).what = "continue"
    /\ guard.owner = NoOne
    /\ posted' = Tail(posted)
    /\ LET j == Head(posted).job IN
       IF guard.alive
       THEN /\ inFlight' = inFlight \ {job[j].conn}
            /\ job' = [job EXCEPT ![j].state = "done"]
            /\ ApplyAnswer(j)
       ELSE /\ job' = [job EXCEPT ![j].state = "discarded"]
            /\ UNCHANGED <<inFlight, config, read>>
    /\ UNCHANGED <<life, guard, quiesced, teardown>>

(***************************************************************************)
(* The person and the workers.                                             *)
(***************************************************************************)

\* The dialog is answered; every failure to ask counts as a refusal.
Answer(j) ==
    /\ job[j].state = "asking"
    /\ \E ok \in BOOLEAN : job' = [job EXCEPT ![j].state = "answered", ![j].approved = ok]
    /\ UNCHANGED <<life, inFlight, posted, guard, config, read, quiesced, teardown>>

\* Mutant: the lock covers only the look at `alive`.
WorkerLockBriefly(j) ==
    /\ job[j].state = "answered"
    /\ guard.owner = NoOne
    /\ job' = [job EXCEPT ![j].state = IF guard.alive THEN "locked" ELSE "discarded"]
    /\ UNCHANGED <<life, inFlight, posted, guard, config, read, quiesced, teardown>>

\* Lock the guard; a dead frontend means the answer is dropped.
WorkerLock(j) ==
    /\ job[j].state = "answered"
    /\ guard.owner = NoOne
    /\ IF guard.alive
       THEN /\ guard' = [guard EXCEPT !.owner = j]
            /\ job' = [job EXCEPT ![j].state = "locked"]
       ELSE /\ job' = [job EXCEPT ![j].state = "discarded"]
            /\ UNCHANGED guard
    /\ UNCHANGED <<life, inFlight, posted, config, read, quiesced, teardown>>

\* Mutant: the worker returns with the guard locked.
WorkerPostLocked(j) ==
    /\ job[j].state = "locked"
    /\ posted' = Append(posted, Continue(j))
    /\ job' = [job EXCEPT ![j].state = "posted"]
    /\ UNCHANGED <<life, inFlight, guard, config, read, quiesced, teardown>>

\* transport->post(), then the lock is dropped.
WorkerPost(j) ==
    /\ job[j].state = "locked"
    /\ posted' = Append(posted, Continue(j))
    /\ job' = [job EXCEPT ![j].state = "posted"]
    /\ guard' = [guard EXCEPT !.owner = NoOne]
    /\ UNCHANGED <<life, inFlight, config, read, quiesced, teardown>>

(***************************************************************************)
(* main(), after the run loop has stopped.                                 *)
(***************************************************************************)
QuiesceLoop ==
    /\ teardown = "running"
    /\ quiesced' = TRUE
    /\ teardown' = "quiesced"
    /\ UNCHANGED <<life, inFlight, job, posted, guard, config, read>>

\* dispatch_sync of an empty block: it runs after everything queued before it.
Drain ==
    /\ teardown = "quiesced"
    /\ posted = << >>
    /\ teardown' = "drained"
    /\ UNCHANGED <<life, inFlight, job, posted, guard, config, read, quiesced>>

\* ~SocketFrontend locks the guard ...
FrontendLock ==
    /\ teardown = "drained"
    /\ guard.owner = NoOne
    /\ guard.alive
    /\ guard' = [guard EXCEPT !.owner = MainThread]
    /\ UNCHANGED <<life, inFlight, job, posted, config, read, quiesced, teardown>>

\* Mutant: wait for the confirmations that are still out.
FrontendGoneWaiting ==
    /\ teardown = "drained"
    /\ guard.owner = MainThread
    /\ \A j \in Jobs : job[j].state # "asking"
    /\ guard' = [owner |-> NoOne, alive |-> FALSE]
    /\ teardown' = "frontendGone"
    /\ UNCHANGED <<life, inFlight, job, posted, config, read, quiesced>>

\* ... marks it dead, unlocks, and does not wait for the person.
FrontendGone ==
    /\ teardown = "drained"
    /\ guard.owner = MainThread
    /\ guard' = [owner |-> NoOne, alive |-> FALSE]
    /\ teardown' = "frontendGone"
    /\ UNCHANGED <<life, inFlight, job, posted, config, read, quiesced>>

\* ~SocketTransport: its dispatch_sync runs behind every block already queued.
TransportGone ==
    /\ teardown = "frontendGone"
    /\ posted = << >>
    /\ teardown' = "transportGone"
    /\ UNCHANGED <<life, inFlight, job, posted, guard, config, read, quiesced>>

LoopStep == DropBlock \/ RunEvict \/ RunContinue
WorkerStep(j) == WorkerLock(j) \/ WorkerPost(j)
TeardownStep == Drain \/ FrontendLock \/ FrontendGone \/ TransportGone

Next ==
    \/ \E c \in Conns : (\E j \in Jobs : WritePlain(c, j) \/ Request(c, j)) \/ Connect(c) \/ Disconnect(c)
    \/ LoopStep
    \/ \E j \in Jobs : Answer(j) \/ WorkerStep(j)
    \/ QuiesceLoop \/ TeardownStep

Spec == Init /\ [][Next]_vars

(***************************************************************************)
(* The loop, the workers and the main thread are scheduled; a mutex that   *)
(* is free again and again is granted (SF).  The person need never answer. *)
(***************************************************************************)
FairSpec ==
    /\ Spec
    /\ SF_vars(LoopStep) /\ SF_vars(TeardownStep)
    /\ \A j \in Jobs : SF_vars(WorkerStep(j))

(***************************************************************************)
(* Properties.                                                             *)
(***************************************************************************)

\* A confirmation nobody has disposed of yet.
Waiting(j) == job[j].state \in {"asking", "answered", "locked", "posted"}

\* The answer a worker carries finds the transport alive when it posts, and the
\* block it posted runs, or is dropped, before the transport goes: no use after
\* free, however late the person answers.
NoUseAfterFree ==
    /\ \A j \in Jobs : job[j].state = "locked" => TransportAlive /\ FrontendAlive
    /\ \A j \in Jobs : job[j].state = "posted" => TransportAlive

\* ... each confirmation and each client has at most one block on the queue, and
\* every job and mutex is what its type says.
EachBlockOnce == \A m, n \in 1..Len(posted) : posted[m] = posted[n] => m = n
LifetimeInv == TypeOK /\ EachBlockOnce /\ NoUseAfterFree

\* One confirmation each: an open connection never has two waiting.
OneWaitingPerConnection ==
    \A i, j \in Jobs :
        Waiting(i) /\ Waiting(j) /\ job[i].conn = job[j].conn
            /\ life[job[i].conn] = "open" => i = j

\* A connection's place among the waiting ones goes with the connection: a
\* closed connection holds one only until its eviction has run.
NoLeakedPlace ==
    \A c \in inFlight :
        \/ life[c] = "open"
        \/ quiesced
        \/ Queued(Evict(c))

\* Places are given once and come back, whichever of the answer and the
\* disconnect is first (SocketFrontend.cpp 1427, 1484, 1814).
PlaceInv == OneWaitingPerConnection /\ NoLeakedPlace

\* The trust configuration changes, and the descriptor a client handed over is
\* read (which moves the client's own offset), only in the continuation of a
\* confirmation the person approved, for the change they were asked about;
\* neither a plain change, a refusal nor an answer after the frontend's end does
\* either (SocketFrontend.cpp 1275-1282, 1476-1500).
OnlyApprovedApplied ==
    [][config'["trust"] # config["trust"] \/ read' # read => \E j \in Jobs :
          /\ config'["trust"] \in {j, config["trust"]}
          /\ read' \ read \subseteq {j}
          /\ read' # read => job[j].verb = "import"
          /\ job[j].approved
          /\ job[j].state = "posted" /\ job'[j].state = "done"]_vars

\* Teardown does not wait for a person: once begun it ends, even if no dialog
\* is ever answered.
TeardownEnds == teardown = "quiesced" ~> teardown = "transportGone"

\* An answer, once given, is disposed of: applied, refused or discarded.
AnswerDisposed ==
    \A j \in Jobs : job[j].state = "answered" ~> job[j].state \in {"done", "discarded"}
=============================================================================
