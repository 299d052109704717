------------------------------ MODULE Operations ------------------------------
(***************************************************************************)
(* Card operations as a client of the agent sees them: the entry gates of  *)
(* the request handlers, the launch, the events of the operation, cancel,  *)
(* the recovery of a Sign result, and what a disconnect does to all of it  *)
(* (agent/src/backend/SocketFrontend.cpp, SocketOperationChannel.cpp).     *)
(*                                                                         *)
(* Threads: the loop runs one handler or one posted block at a time; the   *)
(* reader workers run the operations and reach the loop by post() only.    *)
(* launch() starts the worker before the handler has recorded the owner    *)
(* and sent OpStarted, so a launch is two steps of the loop (handling).    *)
(* The worker side of an operation (LibreAgent's OperationManager and      *)
(* flows) is external: it emits progress, at most one result and then one  *)
(* Finished, and a cancelled operation goes to Finished.                   *)
(***************************************************************************)
EXTENDS Integers, Sequences, FiniteSets

CONSTANTS
    Conns,              \* connections, one caller token each, never reused
    Offered,            \* the kinds of request these clients make
    MaxReqs,            \* bound: requests in one behaviour
    MaxOps,             \* bound: operations launched in one behaviour
    MaxFaults           \* bound: emits that fail (allocation, descriptors)

NoConn == "nobody"

ASSUME ReqsAssumption ==
    /\ MaxReqs \in Nat /\ MaxOps \in Nat /\ MaxFaults \in Nat
    /\ NoConn \notin Conns

VARIABLES
    life,               \* life[c]: the connection, in the transport's map
    req,                \* req[r]: a request, and the operation it launched
    handling,           \* the request whose launch the loop is in the middle of
    opOwners,           \* m_opOwners: opOwners[r] = NoConn when absent
    signResults,        \* m_signResults
    grace,              \* grace[r]: the grace-window timer of a stashed result
    cancelled,          \* operations the OperationManager was told to cancel
    posted,             \* the loop's queue of posted blocks
    sent,               \* sent[r]: what was sent about request r, and to whom
    target,             \* target[r]: the operation the Cancel r names, else NoReq
    quiesced,           \* m_loopQuiesced
    faults

vars == <<life, req, handling, opOwners, signResults, grace, cancelled,
          posted, sent, target, quiesced, faults>>

Reqs == 1..MaxReqs
NoReq == 0

(***************************************************************************)
(* Entry gates, in the order the handlers pass them.  ReadIdentity,        *)
(* GetPhoto, ReadCertificates, ReadTokenInfo and ListCredentials share one *)
(* list.  "launch" is the launcher's own refusal (a full queue).           *)
(***************************************************************************)
ReadGates == <<"card", "capability", "launch">>

SignGates ==
    <<"card", "capability", "cert", "authorize", "rate", "document", "options", "launch">>

BatchGates ==
    <<"card", "capability", "cert", "authorize", "rate", "count", "document", "options", "launch">>

PinGates == <<"card", "capability", "authorize", "rate", "arguments", "launch">>

ActivateGates == <<"card", "capability", "authorize", "rate", "launch">>

Gates == [read |-> ReadGates, sign |-> SignGates, batch |-> BatchGates,
          pin |-> PinGates, activate |-> ActivateGates]

OpKinds == DOMAIN Gates

\* The PKCS#11 family goes to the broker and is answered through its Reply.
Kinds == OpKinds \cup {"pk", "cancel", "recover"}

ASSUME OfferedAssumption == Offered \subseteq Kinds

\* "answered": nothing more will come.  "launched" .. "pruned": the worker's
\* progress through the operation; "failed": emitResult returned false.
Stages == {"none", "answered", "brokered", "launched", "stashed", "resulted",
           "failed", "finished", "pruned"}

Request == [conn : Conns \cup {NoConn}, kind : Kinds \cup {"none"},
            stage : Stages, progress : BOOLEAN]
NoRequest == [conn |-> NoConn, kind |-> "none", stage |-> "none", progress |-> FALSE]

\* What a client gets: an answer to the request itself, or an event of the
\* operation it started.
Answers == {"ok", "error", "started", "recovered"}
Events == {"progress", "result", "finished"}
Message == [to : Conns, what : Answers \cup Events]

\* Posted blocks: a send, a stash, an owner prune, a client's eviction.
Block == [do : {"send"}, op : Reqs, msg : Message]
            \cup [do : {"stash", "prune"}, op : Reqs]
            \cup [do : {"evict"}, conn : Conns]

Queued(b) == \E i \in DOMAIN posted : posted[i] = b

\* The queue is as long as there is something to say: an operation's stash, its
\* prune and each event, a broker's Reply and a client's eviction wait in it once.
EachBlockOnce == \A i, j \in DOMAIN posted : posted[i] = posted[j] => i = j

\* The values every variable ranges over.
TypeOK ==
    /\ life \in [Conns -> {"never", "open", "closed"}]
    /\ req \in [Reqs -> Request]
    /\ handling \in Reqs \cup {NoReq}
    /\ opOwners \in [Reqs -> Conns \cup {NoConn}]
    /\ signResults \in [Reqs -> Conns \cup {NoConn}]
    /\ grace \in [Reqs -> {"none", "armed", "fired"}]
    /\ cancelled \subseteq Reqs
    /\ posted \in Seq(Block)
    /\ sent \in [Reqs -> Seq(Message)]
    /\ target \in [Reqs -> Reqs \cup {NoReq}]
    /\ quiesced \in BOOLEAN
    /\ faults \in 0..MaxFaults

Init ==
    /\ life = [c \in Conns |-> "never"]
    /\ req = [r \in Reqs |-> NoRequest]
    /\ handling = NoReq
    /\ opOwners = [r \in Reqs |-> NoConn]
    /\ signResults = [r \in Reqs |-> NoConn]
    /\ grace = [r \in Reqs |-> "none"]
    /\ cancelled = {}
    /\ posted = << >>
    /\ sent = [r \in Reqs |-> << >>]
    /\ target = [r \in Reqs |-> NoReq]
    /\ quiesced = FALSE
    /\ faults = 0

(***************************************************************************)
(* Helpers.                                                                *)
(***************************************************************************)
LoopIdle == handling = NoReq

\* The sink hands the loop a request of an open connection; ids are taken in
\* order.
Arrives(c, r) ==
    /\ LoopIdle
    /\ ~quiesced
    /\ life[c] = "open"
    /\ req[r].stage = "none"
    /\ \A q \in Reqs : q < r => req[q].stage # "none"

Launched == {r \in Reqs : req[r].kind \in OpKinds /\ req[r].stage # "answered"}

Msg(c, w) == [to |-> c, what |-> w]

\* sendTo(): nothing happens when the connection is gone.
Send(r, m) ==
    sent' = IF life[m.to] = "open" THEN [sent EXCEPT ![r] = Append(@, m)] ELSE sent

Became(c, k, s) == [conn |-> c, kind |-> k, stage |-> s, progress |-> FALSE]

\* post(): after quiesceLoop() the block will be dropped unrun.
Post(b) == posted' = IF quiesced THEN posted ELSE Append(posted, b)
SendBlock(r, w) == [do |-> "send", op |-> r, msg |-> Msg(req[r].conn, w)]

Stage(r, s) == req' = [req EXCEPT ![r].stage = s]

Fault == faults < MaxFaults /\ faults' = faults + 1

(***************************************************************************)
(* Requests, on the loop.                                                  *)
(***************************************************************************)

\* acceptOne().
Connect(c) ==
    /\ LoopIdle
    /\ life[c] = "never"
    /\ life' = [life EXCEPT ![c] = "open"]
    /\ UNCHANGED <<req, handling, opOwners, signResults, grace, cancelled, posted,
                   sent, target, quiesced, faults>>

\* One of the gates stops the request and those behind it are not reached; each
\* answers an error, and which one is wording.
Refuse(c, r, k) ==
    /\ Arrives(c, r)
    /\ req' = [req EXCEPT ![r] = Became(c, k, "answered")]
    /\ \E gate \in DOMAIN Gates[k] : Send(r, Msg(c, "error"))
    /\ UNCHANGED <<life, handling, opOwners, signResults, grace, cancelled, posted,
                   target, quiesced, faults>>

\* Every gate passed: launch() queues the operation, whose worker may start.
Launch(c, r, k) ==
    /\ Arrives(c, r)
    /\ Cardinality(Launched) < MaxOps
    /\ req' = [req EXCEPT ![r] = Became(c, k, "launched")]
    /\ handling' = r
    /\ UNCHANGED <<life, opOwners, signResults, grace, cancelled, posted, sent,
                   target, quiesced, faults>>

\* Mutant: OpStarted is queued behind what the worker has posted meanwhile.
ReplyLaunchedPosted ==
    /\ handling # NoReq
    /\ opOwners' = [opOwners EXCEPT ![handling] = req[handling].conn]
    /\ Post(SendBlock(handling, "started"))
    /\ handling' = NoReq
    /\ UNCHANGED <<life, req, signResults, grace, cancelled, sent, target, quiesced, faults>>

\* replyLaunched(): the owner is recorded, OpStarted is sent.
ReplyLaunched ==
    /\ handling # NoReq
    /\ opOwners' = [opOwners EXCEPT ![handling] = req[handling].conn]
    /\ Send(handling, Msg(req[handling].conn, "started"))
    /\ handling' = NoReq
    /\ UNCHANGED <<life, req, signResults, grace, cancelled, posted, target, quiesced, faults>>

\* Mutant: an unknown mechanism is dropped without an answer.
BrokerSilent(c, r) ==
    /\ Arrives(c, r)
    /\ \E s \in {"answered", "brokered"} : req' = [req EXCEPT ![r] = Became(c, "pk", s)]
    /\ UNCHANGED <<life, handling, opOwners, signResults, grace, cancelled, posted,
                   sent, target, quiesced, faults>>

\* handleCertDer, handlePk*: an unknown mechanism is refused at once, anything
\* else goes to the broker.
Broker(c, r) ==
    /\ Arrives(c, r)
    /\ \/ /\ req' = [req EXCEPT ![r] = Became(c, "pk", "answered")]
          /\ Send(r, Msg(c, "error"))
       \/ /\ req' = [req EXCEPT ![r] = Became(c, "pk", "brokered")]
          /\ UNCHANGED sent
    /\ UNCHANGED <<life, handling, opOwners, signResults, grace, cancelled, posted,
                   target, quiesced, faults>>

\* handleCancel(): scoped to the owner, acknowledged in any case.
Cancel(c, r, o) ==
    /\ Arrives(c, r)
    /\ req' = [req EXCEPT ![r] = Became(c, "cancel", "answered")]
    /\ target' = [target EXCEPT ![r] = o]
    /\ cancelled' = IF opOwners[o] = c THEN cancelled \cup {o} ELSE cancelled
    /\ Send(r, Msg(c, "ok"))
    /\ UNCHANGED <<life, handling, opOwners, signResults, grace, posted, quiesced, faults>>

\* handleGetSignResult(): NoResult unless the record is there and the caller's
\* own; the descriptor for it may also fail.  A recovered document is entered
\* under the operation o it belongs to, so that EventOrder sees who got it.
GetSignResult(c, r, o) ==
    /\ Arrives(c, r)
    /\ req' = [req EXCEPT ![r] = Became(c, "recover", "answered")]
    /\ \/ signResults[o] = c /\ Send(o, Msg(c, "recovered")) /\ UNCHANGED faults
       \/ signResults[o] # c /\ Send(r, Msg(c, "error")) /\ UNCHANGED faults
       \/ signResults[o] = c /\ Send(r, Msg(c, "error")) /\ Fault
    /\ UNCHANGED <<life, handling, opOwners, signResults, grace, cancelled, posted,
                   target, quiesced>>

(***************************************************************************)
(* The workers.                                                            *)
(***************************************************************************)
Working(r) == req[r].stage \in {"launched", "stashed", "resulted", "failed", "finished"}

WorkerRest == UNCHANGED <<life, handling, opOwners, signResults, grace, cancelled,
                          sent, target, quiesced>>

\* emitPropertiesChanged, emitGroup: an emit that fails is dropped.
EmitProgress(r) ==
    /\ req[r].stage = "launched" /\ ~req[r].progress
    /\ req' = [req EXCEPT ![r].progress = TRUE]
    /\ \/ Post(SendBlock(r, "progress")) /\ UNCHANGED faults
       \/ UNCHANGED posted /\ Fault
    /\ WorkerRest

\* emitResult of a Sign: with the descriptor made, the artifact goes to the
\* frontend's stash before the event is encoded.
EmitStash(r) ==
    /\ req[r].stage = "launched" /\ req[r].kind = "sign"
    /\ \/ Post([do |-> "stash", op |-> r]) /\ Stage(r, "stashed") /\ UNCHANGED faults
       \/ Stage(r, "failed") /\ Fault /\ UNCHANGED posted
    /\ WorkerRest

\* Mutant: the result is announced before it is stashed.
EmitResultFirst(r) ==
    /\ \/ req[r].stage = "launched" /\ req[r].kind # "sign"
          /\ Post(SendBlock(r, "result"))
       \/ req[r].stage = "launched" /\ req[r].kind = "sign"
          /\ posted' = posted \o <<SendBlock(r, "result"), [do |-> "stash", op |-> r]>>
    /\ Stage(r, "resulted") /\ UNCHANGED faults
    /\ WorkerRest

\* The rest of emitResult: the event is posted, or fails and with it the
\* operation.
EmitResult(r) ==
    /\ \/ req[r].stage = "stashed"
       \/ req[r].stage = "launched" /\ req[r].kind # "sign"
    /\ \/ Post(SendBlock(r, "result")) /\ Stage(r, "resulted") /\ UNCHANGED faults
       \/ Stage(r, "failed") /\ Fault /\ UNCHANGED posted
    /\ WorkerRest

\* emitFinished: after the result, after its failure, or without one when the
\* operation fails or was cancelled; the emit itself may be dropped.
EmitFinished(r) ==
    /\ req[r].stage \in {"launched", "resulted", "failed"}
    /\ \/ Post(SendBlock(r, "finished")) /\ UNCHANGED faults
       \/ UNCHANGED posted /\ Fault
    /\ Stage(r, "finished")
    /\ WorkerRest

\* Mutant: the worker prunes the owner itself instead of asking the loop to.
EmitPruneDirectly(r) ==
    /\ req[r].stage = "finished"
    /\ opOwners' = [opOwners EXCEPT ![r] = NoConn]
    /\ Stage(r, "pruned")
    /\ UNCHANGED <<life, handling, signResults, grace, cancelled, posted,
                   sent, target, quiesced, faults>>

\* ... and the end of emitFinished: the owner entry is to be pruned.
EmitPrune(r) ==
    /\ req[r].stage = "finished"
    /\ \/ Post([do |-> "prune", op |-> r]) /\ UNCHANGED faults
       \/ UNCHANGED posted /\ Fault
    /\ Stage(r, "pruned")
    /\ WorkerRest

\* The broker's Reply fires, at the latest from its destructor.
BrokerReply(r) ==
    /\ req[r].stage = "brokered"
    /\ \E w \in {"ok", "error"} : Post(SendBlock(r, w))
    /\ Stage(r, "answered")
    /\ UNCHANGED faults
    /\ WorkerRest

(***************************************************************************)
(* Posted blocks, on the loop.                                             *)
(***************************************************************************)
Turn(what) == LoopIdle /\ ~quiesced /\ posted # << >> /\ Head(posted).do = what

RunSend ==
    /\ Turn("send")
    /\ posted' = Tail(posted)
    /\ Send(Head(posted).op, Head(posted).msg)
    /\ UNCHANGED <<life, req, handling, opOwners, signResults, grace, cancelled,
                   target, quiesced, faults>>

\* stashSignArtifact(): stored for its owner, even if that one has gone by now.
RunStash ==
    /\ Turn("stash")
    /\ posted' = Tail(posted)
    /\ signResults' = [signResults EXCEPT ![Head(posted).op] = req[Head(posted).op].conn]
    /\ grace' = [grace EXCEPT ![Head(posted).op] = "armed"]
    /\ UNCHANGED <<life, req, handling, opOwners, cancelled, sent, target, quiesced, faults>>

RunPrune ==
    /\ Turn("prune")
    /\ posted' = Tail(posted)
    /\ opOwners' = [opOwners EXCEPT ![Head(posted).op] = NoConn]
    /\ UNCHANGED <<life, req, handling, signResults, grace, cancelled, sent, target,
                   quiesced, faults>>

\* Mutant: the eviction empties the owner store instead of one client's share.
RunEvictAll ==
    /\ Turn("evict")
    /\ posted' = Tail(posted)
    /\ LET gone(f) == [r \in Reqs |-> IF f[r] = Head(posted).conn THEN NoConn ELSE f[r]]
       IN  opOwners' = [r \in Reqs |-> NoConn] /\ signResults' = gone(signResults)
    /\ UNCHANGED <<life, req, handling, grace, cancelled, sent, target, quiesced, faults>>

\* The block of SocketFrontend::onClientDisconnected.
RunEvict ==
    /\ Turn("evict")
    /\ posted' = Tail(posted)
    /\ LET gone(f) == [r \in Reqs |-> IF f[r] = Head(posted).conn THEN NoConn ELSE f[r]]
       IN  opOwners' = gone(opOwners) /\ signResults' = gone(signResults)
    /\ UNCHANGED <<life, req, handling, grace, cancelled, sent, target, quiesced, faults>>

\* evictSignResult(), when the grace window is over.
GraceOver(r) ==
    /\ LoopIdle /\ ~quiesced
    /\ grace[r] = "armed"
    /\ grace' = [grace EXCEPT ![r] = "fired"]
    /\ signResults' = [signResults EXCEPT ![r] = NoConn]
    /\ UNCHANGED <<life, req, handling, opOwners, cancelled, posted, sent, target,
                   quiesced, faults>>

\* Mutant: the operations of a client that left are not cancelled.
DisconnectKeepingOps(c) ==
    /\ LoopIdle
    /\ life[c] = "open"
    /\ life' = [life EXCEPT ![c] = "closed"]
    /\ IF quiesced THEN UNCHANGED posted ELSE Post([do |-> "evict", conn |-> c])
    /\ UNCHANGED <<req, handling, opOwners, signResults, grace, cancelled, sent, target,
                   quiesced, faults>>

\* closeConnection() and the handlers main() registered: the OperationManager
\* cancels the caller's operations, then the frontend posts its eviction.
Disconnect(c) ==
    /\ LoopIdle
    /\ life[c] = "open"
    /\ life' = [life EXCEPT ![c] = "closed"]
    /\ IF quiesced THEN UNCHANGED <<cancelled, posted>>
       ELSE /\ cancelled' = cancelled \cup {r \in Reqs : Working(r) /\ req[r].conn = c}
            /\ Post([do |-> "evict", conn |-> c])
    /\ UNCHANGED <<req, handling, opOwners, signResults, grace, sent, target, quiesced, faults>>

\* quiesceLoop(): what is still queued, or posted later, is dropped unrun.
QuiesceLoop ==
    /\ LoopIdle
    /\ ~quiesced
    /\ quiesced' = TRUE
    /\ posted' = << >>
    /\ UNCHANGED <<life, req, handling, opOwners, signResults, grace, cancelled, sent,
                   target, faults>>

LoopStep == ReplyLaunched \/ RunSend \/ RunStash \/ RunPrune \/ RunEvict

Next ==
    \/ \E c \in Conns : Connect(c) \/ Disconnect(c)
    \/ \E c \in Conns, r \in Reqs :
          \/ \E k \in OpKinds \cap Offered : Refuse(c, r, k) \/ Launch(c, r, k)
          \/ "pk" \in Offered /\ Broker(c, r)
          \/ \E o \in Reqs : \/ "cancel" \in Offered /\ Cancel(c, r, o)
                             \/ "recover" \in Offered /\ GetSignResult(c, r, o)
    \/ \E r \in Reqs :
          \/ EmitProgress(r) \/ EmitStash(r) \/ EmitResult(r)
          \/ EmitFinished(r) \/ EmitPrune(r) \/ BrokerReply(r)
          \/ GraceOver(r)
    \/ LoopStep
    \/ QuiesceLoop

Spec == Init /\ [][Next]_vars

(***************************************************************************)
(* The loop runs what is queued.  An operation may wait for a person for   *)
(* ever, unless it was cancelled; once it has its result it runs to its    *)
(* end; the broker's Reply fires; the grace timer fires.                   *)
(***************************************************************************)
FairSpec ==
    /\ Spec
    /\ WF_vars(LoopStep)
    /\ \A r \in Reqs :
          /\ WF_vars(EmitFinished(r) /\ (r \in cancelled \/ req[r].stage # "launched"))
          /\ WF_vars(EmitResult(r) /\ req[r].stage = "stashed")
          /\ WF_vars(EmitPrune(r))
          /\ WF_vars(BrokerReply(r))
          /\ WF_vars(GraceOver(r))

(***************************************************************************)
(* Properties.                                                             *)
(***************************************************************************)

\* Positions of a message in what was sent about r.
At(r, w) == {i \in 1..Len(sent[r]) : sent[r][i].what = w}

\* The protocol of an operation, as its client sees it whatever the workers'
\* timing: OpStarted comes first, events come in order and once, nothing but a
\* recovery follows Finished, and nobody else hears of the request.
EventOrder ==
    \A r \in Reqs :
        LET first(w, v) == \A i \in At(r, w), j \in At(r, v) : i < j
        IN  /\ \A i \in 1..Len(sent[r]) : sent[r][i].to = req[r].conn
            /\ \A w \in Events \cup {"started"} : \A i, j \in At(r, w) : i = j
            /\ \A w \in Events : At(r, w) # {} => At(r, "started") # {}
            /\ first("started", "progress") /\ first("started", "result")
            /\ first("started", "finished") /\ first("progress", "result")
            /\ first("progress", "finished") /\ first("result", "finished")

\* ... and every store and queue is what its type says, no block queued twice.
ProtocolInv == TypeOK /\ EachBlockOnce /\ EventOrder

\* GetSignResult recovers what was announced: once a client has been sent the
\* result of a Sign, the record is there until its grace window is over.
AnnouncedIsRecoverable ==
    \A r \in Reqs :
        /\ At(r, "result") # {} /\ req[r].kind = "sign"
        /\ life[req[r].conn] = "open" /\ ~quiesced
        => signResults[r] = req[r].conn \/ grace[r] = "fired"

\* "so the stores cannot grow for the process lifetime" (onClientDisconnected):
\* each entry has something on its way that will remove it: an owner the end of
\* the operation (unless that post failed) and the eviction of its client, a
\* result its grace timer, also one stashed after its client was evicted.
StoresDrain ==
    ~quiesced => \A r \in Reqs :
        /\ opOwners[r] # NoConn =>
              \/ Working(r) \/ faults > 0
              \/ Queued([do |-> "prune", op |-> r])
        /\ opOwners[r] # NoConn =>
              \/ life[opOwners[r]] = "open"
              \/ Queued([do |-> "evict", conn |-> opOwners[r]])
        /\ signResults[r] # NoConn => grace[r] = "armed"

\* The client of r has asked to cancel it, after it was told that r had started.
AskedFor(r) == \E q \in Reqs : q > r /\ target[q] = r /\ req[q].conn = req[r].conn

\* "an unscoped cancel lets any client abort another client's in-flight op"
\* (handleCancel): an operation is cancelled only because its own client asked
\* for that or left.  And the scope must not swallow what is asked rightly: a
\* Cancel, acknowledged in any case, does reach an operation of its own client as
\* long as that runs, whoever else leaves, and whatever was pruned or evicted.
CancelScoped ==
    \A r \in Reqs :
        LET due == AskedFor(r) \/ life[req[r].conn] = "closed"
        IN  /\ r \in cancelled => due
            /\ Working(r) /\ ~quiesced /\ due => r \in cancelled

\* A client that left leaves no operation running, even one that was waiting
\* for a person.
OrphansEnd ==
    \A c \in Conns, r \in Reqs :
        Working(r) /\ req[r].conn = c /\ life[c] = "closed" /\ ~quiesced
            ~> ~Working(r) \/ quiesced

\* Every request is answered, directly or by OpStarted, unless its connection
\* or the agent goes away first.
RequestAnswered ==
    \A c \in Conns, r \in Reqs : req[r].conn = c ~>
        \/ \E w \in {"ok", "error", "started"} : At(r, w) # {}
        \/ req[r].kind = "recover"
        \/ life[c] = "closed" \/ quiesced
=============================================================================
