--------------------------- MODULE SocketConnections ---------------------------
(***************************************************************************)
(* The client connections of the agent: accept, the first-frame timer,     *)
(* reading and dispatching request frames, the bounded outbound queues,    *)
(* closing and the disconnect fan-out                                      *)
(* (agent/src/backend/SocketTransport.cpp, and handleHello and dispatch of *)
(* SocketFrontend.cpp for what the request sink does to a connection).     *)
(*                                                                         *)
(* All of it runs on one serial queue, the loop.  A handler that sends may *)
(* find its own connection gone afterwards, so a handler is not one step:  *)
(* the loop's call stack is state (batch, fan, flush) and a new handler    *)
(* starts only when the stack is empty.  The peers are the environment:    *)
(* what a read yields, and whether a send is taken, would block or fails.  *)
(***************************************************************************)
EXTENDS Integers, Sequences, FiniteSets

CONSTANTS
    MaxConnId,          \* bound: connections accepted in one behaviour
    MaxConnections,     \* kMaxConnections
    MaxQueuedFrames,    \* kMaxQueuedFrames
    MaxQueuedBytes,     \* kMaxQueuedBytesPerConnection
    Sizes,              \* frame sizes
    MaxBatch            \* bound: frames one read yields

ASSUME BoundsAssumption ==
    /\ MaxConnId \in Nat /\ MaxConnections \in Nat /\ MaxBatch \in Nat
    /\ MaxQueuedFrames \in Nat /\ MaxQueuedBytes \in Nat
    /\ Sizes \subseteq Nat \ {0}

VARIABLES
    sink,               \* m_sink is set
    handlers,           \* m_disconnectHandlers
    quiesced,           \* m_loopQuiesced
    nextConnId,         \* m_nextConnId
    conn,               \* m_connections, with the ids not yet and no longer in it
    notified,           \* notified[c]: the disconnect handlers run for c
    batch,              \* onReadReady in progress: frames still to dispatch
    fan,                \* broadcast in progress: connections still to serve
    flush               \* flushWrites in progress: its connection

vars == <<sink, handlers, quiesced, nextConnId, conn, notified, batch, fan, flush>>

ConnIds == 1..MaxConnId
NoConn == 0

(***************************************************************************)
(* What main() registers with onClientDisconnect, in this order: operation *)
(* auto-cancel, PKCS#11 lease revocation, the frontend's eviction.         *)
(***************************************************************************)
AllHandlers == <<"operations", "leases", "frontend">>

\* Outbound frames: a reply or an event, or the final frame of sendThenClose.
Frame == [kind : {"message", "final"}, size : Sizes]

\* Inbound frames: Hello with presence events wanted or declined, Hello of
\* another protocol version, a request answered at once, a request answered
\* later from a worker, and bytes parseRequest() rejects.
InFrame == {"hello", "helloQuiet", "helloOther", "request", "launch", "malformed"}

Connection == [life : {"never", "open", "closed"},
               reading : BOOLEAN,       \* readSource
               watched : BOOLEAN,       \* writeSource
               timer : BOOLEAN,         \* firstFrameTimer
               sawFirstFrame : BOOLEAN,
               wantsPresence : BOOLEAN, \* wantsPresenceEvents
               closing : BOOLEAN,       \* closeWhenDrained
               working : BOOLEAN,       \* has had a request go to a worker
               queue : Seq(Frame),      \* outQueue
               bytes : Nat]             \* queuedBytes

Absent(life) == [life |-> life, reading |-> FALSE, watched |-> FALSE, timer |-> FALSE,
                 sawFirstFrame |-> FALSE, wantsPresence |-> FALSE, closing |-> FALSE,
                 working |-> FALSE, queue |-> << >>, bytes |-> 0]

NoBatch == [conn |-> NoConn, frames |-> << >>, ended |-> FALSE]
NoFan == [to |-> {}, frame |-> << >>]

Open == {c \in ConnIds : conn[c].life = "open"}

\* The values every variable ranges over.
TypeOK ==
    /\ sink \in BOOLEAN /\ quiesced \in BOOLEAN
    /\ handlers \in Seq({"operations", "leases", "frontend"})
    /\ nextConnId \in 1..(MaxConnId + 1)
    /\ conn \in [ConnIds -> Connection]
    /\ notified \in [ConnIds -> Seq({"operations", "leases", "frontend"})]
    /\ batch \in [conn : ConnIds \cup {NoConn}, frames : Seq(InFrame), ended : BOOLEAN]
    /\ fan \in [to : SUBSET ConnIds, frame : {<< >>} \cup Frame]
    /\ flush \in ConnIds \cup {NoConn}

Init ==
    /\ sink = FALSE /\ quiesced = FALSE
    /\ handlers = << >>
    /\ nextConnId = 1
    /\ conn = [c \in ConnIds |-> Absent("never")]
    /\ notified = [c \in ConnIds |-> << >>]
    /\ batch = NoBatch
    /\ fan = NoFan
    /\ flush = NoConn

(***************************************************************************)
(* The loop's stack: flush runs inside fan or batch, fan inside nothing.   *)
(***************************************************************************)
LoopIdle == batch.conn = NoConn /\ fan.to = {} /\ flush = NoConn
InBatch == batch.conn # NoConn /\ flush = NoConn

(***************************************************************************)
(* What the handlers do to one connection.                                 *)
(***************************************************************************)

\* A change that leaves the connection in the map.
Update(c, r) ==
    /\ conn' = [conn EXCEPT ![c] = r]
    /\ UNCHANGED notified

\* Mutant: the handlers are not told.
CloseConnectionQuietly(c) ==
    /\ conn' = [conn EXCEPT ![c] = Absent("closed")]
    /\ UNCHANGED notified

\* closeConnection(): drop sources, timer and queue, erase, and tell every
\* registered handler, in registration order.
CloseConnection(c) ==
    /\ conn' = [conn EXCEPT ![c] = Absent("closed")]
    /\ notified' = [notified EXCEPT ![c] = @ \o handlers]

\* enqueueSend() to a live connection: past either bound the connection is
\* closed, otherwise flushWrites() begins.
Enqueue(c, r, f) ==
    IF \/ r.bytes + f.size > MaxQueuedBytes
       \/ Len(r.queue) + 1 > MaxQueuedFrames
    THEN CloseConnection(c) /\ flush' = NoConn
    ELSE /\ Update(c, [r EXCEPT !.queue = Append(@, f), !.bytes = @ + f.size])
         /\ flush' = c

\* sendThenClose(): stop reading, then send the last frame.
EnqueueFinal(c, r, f) ==
    Enqueue(c, [r EXCEPT !.reading = FALSE, !.closing = TRUE], f)

(***************************************************************************)
(* flushWrites(), one trySendFrame() a step.                               *)
(***************************************************************************)
FlushRest == UNCHANGED <<sink, handlers, quiesced, nextConnId, batch, fan>>

FlushSent ==
    /\ flush # NoConn
    /\ conn[flush].queue # << >>
    /\ Update(flush, [conn[flush] EXCEPT !.queue = Tail(@),
                                         !.bytes = @ - Head(conn[flush].queue).size])
    /\ UNCHANGED flush
    /\ FlushRest

\* Mutant: nobody waits for the peer to take the rest.
FlushWouldBlockUnwatched ==
    /\ flush # NoConn
    /\ conn[flush].queue # << >>
    /\ flush' = NoConn
    /\ UNCHANGED <<conn, notified>>
    /\ FlushRest

FlushWouldBlock ==
    /\ flush # NoConn
    /\ conn[flush].queue # << >>
    /\ Update(flush, [conn[flush] EXCEPT !.watched = TRUE])
    /\ flush' = NoConn
    /\ FlushRest

FlushError ==
    /\ flush # NoConn
    /\ conn[flush].queue # << >>
    /\ CloseConnection(flush)
    /\ flush' = NoConn
    /\ FlushRest

\* Drained: the write source goes, and with it a connection that was closing.
FlushDrained ==
    /\ flush # NoConn
    /\ conn[flush].queue = << >>
    /\ IF conn[flush].closing THEN CloseConnection(flush)
       ELSE Update(flush, [conn[flush] EXCEPT !.watched = FALSE])
    /\ flush' = NoConn
    /\ FlushRest

FlushStep == FlushSent \/ FlushWouldBlock \/ FlushError \/ FlushDrained

(***************************************************************************)
(* Event handlers of the loop.                                             *)
(***************************************************************************)

\* Mutant: nobody arms the slow-loris timer.
AcceptOneUntimed ==
    /\ LoopIdle
    /\ nextConnId \in ConnIds
    /\ Cardinality(Open) < MaxConnections
    /\ Update(nextConnId, [Absent("open") EXCEPT !.reading = TRUE, !.wantsPresence = TRUE])
    /\ nextConnId' = nextConnId + 1
    /\ UNCHANGED <<sink, handlers, quiesced, batch, fan, flush>>

\* acceptOne(); a connection over the cap, or of an unidentifiable peer, is
\* closed again before it gets an id and leaves no trace.
AcceptOne ==
    /\ LoopIdle
    /\ nextConnId \in ConnIds
    /\ Cardinality(Open) < MaxConnections
    /\ Update(nextConnId, [Absent("open") EXCEPT !.reading = TRUE, !.timer = TRUE,
                                                 !.wantsPresence = TRUE])
    /\ nextConnId' = nextConnId + 1
    /\ UNCHANGED <<sink, handlers, quiesced, batch, fan, flush>>

FirstFrameTimeout(c) ==
    /\ LoopIdle
    /\ conn[c].timer
    /\ CloseConnection(c)
    /\ UNCHANGED <<sink, handlers, quiesced, nextConnId, batch, fan, flush>>

\* onReadReady(): pump() yields frames and says whether the stream ended.
ReadReady(c) ==
    /\ LoopIdle
    /\ conn[c].reading
    /\ \E n \in 0..MaxBatch : \E fs \in [1..n -> InFrame], ended \in BOOLEAN :
          /\ n > 0 \/ ended
          /\ batch' = [conn |-> c, frames |-> fs, ended |-> ended]
          /\ Update(c, [conn[c] EXCEPT !.sawFirstFrame = @ \/ n > 0,
                                       !.timer = @ /\ n = 0])
    /\ UNCHANGED <<sink, handlers, quiesced, nextConnId, fan, flush>>

WriteReady(c) ==
    /\ LoopIdle
    /\ conn[c].watched
    /\ flush' = c
    /\ UNCHANGED <<sink, handlers, quiesced, nextConnId, conn, notified, batch, fan>>

(***************************************************************************)
(* The rest of onReadReady(), one frame a step.                            *)
(***************************************************************************)

\* The connection a frame belongs to still takes requests.
Takes(c) == conn[c].life = "open" /\ ~conn[c].closing

NextFrame == batch' = [batch EXCEPT !.frames = Tail(@)]

\* parseRequest() fails: close, whatever state the connection is in.
DropMalformed ==
    /\ InBatch
    /\ batch.frames # << >> /\ Head(batch.frames) = "malformed"
    /\ IF batch.conn \in Open THEN CloseConnection(batch.conn)
                              ELSE UNCHANGED <<conn, notified>>
    /\ batch' = NoBatch
    /\ UNCHANGED <<sink, handlers, quiesced, nextConnId, fan, flush>>

\* The connection was closed by an earlier frame's reply, or is on its way
\* out: the frames behind it, and the end of the stream, go unnoticed.
AbandonBatch ==
    /\ InBatch
    /\ batch.frames # << >> /\ Head(batch.frames) # "malformed"
    /\ ~Takes(batch.conn)
    /\ batch' = NoBatch
    /\ UNCHANGED <<sink, handlers, quiesced, nextConnId, conn, notified, fan, flush>>

\* Nobody is listening yet, or any more: the frame is consumed.
DropUnsunk ==
    /\ InBatch
    /\ batch.frames # << >> /\ Head(batch.frames) # "malformed"
    /\ Takes(batch.conn)
    /\ ~sink
    /\ NextFrame
    /\ UNCHANGED <<sink, handlers, quiesced, nextConnId, conn, notified, fan, flush>>

\* What dispatch() does to the connection while it runs: handleHello(), a
\* handler that replies at once, or one that leaves the reply to a worker.
SinkCall(c, f) ==
    LET r == conn[c] IN
    \E z \in Sizes :
        \/ f = "hello" /\ Enqueue(c, [r EXCEPT !.wantsPresence = TRUE], [kind |-> "message", size |-> z])
        \/ f = "helloQuiet" /\ Enqueue(c, [r EXCEPT !.wantsPresence = FALSE], [kind |-> "message", size |-> z])
        \/ f = "helloOther" /\ EnqueueFinal(c, r, [kind |-> "final", size |-> z])
        \/ f = "request" /\ Enqueue(c, r, [kind |-> "message", size |-> z])
        \/ f = "launch" /\ Update(c, [r EXCEPT !.working = TRUE]) /\ UNCHANGED flush

Dispatch ==
    /\ InBatch
    /\ batch.frames # << >> /\ Head(batch.frames) # "malformed"
    /\ Takes(batch.conn)
    /\ sink
    /\ SinkCall(batch.conn, Head(batch.frames))
    /\ NextFrame
    /\ UNCHANGED <<sink, handlers, quiesced, nextConnId, fan>>

\* After the last frame: a stream that ended closes the connection.
EndBatch ==
    /\ InBatch
    /\ batch.frames = << >>
    /\ IF batch.ended /\ batch.conn \in Open THEN CloseConnection(batch.conn)
                                             ELSE UNCHANGED <<conn, notified>>
    /\ batch' = NoBatch
    /\ UNCHANGED <<sink, handlers, quiesced, nextConnId, fan, flush>>

BatchStep == DropMalformed \/ AbandonBatch \/ DropUnsunk \/ Dispatch \/ EndBatch

(***************************************************************************)
(* Posted work: a worker's reply or an operation's event for the client    *)
(* that asked, or a broadcast.  post() drops it once the loop is quiesced. *)
(***************************************************************************)
PostedSend(c) ==
    /\ LoopIdle
    /\ ~quiesced
    /\ conn[c].working
    /\ \E z \in Sizes : Enqueue(c, conn[c], [kind |-> "message", size |-> z])
    /\ UNCHANGED <<sink, handlers, quiesced, nextConnId, batch, fan>>

\* broadcast(): the ids are collected first.
Broadcast ==
    /\ LoopIdle
    /\ ~quiesced
    /\ \E presence \in BOOLEAN, z \in Sizes :
          LET to == {c \in Open : ~conn[c].closing /\ (presence => conn[c].wantsPresence)}
          IN  to # {} /\ fan' = [to |-> to, frame |-> [kind |-> "message", size |-> z]]
    /\ UNCHANGED <<sink, handlers, quiesced, nextConnId, conn, notified, batch, flush>>

\* ... and each is looked up again: it may be gone by now.
BroadcastTo(c) ==
    /\ flush = NoConn
    /\ c \in fan.to
    /\ \A d \in fan.to : c <= d
    /\ IF c \in Open THEN Enqueue(c, conn[c], fan.frame)
                     ELSE UNCHANGED <<conn, notified, flush>>
    /\ fan' = IF fan.to = {c} THEN NoFan ELSE [fan EXCEPT !.to = @ \ {c}]
    /\ UNCHANGED <<sink, handlers, quiesced, nextConnId, batch>>

(***************************************************************************)
(* Start-up and teardown, from main().  The socket accepts from create()   *)
(* on; the sink and the handlers come later, one by one.                   *)
(***************************************************************************)
SetRequestSink ==
    /\ LoopIdle
    /\ ~sink /\ ~quiesced
    /\ sink' = TRUE
    /\ UNCHANGED <<handlers, quiesced, nextConnId, conn, notified, batch, fan, flush>>

OnClientDisconnect ==
    /\ LoopIdle
    /\ sink /\ ~quiesced
    /\ handlers # AllHandlers
    /\ handlers' = Append(handlers, AllHandlers[Len(handlers) + 1])
    /\ UNCHANGED <<sink, quiesced, nextConnId, conn, notified, batch, fan, flush>>

\* Mutant: only posted work is severed.
QuiesceLoopPostsOnly ==
    /\ LoopIdle
    /\ handlers = AllHandlers
    /\ ~quiesced
    /\ quiesced' = TRUE
    /\ UNCHANGED <<sink, handlers, nextConnId, conn, notified, batch, fan, flush>>

QuiesceLoop ==
    /\ LoopIdle
    /\ handlers = AllHandlers
    /\ ~quiesced
    /\ quiesced' = TRUE
    /\ sink' = FALSE
    /\ handlers' = << >>
    /\ UNCHANGED <<nextConnId, conn, notified, batch, fan, flush>>

\* ~SocketTransport drops what is left; no handler hears of it.
Destroy ==
    /\ LoopIdle
    /\ quiesced
    /\ Open # {}
    /\ conn' = [c \in ConnIds |-> IF c \in Open THEN Absent("closed") ELSE conn[c]]
    /\ nextConnId' = MaxConnId + 1
    /\ UNCHANGED <<sink, handlers, quiesced, notified, batch, fan, flush>>

Next ==
    \/ AcceptOne
    \/ \E c \in ConnIds : \/ FirstFrameTimeout(c) \/ ReadReady(c) \/ WriteReady(c)
                          \/ PostedSend(c) \/ BroadcastTo(c)
    \/ FlushStep \/ BatchStep
    \/ Broadcast
    \/ SetRequestSink \/ OnClientDisconnect \/ QuiesceLoop \/ Destroy

Spec == Init /\ [][Next]_vars

(***************************************************************************)
(* A handler that has begun runs to its end, and an armed timer fires.     *)
(* Nothing is assumed of the peers.                                        *)
(***************************************************************************)
FairSpec ==
    /\ Spec
    /\ WF_vars(FlushStep) /\ WF_vars(BatchStep)
    /\ \A c \in ConnIds : WF_vars(BroadcastTo(c)) /\ SF_vars(FirstFrameTimeout(c))

(***************************************************************************)
(* Properties.                                                             *)
(***************************************************************************)

\* The loop is not in the middle of a flush of c.
Settled(c) == c \in Open /\ flush # c

\* No frame is stranded: outside flushWrites, frames are queued exactly when
\* a write source watches for the peer to take them.
NoStrandedFrames ==
    \A c \in ConnIds : Settled(c) => (conn[c].queue # << >> <=> conn[c].watched)

\* A connection that is to close when drained still has something to drain and
\* reads no more: otherwise nothing would ever close it.
ClosingDrains ==
    \A c \in ConnIds : Settled(c) /\ conn[c].closing =>
        conn[c].queue # << >> /\ ~conn[c].reading

\* n is the sum of the sizes of q's frames: t counts it down, frame by frame.
Tallies(q, n) ==
    \E t \in [0..Len(q) -> 0..n] :
        /\ t[0] = n /\ t[Len(q)] = 0
        /\ \A i \in 1..Len(q) : t[i - 1] = t[i] + q[i].size
        /\ \A i, j \in 0..Len(q) : i <= j => t[j] <= t[i]

\* queuedBytes is the sum of what is queued, and neither bound is ever passed.
QueueAccounted ==
    \A c \in ConnIds :
        /\ Tallies(conn[c].queue, conn[c].bytes)
        /\ conn[c].bytes <= MaxQueuedBytes
        /\ Len(conn[c].queue) <= MaxQueuedFrames

\* The outbound queues: typed, accounted and bounded, nothing stranded in them,
\* and a closing connection drains, whichever frame blocks, fails or closes
\* the connection that is being served (SocketTransport.cpp 578-677).
QueueInv == TypeOK /\ QueueAccounted /\ NoStrandedFrames /\ ClosingDrains

\* Whatever closes a connection, each registered handler hears of it once, in
\* the order of registration, and of nothing else.
DisconnectFanOut ==
    [][\A c \in ConnIds :
          IF conn[c].life = "open" /\ conn'[c].life = "closed"
          THEN notified'[c] = handlers
          ELSE notified'[c] = notified[c]]_vars

\* After quiesceLoop() neither the sink nor a disconnect handler runs, so the
\* frontend may be destroyed.
QuietAfterQuiesce == [][quiesced => UNCHANGED notified /\ ~Dispatch]_vars

\* The slow-loris guard: a connection delivers a first frame or is closed.
FirstFrameOrClosed ==
    \A c \in ConnIds : conn[c].life = "open" ~>
        conn[c].life = "closed" \/ conn[c].sawFirstFrame

\* "no event is queued behind the message" (SocketTransport.h, sendThenClose).
NothingBehindFinal ==
    \A c \in ConnIds : \A i \in 1..Len(conn[c].queue) :
        conn[c].queue[i].kind = "final" => i = Len(conn[c].queue)
=============================================================================
