--------------------------- MODULE ConnectionsProofs ---------------------------
(***************************************************************************)
(* The connections of the agent, for any number of them, any bounds and    *)
(* any frame sizes: the outbound queues stay accounted for, bounded and    *)
(* watched; every disconnect is told once; a quiesced loop tells nobody.   *)
(***************************************************************************)
EXTENDS SocketConnections, SequenceTheorems, TLAPS

USE BoundsAssumption DEF ConnIds, NoConn

Handler == {"operations", "leases", "frontend"}

(***************************************************************************)
(* The inductive invariant.                                                *)
(***************************************************************************)

\* A connection in itself: accounted and bounded, nothing left of it when it is
\* not open, and not reading once it is to close.
Sound(r) ==
    /\ r \in Connection
    /\ Tallies(r.queue, r.bytes) /\ r.bytes <= MaxQueuedBytes /\ Len(r.queue) <= MaxQueuedFrames
    /\ r.life # "open" => r = Absent(r.life)
    /\ r.closing => ~r.reading

\* ... and outside flushWrites(): what is queued is watched, what closes drains.
AtRest(r) ==
    r.life = "open" => (r.queue # << >> <=> r.watched) /\ (r.closing => r.queue # << >>)

\* The connections and the flush in progress among them.
ConnsInv ==
    /\ conn \in [ConnIds -> Connection]
    /\ notified \in [ConnIds -> Seq(Handler)]
    /\ nextConnId \in 1..(MaxConnId + 1)
    /\ flush \in Open \cup {NoConn}
    /\ \A c \in ConnIds :
        /\ Sound(conn[c])
        /\ flush # c => AtRest(conn[c])
        /\ conn[c].life # "closed" => notified[c] = << >>
        /\ c >= nextConnId => conn[c].life = "never"

\* The rest of the loop's stack.
StackInv ==
    /\ batch \in [conn : ConnIds \cup {NoConn}, frames : Seq(InFrame), ended : BOOLEAN]
    /\ fan \in [to : SUBSET ConnIds, frame : {<< >>} \cup Frame]
    /\ fan.to # {} => fan.frame \in Frame

\* What main() has registered; a quiesced loop has nothing registered.
RegisteredInv ==
    /\ sink \in BOOLEAN /\ quiesced \in BOOLEAN
    /\ handlers \in {<< >>, <<"operations">>, <<"operations", "leases">>, AllHandlers}
    /\ quiesced => ~sink /\ handlers = << >>

IInv == ConnsInv /\ StackInv /\ RegisteredInv

\* What a step may do to the handlers' knowledge (the body of DisconnectFanOut).
FanOut ==
    \A c \in ConnIds :
        IF conn[c].life = "open" /\ conn'[c].life = "closed"
        THEN notified'[c] = handlers
        ELSE notified'[c] = notified[c]

(***************************************************************************)
(* Frames in a queue.                                                      *)
(***************************************************************************)

\* An empty queue holds no bytes.
LEMMA TallyEmpty == Tallies(<< >>, 0)
<1> DEFINE t == [i \in 0..0 |-> 0]
<1>1. Len(<< >>) = 0
  OBVIOUS
<1>2. t \in [0..0 -> 0..0] /\ t[0] = 0
  OBVIOUS
<1>3. \A i \in 1..0 : FALSE
  OBVIOUS
<1>4. \A i, j \in 0..0 : t[j] <= t[i]
  OBVIOUS
<1> HIDE DEF t
<1> QED
  BY <1>1, <1>2, <1>3, <1>4 DEF Tallies

\* A frame queued adds its size.
LEMMA TallyAppend ==
  ASSUME NEW q \in Seq(Frame), NEW n \in Nat, NEW f \in Frame, Tallies(q, n)
  PROVE  /\ Append(q, f) \in Seq(Frame) /\ Len(Append(q, f)) = Len(q) + 1 /\ Append(q, f) # << >>
         /\ n + f.size \in Nat
         /\ Tallies(Append(q, f), n + f.size)
<1>1. PICK t \in [0..Len(q) -> 0..n] :
        /\ t[0] = n /\ t[Len(q)] = 0
        /\ \A i \in 1..Len(q) : t[i - 1] = t[i] + q[i].size
        /\ \A i, j \in 0..Len(q) : i <= j => t[j] <= t[i]
  BY DEF Tallies
<1>2. Len(q) \in Nat /\ f.size \in Nat
  BY LenProperties DEF Frame
<1>3. /\ Append(q, f) \in Seq(Frame) /\ Len(Append(q, f)) = Len(q) + 1 /\ Append(q, f) # << >>
      /\ \A i \in 1..Len(q) : Append(q, f)[i] = q[i]
      /\ Append(q, f)[Len(q) + 1] = f
  BY <1>2, AppendProperties
<1> DEFINE m == Len(q)
           u == [i \in 0..(m + 1) |-> IF i = m + 1 THEN 0 ELSE t[i] + f.size]
<1>4. u \in [0..(m + 1) -> 0..(n + f.size)] /\ u[0] = n + f.size /\ u[m + 1] = 0
  BY <1>1, <1>2
<1>5. ASSUME NEW i \in 1..(m + 1) PROVE u[i - 1] = u[i] + Append(q, f)[i].size
  <2>1. CASE i = m + 1
    BY <1>1, <1>2, <1>3, <2>1
  <2>2. CASE i \in 1..m
    <3>1. i - 1 \in 0..m /\ i \in 0..m /\ t[i - 1] = t[i] + q[i].size /\ q[i] \in Frame
      BY <1>1, <1>2, <2>2, ElementOfSeq
    <3>2. t[i] \in Nat /\ q[i].size \in Nat
      <4>1. t[i] \in 0..n
        BY <1>1, <3>1
      <4>2. q[i].size \in Sizes
        BY <3>1 DEF Frame
      <4> QED
        BY <4>1, <4>2
    <3>3. u[i - 1] = t[i - 1] + f.size /\ u[i] = t[i] + f.size
      BY <1>2, <2>2, <3>1
    <3>4. Append(q, f)[i].size = q[i].size
      BY <1>3, <2>2
    <3> QED
      BY ONLY <1>2, <3>1, <3>2, <3>3, <3>4
  <2> QED
    BY <1>2, <2>1, <2>2
<1>6. ASSUME NEW i \in 0..(m + 1), NEW j \in 0..(m + 1), i <= j PROVE u[j] <= u[i]
  <2>1. CASE j = m + 1
    BY <1>2, <1>4, <2>1
  <2>2. CASE j # m + 1
    <3>1. i \in 0..m /\ j \in 0..m
      BY <1>2, <1>6, <2>2
    <3>2. t[i] \in 0..n /\ t[j] \in 0..n /\ t[j] <= t[i]
      BY <1>1, <1>6, <3>1
    <3> QED
      BY <1>2, <3>1, <3>2
  <2> QED
    BY <2>1, <2>2
<1> HIDE DEF u
<1>7. Tallies(Append(q, f), n + f.size)
  BY <1>2, <1>3, <1>4, <1>5, <1>6 DEF Tallies
<1> QED
  BY <1>2, <1>3, <1>7

\* A frame sent takes its size away.
LEMMA TallyTail ==
  ASSUME NEW q \in Seq(Frame), NEW n \in Nat, q # << >>, Tallies(q, n)
  PROVE  /\ Tail(q) \in Seq(Frame) /\ Len(Tail(q)) = Len(q) - 1
         /\ n - Head(q).size \in Nat /\ n - Head(q).size <= n
         /\ Tallies(Tail(q), n - Head(q).size)
<1>1. PICK t \in [0..Len(q) -> 0..n] :
        /\ t[0] = n /\ t[Len(q)] = 0
        /\ \A i \in 1..Len(q) : t[i - 1] = t[i] + q[i].size
        /\ \A i, j \in 0..Len(q) : i <= j => t[j] <= t[i]
  BY DEF Tallies
<1>2. /\ Len(q) \in Nat \ {0} /\ Tail(q) \in Seq(Frame) /\ Len(Tail(q)) = Len(q) - 1
      /\ \A i \in 1..(Len(q) - 1) : Tail(q)[i] = q[i + 1]
      /\ Head(q) = q[1] /\ Head(q) \in Frame
  BY HeadTailProperties, EmptySeq, LenProperties
<1>h. Head(q).size \in Nat
  BY <1>2 DEF Frame
<1> DEFINE m == Len(q) - 1
           u == [i \in 0..m |-> t[i + 1]]
<1>3. t[1] = n - Head(q).size /\ t[1] \in Nat /\ t[1] <= n
  BY <1>1, <1>2, <1>h
<1>4. u \in [0..m -> 0..t[1]] /\ u[0] = t[1] /\ u[m] = 0
  <2>1. \A i \in 0..m : i + 1 \in 0..Len(q) /\ t[i + 1] \in 0..n /\ t[i + 1] <= t[1]
    BY <1>1, <1>2, SMTT(30)
  <2>2. m + 1 = Len(q) /\ m \in 0..m
    BY <1>2
  <2> QED
    BY <1>1, <1>2, <1>3, <2>1, <2>2
<1>5. ASSUME NEW i \in 1..m PROVE u[i - 1] = u[i] + Tail(q)[i].size
  BY <1>1, <1>2
<1>6. \A i, j \in 0..m : i <= j => u[j] <= u[i]
  BY <1>1, <1>2
<1> HIDE DEF u
<1>7. Tallies(Tail(q), t[1])
  BY <1>2, <1>3, <1>4, <1>5, <1>6 DEF Tallies
<1> QED
  BY <1>2, <1>3, <1>7

(***************************************************************************)
(* A connection's record.                                                  *)
(***************************************************************************)

\* What is not in the map.
LEMMA AbsentSound ==
  ASSUME NEW l \in {"never", "closed"}
  PROVE  Absent(l) \in Connection /\ Absent(l).life = l /\ Sound(Absent(l)) /\ AtRest(Absent(l))
<1>1. Absent(l) \in Connection /\ Absent(l).life = l
  BY EmptySeq DEF Absent, Connection
<1>2. Tallies(Absent(l).queue, Absent(l).bytes) /\ Len(Absent(l).queue) = 0 /\ Absent(l).bytes = 0
  BY TallyEmpty, EmptySeq DEF Absent
<1>3. ~Absent(l).closing
  BY DEF Absent
<1> QED
  BY <1>1, <1>2, <1>3 DEF Sound, AtRest

\* What acceptOne() puts in the map.
LEMMA AcceptedSound ==
  ASSUME NEW r, r = [Absent("open") EXCEPT !.reading = TRUE, !.timer = TRUE, !.wantsPresence = TRUE]
  PROVE  r \in Connection /\ r.life = "open" /\ Sound(r) /\ AtRest(r)
<1> DEFINE a == [life |-> "open", reading |-> TRUE, watched |-> FALSE, timer |-> TRUE,
                 sawFirstFrame |-> FALSE, wantsPresence |-> TRUE, closing |-> FALSE,
                 working |-> FALSE, queue |-> << >>, bytes |-> 0]
<1>1. r = a
  BY DEF Absent
<1>2. a \in Connection /\ a.life = "open"
  BY EmptySeq DEF Connection
<1>3. Tallies(a.queue, a.bytes) /\ Len(a.queue) = 0 /\ a.bytes = 0 /\ a.queue = << >>
  BY TallyEmpty, EmptySeq
<1>4. ~a.closing /\ ~a.watched
  OBVIOUS
<1> HIDE DEF a
<1>5. Sound(a) /\ AtRest(a)
  BY <1>2, <1>3, <1>4 DEF Sound, AtRest
<1> QED
  BY <1>1, <1>2, <1>5

\* A change that leaves the queue alone.
LEMMA FlagsSound ==
  ASSUME NEW r, Sound(r), r.life = "open",
         NEW s \in Connection, s.life = "open", s.queue = r.queue, s.bytes = r.bytes,
         s.closing => ~s.reading
  PROVE  Sound(s) /\ (s.closing = r.closing /\ s.watched = r.watched /\ AtRest(r) => AtRest(s))
  BY DEF Sound, AtRest

\* A frame queued within the bounds.
LEMMA AppendSound ==
  ASSUME NEW r, Sound(r), r.life = "open", NEW f \in Frame,
         ~(r.bytes + f.size > MaxQueuedBytes), ~(Len(r.queue) + 1 > MaxQueuedFrames),
         NEW s, s = [r EXCEPT !.queue = Append(@, f), !.bytes = @ + f.size]
  PROVE  s \in Connection /\ s.life = "open" /\ Sound(s)
<1>1. r \in Connection /\ r.queue \in Seq(Frame) /\ r.bytes \in Nat /\ Tallies(r.queue, r.bytes)
  BY DEF Sound, Connection
<1>2. /\ Append(r.queue, f) \in Seq(Frame) /\ Len(Append(r.queue, f)) = Len(r.queue) + 1
      /\ r.bytes + f.size \in Nat
      /\ Tallies(Append(r.queue, f), r.bytes + f.size)
  BY <1>1, TallyAppend
<1>3. s = [r EXCEPT !.queue = Append(r.queue, f), !.bytes = r.bytes + f.size]
  OBVIOUS
<1>4. s \in Connection
  BY <1>1, <1>2, <1>3 DEF Connection
<1>5. s.queue = Append(r.queue, f) /\ s.bytes = r.bytes + f.size
  BY <1>1, <1>3 DEF Connection
<1>6. s.life = r.life /\ s.closing = r.closing /\ s.reading = r.reading
  BY <1>1, <1>3 DEF Connection
<1>7. Len(r.queue) \in Nat
  BY <1>1, LenProperties
<1>8. s.bytes <= MaxQueuedBytes /\ Len(s.queue) <= MaxQueuedFrames
  BY <1>1, <1>2, <1>5, <1>7
<1> QED
  BY <1>2, <1>4, <1>5, <1>6, <1>8 DEF Sound

\* A frame sent.
LEMMA TailSound ==
  ASSUME NEW r, Sound(r), r.life = "open", r.queue # << >>,
         NEW s, s = [r EXCEPT !.queue = Tail(@), !.bytes = @ - Head(r.queue).size]
  PROVE  s \in Connection /\ s.life = "open" /\ Sound(s)
<1>1. r \in Connection /\ r.queue \in Seq(Frame) /\ r.bytes \in Nat /\ Tallies(r.queue, r.bytes)
  BY DEF Sound, Connection
<1> DEFINE b == r.bytes - Head(r.queue).size
<1>2. /\ Tail(r.queue) \in Seq(Frame) /\ Len(Tail(r.queue)) = Len(r.queue) - 1
      /\ b \in Nat /\ b <= r.bytes /\ Tallies(Tail(r.queue), b)
  BY <1>1, TallyTail
<1>3. s = [r EXCEPT !.queue = Tail(r.queue), !.bytes = b]
  OBVIOUS
<1> HIDE DEF b
<1>4. s \in Connection
  BY <1>1, <1>2, <1>3 DEF Connection
<1>5. s.queue = Tail(r.queue) /\ s.bytes = b
  BY <1>1, <1>3 DEF Connection
<1>6. s.life = r.life /\ s.closing = r.closing /\ s.reading = r.reading
  BY <1>1, <1>3 DEF Connection
<1>7. Len(r.queue) \in Nat
  BY <1>1, LenProperties
<1>8. s.bytes <= MaxQueuedBytes /\ Len(s.queue) <= MaxQueuedFrames
  BY <1>1, <1>2, <1>5, <1>7 DEF Sound
<1> QED
  BY <1>2, <1>4, <1>5, <1>6, <1>8 DEF Sound

(***************************************************************************)
(* What a handler does to one connection.                                  *)
(***************************************************************************)

\* A connection that stays in the map, or enters it.
LEMMA UpdateInv ==
  ASSUME ConnsInv, NEW c \in ConnIds, NEW r, Update(c, r),
         r.life = "open", Sound(r), conn[c].life # "closed",
         nextConnId' \in 1..(MaxConnId + 1), nextConnId' >= nextConnId, c < nextConnId',
         flush' = c \/ (AtRest(r) /\ flush' = NoConn),
         flush \in {c, NoConn}
  PROVE  ConnsInv' /\ FanOut
<1> USE DEF ConnsInv, Update
<1>1. r \in Connection /\ conn' \in [ConnIds -> Connection] /\ conn'[c] = r
  BY DEF Sound
<1>2. \A d \in ConnIds : d # c => conn'[d] = conn[d]
  OBVIOUS
<1>3. flush' \in Open' \cup {NoConn}
  BY <1>1, <1>2 DEF Open
<1>4. ASSUME NEW d \in ConnIds
      PROVE  /\ Sound(conn'[d]) /\ (flush' # d => AtRest(conn'[d]))
             /\ (conn'[d].life # "closed" => notified'[d] = << >>)
             /\ (d >= nextConnId' => conn'[d].life = "never")
  <2>1. CASE d = c
    BY <1>1, <2>1
  <2>2. CASE d # c
    BY <1>2, <2>2, SMTT(30)
  <2> QED
    BY <2>1, <2>2
<1>5. FanOut
  BY <1>1, <1>2 DEF FanOut
<1> QED
  BY <1>1, <1>3, <1>4, <1>5, ZenonT(60) DEF Sound, AtRest, Tallies, Absent

\* The handlers registered are handlers.
LEMMA RegisteredTyped ==
  ASSUME RegisteredInv
  PROVE  handlers \in Seq(Handler)
<1>1. "operations" \in Handler /\ "leases" \in Handler /\ "frontend" \in Handler
  BY DEF Handler
<1>2. << >> \in Seq(Handler) /\ <<"operations">> \in Seq(Handler)
  BY <1>1
<1>3. <<"operations", "leases">> \in Seq(Handler)
  BY <1>1
<1>4. <<"operations", "leases", "frontend">> \in Seq(Handler)
  BY <1>1
<1> QED
  BY <1>2, <1>3, <1>4 DEF RegisteredInv, AllHandlers

\* A connection that is closed.
LEMMA CloseInv ==
  ASSUME ConnsInv, RegisteredInv, NEW c \in Open, CloseConnection(c),
         nextConnId' = nextConnId, flush' = NoConn, flush \in {c, NoConn}
  PROVE  ConnsInv' /\ FanOut
<1> USE DEF ConnsInv, CloseConnection
<1>1. c \in ConnIds /\ conn[c].life = "open" /\ notified[c] = << >>
  BY DEF Open
<1>2. handlers \in Seq(Handler)
  BY RegisteredTyped
<1>3. notified'[c] = handlers
  BY <1>1, <1>2, ConcatEmptySeq
<1>4. /\ notified' \in [ConnIds -> Seq(Handler)]
      /\ \A d \in ConnIds : d # c => notified'[d] = notified[d] /\ conn'[d] = conn[d]
  BY <1>1, <1>2, <1>3
<1>5. Absent("closed") \in Connection /\ Absent("closed").life = "closed" /\ Sound(Absent("closed")) /\ AtRest(Absent("closed"))
  BY AbsentSound
<1>6. conn' \in [ConnIds -> Connection] /\ conn'[c] = Absent("closed")
  BY <1>1, <1>5
<1>7. ASSUME NEW d \in ConnIds
      PROVE  /\ Sound(conn'[d]) /\ (flush' # d => AtRest(conn'[d]))
             /\ (conn'[d].life # "closed" => notified'[d] = << >>)
             /\ (d >= nextConnId' => conn'[d].life = "never")
  <2>1. CASE d = c
    BY <1>1, <1>5, <1>6, <2>1
  <2>2. CASE d # c
    BY <1>4, <2>2
  <2> QED
    BY <2>1, <2>2
<1>8. FanOut
  BY <1>1, <1>3, <1>4, <1>5, <1>6 DEF FanOut
<1> QED
  BY <1>4, <1>6, <1>7, <1>8

\* enqueueSend(), on behalf of a handler that may have changed the flags.
LEMMA EnqueueInv ==
  ASSUME ConnsInv, RegisteredInv, NEW c \in Open, NEW r, NEW f \in Frame, Enqueue(c, r, f),
         r.life = "open", Sound(r), nextConnId' = nextConnId, flush = NoConn
  PROVE  ConnsInv' /\ FanOut
<1>1. c \in ConnIds /\ conn[c].life = "open" /\ c < nextConnId
  BY DEF Open, ConnsInv
<1>2. CASE r.bytes + f.size > MaxQueuedBytes \/ Len(r.queue) + 1 > MaxQueuedFrames
  BY <1>2, CloseInv DEF Enqueue
<1>3. CASE ~(r.bytes + f.size > MaxQueuedBytes \/ Len(r.queue) + 1 > MaxQueuedFrames)
  <2> DEFINE s == [r EXCEPT !.queue = Append(@, f), !.bytes = @ + f.size]
  <2>1. s.life = "open" /\ Sound(s)
    BY <1>3, AppendSound
  <2>2. Update(c, s) /\ flush' = c
    BY <1>3 DEF Enqueue
  <2> HIDE DEF s
  <2>3. nextConnId' \in 1..(MaxConnId + 1) /\ nextConnId' >= nextConnId
    BY DEF ConnsInv
  <2> QED
    BY <1>1, <2>1, <2>2, <2>3, UpdateInv
<1> QED
  BY <1>2, <1>3

\* No connection is touched.
LEMMA StayInv ==
  ASSUME ConnsInv, UNCHANGED <<conn, notified, nextConnId, flush>>
  PROVE  ConnsInv' /\ FanOut
<1>1. Open' = Open
  BY DEF Open
<1> QED
  BY <1>1 DEF ConnsInv, FanOut

\* What a connection that anything happens to looks like.
LEMMA TouchedOpen ==
  ASSUME ConnsInv, NEW c \in ConnIds,
         conn[c].timer \/ conn[c].reading \/ conn[c].watched \/ conn[c].working
  PROVE  c \in Open
<1>1. Sound(conn[c])
  BY DEF ConnsInv
<1>2. CASE conn[c].life # "open"
  <2>1. conn[c] = Absent(conn[c].life)
    BY <1>1, <1>2 DEF Sound
  <2>2. ~conn[c].timer /\ ~conn[c].reading /\ ~conn[c].watched /\ ~conn[c].working
    BY <2>1 DEF Absent
  <2> QED
    BY <2>2
<1> QED
  BY <1>2 DEF Open

(***************************************************************************)
(* flushWrites().                                                          *)
(***************************************************************************)
LEMMA FlushInv ==
  ASSUME IInv, FlushStep
  PROVE  IInv' /\ FanOut
<1>1. StackInv' /\ RegisteredInv'
  BY DEF IInv, FlushStep, FlushSent, FlushWouldBlock, FlushError, FlushDrained, FlushRest, StackInv,
         RegisteredInv
<1> DEFINE c == flush
           r == conn[c]
<1>2. /\ c \in ConnIds /\ c \in Open /\ r.life = "open" /\ Sound(r) /\ r \in Connection
      /\ c < nextConnId /\ nextConnId' = nextConnId /\ nextConnId \in 1..(MaxConnId + 1)
  BY DEF IInv, ConnsInv, FlushStep, FlushSent, FlushWouldBlock, FlushError, FlushDrained, FlushRest, Open
<1>3. CASE FlushSent
  <2> DEFINE s == [r EXCEPT !.queue = Tail(@), !.bytes = @ - Head(r.queue).size]
  <2>1. s.life = "open" /\ Sound(s)
    BY <1>2, <1>3, TailSound DEF FlushSent
  <2>2. Update(c, s) /\ flush' = c
    BY <1>3 DEF FlushSent
  <2> HIDE DEF s
  <2> QED
    BY <1>1, <1>2, <2>1, <2>2, UpdateInv DEF IInv
<1>4. CASE FlushWouldBlock
  <2> DEFINE s == [r EXCEPT !.watched = TRUE]
  <2>1. s \in Connection /\ s.life = "open" /\ s.queue = r.queue /\ s.bytes = r.bytes
    BY <1>2 DEF Connection
  <2>2. s.watched /\ s.closing = r.closing /\ s.reading = r.reading
    BY <1>2 DEF Connection
  <2>3. Update(c, s) /\ flush' = NoConn /\ s.queue # << >>
    BY <1>4, <2>1 DEF FlushWouldBlock
  <2> HIDE DEF s
  <2>4. Sound(s)
    BY <1>2, <2>1, <2>2, FlagsSound DEF Sound
  <2>5. AtRest(s)
    BY <2>2, <2>3 DEF AtRest
  <2> QED
    BY <1>1, <1>2, <2>1, <2>3, <2>4, <2>5, UpdateInv DEF IInv
<1>5. CASE FlushError
  BY <1>1, <1>2, <1>5, CloseInv DEF FlushError, IInv
<1>6. CASE FlushDrained /\ r.closing
  BY <1>1, <1>2, <1>6, CloseInv DEF FlushDrained, IInv
<1>7. CASE FlushDrained /\ ~r.closing
  <2> DEFINE s == [r EXCEPT !.watched = FALSE]
  <2>1. s \in Connection /\ s.life = "open" /\ s.queue = r.queue /\ s.bytes = r.bytes
    BY <1>2 DEF Connection
  <2>2. ~s.watched /\ s.closing = r.closing /\ s.reading = r.reading
    BY <1>2 DEF Connection
  <2>3. Update(c, s) /\ flush' = NoConn /\ s.queue = << >>
    BY <1>7, <2>1 DEF FlushDrained
  <2> HIDE DEF s
  <2>4. Sound(s)
    BY <1>2, <2>1, <2>2, FlagsSound DEF Sound
  <2>5. AtRest(s)
    BY <1>7, <2>2, <2>3 DEF AtRest
  <2> QED
    BY <1>1, <1>2, <2>1, <2>3, <2>4, <2>5, UpdateInv DEF IInv
<1> QED
  BY <1>3, <1>4, <1>5, <1>6, <1>7 DEF FlushStep

(***************************************************************************)
(* Event handlers of the loop.                                             *)
(***************************************************************************)
LEMMA AcceptOneInv ==
  ASSUME IInv, AcceptOne
  PROVE  IInv' /\ FanOut
<1> DEFINE r == [Absent("open") EXCEPT !.reading = TRUE, !.timer = TRUE, !.wantsPresence = TRUE]
<1>1. r.life = "open" /\ Sound(r) /\ AtRest(r)
  BY AcceptedSound
<1>2. Update(nextConnId, r) /\ nextConnId \in ConnIds /\ nextConnId' = nextConnId + 1
  BY DEF AcceptOne
<1>3. flush = NoConn /\ flush' = NoConn
  BY DEF AcceptOne, LoopIdle
<1>4. conn[nextConnId].life # "closed" /\ nextConnId' \in 1..(MaxConnId + 1)
  BY <1>2 DEF IInv, ConnsInv
<1> HIDE DEF r
<1>5. ConnsInv' /\ FanOut
  BY <1>1, <1>2, <1>3, <1>4, UpdateInv DEF IInv
<1> QED
  BY <1>5 DEF IInv, AcceptOne, StackInv, RegisteredInv

LEMMA TimeoutInv ==
  ASSUME IInv, NEW c \in ConnIds, FirstFrameTimeout(c)
  PROVE  IInv' /\ FanOut
<1>1. c \in Open /\ flush = NoConn /\ flush' = NoConn
  BY TouchedOpen DEF FirstFrameTimeout, LoopIdle, IInv
<1>2. ConnsInv' /\ FanOut
  BY <1>1, CloseInv DEF FirstFrameTimeout, IInv
<1> QED
  BY <1>2 DEF IInv, FirstFrameTimeout, StackInv, RegisteredInv

\* A read of frames, and the end of the first-frame timer.
LEMMA ReadReadyInv ==
  ASSUME IInv, NEW c \in ConnIds, ReadReady(c)
  PROVE  IInv' /\ FanOut
<1> DEFINE r == conn[c]
<1>1. /\ c \in Open /\ flush = NoConn /\ flush' = NoConn
      /\ r \in Connection /\ r.life = "open" /\ Sound(r) /\ AtRest(r) /\ c < nextConnId
  <2>1. c \in Open /\ flush = NoConn /\ flush' = NoConn
    BY TouchedOpen DEF ReadReady, LoopIdle, IInv
  <2>2. r \in Connection /\ r.life = "open" /\ Sound(r) /\ AtRest(r)
    BY <2>1 DEF IInv, ConnsInv, Open
  <2>3. c < nextConnId
    BY <2>2 DEF IInv, ConnsInv
  <2> QED
    BY <2>1, <2>2, <2>3
<1>2. PICK n \in 0..MaxBatch : \E fs \in [1..n -> InFrame], ended \in BOOLEAN :
          /\ batch' = [conn |-> c, frames |-> fs, ended |-> ended]
          /\ Update(c, [conn[c] EXCEPT !.sawFirstFrame = @ \/ n > 0, !.timer = @ /\ n = 0])
  BY DEF ReadReady
<1>3. PICK fs \in [1..n -> InFrame], ended \in BOOLEAN :
          /\ batch' = [conn |-> c, frames |-> fs, ended |-> ended]
          /\ Update(c, [conn[c] EXCEPT !.sawFirstFrame = @ \/ n > 0, !.timer = @ /\ n = 0])
  BY <1>2
<1>4. fs \in Seq(InFrame)
  <2>1. n \in Nat
    OBVIOUS
  <2> QED
    BY <2>1, SeqDef
<1> DEFINE a == r.sawFirstFrame \/ n > 0
           b == r.timer /\ n = 0
           s == [r EXCEPT !.sawFirstFrame = a, !.timer = b]
<1>5. a \in BOOLEAN /\ b \in BOOLEAN /\ Update(c, s)
  BY <1>3
<1> HIDE DEF a, b
<1>6. s \in Connection /\ s.life = "open" /\ s.queue = r.queue /\ s.bytes = r.bytes
  BY <1>1, <1>5 DEF Connection
<1>7. s.watched = r.watched /\ s.closing = r.closing /\ s.reading = r.reading
  BY <1>1 DEF Connection
<1> HIDE DEF s
<1>8. Sound(s) /\ AtRest(s)
  BY <1>1, <1>6, <1>7, FlagsSound DEF Sound
<1>9. ConnsInv' /\ FanOut
  <2>1. nextConnId' = nextConnId /\ nextConnId \in 1..(MaxConnId + 1)
    BY DEF ReadReady, IInv, ConnsInv
  <2> QED
    BY <1>1, <1>5, <1>6, <1>8, <2>1, UpdateInv DEF IInv
<1>10. StackInv'
  BY <1>3, <1>4 DEF StackInv, IInv, ReadReady
<1> QED
  BY <1>9, <1>10 DEF IInv, ReadReady, RegisteredInv

\* A write source fires: the flush begins, on an open connection.
LEMMA WriteReadyInv ==
  ASSUME IInv, NEW c \in ConnIds, WriteReady(c)
  PROVE  IInv' /\ FanOut
<1>1. c \in Open /\ flush = NoConn /\ flush' = c /\ UNCHANGED <<conn, notified, nextConnId>>
  BY TouchedOpen DEF WriteReady, LoopIdle, IInv
<1>2. Open' = Open
  BY <1>1 DEF Open
<1>3. ConnsInv' /\ FanOut
  BY <1>1, <1>2 DEF ConnsInv, FanOut, IInv
<1> QED
  BY <1>3 DEF IInv, WriteReady, StackInv, RegisteredInv

(***************************************************************************)
(* The rest of onReadReady(), one frame a step.                            *)
(***************************************************************************)
LEMMA DropMalformedInv ==
  ASSUME IInv, DropMalformed
  PROVE  IInv' /\ FanOut
<1>1. flush = NoConn /\ flush' = NoConn /\ nextConnId' = nextConnId
  BY DEF DropMalformed, InBatch
<1>2. ConnsInv' /\ FanOut
  <2>1. CASE batch.conn \in Open
    BY <1>1, <2>1, CloseInv DEF DropMalformed, IInv
  <2>2. CASE batch.conn \notin Open
    BY <1>1, <2>2, StayInv DEF DropMalformed, IInv
  <2> QED
    BY <2>1, <2>2
<1>3. NoBatch \in [conn : ConnIds \cup {NoConn}, frames : Seq(InFrame), ended : BOOLEAN]
  BY EmptySeq DEF NoBatch
<1>4. StackInv'
  BY <1>3 DEF StackInv, IInv, DropMalformed
<1> QED
  BY <1>2, <1>4 DEF IInv, DropMalformed, RegisteredInv

LEMMA AbandonBatchInv ==
  ASSUME IInv, AbandonBatch
  PROVE  IInv' /\ FanOut
<1>1. ConnsInv' /\ FanOut
  BY StayInv DEF AbandonBatch, IInv
<1>2. NoBatch \in [conn : ConnIds \cup {NoConn}, frames : Seq(InFrame), ended : BOOLEAN]
  BY EmptySeq DEF NoBatch
<1>3. StackInv'
  BY <1>2 DEF StackInv, IInv, AbandonBatch
<1> QED
  BY <1>1, <1>3 DEF IInv, AbandonBatch, RegisteredInv

\* The frames left are frames.
LEMMA NextFrameTyped ==
  ASSUME StackInv, batch.frames # << >>, NextFrame, UNCHANGED fan
  PROVE  StackInv'
<1>1. batch.frames \in Seq(InFrame)
  BY DEF StackInv
<1>2. Tail(batch.frames) \in Seq(InFrame)
  BY <1>1, HeadTailProperties
<1>3. batch' = [batch EXCEPT !.frames = Tail(batch.frames)]
  BY DEF NextFrame
<1> QED
  BY <1>2, <1>3 DEF StackInv

LEMMA DropUnsunkInv ==
  ASSUME IInv, DropUnsunk
  PROVE  IInv' /\ FanOut
<1>1. ConnsInv' /\ FanOut
  BY StayInv DEF DropUnsunk, IInv
<1>2. StackInv'
  BY NextFrameTyped DEF DropUnsunk, IInv
<1> QED
  BY <1>1, <1>2 DEF IInv, DropUnsunk, RegisteredInv

\* A request of any kind leaves its connection sound, or closed.
LEMMA SinkCallInv ==
  ASSUME ConnsInv, RegisteredInv, NEW c \in Open, NEW f \in InFrame, SinkCall(c, f),
         flush = NoConn, nextConnId' = nextConnId
  PROVE  ConnsInv' /\ FanOut
<1> DEFINE r == conn[c]
<1>1. /\ c \in ConnIds /\ r \in Connection /\ r.life = "open" /\ Sound(r) /\ AtRest(r)
  BY DEF ConnsInv, Open
<1>2. c < nextConnId /\ nextConnId \in 1..(MaxConnId + 1)
  BY <1>1 DEF ConnsInv
<1>3. PICK z \in Sizes :
        \/ f = "hello" /\ Enqueue(c, [r EXCEPT !.wantsPresence = TRUE], [kind |-> "message", size |-> z])
        \/ f = "helloQuiet" /\ Enqueue(c, [r EXCEPT !.wantsPresence = FALSE], [kind |-> "message", size |-> z])
        \/ f = "helloOther" /\ EnqueueFinal(c, r, [kind |-> "final", size |-> z])
        \/ f = "request" /\ Enqueue(c, r, [kind |-> "message", size |-> z])
        \/ f = "launch" /\ Update(c, [r EXCEPT !.working = TRUE]) /\ UNCHANGED flush
  BY DEF SinkCall
<1>4. [kind |-> "message", size |-> z] \in Frame /\ [kind |-> "final", size |-> z] \in Frame
  BY DEF Frame
<1>5. ASSUME NEW w \in BOOLEAN,
             Enqueue(c, [r EXCEPT !.wantsPresence = w], [kind |-> "message", size |-> z])
      PROVE  ConnsInv' /\ FanOut
  <2> DEFINE s == [r EXCEPT !.wantsPresence = w]
  <2>1. s \in Connection /\ s.life = "open" /\ s.queue = r.queue /\ s.bytes = r.bytes
    BY <1>1 DEF Connection
  <2>2. s.closing = r.closing /\ s.reading = r.reading
    BY <1>1 DEF Connection
  <2>3. Enqueue(c, s, [kind |-> "message", size |-> z])
    BY <1>5
  <2> HIDE DEF s
  <2>4. Sound(s)
    BY <1>1, <2>1, <2>2, FlagsSound DEF Sound
  <2> QED
    BY <1>4, <2>1, <2>3, <2>4, EnqueueInv
<1>6. ASSUME EnqueueFinal(c, r, [kind |-> "final", size |-> z])
      PROVE  ConnsInv' /\ FanOut
  <2> DEFINE s == [r EXCEPT !.reading = FALSE, !.closing = TRUE]
  <2>1. s \in Connection /\ s.life = "open" /\ s.queue = r.queue /\ s.bytes = r.bytes
    BY <1>1 DEF Connection
  <2>2. ~s.reading
    BY <1>1 DEF Connection
  <2>3. Enqueue(c, s, [kind |-> "final", size |-> z])
    BY <1>6 DEF EnqueueFinal
  <2> HIDE DEF s
  <2>4. Sound(s)
    BY <1>1, <2>1, <2>2, FlagsSound
  <2> QED
    BY <1>4, <2>1, <2>3, <2>4, EnqueueInv
<1>7. ASSUME Enqueue(c, r, [kind |-> "message", size |-> z])
      PROVE  ConnsInv' /\ FanOut
  BY <1>1, <1>4, <1>7, EnqueueInv
<1>8. ASSUME Update(c, [r EXCEPT !.working = TRUE]), UNCHANGED flush
      PROVE  ConnsInv' /\ FanOut
  <2> DEFINE s == [r EXCEPT !.working = TRUE]
  <2>1. s \in Connection /\ s.life = "open" /\ s.queue = r.queue /\ s.bytes = r.bytes
    BY <1>1 DEF Connection
  <2>2. s.closing = r.closing /\ s.reading = r.reading /\ s.watched = r.watched
    BY <1>1 DEF Connection
  <2>3. Update(c, s) /\ flush' = NoConn
    BY <1>8
  <2> HIDE DEF s
  <2>4. Sound(s) /\ AtRest(s)
    BY <1>1, <2>1, <2>2, FlagsSound DEF Sound
  <2> QED
    BY <1>1, <1>2, <2>1, <2>3, <2>4, UpdateInv
<1> QED
  BY <1>3, <1>5, <1>6, <1>7, <1>8

LEMMA DispatchInv ==
  ASSUME IInv, Dispatch
  PROVE  IInv' /\ FanOut
<1>1. /\ batch.conn \in ConnIds /\ batch.frames \in Seq(InFrame) /\ batch.frames # << >>
      /\ flush = NoConn /\ nextConnId' = nextConnId
  BY DEF Dispatch, InBatch, IInv, StackInv
<1>2. batch.conn \in Open /\ Head(batch.frames) \in InFrame
  BY <1>1, HeadTailProperties DEF Dispatch, Takes, Open
<1>3. ConnsInv' /\ FanOut
  BY <1>1, <1>2, SinkCallInv DEF Dispatch, IInv
<1>4. StackInv'
  BY <1>1, NextFrameTyped DEF Dispatch, IInv
<1> QED
  BY <1>3, <1>4 DEF IInv, Dispatch, RegisteredInv

LEMMA EndBatchInv ==
  ASSUME IInv, EndBatch
  PROVE  IInv' /\ FanOut
<1>1. flush = NoConn /\ flush' = NoConn /\ nextConnId' = nextConnId
  BY DEF EndBatch, InBatch
<1>2. ConnsInv' /\ FanOut
  <2>1. CASE batch.ended /\ batch.conn \in Open
    BY <1>1, <2>1, CloseInv DEF EndBatch, IInv
  <2>2. CASE ~(batch.ended /\ batch.conn \in Open)
    BY <1>1, <2>2, StayInv DEF EndBatch, IInv
  <2> QED
    BY <2>1, <2>2
<1>3. NoBatch \in [conn : ConnIds \cup {NoConn}, frames : Seq(InFrame), ended : BOOLEAN]
  BY EmptySeq DEF NoBatch
<1>4. StackInv'
  BY <1>3 DEF StackInv, IInv, EndBatch
<1> QED
  BY <1>2, <1>4 DEF IInv, EndBatch, RegisteredInv

(***************************************************************************)
(* Posted work.                                                            *)
(***************************************************************************)
LEMMA PostedSendInv ==
  ASSUME IInv, NEW c \in ConnIds, PostedSend(c)
  PROVE  IInv' /\ FanOut
<1>1. c \in Open /\ flush = NoConn /\ nextConnId' = nextConnId
  BY TouchedOpen DEF PostedSend, LoopIdle, IInv
<1>2. PICK z \in Sizes : Enqueue(c, conn[c], [kind |-> "message", size |-> z])
  BY DEF PostedSend
<1>3. [kind |-> "message", size |-> z] \in Frame /\ conn[c].life = "open" /\ Sound(conn[c])
  BY <1>1 DEF Frame, Open, IInv, ConnsInv
<1>4. ConnsInv' /\ FanOut
  BY <1>1, <1>2, <1>3, EnqueueInv DEF IInv
<1> QED
  BY <1>4 DEF IInv, PostedSend, StackInv, RegisteredInv

LEMMA BroadcastInv ==
  ASSUME IInv, Broadcast
  PROVE  IInv' /\ FanOut
<1>1. ConnsInv' /\ FanOut
  BY StayInv DEF Broadcast, IInv
<1>2. PICK to \in SUBSET ConnIds, z \in Sizes : fan' = [to |-> to, frame |-> [kind |-> "message", size |-> z]]
  BY DEF Broadcast, Open
<1>3. [kind |-> "message", size |-> z] \in Frame
  BY DEF Frame
<1>4. StackInv'
  BY <1>2, <1>3 DEF StackInv, IInv, Broadcast
<1> QED
  BY <1>1, <1>4 DEF IInv, Broadcast, RegisteredInv

\* A connection that went meanwhile is passed over.
LEMMA BroadcastToInv ==
  ASSUME IInv, NEW c \in ConnIds, BroadcastTo(c)
  PROVE  IInv' /\ FanOut
<1>1. fan.frame \in Frame /\ c \in fan.to /\ flush = NoConn /\ nextConnId' = nextConnId
  BY DEF BroadcastTo, IInv, StackInv
<1>2. ConnsInv' /\ FanOut
  <2>1. CASE c \in Open
    BY <1>1, <2>1, EnqueueInv DEF BroadcastTo, IInv, ConnsInv, Open
  <2>2. CASE c \notin Open
    BY <1>1, <2>2, StayInv DEF BroadcastTo, IInv
  <2> QED
    BY <2>1, <2>2
<1>3. StackInv'
  BY <1>1 DEF BroadcastTo, StackInv, IInv, NoFan
<1> QED
  BY <1>2, <1>3 DEF IInv, BroadcastTo, RegisteredInv

(***************************************************************************)
(* main().                                                                 *)
(***************************************************************************)
LEMMA SetRequestSinkInv ==
  ASSUME IInv, SetRequestSink
  PROVE  IInv' /\ FanOut
<1>1. ConnsInv' /\ FanOut
  BY StayInv DEF SetRequestSink, IInv
<1> QED
  BY <1>1 DEF IInv, SetRequestSink, StackInv, RegisteredInv

\* What a sequence with one more element is.
LEMMA AppendIs ==
  ASSUME NEW S, NEW s \in Seq(S), NEW t \in Seq(S), NEW e \in S,
         Len(t) = Len(s) + 1, t[Len(t)] = e, \A i \in 1..Len(s) : t[i] = s[i]
  PROVE  Append(s, e) = t
<1>1. /\ Append(s, e) \in Seq(S) /\ Len(Append(s, e)) = Len(s) + 1 /\ Len(s) \in Nat
      /\ \A i \in 1..Len(s) : Append(s, e)[i] = s[i]
      /\ Append(s, e)[Len(s) + 1] = e
  BY AppendProperties, LenProperties
<1>2. \A i \in 1..Len(t) : Append(s, e)[i] = t[i]
  BY <1>1
<1> QED
  BY <1>1, <1>2, SeqEqual

\* The second and the third registration.
LEMMA RegisterInOrder ==
  /\ Append(<<"operations">>, "leases") = <<"operations", "leases">>
  /\ Append(<<"operations", "leases">>, "frontend") = <<"operations", "leases", "frontend">>
<1>1. ASSUME NEW two, two = <<"operations", "leases">>
      PROVE  Append(<<"operations">>, "leases") = two
  <2>1. ASSUME NEW one, one = <<"operations">> PROVE Append(one, "leases") = two
    <3>1. one \in Seq(Handler) /\ two \in Seq(Handler) /\ "leases" \in Handler
      BY <1>1, <2>1 DEF Handler
    <3>2. Len(one) = 1 /\ Len(two) = 2 /\ two[1] = one[1] /\ two[2] = "leases"
      BY <1>1, <2>1
    <3>3. \A i \in 1..1 : i = 1
      OBVIOUS
    <3>4. \A i \in 1..Len(one) : two[i] = one[i]
      BY ONLY <3>2, <3>3
    <3>5. Len(two) = Len(one) + 1 /\ two[Len(two)] = "leases"
      BY ONLY <3>2
    <3> QED
      BY ONLY <3>1, <3>4, <3>5, AppendIs
  <2> QED
    BY <2>1
<1>2. ASSUME NEW three, three = <<"operations", "leases", "frontend">>
      PROVE  Append(<<"operations", "leases">>, "frontend") = three
  <2>1. ASSUME NEW two, two = <<"operations", "leases">> PROVE Append(two, "frontend") = three
    <3>1. two \in Seq(Handler) /\ three \in Seq(Handler) /\ "frontend" \in Handler
      BY <1>2, <2>1 DEF Handler
    <3>2. Len(two) = 2 /\ Len(three) = 3 /\ three[1] = two[1] /\ three[2] = two[2] /\ three[3] = "frontend"
      BY <1>2, <2>1
    <3>3. \A i \in 1..2 : i = 1 \/ i = 2
      OBVIOUS
    <3>4. \A i \in 1..Len(two) : three[i] = two[i]
      BY ONLY <3>2, <3>3
    <3>5. Len(three) = Len(two) + 1 /\ three[Len(three)] = "frontend"
      BY ONLY <3>2
    <3> QED
      BY ONLY <3>1, <3>4, <3>5, AppendIs
  <2> QED
    BY <2>1
<1> QED
  BY <1>1, <1>2

\* Handlers are registered in one order.
LEMMA OnClientDisconnectInv ==
  ASSUME IInv, OnClientDisconnect
  PROVE  IInv' /\ FanOut
<1>1. ConnsInv' /\ FanOut
  BY StayInv DEF OnClientDisconnect, IInv
<1>2. handlers' = Append(handlers, AllHandlers[Len(handlers) + 1]) /\ handlers # AllHandlers
  BY DEF OnClientDisconnect
<1>3. AllHandlers[1] = "operations" /\ AllHandlers[2] = "leases" /\ AllHandlers[3] = "frontend"
  BY DEF AllHandlers
<1>4. handlers' \in {<<"operations">>, <<"operations", "leases">>, AllHandlers}
  <2>1. CASE handlers = << >>
    BY <1>2, <1>3, <2>1
  <2>2. CASE handlers = <<"operations">>
    <3>1. Len(handlers) = 1
      BY <2>2
    <3>2. handlers' = Append(<<"operations">>, "leases")
      BY <1>2, <1>3, <2>2, <3>1
    <3>3. Append(<<"operations">>, "leases") = <<"operations", "leases">>
      BY RegisterInOrder
    <3> QED
      BY <3>2, <3>3
  <2>3. CASE handlers = <<"operations", "leases">>
    <3>1. Len(handlers) = 2
      BY <2>3
    <3>2. handlers' = Append(<<"operations", "leases">>, "frontend")
      BY <1>2, <1>3, <2>3, <3>1
    <3>3. Append(<<"operations", "leases">>, "frontend") = <<"operations", "leases", "frontend">>
      BY RegisterInOrder
    <3> QED
      BY <3>2, <3>3 DEF AllHandlers
  <2> QED
    BY <1>2, <2>1, <2>2, <2>3 DEF IInv, RegisteredInv
<1>5. RegisteredInv'
  BY <1>4 DEF IInv, RegisteredInv, OnClientDisconnect
<1> QED
  BY <1>1, <1>5 DEF IInv, OnClientDisconnect, StackInv

LEMMA QuiesceLoopInv ==
  ASSUME IInv, QuiesceLoop
  PROVE  IInv' /\ FanOut
<1>1. ConnsInv' /\ FanOut
  BY StayInv DEF QuiesceLoop, IInv
<1> QED
  BY <1>1 DEF IInv, QuiesceLoop, StackInv, RegisteredInv

\* ~SocketTransport: nobody is registered any more, so nobody is told.
LEMMA DestroyInv ==
  ASSUME IInv, Destroy
  PROVE  IInv' /\ FanOut
<1>1. /\ handlers = << >> /\ flush = NoConn /\ flush' = NoConn /\ notified' = notified
      /\ nextConnId' = MaxConnId + 1
      /\ conn' = [c \in ConnIds |-> IF c \in Open THEN Absent("closed") ELSE conn[c]]
  BY DEF IInv, RegisteredInv, Destroy, LoopIdle
<1>2. /\ Absent("closed") \in Connection /\ Absent("closed").life = "closed"
      /\ Sound(Absent("closed")) /\ AtRest(Absent("closed"))
  BY AbsentSound
<1>3. conn' \in [ConnIds -> Connection]
  BY <1>1, <1>2 DEF IInv, ConnsInv
<1>4. ASSUME NEW d \in ConnIds
      PROVE  /\ Sound(conn'[d]) /\ AtRest(conn'[d])
             /\ (conn'[d].life # "closed" => notified'[d] = << >>)
             /\ ~(d >= nextConnId')
             /\ IF conn[d].life = "open" /\ conn'[d].life = "closed"
                THEN notified'[d] = handlers ELSE notified'[d] = notified[d]
  <2>1. CASE d \in Open
    BY <1>1, <1>2, <2>1 DEF IInv, ConnsInv, Open
  <2>2. CASE d \notin Open
    BY <1>1, <2>2 DEF IInv, ConnsInv, Open
  <2> QED
    BY <2>1, <2>2
<1>5. ConnsInv' /\ FanOut
  BY <1>1, <1>3, <1>4 DEF ConnsInv, FanOut, IInv
<1> QED
  BY <1>5 DEF IInv, Destroy, StackInv, RegisteredInv

(***************************************************************************)
(* The theorems.                                                           *)
(***************************************************************************)
LEMMA InitInv == Init => IInv
<1> SUFFICES ASSUME Init PROVE IInv
  OBVIOUS
<1>1. Absent("never") \in Connection /\ Absent("never").life = "never" /\ Sound(Absent("never")) /\ AtRest(Absent("never"))
  BY AbsentSound
<1>2. ConnsInv
  BY <1>1, EmptySeq DEF Init, ConnsInv
<1>3. NoBatch \in [conn : ConnIds \cup {NoConn}, frames : Seq(InFrame), ended : BOOLEAN]
  BY EmptySeq DEF NoBatch
<1>4. StackInv
  BY <1>3 DEF Init, StackInv, NoFan
<1> QED
  BY <1>2, <1>4 DEF Init, IInv, RegisteredInv

\* Every step keeps the invariant and tells what FanOut says.
LEMMA StepInv == IInv /\ Next => IInv' /\ FanOut
<1> SUFFICES ASSUME IInv, Next PROVE IInv' /\ FanOut
  OBVIOUS
<1>1. CASE AcceptOne
  BY <1>1, AcceptOneInv
<1>2. ASSUME NEW c \in ConnIds, \/ FirstFrameTimeout(c) \/ ReadReady(c) \/ WriteReady(c)
                                \/ PostedSend(c) \/ BroadcastTo(c)
      PROVE  IInv' /\ FanOut
  BY <1>2, TimeoutInv, ReadReadyInv, WriteReadyInv, PostedSendInv, BroadcastToInv
<1>3. CASE FlushStep
  BY <1>3, FlushInv
<1>4. CASE BatchStep
  BY <1>4, DropMalformedInv, AbandonBatchInv, DropUnsunkInv, DispatchInv, EndBatchInv DEF BatchStep
<1>5. CASE Broadcast \/ SetRequestSink \/ OnClientDisconnect \/ QuiesceLoop \/ Destroy
  BY <1>5, BroadcastInv, SetRequestSinkInv, OnClientDisconnectInv, QuiesceLoopInv, DestroyInv
<1> QED
  BY <1>1, <1>2, <1>3, <1>4, <1>5 DEF Next

\* A stuttering step.
LEMMA StutterInv == IInv /\ UNCHANGED vars => IInv'
<1> SUFFICES ASSUME IInv, UNCHANGED vars PROVE IInv'
  OBVIOUS
<1>1. ConnsInv'
  BY StayInv DEF IInv, vars
<1> QED
  BY <1>1 DEF IInv, vars, StackInv, RegisteredInv

\* The inductive invariant holds in every reachable state.
THEOREM Invariant == Spec => []IInv
<1> QED
  BY InitInv, StepInv, StutterInv, PTL DEF Spec

\* Whichever frame blocks, fails or closes the connection: queuedBytes is the
\* sum of what is queued, the bounds hold, no frame is left with nobody to
\* watch for the peer, and a connection that is to close has frames to drain.
THEOREM Queues == Spec => []QueueInv
<1>1. IInv => QueueInv
  <2> SUFFICES ASSUME IInv PROVE QueueInv
    OBVIOUS
  <2>1. TypeOK
    BY RegisteredTyped DEF IInv, ConnsInv, StackInv, RegisteredInv, TypeOK, Handler, Open
  <2>2. QueueAccounted
    BY DEF IInv, ConnsInv, Sound, QueueAccounted
  <2>3. NoStrandedFrames /\ ClosingDrains
    BY DEF IInv, ConnsInv, Sound, AtRest, NoStrandedFrames, ClosingDrains, Settled, Open
  <2> QED
    BY <2>1, <2>2, <2>3 DEF QueueInv
<1> QED
  BY <1>1, Invariant, PTL

\* Whatever closes a connection, its registered handlers hear of it once, in
\* order; nobody hears of anything else.
THEOREM FanOutOnce == Spec => DisconnectFanOut
<1>1. IInv /\ [Next]_vars => [FanOut]_vars
  BY StepInv
<1>2. [FanOut]_vars => [\A c \in ConnIds :
          IF conn[c].life = "open" /\ conn'[c].life = "closed"
          THEN notified'[c] = handlers
          ELSE notified'[c] = notified[c]]_vars
  BY DEF FanOut
<1> QED
  BY <1>1, <1>2, Invariant, PTL DEF Spec, DisconnectFanOut

\* After quiesceLoop() no request is dispatched and no handler told.
THEOREM Quiet == Spec => QuietAfterQuiesce
<1>1. IInv /\ [Next]_vars => [quiesced => UNCHANGED notified /\ ~Dispatch]_vars
  <2> SUFFICES ASSUME IInv, Next, quiesced PROVE UNCHANGED notified /\ ~Dispatch
    OBVIOUS
  <2>1. ~sink /\ handlers = << >>
    BY DEF IInv, RegisteredInv
  <2>2. ~Dispatch
    BY <2>1 DEF Dispatch
  <2>3. \A c \in ConnIds : notified'[c] = notified[c]
    <3>1. FanOut
      BY StepInv
    <3>2. ASSUME NEW c \in ConnIds PROVE notified'[c] = notified[c]
      <4>1. CASE conn[c].life = "open" /\ conn'[c].life = "closed"
        <5>1. notified[c] = << >>
          BY <4>1 DEF IInv, ConnsInv
        <5>2. notified'[c] = handlers
          BY <3>1, <4>1 DEF FanOut
        <5> QED
          BY <2>1, <5>1, <5>2
      <4>2. CASE ~(conn[c].life = "open" /\ conn'[c].life = "closed")
        BY <3>1, <4>2 DEF FanOut
      <4> QED
        BY <4>1, <4>2
    <3> QED
      BY <3>2
  <2>4. notified \in [ConnIds -> Seq(Handler)] /\ notified' \in [ConnIds -> Seq(Handler)]
    BY StepInv DEF IInv, ConnsInv
  <2> QED
    BY <2>2, <2>3, <2>4
<1> QED
  BY <1>1, Invariant, PTL DEF Spec, QuietAfterQuiesce
=============================================================================
