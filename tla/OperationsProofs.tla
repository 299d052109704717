--------------------------- MODULE OperationsProofs ---------------------------
(***************************************************************************)
(* Card operations, for any set of clients and any number of requests,     *)
(* operations and failed emits: events come in order and once and to their *)
(* own client, what was announced can be recovered, the stores drain, and  *)
(* a cancel reaches the operations of its own client and no others.        *)
(***************************************************************************)
EXTENDS Operations, SequenceTheorems, TLAPS

USE ReqsAssumption DEF Reqs, NoReq

(***************************************************************************)
(* The inductive invariant.                                                *)
(***************************************************************************)

\* The operation was launched; OpStages \ {"launched"}: it has emitted something
\* besides progress.
OpStages == {"launched", "stashed", "resulted", "failed", "finished", "pruned"}

\* How far the events of an operation are, and how far its stage lets them be.
Rank(w) == CASE w = "progress" -> 1 [] w = "result" -> 2 [] w = "finished" -> 3 [] OTHER -> 0
Level(r) ==
    CASE req[r].stage = "launched" -> IF req[r].progress THEN 1 ELSE 0
      [] req[r].stage \in {"stashed", "failed"} -> 1
      [] req[r].stage = "resulted" -> 2
      [] OTHER -> 3

\* A block that sends an event of the operation r.
IsEvent(b, r) == b.do = "send" /\ b.op = r /\ b.msg.what \in Events

\* The request whose launch the loop is in the middle of: its client is there,
\* and has heard nothing yet.
LoopInv ==
    /\ handling # NoReq => /\ ~quiesced
                           /\ req[handling].stage \in OpStages
                           /\ life[req[handling].conn] = "open"
                           /\ Len(sent[handling]) = 0
    /\ quiesced => Len(posted) = 0

\* Who asked, and what the stores may hold for it.
ReqInv ==
    \A r \in Reqs :
        /\ req[r].stage # "none" => req[r].conn \in Conns /\ life[req[r].conn] # "never"
        /\ req[r].stage \in OpStages => req[r].kind \in OpKinds
        /\ req[r].stage = "stashed" => req[r].kind = "sign"
        /\ opOwners[r] # NoConn => opOwners[r] = req[r].conn /\ req[r].stage \in OpStages
        /\ signResults[r] # NoConn => signResults[r] = req[r].conn
        /\ signResults[r] # NoConn => grace[r] = "armed"
        /\ grace[r] # "none" => req[r].stage \in OpStages \ {"launched"}

\* What a block that waits has behind it.
BlockInv ==
    \A i \in DOMAIN posted :
        /\ posted[i].do = "send" =>
              /\ posted[i].msg.to = req[posted[i].op].conn
              /\ \/ req[posted[i].op].stage \in OpStages /\ posted[i].msg.what \in Events
                 \/ /\ req[posted[i].op].stage = "answered"
                    /\ posted[i].msg.what \in {"ok", "error"}
        /\ posted[i].do = "stash" => /\ req[posted[i].op].stage \in OpStages \ {"launched"}
                                     /\ grace[posted[i].op] = "none"
        /\ posted[i].do = "prune" => req[posted[i].op].stage = "pruned"
        /\ posted[i].do = "evict" => life[posted[i].conn] = "closed"

\* What was sent about a request went to whoever asked; of an operation,
\* OpStarted first.
SentInv ==
    \A r \in Reqs :
        /\ \A i \in DOMAIN sent[r] :
              /\ sent[r][i].to = req[r].conn
              /\ sent[r][i].what = "started" => i = 1
              /\ sent[r][i].what \in Events => req[r].stage \in OpStages
        /\ Len(sent[r]) # 0 => req[r].stage # "none"
        /\ req[r].stage \in OpStages /\ handling # r => Len(sent[r]) > 0 /\ sent[r][1].what = "started"

\* Events come by rank: what was sent, what waits, and what the stage allows.
OrderInv ==
    \A r \in Reqs :
        /\ \A i, j \in DOMAIN sent[r] :
              sent[r][i].what \in Events /\ sent[r][j].what \in Events /\ i < j =>
                  Rank(sent[r][i].what) < Rank(sent[r][j].what)
        /\ \A i \in DOMAIN sent[r], j \in DOMAIN posted :
              sent[r][i].what \in Events /\ IsEvent(posted[j], r) =>
                  Rank(sent[r][i].what) < Rank(posted[j].msg.what)
        /\ \A i, j \in DOMAIN posted :
              IsEvent(posted[i], r) /\ IsEvent(posted[j], r) /\ i < j =>
                  Rank(posted[i].msg.what) < Rank(posted[j].msg.what)
        /\ \A i \in DOMAIN sent[r] : sent[r][i].what \in Events => Rank(sent[r][i].what) <= Level(r)
        /\ \A i \in DOMAIN posted : IsEvent(posted[i], r) => Rank(posted[i].msg.what) <= Level(r)

\* The result can be recovered, or its time is over.
Recoverable(r) ==
    \/ signResults[r] = req[r].conn \/ grace[r] = "fired"
    \/ life[req[r].conn] # "open" \/ quiesced

\* A result is stashed ahead of its announcement.
RecoverInv ==
    \A r \in Reqs : req[r].kind = "sign" =>
        /\ req[r].stage = "stashed" => Recoverable(r) \/ Queued([do |-> "stash", op |-> r])
        /\ \A i \in DOMAIN posted : IsEvent(posted[i], r) /\ posted[i].msg.what = "result" =>
              \/ Recoverable(r)
              \/ \E j \in DOMAIN posted : j < i /\ posted[j] = [do |-> "stash", op |-> r]
        /\ \A i \in DOMAIN sent[r] : sent[r][i].what = "result" => Recoverable(r)

\* An owner that is recorded, or about to be, will be pruned and evicted.
DrainInv ==
    ~quiesced => \A r \in Reqs :
        /\ (opOwners[r] # NoConn \/ handling = r) /\ req[r].stage = "pruned" =>
              faults > 0 \/ Queued([do |-> "prune", op |-> r])
        /\ opOwners[r] # NoConn =>
              life[opOwners[r]] = "open" \/ Queued([do |-> "evict", conn |-> opOwners[r]])

IInv ==
    /\ TypeOK /\ EachBlockOnce
    /\ LoopInv /\ ReqInv /\ BlockInv /\ SentInv
    /\ OrderInv /\ RecoverInv /\ DrainInv

(***************************************************************************)
(* The queue, and what is sent.                                            *)
(***************************************************************************)

\* What a block carries.
LEMMA BlockIs ==
  ASSUME NEW b \in Block
  PROVE  /\ b.do \in {"send", "stash", "prune", "evict"}
         /\ b.do = "send" => b.op \in Reqs /\ b.msg \in Message
         /\ b.do = "stash" => b.op \in Reqs /\ b = [do |-> "stash", op |-> b.op]
         /\ b.do = "prune" => b.op \in Reqs /\ b = [do |-> "prune", op |-> b.op]
         /\ b.do = "evict" => b.conn \in Conns /\ b = [do |-> "evict", conn |-> b.conn]
  BY DEF Block

\* Blocks can be made of what they carry.
LEMMA BlocksMade ==
  /\ \A r \in Reqs, m \in Message : [do |-> "send", op |-> r, msg |-> m] \in Block
  /\ \A r \in Reqs : [do |-> "stash", op |-> r] \in Block /\ [do |-> "prune", op |-> r] \in Block
  /\ \A c \in Conns : [do |-> "evict", conn |-> c] \in Block
  /\ \A c \in Conns, w \in Answers \cup Events : Msg(c, w) \in Message
  BY DEF Block, Message, Msg

\* A block is queued behind the others.
LEMMA AppendQueue ==
  ASSUME posted \in Seq(Block), EachBlockOnce, NEW b \in Block, ~Queued(b),
         posted' = Append(posted, b)
  PROVE  /\ posted' \in Seq(Block) /\ EachBlockOnce'
         /\ \A x : Queued(x)' <=> Queued(x) \/ x = b
         /\ \A i \in DOMAIN posted : i \in DOMAIN posted' /\ posted'[i] = posted[i]
         /\ \A i \in DOMAIN posted' : \/ i \in DOMAIN posted
                                      \/ posted'[i] = b /\ \A j \in DOMAIN posted' : j <= i
<1>1. /\ posted' \in Seq(Block) /\ Len(posted') = Len(posted) + 1 /\ Len(posted) \in Nat
      /\ \A n \in 1..Len(posted) : posted'[n] = posted[n]
      /\ posted'[Len(posted) + 1] = b
  BY AppendProperties, LenProperties
<1>2. DOMAIN posted = 1..Len(posted) /\ DOMAIN posted' = 1..Len(posted')
  BY <1>1, LenProperties
<1>3. \A n \in 1..Len(posted') : n \in 1..Len(posted) \/ n = Len(posted')
  BY <1>1
<1>4. EachBlockOnce'
  BY <1>1, <1>2, <1>3 DEF EachBlockOnce, Queued
<1>5. ASSUME NEW x PROVE Queued(x)' <=> Queued(x) \/ x = b
  <2>1. Queued(x)' => Queued(x) \/ x = b
    BY <1>1, <1>2, <1>3 DEF Queued
  <2>2. Queued(x) => Queued(x)'
    BY <1>1, <1>2 DEF Queued
  <2>3. Len(posted) + 1 \in DOMAIN posted'
    BY <1>1, <1>2
  <2>4. Queued(b)'
    BY <1>1, <2>3 DEF Queued
  <2> QED
    BY <2>1, <2>2, <2>4
<1>6. \A i \in DOMAIN posted : i \in DOMAIN posted' /\ posted'[i] = posted[i]
  BY <1>1, <1>2
<1>7. \A i \in DOMAIN posted' : \/ i \in DOMAIN posted
                                \/ posted'[i] = b /\ \A j \in DOMAIN posted' : j <= i
  BY <1>1, <1>2, <1>3
<1> QED
  BY <1>1, <1>4, <1>5, <1>6, <1>7

\* The block whose turn it is leaves the queue, the others keep their order.
LEMMA TailQueue ==
  ASSUME posted \in Seq(Block), EachBlockOnce, posted # << >>, posted' = Tail(posted)
  PROVE  /\ Head(posted) \in Block /\ Head(posted) = posted[1] /\ 1 \in DOMAIN posted
         /\ posted' \in Seq(Block) /\ EachBlockOnce'
         /\ \A x : Queued(x)' <=> Queued(x) /\ x # Head(posted)
         /\ \A i \in DOMAIN posted' : i \in Int /\ i + 1 \in DOMAIN posted /\ i + 1 > 1 /\ posted'[i] = posted[i + 1]
         /\ \A i \in DOMAIN posted : i = 1 \/ (i \in Int /\ i - 1 \in DOMAIN posted' /\ posted'[i - 1] = posted[i])
<1>1. /\ posted' \in Seq(Block) /\ Len(posted') = Len(posted) - 1 /\ Len(posted) \in Nat \ {0}
      /\ \A n \in 1..Len(posted') : posted'[n] = posted[n + 1]
      /\ Head(posted) = posted[1] /\ Head(posted) \in Block
  BY HeadTailProperties, LenProperties, EmptySeq
<1>2. DOMAIN posted = 1..Len(posted) /\ DOMAIN posted' = 1..Len(posted')
  BY <1>1, LenProperties
<1>3. \A i \in DOMAIN posted : i = 1 \/ (i \in Int /\ i - 1 \in DOMAIN posted' /\ posted'[i - 1] = posted[i])
  BY <1>1, <1>2
<1>4. \A i \in DOMAIN posted' : i \in Int /\ i + 1 \in DOMAIN posted /\ i + 1 > 1 /\ posted'[i] = posted[i + 1]
  BY <1>1, <1>2
<1>5. EachBlockOnce'
  BY <1>1, <1>2, <1>4 DEF EachBlockOnce
<1>6. 1 \in DOMAIN posted
  BY <1>1, <1>2
<1>7. ASSUME NEW x PROVE Queued(x)' <=> Queued(x) /\ x # Head(posted)
  <2>1. Queued(x)' => Queued(x) /\ x # Head(posted)
    BY <1>1, <1>2, <1>4, <1>6 DEF Queued, EachBlockOnce
  <2>2. Queued(x) /\ x # Head(posted) => Queued(x)'
    BY <1>1, <1>3 DEF Queued
  <2> QED
    BY <2>1, <2>2
<1> QED
  BY <1>1, <1>3, <1>4, <1>5, <1>6, <1>7

\* One more message about r; what was sent stays.
LEMMA OneMore ==
  ASSUME sent \in [Reqs -> Seq(Message)], NEW r \in Reqs, NEW m \in Message,
         sent' = [sent EXCEPT ![r] = Append(@, m)]
  PROVE  /\ sent' \in [Reqs -> Seq(Message)]
         /\ \A q \in Reqs : q # r => sent'[q] = sent[q]
         /\ Len(sent'[r]) > 0 /\ (Len(sent[r]) = 0 => sent'[r][1] = m)
         /\ \A i \in DOMAIN sent[r] : i \in DOMAIN sent'[r] /\ sent'[r][i] = sent[r][i]
         /\ \A i \in DOMAIN sent'[r] : \/ i \in DOMAIN sent[r]
                                       \/ /\ sent'[r][i] = m /\ i = Len(sent[r]) + 1
                                          /\ \A j \in DOMAIN sent[r] : j < i
<1>1. sent[r] \in Seq(Message) /\ sent'[r] = Append(sent[r], m)
  OBVIOUS
<1>2. /\ sent'[r] \in Seq(Message) /\ Len(sent'[r]) = Len(sent[r]) + 1 /\ Len(sent[r]) \in Nat
      /\ \A n \in 1..Len(sent[r]) : sent'[r][n] = sent[r][n]
      /\ sent'[r][Len(sent[r]) + 1] = m
  BY <1>1, AppendProperties, LenProperties
<1>3. DOMAIN sent[r] = 1..Len(sent[r]) /\ DOMAIN sent'[r] = 1..Len(sent'[r])
  BY <1>1, <1>2, LenProperties
<1>4. sent' \in [Reqs -> Seq(Message)] /\ \A q \in Reqs : q # r => sent'[q] = sent[q]
  BY <1>1, <1>2
<1>5. \A i \in DOMAIN sent[r] : i \in DOMAIN sent'[r] /\ sent'[r][i] = sent[r][i]
  BY <1>2, <1>3
<1>6. \A i \in DOMAIN sent'[r] : \/ i \in DOMAIN sent[r]
                                 \/ /\ sent'[r][i] = m /\ i = Len(sent[r]) + 1
                                    /\ \A j \in DOMAIN sent[r] : j < i
  BY <1>2, <1>3
<1>7. Len(sent'[r]) > 0 /\ (Len(sent[r]) = 0 => sent'[r][1] = m)
  BY <1>2
<1> QED
  BY <1>4, <1>5, <1>6, <1>7

\* Whatever waits is a block of some request or some client.
LEMMA PostedIs ==
  ASSUME posted \in Seq(Block)
  PROVE  \A i \in DOMAIN posted :
            /\ i \in Int /\ posted[i] \in Block
            /\ posted[i].do = "send" => posted[i].op \in Reqs /\ posted[i].msg \in Message
            /\ posted[i].do = "stash" => posted[i].op \in Reqs /\ posted[i] = [do |-> "stash", op |-> posted[i].op]
            /\ posted[i].do = "prune" => posted[i].op \in Reqs /\ posted[i] = [do |-> "prune", op |-> posted[i].op]
            /\ posted[i].do = "evict" => posted[i].conn \in Conns /\ posted[i] = [do |-> "evict", conn |-> posted[i].conn]
<1>1. DOMAIN posted = 1..Len(posted) /\ Len(posted) \in Nat
  BY LenProperties
<1>2. \A i \in DOMAIN posted : i \in Int /\ posted[i] \in Block
  BY <1>1, ElementOfSeq
<1> QED
  BY <1>2, BlockIs

\* Positions and ranks are numbers.
LEMMA Numbers ==
  /\ \A w : Rank(w) \in 0..3
  /\ \A w \in Events : Rank(w) > 0
  /\ \A r : Level(r) \in 0..3
  /\ Rank("progress") = 1 /\ Rank("result") = 2 /\ Rank("finished") = 3
  BY DEF Rank, Level, Events

(***************************************************************************)
(* The workers.                                                            *)
(***************************************************************************)

\* An operation moves on; the others, and who asked for it, stay.
LEMMA StageIs ==
  ASSUME req \in [Reqs -> Request], NEW r \in Reqs, NEW s \in Stages, Stage(r, s)
  PROVE  /\ req' \in [Reqs -> Request]
         /\ \A q \in Reqs : q # r => req'[q] = req[q]
         /\ req'[r].stage = s /\ req'[r].conn = req[r].conn
         /\ req'[r].kind = req[r].kind /\ req'[r].progress = req[r].progress
<1> DEFINE R == [req[r] EXCEPT !.stage = s]
<1>1. req[r] \in Request
  OBVIOUS
<1>2. R \in Request
  BY <1>1 DEF Request
<1>3. R.stage = s /\ R.conn = req[r].conn /\ R.kind = req[r].kind /\ R.progress = req[r].progress
  BY <1>1 DEF Request
<1>4. req' = [req EXCEPT ![r] = R]
  BY DEF Stage
<1> HIDE DEF R
<1> QED
  BY <1>2, <1>3, <1>4

\* How the request r may move while nothing else changes but the queue: its
\* events are let further, never back.
Moves(r) ==
    /\ req' \in [Reqs -> Request] /\ faults' \in 0..MaxFaults /\ faults' >= faults
    /\ \A q \in Reqs : q # r => req'[q] = req[q]
    /\ req'[r].conn = req[r].conn /\ req'[r].kind = req[r].kind
    /\ req[r].stage \in OpStages \ {"pruned"} /\ req'[r].stage \in OpStages
    /\ req'[r].stage = "launched" => req[r].stage = "launched"
    /\ req'[r].stage = "stashed" => req[r].kind = "sign"
    /\ Level(r) <= Level(r)'
    /\ WorkerRest

\* The worker emits nothing that is queued.
LEMMA WorkerQuiet ==
  ASSUME IInv, NEW r \in Reqs, Moves(r), posted' = posted,
         req'[r].stage = "stashed" => quiesced,
         req'[r].stage = "pruned" => faults' > 0 \/ quiesced
  PROVE  IInv'
<1> USE DEF IInv, Moves, WorkerRest
<1>q. \A x : Queued(x)' <=> Queued(x)
  BY DEF Queued
<1>s. \A q \in Reqs : /\ req'[q].stage \in OpStages <=> req[q].stage \in OpStages
                      /\ req[q].stage \in OpStages \ {"launched"} => req'[q].stage \in OpStages \ {"launched"}
                      /\ req'[q].conn = req[q].conn /\ req'[q].kind = req[q].kind
  OBVIOUS
<1>p. \A i \in DOMAIN posted : posted[i].do \in {"send", "stash", "prune"} => posted[i].op \in Reqs
  BY PostedIs DEF TypeOK
<1>1. TypeOK' /\ EachBlockOnce'
  BY DEF TypeOK, EachBlockOnce
<1>2. LoopInv'
  BY <1>s DEF LoopInv, TypeOK
<1>3. ReqInv'
  BY DEF ReqInv, OpStages
<1>4. BlockInv'
  BY <1>p, <1>s DEF BlockInv, OpStages
<1>5. SentInv'
  BY DEF SentInv, OpStages
<1>6. OrderInv'
  BY Numbers DEF OrderInv, Level
<1>7. RecoverInv'
  BY <1>q DEF RecoverInv, Recoverable
<1>8. DrainInv'
  <2>1. faults \in Int /\ faults' \in Int
    BY DEF TypeOK
  <2>2. ASSUME NEW q \in Reqs, ~quiesced, opOwners[q] # NoConn \/ handling = q, req'[q].stage = "pruned"
        PROVE  faults' > 0 \/ Queued([do |-> "prune", op |-> q])'
    <3>1. CASE q = r
      BY <2>2, <3>1
    <3>2. CASE q # r
      <4>1. faults > 0 \/ Queued([do |-> "prune", op |-> q])
        BY <2>2, <3>2 DEF DrainInv
      <4>2. faults > 0 => faults' > 0
        BY <2>1
      <4> QED
        BY <1>q, <4>1, <4>2
    <3> QED
      BY <3>1, <3>2
  <2> QED
    BY <1>q, <2>2 DEF DrainInv
<1> QED
  BY <1>1, <1>2, <1>3, <1>4, <1>5, <1>6, <1>7, <1>8

\* The worker emits something: an event that comes after all the others, the
\* stash, or the prune.
LEMMA WorkerPosts ==
  ASSUME IInv, NEW r \in Reqs, Moves(r), ~quiesced,
         NEW b \in Block, posted' = Append(posted, b),
         b.do \in {"send", "stash", "prune"}, b.op = r,
         b.do = "send" => /\ b.msg.to = req[r].conn /\ b.msg.what \in Events
                          /\ Level(r) < Rank(b.msg.what) /\ Rank(b.msg.what) <= Level(r)'
                          /\ b.msg.what = "result" /\ req[r].kind = "sign" => req[r].stage = "stashed",
         b.do = "stash" => req[r].stage = "launched" /\ req'[r].stage = "stashed",
         b.do = "prune" <=> req'[r].stage = "pruned",
         req'[r].stage = "stashed" => b.do = "stash"
  PROVE  IInv'
<1> USE DEF IInv, Moves, WorkerRest
<1>t. posted \in Seq(Block) /\ req \in [Reqs -> Request]
  BY DEF TypeOK
<1>p. \A i \in DOMAIN posted :
            /\ i \in Int /\ posted[i] \in Block
            /\ posted[i].do \in {"send", "stash", "prune"} => posted[i].op \in Reqs
  BY <1>t, PostedIs
<1>s. \A q \in Reqs : /\ req'[q].stage \in OpStages <=> req[q].stage \in OpStages
                      /\ req[q].stage \in OpStages \ {"launched"} => req'[q].stage \in OpStages \ {"launched"}
                      /\ req'[q].conn = req[q].conn /\ req'[q].kind = req[q].kind
  OBVIOUS
<1>n. ~Queued(b)
  <2> SUFFICES ASSUME NEW i \in DOMAIN posted, posted[i] = b PROVE FALSE
    BY DEF Queued
  <2>1. CASE b.do = "send"
    <3>1. IsEvent(posted[i], r)
      BY <2>1 DEF IsEvent
    <3>2. Rank(b.msg.what) <= Level(r)
      BY <3>1 DEF OrderInv
    <3> QED
      BY <2>1, <3>2, Numbers
  <2>2. CASE b.do = "stash"
    BY <2>2 DEF BlockInv
  <2>3. CASE b.do = "prune"
    BY <2>3 DEF BlockInv
  <2> QED
    BY <2>1, <2>2, <2>3
<1>q. /\ posted' \in Seq(Block) /\ EachBlockOnce'
      /\ \A x : Queued(x)' <=> Queued(x) \/ x = b
      /\ \A i \in DOMAIN posted : i \in DOMAIN posted' /\ posted'[i] = posted[i]
      /\ \A i \in DOMAIN posted' : \/ i \in DOMAIN posted
                                   \/ posted'[i] = b /\ \A j \in DOMAIN posted' : j <= i
  BY <1>n, <1>t, AppendQueue
<1>d. \A i \in DOMAIN posted' : i \in Int
  BY <1>q, LenProperties
<1>1. TypeOK' /\ EachBlockOnce'
  BY <1>q DEF TypeOK
<1>2. LoopInv'
  BY <1>s DEF LoopInv, TypeOK
<1>3. ReqInv'
  BY DEF ReqInv, OpStages
<1>4. BlockInv'
  <2> SUFFICES ASSUME NEW i \in DOMAIN posted'
               PROVE  /\ posted'[i].do = "send" =>
                            /\ posted'[i].msg.to = req'[posted'[i].op].conn
                            /\ \/ req'[posted'[i].op].stage \in OpStages /\ posted'[i].msg.what \in Events
                               \/ /\ req'[posted'[i].op].stage = "answered"
                                  /\ posted'[i].msg.what \in {"ok", "error"}
                      /\ posted'[i].do = "stash" => /\ req'[posted'[i].op].stage \in OpStages \ {"launched"}
                                                    /\ grace'[posted'[i].op] = "none"
                      /\ posted'[i].do = "prune" => req'[posted'[i].op].stage = "pruned"
                      /\ posted'[i].do = "evict" => life'[posted'[i].conn] = "closed"
    BY DEF BlockInv
  <2>1. CASE i \in DOMAIN posted
    <3>1. posted'[i] = posted[i]
      BY <1>q, <2>1
    <3>2. posted[i].do = "send" =>
             /\ posted[i].msg.to = req'[posted[i].op].conn
             /\ \/ req'[posted[i].op].stage \in OpStages /\ posted[i].msg.what \in Events
                \/ req'[posted[i].op].stage = "answered" /\ posted[i].msg.what \in {"ok", "error"}
      <4> SUFFICES ASSUME posted[i].do = "send"
                   PROVE  /\ posted[i].msg.to = req'[posted[i].op].conn
                          /\ \/ req'[posted[i].op].stage \in OpStages /\ posted[i].msg.what \in Events
                             \/ req'[posted[i].op].stage = "answered" /\ posted[i].msg.what \in {"ok", "error"}
        OBVIOUS
      <4>1. PICK q \in Reqs : q = posted[i].op
        BY <1>p, <2>1
      <4>2. /\ posted[i].msg.to = req[q].conn
            /\ \/ req[q].stage \in OpStages /\ posted[i].msg.what \in Events
               \/ req[q].stage = "answered" /\ posted[i].msg.what \in {"ok", "error"}
        BY <2>1, <4>1 DEF BlockInv
      <4>3. /\ req'[q].conn = req[q].conn
            /\ req[q].stage \in OpStages => req'[q].stage \in OpStages
        BY <1>s
      <4>4. req[q].stage = "answered" => req'[q].stage = "answered"
        BY DEF OpStages
      <4> QED
        BY ONLY <4>1, <4>2, <4>3, <4>4
    <3>3. posted[i].do = "stash" => /\ req'[posted[i].op].stage \in OpStages \ {"launched"}
                                    /\ grace'[posted[i].op] = "none"
      BY <1>p, <1>s, <2>1 DEF BlockInv
    <3>4. posted[i].do = "prune" => req'[posted[i].op].stage = "pruned"
      BY <1>p, <2>1 DEF BlockInv
    <3>5. posted[i].do = "evict" => life'[posted[i].conn] = "closed"
      BY <2>1 DEF BlockInv
    <3> QED
      BY <3>1, <3>2, <3>3, <3>4, <3>5
  <2>2. CASE i \notin DOMAIN posted
    <3>1. posted'[i] = b
      BY <1>q, <2>2
    <3>2. b.do = "stash" => grace[r] = "none"
      BY DEF ReqInv, TypeOK
    <3> QED
      BY <1>s, <3>1, <3>2 DEF OpStages
  <2> QED
    BY <2>1, <2>2
<1>5. SentInv'
  BY <1>s, SMTT(30) DEF SentInv, OpStages
<1>6. OrderInv'
  <2>0. \A w : Rank(w) \in Int
    BY ONLY Numbers
  <2>1. ASSUME NEW q \in Reqs PROVE Level(q) <= Level(q)' /\ Level(q) \in Int /\ Level(q)' \in Int
    BY Numbers DEF Level
  <2>2. ASSUME NEW q \in Reqs
        PROVE  \A i \in DOMAIN posted' : IsEvent(posted'[i], q) =>
                  \/ i \in DOMAIN posted /\ IsEvent(posted[i], q) /\ posted'[i] = posted[i]
                  \/ /\ q = r /\ posted'[i] = b /\ \A j \in DOMAIN posted' : j <= i
                     /\ Rank(b.msg.what) > Level(r) /\ Rank(b.msg.what) <= Level(r)'
    BY <1>q DEF IsEvent
  <2>3. ASSUME NEW q \in Reqs, NEW i \in DOMAIN posted', IsEvent(posted'[i], q)
        PROVE  Rank(posted'[i].msg.what) <= Level(q)'
    <3>1. CASE i \in DOMAIN posted /\ IsEvent(posted[i], q) /\ posted'[i] = posted[i]
      <4>1. Rank(posted[i].msg.what) <= Level(q) /\ Rank(posted[i].msg.what) \in Int
        BY <2>0, <3>1 DEF OrderInv
      <4> QED
        BY ONLY <2>1, <3>1, <4>1
    <3>2. CASE q = r /\ posted'[i] = b /\ Rank(b.msg.what) <= Level(r)'
      BY ONLY <3>2
    <3> QED
      BY <2>2, <2>3, <3>1, <3>2
  <2>4. ASSUME NEW q \in Reqs, NEW i \in DOMAIN sent[q], sent[q][i].what \in Events,
               NEW j \in DOMAIN posted', IsEvent(posted'[j], q)
        PROVE  Rank(sent[q][i].what) < Rank(posted'[j].msg.what)
    <3>1. Rank(sent[q][i].what) <= Level(q)
      BY <2>4 DEF OrderInv
    <3> QED
      <4>1. CASE j \in DOMAIN posted /\ IsEvent(posted[j], q) /\ posted'[j] = posted[j]
        BY <2>4, <4>1 DEF OrderInv
      <4>2. CASE q = r /\ posted'[j] = b /\ Rank(b.msg.what) > Level(r)
        BY ONLY <2>0, <2>1, <3>1, <4>2
      <4> QED
        BY <2>2, <2>4, <4>1, <4>2
  <2>5. ASSUME NEW q \in Reqs, NEW i \in DOMAIN posted', NEW j \in DOMAIN posted', i < j,
               IsEvent(posted'[i], q), IsEvent(posted'[j], q)
        PROVE  Rank(posted'[i].msg.what) < Rank(posted'[j].msg.what)
    <3>1. i \in DOMAIN posted /\ IsEvent(posted[i], q) /\ posted'[i] = posted[i]
      BY <1>d, <2>2, <2>5
    <3>2. Rank(posted[i].msg.what) <= Level(q)
      BY <3>1 DEF OrderInv
    <3> QED
      <4>1. CASE j \in DOMAIN posted /\ IsEvent(posted[j], q) /\ posted'[j] = posted[j]
        BY <2>5, <3>1, <4>1 DEF OrderInv
      <4>2. CASE q = r /\ posted'[j] = b /\ Rank(b.msg.what) > Level(r)
        BY ONLY <2>0, <2>1, <3>1, <3>2, <4>2
      <4> QED
        BY <2>2, <2>5, <4>1, <4>2
  <2>6. ASSUME NEW q \in Reqs, NEW i \in DOMAIN sent[q], sent[q][i].what \in Events
        PROVE  Rank(sent[q][i].what) <= Level(q)'
    <3>1. Rank(sent[q][i].what) <= Level(q) /\ Rank(sent[q][i].what) \in Int
      BY <2>6, Numbers DEF OrderInv
    <3> QED
      BY ONLY <2>1, <3>1
  <2> QED
    BY <2>3, <2>4, <2>5, <2>6, ZenonT(60) DEF OrderInv
<1>7. RecoverInv'
  <2>1. \A q \in Reqs : Recoverable(q)' <=> Recoverable(q)
    BY DEF Recoverable
  <2>2. ASSUME NEW q \in Reqs, req[q].kind = "sign", req'[q].stage = "stashed"
        PROVE  Recoverable(q) \/ Queued([do |-> "stash", op |-> q])'
    <3>1. CASE q = r
      BY <1>q, <2>2, <3>1, BlockIs
    <3>2. CASE q # r
      BY <1>q, <2>2, <3>2 DEF RecoverInv
    <3> QED
      BY <3>1, <3>2
  <2>3. ASSUME NEW q \in Reqs, req[q].kind = "sign", NEW i \in DOMAIN posted',
               IsEvent(posted'[i], q), posted'[i].msg.what = "result"
        PROVE  \/ Recoverable(q)
               \/ \E j \in DOMAIN posted' : j < i /\ posted'[j] = [do |-> "stash", op |-> q]
    <3>1. CASE i \in DOMAIN posted
      BY <1>q, <2>3, <3>1 DEF RecoverInv
    <3>2. CASE i \notin DOMAIN posted
      <4>1. posted'[i] = b /\ q = r /\ b.do = "send" /\ \A j \in DOMAIN posted' : j <= i
        BY <1>q, <2>3, <3>2 DEF IsEvent
      <4>2. Recoverable(q) \/ Queued([do |-> "stash", op |-> q])
        BY <2>3, <4>1 DEF RecoverInv
      <4>3. ASSUME NEW j \in DOMAIN posted, posted[j] = [do |-> "stash", op |-> q]
            PROVE  j \in DOMAIN posted' /\ j < i /\ posted'[j] = [do |-> "stash", op |-> q]
        <5>1. j \in DOMAIN posted' /\ posted'[j] = [do |-> "stash", op |-> q] /\ j <= i
          BY <1>q, <4>1, <4>3
        <5>2. j # i /\ j \in Int /\ i \in Int
          BY <1>p, <1>d, <4>3, <3>2
        <5> QED
          BY <5>1, <5>2
      <4> QED
        BY <4>2, <4>3 DEF Queued
    <3> QED
      BY <3>1, <3>2
  <2> QED
    BY <1>s, <2>1, <2>2, <2>3 DEF RecoverInv
<1>8. DrainInv'
  <2>1. faults \in Int /\ faults' \in Int
    BY DEF TypeOK
  <2>2. ASSUME NEW q \in Reqs, opOwners[q] # NoConn \/ handling = q, req'[q].stage = "pruned"
        PROVE  faults' > 0 \/ Queued([do |-> "prune", op |-> q])'
    <3>1. CASE q = r
      BY <1>q, <2>2, <3>1, BlockIs
    <3>2. CASE q # r
      <4>1. faults > 0 \/ Queued([do |-> "prune", op |-> q])
        BY <2>2, <3>2 DEF DrainInv
      <4>2. faults > 0 => faults' > 0
        BY <2>1
      <4> QED
        BY <1>q, <4>1, <4>2
    <3> QED
      BY <3>1, <3>2
  <2> QED
    BY <1>q, <2>2 DEF DrainInv
<1> QED
  BY <1>1, <1>2, <1>3, <1>4, <1>5, <1>6, <1>7, <1>8

\* A block that sends something about r to whoever asked.
LEMMA SendBlockIs ==
  ASSUME IInv, NEW r \in Reqs, req[r].stage # "none", NEW w \in Answers \cup Events
  PROVE  LET b == SendBlock(r, w)
         IN  /\ b \in Block /\ b.do = "send" /\ b.op = r
             /\ b.msg.to = req[r].conn /\ b.msg.what = w
<1>1. req[r].conn \in Conns
  BY DEF IInv, ReqInv
<1>2. Msg(req[r].conn, w) \in Message
  BY <1>1, BlocksMade
<1>3. SendBlock(r, w) \in Block
  BY <1>2, BlocksMade DEF SendBlock
<1> QED
  BY <1>3 DEF SendBlock, Msg

\* emitPropertiesChanged, emitGroup.
LEMMA EmitProgressInv == ASSUME IInv, NEW r \in Reqs, EmitProgress(r) PROVE IInv'
<1> DEFINE R == [req[r] EXCEPT !.progress = TRUE]
           b == SendBlock(r, "progress")
<1>1. req \in [Reqs -> Request] /\ req[r] \in Request /\ faults \in 0..MaxFaults
  BY DEF IInv, TypeOK
<1>2. /\ R \in Request /\ R.stage = req[r].stage /\ R.conn = req[r].conn
      /\ R.kind = req[r].kind /\ R.progress = TRUE
  BY <1>1 DEF Request
<1>3. req[r].stage = "launched" /\ ~req[r].progress /\ req' = [req EXCEPT ![r] = R] /\ WorkerRest
  BY DEF EmitProgress
<1>4. \/ posted' = (IF quiesced THEN posted ELSE Append(posted, b)) /\ faults' = faults
      \/ posted' = posted /\ faults < MaxFaults /\ faults' = faults + 1
  BY DEF EmitProgress, Post, Fault
<1> HIDE DEF R
<1>5. req' \in [Reqs -> Request] /\ req'[r] = R /\ \A q \in Reqs : q # r => req'[q] = req[q]
  BY <1>1, <1>2, <1>3
<1>6. Level(r) = 0 /\ Level(r)' = 1
  BY <1>2, <1>3, <1>5 DEF Level
<1>7. faults' \in 0..MaxFaults /\ faults' >= faults
  BY <1>1, <1>4
<1>8. Moves(r)
  BY <1>2, <1>3, <1>5, <1>6, <1>7 DEF Moves, OpStages
<1>9. b \in Block /\ b.do = "send" /\ b.op = r /\ b.msg.to = req[r].conn /\ b.msg.what = "progress"
  BY <1>3, SendBlockIs DEF Events
<1> HIDE DEF b
<1>10. Level(r) < Rank("progress") /\ Rank("progress") <= Level(r)'
  BY <1>6, Numbers
<1>11. CASE posted' = posted
  BY <1>2, <1>3, <1>5, <1>8, <1>11, WorkerQuiet
<1>12. CASE ~quiesced /\ posted' = Append(posted, b)
  BY <1>2, <1>3, <1>5, <1>8, <1>9, <1>10, <1>12, WorkerPosts DEF Events
<1> QED
  BY <1>4, <1>11, <1>12

\* emitResult of a Sign, as far as the stash.
LEMMA EmitStashInv == ASSUME IInv, NEW r \in Reqs, EmitStash(r) PROVE IInv'
<1> DEFINE b == [do |-> "stash", op |-> r]
<1>1. req \in [Reqs -> Request] /\ faults \in 0..MaxFaults /\ {"stashed", "failed"} \subseteq Stages
  BY DEF IInv, TypeOK, Stages
<1>2. req[r].stage = "launched" /\ req[r].kind = "sign" /\ WorkerRest
  BY DEF EmitStash
<1>3. \/ posted' = (IF quiesced THEN posted ELSE Append(posted, b)) /\ Stage(r, "stashed") /\ faults' = faults
      \/ posted' = posted /\ Stage(r, "failed") /\ faults < MaxFaults /\ faults' = faults + 1
  BY DEF EmitStash, Post, Fault
<1>4. /\ req' \in [Reqs -> Request] /\ \A q \in Reqs : q # r => req'[q] = req[q]
      /\ req'[r].conn = req[r].conn /\ req'[r].kind = req[r].kind
      /\ req'[r].stage \in {"stashed", "failed"}
  BY <1>1, <1>3, StageIs
<1>5. Level(r) <= 1 /\ Level(r) \in Int /\ Level(r)' = 1
  BY <1>2, <1>4 DEF Level
<1>6. faults' \in 0..MaxFaults /\ faults' >= faults
  BY <1>1, <1>3
<1>7. Moves(r)
  BY <1>2, <1>4, <1>5, <1>6 DEF Moves, OpStages
<1>8. b \in Block /\ b.do = "stash" /\ b.op = r
  BY BlocksMade
<1> HIDE DEF b
<1>9. CASE Stage(r, "stashed") /\ posted' = (IF quiesced THEN posted ELSE Append(posted, b))
  <2>1. req'[r].stage = "stashed"
    BY <1>1, <1>9, StageIs
  <2>2. CASE quiesced
    BY <1>7, <1>9, <2>1, <2>2, WorkerQuiet
  <2>3. CASE ~quiesced
    BY <1>2, <1>7, <1>8, <1>9, <2>1, <2>3, WorkerPosts
  <2> QED
    BY <2>2, <2>3
<1>10. CASE Stage(r, "failed") /\ posted' = posted
  <2>1. req'[r].stage = "failed"
    BY <1>1, <1>10, StageIs
  <2> QED
    BY <1>7, <1>10, <2>1, WorkerQuiet
<1> QED
  BY <1>3, <1>9, <1>10

\* The rest of emitResult.
LEMMA EmitResultInv == ASSUME IInv, NEW r \in Reqs, EmitResult(r) PROVE IInv'
<1> DEFINE b == SendBlock(r, "result")
<1>1. req \in [Reqs -> Request] /\ faults \in 0..MaxFaults /\ {"resulted", "failed"} \subseteq Stages
  BY DEF IInv, TypeOK, Stages
<1>2. /\ req[r].stage = "stashed" \/ (req[r].stage = "launched" /\ req[r].kind # "sign")
      /\ WorkerRest
  BY DEF EmitResult
<1>3. \/ posted' = (IF quiesced THEN posted ELSE Append(posted, b)) /\ Stage(r, "resulted") /\ faults' = faults
      \/ posted' = posted /\ Stage(r, "failed") /\ faults < MaxFaults /\ faults' = faults + 1
  BY DEF EmitResult, Post, Fault
<1>4. /\ req' \in [Reqs -> Request] /\ \A q \in Reqs : q # r => req'[q] = req[q]
      /\ req'[r].conn = req[r].conn /\ req'[r].kind = req[r].kind
      /\ req'[r].stage \in {"resulted", "failed"}
  BY <1>1, <1>3, StageIs
<1>5. Level(r) <= 1 /\ Level(r) \in Int
  BY <1>2 DEF Level
<1>6. Level(r)' = IF req'[r].stage = "resulted" THEN 2 ELSE 1
  BY <1>4 DEF Level
<1>7. faults' \in 0..MaxFaults /\ faults' >= faults
  BY <1>1, <1>3
<1>8. Moves(r)
  BY <1>2, <1>4, <1>5, <1>6, <1>7 DEF Moves, OpStages
<1>9. b \in Block /\ b.do = "send" /\ b.op = r /\ b.msg.to = req[r].conn /\ b.msg.what = "result"
  BY <1>2, SendBlockIs DEF Events
<1> HIDE DEF b
<1>10. CASE Stage(r, "resulted") /\ posted' = (IF quiesced THEN posted ELSE Append(posted, b))
  <2>1. req'[r].stage = "resulted"
    BY <1>1, <1>10, StageIs
  <2>2. Level(r) < Rank("result") /\ Rank("result") <= Level(r)'
    BY <1>5, <1>6, <2>1, Numbers
  <2>3. CASE quiesced
    BY <1>8, <1>10, <2>1, <2>3, WorkerQuiet
  <2>4. CASE ~quiesced
    BY <1>2, <1>8, <1>9, <1>10, <2>1, <2>2, <2>4, WorkerPosts DEF Events
  <2> QED
    BY <2>3, <2>4
<1>11. CASE Stage(r, "failed") /\ posted' = posted
  <2>1. req'[r].stage = "failed"
    BY <1>1, <1>11, StageIs
  <2> QED
    BY <1>8, <1>11, <2>1, WorkerQuiet
<1> QED
  BY <1>3, <1>10, <1>11

\* emitFinished, which nothing but the prune follows.
LEMMA EmitFinishedInv == ASSUME IInv, NEW r \in Reqs, EmitFinished(r) PROVE IInv'
<1> DEFINE b == SendBlock(r, "finished")
<1>1. req \in [Reqs -> Request] /\ faults \in 0..MaxFaults /\ "finished" \in Stages
  BY DEF IInv, TypeOK, Stages
<1>2. req[r].stage \in {"launched", "resulted", "failed"} /\ Stage(r, "finished") /\ WorkerRest
  BY DEF EmitFinished
<1>3. \/ posted' = (IF quiesced THEN posted ELSE Append(posted, b)) /\ faults' = faults
      \/ posted' = posted /\ faults < MaxFaults /\ faults' = faults + 1
  BY DEF EmitFinished, Post, Fault
<1>4. /\ req' \in [Reqs -> Request] /\ \A q \in Reqs : q # r => req'[q] = req[q]
      /\ req'[r].conn = req[r].conn /\ req'[r].kind = req[r].kind /\ req'[r].stage = "finished"
  BY <1>1, <1>2, StageIs
<1>5. Level(r) <= 2 /\ Level(r) \in Int
  BY <1>2 DEF Level
<1>6. Level(r)' = 3
  BY <1>4 DEF Level
<1>7. faults' \in 0..MaxFaults /\ faults' >= faults
  BY <1>1, <1>3
<1>8. Moves(r)
  BY <1>2, <1>4, <1>5, <1>6, <1>7 DEF Moves, OpStages
<1>9. b \in Block /\ b.do = "send" /\ b.op = r /\ b.msg.to = req[r].conn /\ b.msg.what = "finished"
  BY <1>2, SendBlockIs DEF Events
<1> HIDE DEF b
<1>10. Level(r) < Rank("finished") /\ Rank("finished") <= Level(r)'
  BY <1>5, <1>6, Numbers
<1>11. CASE posted' = posted
  BY <1>4, <1>8, <1>11, WorkerQuiet
<1>12. CASE ~quiesced /\ posted' = Append(posted, b)
  BY <1>4, <1>8, <1>9, <1>10, <1>12, WorkerPosts DEF Events
<1> QED
  BY <1>3, <1>11, <1>12

\* The end of emitFinished.
LEMMA EmitPruneInv == ASSUME IInv, NEW r \in Reqs, EmitPrune(r) PROVE IInv'
<1> DEFINE b == [do |-> "prune", op |-> r]
<1>1. req \in [Reqs -> Request] /\ faults \in 0..MaxFaults /\ "pruned" \in Stages
  BY DEF IInv, TypeOK, Stages
<1>2. req[r].stage = "finished" /\ Stage(r, "pruned") /\ WorkerRest
  BY DEF EmitPrune
<1>3. \/ posted' = (IF quiesced THEN posted ELSE Append(posted, b)) /\ faults' = faults
      \/ posted' = posted /\ faults < MaxFaults /\ faults' = faults + 1
  BY DEF EmitPrune, Post, Fault
<1>4. /\ req' \in [Reqs -> Request] /\ \A q \in Reqs : q # r => req'[q] = req[q]
      /\ req'[r].conn = req[r].conn /\ req'[r].kind = req[r].kind /\ req'[r].stage = "pruned"
  BY <1>1, <1>2, StageIs
<1>5. Level(r) = 3 /\ Level(r)' = 3
  BY <1>2, <1>4 DEF Level
<1>6. faults' \in 0..MaxFaults /\ faults' >= faults
  BY <1>1, <1>3
<1>7. Moves(r)
  BY <1>2, <1>4, <1>5, <1>6 DEF Moves, OpStages
<1>8. b \in Block /\ b.do = "prune" /\ b.op = r
  BY BlocksMade
<1> HIDE DEF b
<1>9. CASE posted' = posted /\ (quiesced \/ faults' = faults + 1)
  <2>1. faults' > 0 \/ quiesced
    BY <1>1, <1>9
  <2> QED
    BY <1>4, <1>7, <1>9, <2>1, WorkerQuiet
<1>10. CASE ~quiesced /\ posted' = Append(posted, b)
  BY <1>4, <1>7, <1>8, <1>10, WorkerPosts
<1> QED
  BY <1>3, <1>9, <1>10

\* The broker's Reply is no event of an operation.
LEMMA BrokerReplyInv == ASSUME IInv, NEW r \in Reqs, BrokerReply(r) PROVE IInv'
<1> USE DEF IInv, WorkerRest
<1>t. posted \in Seq(Block) /\ req \in [Reqs -> Request] /\ "answered" \in Stages
  BY DEF TypeOK, Stages
<1>1. PICK w \in {"ok", "error"} : posted' = IF quiesced THEN posted ELSE Append(posted, SendBlock(r, w))
  BY DEF BrokerReply, Post
<1> DEFINE b == SendBlock(r, w)
<1>2. req[r].stage = "brokered" /\ Stage(r, "answered") /\ faults' = faults /\ WorkerRest
  BY DEF BrokerReply
<1>3. b \in Block /\ b.do = "send" /\ b.op = r /\ b.msg.to = req[r].conn /\ b.msg.what = w
  BY <1>2, SendBlockIs DEF Answers
<1>4. /\ req' \in [Reqs -> Request] /\ \A q \in Reqs : q # r => req'[q] = req[q]
      /\ req'[r].conn = req[r].conn /\ req'[r].kind = req[r].kind /\ req'[r].stage = "answered"
  BY <1>t, <1>2, StageIs
<1> HIDE DEF b
<1>p. \A i \in DOMAIN posted :
            /\ i \in Int /\ posted[i] \in Block
            /\ posted[i].do \in {"send", "stash", "prune"} => posted[i].op \in Reqs
  BY <1>t, PostedIs
<1>n. ~Queued(b)
  BY <1>2, <1>3 DEF BlockInv, Queued, OpStages
<1>s. \A q \in Reqs : /\ \A t \in OpStages \cup {"none"} : req'[q].stage = t <=> req[q].stage = t
                      /\ req[q].stage = "answered" => req'[q].stage = "answered"
                      /\ req'[q].conn = req[q].conn /\ req'[q].kind = req[q].kind
  BY <1>2, <1>4 DEF OpStages
<1>l. \A q \in Reqs : Level(q)' = Level(q)
  BY <1>2, <1>4 DEF Level
<1>q. /\ posted' \in Seq(Block) /\ EachBlockOnce'
      /\ \A x : Queued(x) => Queued(x)'
      /\ \A i \in DOMAIN posted : i \in DOMAIN posted' /\ posted'[i] = posted[i]
      /\ \A i \in DOMAIN posted' : (i \in DOMAIN posted /\ posted'[i] = posted[i]) \/ posted'[i] = b
  <2>1. CASE quiesced
    BY <1>1, <1>t, <2>1 DEF EachBlockOnce, Queued
  <2>2. CASE ~quiesced
    <3>1. posted' = Append(posted, b)
      BY <1>1, <2>2 DEF b
    <3> QED
      BY <1>3, <1>n, <1>t, <3>1, AppendQueue
  <2> QED
    BY <2>1, <2>2
<1>e. \A q \in Reqs, i \in DOMAIN posted' :
         IsEvent(posted'[i], q) => i \in DOMAIN posted /\ posted'[i] = posted[i]
  BY <1>3, <1>q DEF IsEvent, Events
<1>5. TypeOK' /\ EachBlockOnce'
  BY <1>2, <1>4, <1>q DEF TypeOK
<1>6. LoopInv'
  <2>1. quiesced => posted' = posted
    BY <1>1
  <2> QED
    BY <1>2, <1>s, <2>1 DEF LoopInv, TypeOK
<1>7. ReqInv'
  BY <1>2, <1>s, <1>4 DEF ReqInv, OpStages
<1>8. BlockInv'
  <2> SUFFICES ASSUME NEW i \in DOMAIN posted'
               PROVE  /\ posted'[i].do = "send" =>
                            /\ posted'[i].msg.to = req'[posted'[i].op].conn
                            /\ \/ req'[posted'[i].op].stage \in OpStages /\ posted'[i].msg.what \in Events
                               \/ /\ req'[posted'[i].op].stage = "answered"
                                  /\ posted'[i].msg.what \in {"ok", "error"}
                      /\ posted'[i].do = "stash" => /\ req'[posted'[i].op].stage \in OpStages \ {"launched"}
                                                    /\ grace'[posted'[i].op] = "none"
                      /\ posted'[i].do = "prune" => req'[posted'[i].op].stage = "pruned"
                      /\ posted'[i].do = "evict" => life'[posted'[i].conn] = "closed"
    BY DEF BlockInv
  <2>1. CASE i \in DOMAIN posted /\ posted'[i] = posted[i]
    BY <1>2, <1>p, <1>s, <2>1 DEF BlockInv, OpStages
  <2>2. CASE posted'[i] = b
    BY <1>3, <1>4, <2>2
  <2> QED
    BY <1>q, <2>1, <2>2
<1>9. SentInv'
  BY <1>2, <1>s DEF SentInv, OpStages
<1>10. OrderInv'
  BY <1>2, <1>e, <1>l DEF OrderInv
<1>11. RecoverInv'
  <2>1. \A q \in Reqs : Recoverable(q)' <=> Recoverable(q)
    BY <1>2, <1>s DEF Recoverable
  <2>2. \A q \in Reqs : req'[q].stage = "stashed" <=> req[q].stage = "stashed"
    BY <1>s DEF OpStages
  <2> QED
    BY <1>2, <1>e, <1>q, <1>s, <2>1, <2>2 DEF RecoverInv
<1>12. DrainInv'
  <2>1. \A q \in Reqs : req'[q].stage = "pruned" <=> req[q].stage = "pruned"
    BY <1>s DEF OpStages
  <2> QED
    BY <1>2, <1>q, <2>1 DEF DrainInv
<1> QED
  BY <1>5, <1>6, <1>7, <1>8, <1>9, <1>10, <1>11, <1>12

(***************************************************************************)
(* Requests.                                                               *)
(***************************************************************************)

\* Nobody has asked for anything.
LEMMA InitInv == Init => IInv
<1> SUFFICES ASSUME Init PROVE IInv
  OBVIOUS
<1>1. NoRequest \in Request
  BY DEF NoRequest, Request, Stages
<1>2. /\ posted \in Seq(Block) /\ Len(posted) = 0 /\ DOMAIN posted = {}
      /\ \A r \in Reqs : sent[r] \in Seq(Message) /\ Len(sent[r]) = 0 /\ DOMAIN sent[r] = {}
  BY DEF Init
<1>3. TypeOK
  <2>1. req \in [Reqs -> Request] /\ sent \in [Reqs -> Seq(Message)]
    BY <1>1 DEF Init
  <2>2. /\ life \in [Conns -> {"never", "open", "closed"}] /\ handling \in Reqs \cup {NoReq}
        /\ opOwners \in [Reqs -> Conns \cup {NoConn}] /\ signResults \in [Reqs -> Conns \cup {NoConn}]
        /\ grace \in [Reqs -> {"none", "armed", "fired"}] /\ cancelled \subseteq Reqs
    BY DEF Init
  <2>3. target \in [Reqs -> Reqs \cup {NoReq}]
    BY DEF Init
  <2>4. quiesced \in BOOLEAN
    BY DEF Init
  <2>5. faults \in 0..MaxFaults
    BY DEF Init
  <2> QED
    BY <1>2, <2>1, <2>2, <2>3, <2>4, <2>5 DEF TypeOK
<1>4. EachBlockOnce /\ LoopInv /\ BlockInv
  BY <1>2 DEF Init, EachBlockOnce, LoopInv, BlockInv
<1>5. \A r \in Reqs : req[r].stage = "none"
  BY DEF Init, NoRequest
<1>6. ReqInv /\ SentInv
  BY <1>2, <1>5, SMTT(30) DEF Init, ReqInv, SentInv, OpStages
<1>7. OrderInv /\ RecoverInv
  BY <1>2, <1>5 DEF OrderInv, RecoverInv
<1>8. DrainInv
  BY <1>5 DEF Init, DrainInv
<1> QED
  BY <1>3, <1>4, <1>6, <1>7, <1>8 DEF IInv

\* The request r arrives from c, and becomes one of kind k at stage s.
Takes(c, r, k, s) == Arrives(c, r) /\ req' = [req EXCEPT ![r] = Became(c, k, s)]

\* What a new request looks like.
LEMMA BecameIs ==
  ASSUME IInv, NEW c \in Conns, NEW r \in Reqs, NEW k \in Kinds, NEW s \in Stages, Takes(c, r, k, s)
  PROVE  /\ req' \in [Reqs -> Request]
         /\ \A q \in Reqs : q # r => req'[q] = req[q]
         /\ req'[r].conn = c /\ req'[r].kind = k /\ req'[r].stage = s /\ ~req'[r].progress
         /\ req[r].stage = "none" /\ life[c] = "open" /\ handling = NoReq /\ ~quiesced
         /\ Len(sent[r]) = 0 /\ DOMAIN sent[r] = {} /\ opOwners[r] = NoConn
         /\ signResults[r] = NoConn /\ grace[r] = "none"
         /\ \A i \in DOMAIN posted : posted[i].do \in {"send", "stash", "prune"} => posted[i].op # r
<1>1. req \in [Reqs -> Request] /\ sent[r] \in Seq(Message) /\ posted \in Seq(Block)
  BY DEF IInv, TypeOK
<1>2. Became(c, k, s) \in Request
  BY DEF Became, Request
<1>3. req' \in [Reqs -> Request] /\ req'[r] = Became(c, k, s) /\ \A q \in Reqs : q # r => req'[q] = req[q]
  BY <1>1, <1>2 DEF Takes
<1>4. req'[r].conn = c /\ req'[r].kind = k /\ req'[r].stage = s /\ ~req'[r].progress
  BY <1>3 DEF Became
<1>5. req[r].stage = "none" /\ life[c] = "open" /\ handling = NoReq /\ ~quiesced
  BY DEF Takes, Arrives, LoopIdle
<1>6. Len(sent[r]) = 0 /\ DOMAIN sent[r] = {}
  BY <1>1, <1>5, LenProperties DEF IInv, SentInv
<1>7. opOwners[r] = NoConn /\ signResults[r] = NoConn /\ grace[r] = "none"
  BY <1>5 DEF IInv, ReqInv, OpStages
<1>8. \A i \in DOMAIN posted : posted[i].do \in {"send", "stash", "prune"} => posted[i].op # r
  BY <1>5 DEF IInv, BlockInv, OpStages
<1> QED
  BY <1>3, <1>4, <1>5, <1>6, <1>7, <1>8

\* A request that launches nothing: an answer about it, or the result of an
\* operation of the same client, may be sent.
LEMMA ArrivalInv ==
  ASSUME IInv, NEW c \in Conns, NEW r \in Reqs, NEW k \in Kinds,
         NEW s \in {"answered", "brokered"}, Takes(c, r, k, s),
         NEW o \in Reqs, o = r \/ signResults[o] = c,
         NEW w \in {"ok", "error", "recovered"}, sent' = sent \/ Send(o, Msg(c, w)),
         UNCHANGED <<life, handling, opOwners, signResults, grace, posted, quiesced>>,
         cancelled' \subseteq Reqs, faults' \in 0..MaxFaults, faults' >= faults,
         target' \in [Reqs -> Reqs \cup {NoReq}]
  PROVE  IInv'
<1>t. /\ req \in [Reqs -> Request] /\ sent \in [Reqs -> Seq(Message)] /\ posted \in Seq(Block)
      /\ s \in Stages /\ faults \in Int /\ faults' \in Int
  BY DEF IInv, TypeOK, Stages
<1>r. /\ req' \in [Reqs -> Request]
      /\ \A q \in Reqs : q # r => req'[q] = req[q]
      /\ req'[r].conn = c /\ req'[r].stage = s
      /\ req[r].stage = "none" /\ life[c] = "open" /\ handling = NoReq /\ ~quiesced
      /\ Len(sent[r]) = 0 /\ DOMAIN sent[r] = {} /\ opOwners[r] = NoConn
      /\ signResults[r] = NoConn /\ grace[r] = "none"
      /\ \A i \in DOMAIN posted : posted[i].do \in {"send", "stash", "prune"} => posted[i].op # r
  <2>1. IInv /\ Takes(c, r, k, s) /\ s \in Stages
    BY <1>t
  <2>2. req' \in [Reqs -> Request] /\ \A q \in Reqs : q # r => req'[q] = req[q]
    BY <2>1, BecameIs
  <2>3. req'[r].conn = c /\ req'[r].stage = s
    BY <2>1, BecameIs
  <2>4. req[r].stage = "none" /\ life[c] = "open" /\ handling = NoReq /\ ~quiesced
    BY <2>1, BecameIs
  <2>5. Len(sent[r]) = 0 /\ DOMAIN sent[r] = {} /\ opOwners[r] = NoConn
    BY <2>1, BecameIs
  <2>6. signResults[r] = NoConn /\ grace[r] = "none"
    BY <2>1, BecameIs
  <2>7. \A i \in DOMAIN posted : posted[i].do \in {"send", "stash", "prune"} => posted[i].op # r
    BY <2>1, BecameIs
  <2> QED
    BY <2>2, <2>3, <2>4, <2>5, <2>6, <2>7
<1> USE DEF IInv
<1>m. /\ Msg(c, w) \in Message /\ Msg(c, w).to = c /\ Msg(c, w).what = w
      /\ w \notin Events \cup {"started"}
  BY BlocksMade DEF Msg, Answers, Events
<1> DEFINE m == Msg(c, w)
<1>x. sent' = sent \/ sent' = [sent EXCEPT ![o] = Append(@, m)]
  BY DEF Send
<1> HIDE DEF m
<1>o. req'[o].conn = c /\ req'[o].stage # "none"
  <2>1. CASE o = r
    BY <1>r, <2>1
  <2>2. CASE o # r
    <3>1. signResults[o] # NoConn /\ signResults[o] = c
      BY <2>2
    <3>2. req[o].conn = c /\ grace[o] # "none"
      BY <3>1 DEF ReqInv
    <3> QED
      BY <1>r, <2>2, <3>2 DEF ReqInv, OpStages
  <2> QED
    BY <2>1, <2>2
<1>y. /\ sent' \in [Reqs -> Seq(Message)]
      /\ \A q \in Reqs : \A i \in DOMAIN sent'[q] :
            \/ i \in DOMAIN sent[q] /\ sent'[q][i] = sent[q][i]
            \/ q = o /\ sent'[q][i] = m
      /\ \A q \in Reqs : \A i \in DOMAIN sent[q] : i \in DOMAIN sent'[q] /\ sent'[q][i] = sent[q][i]
      /\ \A q \in Reqs : Len(sent[q]) > 0 => Len(sent'[q]) > 0
      /\ \A q \in Reqs : Len(sent'[q]) = 0 \/ Len(sent[q]) # 0 \/ q = o
  <2>1. CASE sent' = sent
    BY <1>t, <2>1
  <2>2. CASE sent' = [sent EXCEPT ![o] = Append(@, m)]
    BY <1>t, <1>m, <2>2, OneMore, SMTT(30) DEF m
  <2> QED
    BY <1>x, <2>1, <2>2
<1>e. /\ \A q \in Reqs : \A i \in DOMAIN sent'[q] : sent'[q][i].what \in Events \cup {"started"} =>
            i \in DOMAIN sent[q] /\ sent'[q][i] = sent[q][i]
  BY <1>m, <1>y DEF m
<1>p. \A i \in DOMAIN posted : posted[i].do \in {"send", "stash", "prune"} => posted[i].op \in Reqs
  BY <1>t, PostedIs
<1>l. \A q \in Reqs : Level(q)' = Level(q)
  BY <1>r DEF Level
<1>q. \A x : Queued(x)' <=> Queued(x)
  BY DEF Queued
<1>1. TypeOK' /\ EachBlockOnce'
  BY <1>r, <1>y DEF TypeOK, EachBlockOnce
<1>2. LoopInv'
  BY <1>r DEF LoopInv
<1>3. ReqInv'
  <2> SUFFICES ASSUME NEW q \in Reqs
               PROVE  /\ req'[q].stage # "none" => req'[q].conn \in Conns /\ life[req'[q].conn] # "never"
                      /\ req'[q].stage \in OpStages => req'[q].kind \in OpKinds
                      /\ req'[q].stage = "stashed" => req'[q].kind = "sign"
                      /\ opOwners[q] # NoConn => opOwners[q] = req'[q].conn /\ req'[q].stage \in OpStages
                      /\ signResults[q] # NoConn => signResults[q] = req'[q].conn
                      /\ signResults[q] # NoConn => grace[q] = "armed"
                      /\ grace[q] # "none" => req'[q].stage \in OpStages \ {"launched"}
    BY DEF ReqInv
  <2>1. CASE q = r
    BY <1>r, <2>1 DEF OpStages
  <2>2. CASE q # r
    BY <1>r, <2>2 DEF ReqInv
  <2> QED
    BY <2>1, <2>2
<1>4. BlockInv'
  BY <1>p, <1>r DEF BlockInv
<1>5. SentInv'
  <2>1. ASSUME NEW q \in Reqs, NEW i \in DOMAIN sent'[q]
        PROVE  /\ sent'[q][i].to = req'[q].conn
               /\ sent'[q][i].what = "started" => i = 1
               /\ sent'[q][i].what \in Events => req'[q].stage \in OpStages
    <3>1. CASE i \in DOMAIN sent[q] /\ sent'[q][i] = sent[q][i]
      <4>1. q # r
        BY <1>r, <3>1
      <4> QED
        BY <1>r, <3>1, <4>1 DEF SentInv
    <3>2. CASE q = o /\ sent'[q][i] = m
      BY <1>m, <1>o, <3>2 DEF m
    <3> QED
      BY <1>y, <2>1, <3>1, <3>2
  <2>2. ASSUME NEW q \in Reqs, Len(sent'[q]) # 0 PROVE req'[q].stage # "none"
    <3>1. CASE q = o
      BY <1>o, <3>1
    <3>2. CASE q # o
      BY <1>r, <1>y, <2>2, <3>2, ZenonT(60) DEF SentInv
    <3> QED
      BY <3>1, <3>2
  <2>3. ASSUME NEW q \in Reqs, req'[q].stage \in OpStages
        PROVE  Len(sent'[q]) > 0 /\ sent'[q][1].what = "started"
    <3>1. q # r /\ req[q].stage \in OpStages /\ handling # q
      BY <1>r, <2>3 DEF OpStages
    <3>2. Len(sent[q]) > 0 /\ sent[q][1].what = "started"
      BY <3>1 DEF SentInv
    <3>3. 1 \in DOMAIN sent[q]
      BY <1>t, <3>2, LenProperties
    <3> QED
      BY <1>y, <3>2, <3>3
  <2> QED
    BY <2>1, <2>2, <2>3 DEF SentInv
<1>6. OrderInv'
  BY <1>e, <1>l DEF OrderInv
<1>7. RecoverInv'
  <2>1. \A q \in Reqs : q # r => (Recoverable(q)' <=> Recoverable(q))
    BY <1>r DEF Recoverable
  <2>2. \A q \in Reqs, i \in DOMAIN posted : IsEvent(posted[i], q) => q # r
    BY <1>r DEF IsEvent
  <2>3. \A q \in Reqs : \A i \in DOMAIN sent'[q] : sent'[q][i].what = "result" =>
           q # r /\ i \in DOMAIN sent[q] /\ sent'[q][i] = sent[q][i]
    BY <1>e, <1>r DEF Events
  <2> QED
    BY <1>q, <1>r, <2>1, <2>2, <2>3 DEF RecoverInv
<1>8. DrainInv'
  <2>1. faults > 0 => faults' > 0
    BY <1>t
  <2> QED
    BY <1>q, <1>r, <2>1 DEF DrainInv
<1> QED
  BY <1>1, <1>2, <1>3, <1>4, <1>5, <1>6, <1>7, <1>8

\* A gate stops the request.
LEMMA RefuseInv ==
  ASSUME IInv, NEW c \in Conns, NEW r \in Reqs, NEW k \in OpKinds, Refuse(c, r, k)
  PROVE  IInv'
<1>1. /\ Takes(c, r, k, "answered") /\ Send(r, Msg(c, "error")) /\ k \in Kinds
      /\ UNCHANGED <<life, handling, opOwners, signResults, grace, cancelled, posted, target, quiesced, faults>>
  BY DEF Refuse, Takes, Kinds
<1>2. /\ faults' \in 0..MaxFaults /\ faults' >= faults /\ cancelled' \subseteq Reqs
      /\ target' \in [Reqs -> Reqs \cup {NoReq}]
  BY <1>1 DEF IInv, TypeOK
<1> QED
  BY <1>1, <1>2, ArrivalInv

\* handleCertDer, handlePk*.
LEMMA BrokerInv == ASSUME IInv, NEW c \in Conns, NEW r \in Reqs, Broker(c, r) PROVE IInv'
<1>1. /\ UNCHANGED <<life, handling, opOwners, signResults, grace, cancelled, posted,
                     target, quiesced, faults>>
      /\ "pk" \in Kinds
  BY DEF Broker, Kinds
<1>2. /\ faults' \in 0..MaxFaults /\ faults' >= faults /\ cancelled' \subseteq Reqs
      /\ target' \in [Reqs -> Reqs \cup {NoReq}]
  BY <1>1 DEF IInv, TypeOK
<1>3. CASE Takes(c, r, "pk", "answered") /\ Send(r, Msg(c, "error"))
  BY <1>1, <1>2, <1>3, ArrivalInv
<1>4. CASE Takes(c, r, "pk", "brokered") /\ sent' = sent
  BY <1>1, <1>2, <1>4, ArrivalInv
<1> QED
  BY <1>3, <1>4 DEF Broker, Takes

\* handleCancel().
LEMMA CancelInv ==
  ASSUME IInv, NEW c \in Conns, NEW r \in Reqs, NEW o \in Reqs, Cancel(c, r, o)
  PROVE  IInv'
<1>1. /\ Takes(c, r, "cancel", "answered") /\ Send(r, Msg(c, "ok")) /\ "cancel" \in Kinds
      /\ UNCHANGED <<life, handling, opOwners, signResults, grace, posted, quiesced, faults>>
      /\ target' = [target EXCEPT ![r] = o]
      /\ cancelled' = IF opOwners[o] = c THEN cancelled \cup {o} ELSE cancelled
  BY DEF Cancel, Takes, Kinds
<1>2. /\ faults' \in 0..MaxFaults /\ faults' >= faults /\ cancelled' \subseteq Reqs
      /\ target' \in [Reqs -> Reqs \cup {NoReq}]
  BY <1>1 DEF IInv, TypeOK
<1> QED
  BY <1>1, <1>2, ArrivalInv

\* handleGetSignResult().
LEMMA GetSignResultInv ==
  ASSUME IInv, NEW c \in Conns, NEW r \in Reqs, NEW o \in Reqs, GetSignResult(c, r, o)
  PROVE  IInv'
<1>1. /\ Takes(c, r, "recover", "answered") /\ "recover" \in Kinds
      /\ UNCHANGED <<life, handling, opOwners, signResults, grace, cancelled, posted, target, quiesced>>
  BY DEF GetSignResult, Takes, Kinds
<1>2. /\ \/ signResults[o] = c /\ Send(o, Msg(c, "recovered"))
         \/ Send(r, Msg(c, "error"))
      /\ faults' = faults \/ (faults < MaxFaults /\ faults' = faults + 1)
  BY DEF GetSignResult, Fault
<1>3. /\ faults' \in 0..MaxFaults /\ faults' >= faults /\ cancelled' \subseteq Reqs
      /\ target' \in [Reqs -> Reqs \cup {NoReq}]
  BY <1>1, <1>2 DEF IInv, TypeOK
<1>4. CASE signResults[o] = c /\ Send(o, Msg(c, "recovered"))
  BY <1>1, <1>3, <1>4, ArrivalInv
<1>5. CASE Send(r, Msg(c, "error"))
  BY <1>1, <1>3, <1>5, ArrivalInv
<1> QED
  BY <1>2, <1>4, <1>5

\* launch(): the operation exists, and its client has heard nothing of it.
LEMMA LaunchInv ==
  ASSUME IInv, NEW c \in Conns, NEW r \in Reqs, NEW k \in OpKinds, Launch(c, r, k)
  PROVE  IInv'
<1>1. /\ Takes(c, r, k, "launched") /\ k \in Kinds /\ "launched" \in Stages /\ handling' = r
      /\ UNCHANGED <<life, opOwners, signResults, grace, cancelled, posted, sent, target, quiesced, faults>>
  BY DEF Launch, Takes, Kinds, Stages
<1>r. /\ req' \in [Reqs -> Request]
      /\ \A q \in Reqs : q # r => req'[q] = req[q]
      /\ req'[r].conn = c /\ req'[r].stage = "launched" /\ req'[r].kind = k
      /\ req[r].stage = "none" /\ life[c] = "open" /\ handling = NoReq /\ ~quiesced
      /\ Len(sent[r]) = 0 /\ DOMAIN sent[r] = {} /\ opOwners[r] = NoConn
      /\ signResults[r] = NoConn /\ grace[r] = "none"
      /\ \A i \in DOMAIN posted : posted[i].do \in {"send", "stash", "prune"} => posted[i].op # r
  BY <1>1, BecameIs
<1> USE DEF IInv
<1>p. \A i \in DOMAIN posted : posted[i].do \in {"send", "stash", "prune"} => posted[i].op \in Reqs
  BY PostedIs DEF TypeOK
<1>e. \A q \in Reqs, i \in DOMAIN posted : IsEvent(posted[i], q) => q # r
  BY <1>r DEF IsEvent
<1>l. \A q \in Reqs : q # r => Level(q)' = Level(q)
  BY <1>r DEF Level
<1>q. \A x : Queued(x)' <=> Queued(x)
  BY <1>1 DEF Queued
<1>2. TypeOK' /\ EachBlockOnce'
  BY <1>1, <1>r DEF TypeOK, EachBlockOnce
<1>3. LoopInv'
  BY <1>1, <1>r DEF LoopInv, OpStages
<1>4. ReqInv'
  <2> SUFFICES ASSUME NEW q \in Reqs
               PROVE  /\ req'[q].stage # "none" => req'[q].conn \in Conns /\ life[req'[q].conn] # "never"
                      /\ req'[q].stage \in OpStages => req'[q].kind \in OpKinds
                      /\ req'[q].stage = "stashed" => req'[q].kind = "sign"
                      /\ opOwners[q] # NoConn => opOwners[q] = req'[q].conn /\ req'[q].stage \in OpStages
                      /\ signResults[q] # NoConn => signResults[q] = req'[q].conn
                      /\ signResults[q] # NoConn => grace[q] = "armed"
                      /\ grace[q] # "none" => req'[q].stage \in OpStages \ {"launched"}
    BY <1>1 DEF ReqInv
  <2>1. CASE q = r
    BY <1>r, <2>1
  <2>2. CASE q # r
    BY <1>r, <2>2 DEF ReqInv
  <2> QED
    BY <2>1, <2>2
<1>5. BlockInv'
  BY <1>1, <1>p, <1>r DEF BlockInv
<1>6. SentInv'
  BY <1>1, <1>r DEF SentInv
<1>7. OrderInv'
  BY <1>1, <1>e, <1>l, <1>r DEF OrderInv
<1>8. RecoverInv'
  <2>1. \A q \in Reqs : q # r => (Recoverable(q)' <=> Recoverable(q))
    BY <1>1, <1>r DEF Recoverable
  <2> QED
    BY <1>1, <1>e, <1>q, <1>r, <2>1 DEF RecoverInv
<1>9. DrainInv'
  BY <1>1, <1>q, <1>r DEF DrainInv
<1> QED
  BY <1>2, <1>3, <1>4, <1>5, <1>6, <1>7, <1>8, <1>9

\* replyLaunched(): OpStarted is the first thing the client hears.
LEMMA ReplyLaunchedInv == ASSUME IInv, ReplyLaunched PROVE IInv'
<1> USE DEF IInv
<1>0. PICK r \in Reqs : r = handling
  BY DEF ReplyLaunched, TypeOK
<1> DEFINE m == Msg(req[r].conn, "started")
<1>t. /\ req \in [Reqs -> Request] /\ sent \in [Reqs -> Seq(Message)] /\ posted \in Seq(Block)
      /\ opOwners \in [Reqs -> Conns \cup {NoConn}]
  BY DEF TypeOK
<1>1. /\ r \in Reqs /\ r # NoReq /\ ~quiesced /\ req[r].stage \in OpStages
      /\ life[req[r].conn] = "open" /\ Len(sent[r]) = 0
  BY <1>0 DEF ReplyLaunched, LoopInv
<1>2. req[r].conn \in Conns /\ m \in Message /\ m.to = req[r].conn /\ m.what = "started" /\ "started" \notin Events
  <2>1. req[r].conn \in Conns
    BY <1>1 DEF ReqInv, OpStages
  <2> QED
    BY <2>1, BlocksMade DEF Msg, Answers, Events
<1>3. /\ opOwners' = [opOwners EXCEPT ![r] = req[r].conn] /\ handling' = NoReq
      /\ sent' = [sent EXCEPT ![r] = Append(@, m)]
      /\ UNCHANGED <<life, req, signResults, grace, cancelled, posted, target, quiesced, faults>>
  BY <1>0, <1>1, <1>2 DEF ReplyLaunched, Send
<1> HIDE DEF m
<1>4. /\ sent' \in [Reqs -> Seq(Message)]
      /\ \A q \in Reqs : q # r => sent'[q] = sent[q]
      /\ Len(sent'[r]) > 0 /\ sent'[r][1] = m
      /\ \A i \in DOMAIN sent'[r] : sent'[r][i] = m /\ i = 1
  <2>1. DOMAIN sent[r] = {}
    BY <1>1, <1>t, LenProperties
  <2>2. /\ sent' \in [Reqs -> Seq(Message)]
        /\ \A q \in Reqs : q # r => sent'[q] = sent[q]
        /\ Len(sent'[r]) > 0 /\ (Len(sent[r]) = 0 => sent'[r][1] = m)
        /\ \A i \in DOMAIN sent'[r] : i \in DOMAIN sent[r] \/ (sent'[r][i] = m /\ i = Len(sent[r]) + 1)
    BY <1>2, <1>3, <1>t, OneMore
  <2> QED
    BY <1>1, <2>1, <2>2
<1>5. /\ opOwners' \in [Reqs -> Conns \cup {NoConn}] /\ opOwners'[r] = req[r].conn
      /\ \A q \in Reqs : q # r => opOwners'[q] = opOwners[q]
  BY <1>1, <1>2, <1>3, <1>t
<1>6. \A q \in Reqs : Level(q)' = Level(q)
  BY <1>3 DEF Level
<1>q. \A x : Queued(x)' <=> Queued(x)
  BY <1>3 DEF Queued
<1>7. TypeOK' /\ EachBlockOnce'
  BY <1>3, <1>4, <1>5 DEF TypeOK, EachBlockOnce
<1>8. LoopInv'
  BY <1>1, <1>3 DEF LoopInv
<1>9. ReqInv'
  BY <1>1, <1>3, <1>5 DEF ReqInv
<1>10. BlockInv'
  BY <1>3 DEF BlockInv
<1>11. SentInv'
  <2> SUFFICES ASSUME NEW q \in Reqs
               PROVE  /\ \A i \in DOMAIN sent'[q] :
                            /\ sent'[q][i].to = req[q].conn
                            /\ sent'[q][i].what = "started" => i = 1
                            /\ sent'[q][i].what \in Events => req[q].stage \in OpStages
                      /\ Len(sent'[q]) # 0 => req[q].stage # "none"
                      /\ req[q].stage \in OpStages => Len(sent'[q]) > 0 /\ sent'[q][1].what = "started"
    BY <1>3 DEF SentInv
  <2>1. CASE q = r
    BY <1>1, <1>2, <1>4, <2>1 DEF OpStages
  <2>2. CASE q # r
    BY <1>0, <1>4, <2>2 DEF SentInv
  <2> QED
    BY <2>1, <2>2
<1>12. OrderInv'
  <2>1. \A q \in Reqs : \A i \in DOMAIN sent'[q] : sent'[q][i].what \in Events =>
           i \in DOMAIN sent[q] /\ sent'[q][i] = sent[q][i]
    BY <1>2, <1>4
  <2> QED
    BY <1>3, <1>6, <2>1 DEF OrderInv
<1>13. RecoverInv'
  <2>1. \A q \in Reqs : Recoverable(q)' <=> Recoverable(q)
    BY <1>3 DEF Recoverable
  <2>2. \A q \in Reqs : \A i \in DOMAIN sent'[q] : sent'[q][i].what = "result" =>
           i \in DOMAIN sent[q] /\ sent'[q][i] = sent[q][i]
    BY <1>2, <1>4
  <2> QED
    BY <1>3, <1>q, <2>1, <2>2 DEF RecoverInv
<1>14. DrainInv'
  <2>1. ASSUME NEW q \in Reqs, opOwners'[q] # NoConn, req[q].stage = "pruned"
        PROVE  faults > 0 \/ Queued([do |-> "prune", op |-> q])
    BY <1>0, <1>1, <1>5, <2>1 DEF DrainInv
  <2>2. ASSUME NEW q \in Reqs, opOwners'[q] # NoConn
        PROVE  life[opOwners'[q]] = "open" \/ Queued([do |-> "evict", conn |-> opOwners'[q]])
    BY <1>1, <1>5, <2>2 DEF DrainInv
  <2>3. \A q \in Reqs : handling' # q
    BY <1>3
  <2>4. /\ faults' = faults /\ req' = req /\ life' = life
        /\ \A q \in Reqs : Queued([do |-> "prune", op |-> q])' <=> Queued([do |-> "prune", op |-> q])
    BY <1>3, <1>q
  <2>5. \A q \in Reqs : Queued([do |-> "evict", conn |-> opOwners[q]])' <=> Queued([do |-> "evict", conn |-> opOwners'[q]])
    BY <1>q
  <2> QED
    BY <2>1, <2>2, <2>3, <2>4, <2>5 DEF DrainInv
<1> QED
  BY <1>7, <1>8, <1>9, <1>10, <1>11, <1>12, <1>13, <1>14

(***************************************************************************)
(* Connections, and the grace window.                                      *)
(***************************************************************************)

\* acceptOne(): nobody was there under this token before.
LEMMA ConnectInv == ASSUME IInv, NEW c \in Conns, Connect(c) PROVE IInv'
<1> USE DEF IInv
<1>1. /\ life[c] = "never" /\ handling = NoReq /\ life \in [Conns -> {"never", "open", "closed"}]
      /\ life' = [life EXCEPT ![c] = "open"]
      /\ UNCHANGED <<req, handling, opOwners, signResults, grace, cancelled, posted,
                     sent, target, quiesced, faults>>
  BY DEF Connect, LoopIdle, TypeOK
<1>2. /\ life' \in [Conns -> {"never", "open", "closed"}]
      /\ \A d \in Conns : life'[d] = IF d = c THEN "open" ELSE life[d]
  BY <1>1
<1>3. \A q \in Reqs : req[q].stage # "none" => req[q].conn \in Conns /\ req[q].conn # c
  BY <1>1 DEF ReqInv
<1>4. \A q \in Reqs : opOwners[q] # NoConn => opOwners[q] \in Conns /\ opOwners[q] # c
  BY <1>3 DEF ReqInv, OpStages
<1>q. \A x : Queued(x)' <=> Queued(x)
  BY <1>1 DEF Queued
<1>r. \A q \in Reqs : req[q].stage # "none" => (Recoverable(q)' <=> Recoverable(q))
  BY <1>1, <1>2, <1>3 DEF Recoverable
<1>l. \A q \in Reqs : Level(q)' = Level(q)
  BY <1>1 DEF Level
<1>5. TypeOK' /\ EachBlockOnce'
  BY <1>1, <1>2 DEF TypeOK, EachBlockOnce
<1>6. LoopInv'
  BY <1>1 DEF LoopInv
<1>7. ReqInv'
  BY <1>1, <1>2, <1>3 DEF ReqInv
<1>8. BlockInv'
  <2>1. \A i \in DOMAIN posted : posted[i].do = "evict" => posted[i].conn \in Conns
    BY PostedIs DEF TypeOK
  <2> QED
    BY <1>1, <1>2, <2>1 DEF BlockInv
<1>9. SentInv'
  BY <1>1 DEF SentInv
<1>10. OrderInv'
  BY <1>1, <1>l DEF OrderInv
<1>11. RecoverInv'
  <2>1. \A q \in Reqs : \A i \in DOMAIN sent[q] : sent[q][i].what = "result" => req[q].stage # "none"
    BY DEF SentInv, Events, OpStages
  <2>2. \A q \in Reqs : \A i \in DOMAIN posted : IsEvent(posted[i], q) => req[q].stage # "none"
    BY DEF BlockInv, IsEvent, OpStages
  <2> QED
    BY <1>1, <1>q, <1>r, <2>1, <2>2 DEF RecoverInv
<1>12. DrainInv'
  BY <1>1, <1>2, <1>4, <1>q DEF DrainInv
<1> QED
  BY <1>5, <1>6, <1>7, <1>8, <1>9, <1>10, <1>11, <1>12

\* closeConnection(): the eviction is queued, unless the loop has stopped.
LEMMA DisconnectInv == ASSUME IInv, NEW c \in Conns, Disconnect(c) PROVE IInv'
<1> USE DEF IInv
<1> DEFINE b == [do |-> "evict", conn |-> c]
<1>1. /\ life[c] = "open" /\ handling = NoReq /\ life \in [Conns -> {"never", "open", "closed"}]
      /\ life' = [life EXCEPT ![c] = "closed"] /\ posted \in Seq(Block)
      /\ UNCHANGED <<req, handling, opOwners, signResults, grace, sent, target, quiesced, faults>>
  BY DEF Disconnect, LoopIdle, TypeOK
<1>2. /\ life' \in [Conns -> {"never", "open", "closed"}]
      /\ \A d \in Conns : life'[d] = IF d = c THEN "closed" ELSE life[d]
  BY <1>1
<1>3. b \in Block /\ b.do = "evict" /\ b.conn = c
  BY BlocksMade
<1>4. posted' = IF quiesced THEN posted ELSE Append(posted, b)
  BY DEF Disconnect, Post
<1>5. cancelled' \subseteq Reqs
  BY DEF Disconnect, TypeOK
<1> HIDE DEF b
<1>n. ~Queued(b)
  BY <1>1, <1>3 DEF BlockInv, Queued
<1>q. /\ posted' \in Seq(Block) /\ EachBlockOnce'
      /\ \A x : Queued(x) => Queued(x)'
      /\ ~quiesced => Queued(b)'
      /\ \A i \in DOMAIN posted : i \in DOMAIN posted' /\ posted'[i] = posted[i]
      /\ \A i \in DOMAIN posted' : (i \in DOMAIN posted /\ posted'[i] = posted[i]) \/ posted'[i] = b
  <2>1. CASE quiesced
    BY <1>1, <1>4, <2>1 DEF EachBlockOnce, Queued
  <2>2. CASE ~quiesced
    BY <1>1, <1>3, <1>4, <1>n, <2>2, AppendQueue
  <2> QED
    BY <2>1, <2>2
<1>e. \A q \in Reqs, i \in DOMAIN posted' :
         IsEvent(posted'[i], q) => i \in DOMAIN posted /\ posted'[i] = posted[i]
  BY <1>3, <1>q DEF IsEvent
<1>l. \A q \in Reqs : Level(q)' = Level(q)
  BY <1>1 DEF Level
<1>6. TypeOK' /\ EachBlockOnce'
  BY <1>1, <1>2, <1>5, <1>q DEF TypeOK
<1>7. LoopInv'
  BY <1>1, <1>4 DEF LoopInv
<1>8. ReqInv'
  BY <1>1, <1>2 DEF ReqInv
<1>9. BlockInv'
  <2>1. \A i \in DOMAIN posted : posted[i].do = "evict" => posted[i].conn \in Conns
    BY <1>1, PostedIs
  <2> QED
    BY <1>1, <1>2, <1>3, <1>q, <2>1 DEF BlockInv
<1>10. SentInv'
  BY <1>1 DEF SentInv
<1>11. OrderInv'
  BY <1>1, <1>e, <1>l DEF OrderInv
<1>12. RecoverInv'
  <2>1. \A q \in Reqs : req[q].stage # "none" /\ Recoverable(q) => Recoverable(q)'
    BY <1>1, <1>2 DEF Recoverable, ReqInv
  <2>2. \A q \in Reqs : \A i \in DOMAIN sent[q] : sent[q][i].what = "result" => req[q].stage # "none"
    BY DEF SentInv, Events, OpStages
  <2>3. \A q \in Reqs : \A i \in DOMAIN posted : IsEvent(posted[i], q) => req[q].stage # "none"
    BY DEF BlockInv, IsEvent, OpStages
  <2> QED
    BY <1>1, <1>e, <1>q, <2>1, <2>2, <2>3 DEF RecoverInv
<1>13. DrainInv'
  <2>1. ASSUME NEW q \in Reqs, ~quiesced, opOwners[q] # NoConn
        PROVE  life'[opOwners[q]] = "open" \/ Queued([do |-> "evict", conn |-> opOwners[q]])'
    <3>1. CASE opOwners[q] = c
      BY <1>1, <1>q, <2>1, <3>1 DEF b
    <3>2. CASE opOwners[q] # c
      <4>1. opOwners[q] \in Conns /\ life'[opOwners[q]] = life[opOwners[q]]
        BY <1>2, <2>1, <3>2 DEF TypeOK
      <4>2. life[opOwners[q]] = "open" \/ Queued([do |-> "evict", conn |-> opOwners[q]])
        BY <2>1 DEF DrainInv
      <4> QED
        BY <1>1, <1>q, <4>1, <4>2
    <3> QED
      BY <3>1, <3>2
  <2>2. ASSUME NEW q \in Reqs, ~quiesced, opOwners[q] # NoConn \/ handling = q, req[q].stage = "pruned"
        PROVE  faults > 0 \/ Queued([do |-> "prune", op |-> q])'
    BY <1>q, <2>2 DEF DrainInv
  <2> QED
    BY <1>1, <2>1, <2>2 DEF DrainInv
<1> QED
  BY <1>6, <1>7, <1>8, <1>9, <1>10, <1>11, <1>12, <1>13

\* quiesceLoop(): nothing waits any more, and nothing will.
LEMMA QuiesceLoopInv == ASSUME IInv, QuiesceLoop PROVE IInv'
<1> USE DEF IInv
<1>1. /\ handling = NoReq /\ quiesced' /\ quiesced' \in BOOLEAN
      /\ UNCHANGED <<life, req, handling, opOwners, signResults, grace, cancelled, sent, target, faults>>
  BY DEF QuiesceLoop, LoopIdle
<1>2. posted' \in Seq(Block) /\ Len(posted') = 0 /\ DOMAIN posted' = {}
  BY DEF QuiesceLoop
<1>l. \A q \in Reqs : Level(q)' = Level(q)
  BY <1>1 DEF Level
<1>3. TypeOK' /\ EachBlockOnce'
  BY <1>1, <1>2 DEF TypeOK, EachBlockOnce
<1>4. LoopInv' /\ BlockInv'
  BY <1>1, <1>2 DEF LoopInv, BlockInv
<1>5. ReqInv' /\ SentInv'
  BY <1>1 DEF ReqInv, SentInv
<1>6. OrderInv'
  BY <1>1, <1>2, <1>l DEF OrderInv
<1>7. RecoverInv'
  BY <1>1, <1>2 DEF RecoverInv, Recoverable
<1>8. DrainInv'
  BY <1>1 DEF DrainInv
<1> QED
  BY <1>3, <1>4, <1>5, <1>6, <1>7, <1>8

\* evictSignResult(): the record goes when its time is over.
LEMMA GraceOverInv == ASSUME IInv, NEW r \in Reqs, GraceOver(r) PROVE IInv'
<1> USE DEF IInv
<1>1. /\ handling = NoReq /\ ~quiesced /\ grace[r] = "armed"
      /\ grace' = [grace EXCEPT ![r] = "fired"] /\ signResults' = [signResults EXCEPT ![r] = NoConn]
      /\ grace \in [Reqs -> {"none", "armed", "fired"}] /\ signResults \in [Reqs -> Conns \cup {NoConn}]
      /\ UNCHANGED <<life, req, handling, opOwners, cancelled, posted, sent, target, quiesced, faults>>
  BY DEF GraceOver, LoopIdle, TypeOK
<1>2. /\ grace' \in [Reqs -> {"none", "armed", "fired"}] /\ signResults' \in [Reqs -> Conns \cup {NoConn}]
      /\ grace'[r] = "fired" /\ signResults'[r] = NoConn
      /\ \A q \in Reqs : q # r => grace'[q] = grace[q] /\ signResults'[q] = signResults[q]
  BY <1>1
<1>q. \A x : Queued(x)' <=> Queued(x)
  BY <1>1 DEF Queued
<1>l. \A q \in Reqs : Level(q)' = Level(q)
  BY <1>1 DEF Level
<1>3. TypeOK' /\ EachBlockOnce'
  BY <1>1, <1>2 DEF TypeOK, EachBlockOnce
<1>4. LoopInv'
  BY <1>1 DEF LoopInv
<1>5. ReqInv'
  BY <1>1, <1>2 DEF ReqInv
<1>6. BlockInv'
  <2>1. \A i \in DOMAIN posted : posted[i].do = "stash" => posted[i].op \in Reqs /\ posted[i].op # r
    BY <1>1, PostedIs DEF BlockInv, TypeOK
  <2> QED
    BY <1>1, <1>2, <2>1 DEF BlockInv
<1>7. SentInv'
  BY <1>1 DEF SentInv
<1>8. OrderInv'
  BY <1>1, <1>l DEF OrderInv
<1>9. RecoverInv'
  <2>1. \A q \in Reqs : Recoverable(q) => Recoverable(q)'
    BY <1>1, <1>2 DEF Recoverable
  <2> QED
    BY <1>1, <1>q, <2>1 DEF RecoverInv
<1>10. DrainInv'
  BY <1>1, <1>q DEF DrainInv
<1> QED
  BY <1>3, <1>4, <1>5, <1>6, <1>7, <1>8, <1>9, <1>10

(***************************************************************************)
(* Posted blocks.                                                          *)
(***************************************************************************)

\* The loop takes the first block, and nothing else goes on there.
LEMMA TurnIs ==
  ASSUME IInv, NEW d, Turn(d), posted' = Tail(posted)
  PROVE  /\ handling = NoReq /\ ~quiesced
         /\ Head(posted) \in Block /\ Head(posted) = posted[1] /\ 1 \in DOMAIN posted /\ posted[1].do = d
         /\ posted' \in Seq(Block) /\ EachBlockOnce'
         /\ \A x : Queued(x)' <=> Queued(x) /\ x # posted[1]
         /\ \A i \in DOMAIN posted' : i \in Int /\ i + 1 \in DOMAIN posted /\ i + 1 > 1 /\ posted'[i] = posted[i + 1]
         /\ \A i \in DOMAIN posted : i = 1 \/ (i \in Int /\ i - 1 \in DOMAIN posted' /\ posted'[i - 1] = posted[i])
<1>1. /\ handling = NoReq /\ ~quiesced /\ posted # << >> /\ Head(posted).do = d
      /\ posted \in Seq(Block) /\ EachBlockOnce
  BY DEF Turn, LoopIdle, IInv, TypeOK
<1>2. /\ Head(posted) \in Block /\ Head(posted) = posted[1] /\ 1 \in DOMAIN posted
      /\ posted' \in Seq(Block) /\ EachBlockOnce'
      /\ \A x : Queued(x)' <=> Queued(x) /\ x # Head(posted)
      /\ \A i \in DOMAIN posted' : i \in Int /\ i + 1 \in DOMAIN posted /\ i + 1 > 1 /\ posted'[i] = posted[i + 1]
      /\ \A i \in DOMAIN posted : i = 1 \/ (i \in Int /\ i - 1 \in DOMAIN posted' /\ posted'[i - 1] = posted[i])
  BY <1>1, TailQueue
<1> QED
  BY <1>1, <1>2

\* The events that still wait keep their order.
LEMMA RestOrdered ==
  ASSUME IInv, NEW d, Turn(d), posted' = Tail(posted), NEW r \in Reqs
  PROVE  \A i, j \in DOMAIN posted' :
            IsEvent(posted'[i], r) /\ IsEvent(posted'[j], r) /\ i < j =>
                Rank(posted'[i].msg.what) < Rank(posted'[j].msg.what)
<1>1. \A i \in DOMAIN posted' : i \in Int /\ i + 1 \in DOMAIN posted /\ posted'[i] = posted[i + 1]
  BY TurnIs
<1> SUFFICES ASSUME NEW i \in DOMAIN posted', NEW j \in DOMAIN posted',
                    IsEvent(posted'[i], r), IsEvent(posted'[j], r), i < j
             PROVE  Rank(posted'[i].msg.what) < Rank(posted'[j].msg.what)
  OBVIOUS
<1>2. i + 1 < j + 1
  BY <1>1
<1> QED
  BY <1>1, <1>2 DEF IInv, OrderInv

\* A block that sends nothing leaves alone what was sent.
LEMMA StoreBlock ==
  ASSUME IInv, NEW d \in {"stash", "prune", "evict"}, Turn(d), posted' = Tail(posted),
         UNCHANGED <<life, req, handling, cancelled, sent, target, quiesced, faults>>
  PROVE  EachBlockOnce' /\ LoopInv' /\ SentInv' /\ OrderInv'
<1> USE DEF IInv
<1>1. /\ handling = NoReq /\ ~quiesced /\ EachBlockOnce'
      /\ \A i \in DOMAIN posted' : i \in Int /\ i + 1 \in DOMAIN posted /\ posted'[i] = posted[i + 1]
  BY TurnIs
<1>l. \A q \in Reqs : Level(q)' = Level(q)
  BY DEF Level
<1>2. LoopInv' /\ SentInv'
  BY <1>1 DEF LoopInv, SentInv
<1>3. OrderInv'
  BY <1>1, <1>l, RestOrdered DEF OrderInv
<1> QED
  BY <1>1, <1>2, <1>3

\* What can be recovered stays so, and what is stashed can be.
LEMMA RestRecoverable ==
  ASSUME IInv, NEW d, Turn(d), posted' = Tail(posted), req' = req,
         \A q \in Reqs : req[q].stage # "none" /\ Recoverable(q) => Recoverable(q)',
         \A q \in Reqs : posted[1] = [do |-> "stash", op |-> q] => Recoverable(q)',
         \A q \in Reqs : \A i \in DOMAIN sent'[q] : sent'[q][i].what = "result" =>
            \/ i \in DOMAIN sent[q] /\ sent'[q][i] = sent[q][i]
            \/ IsEvent(posted[1], q) /\ posted[1].msg.what = "result"
  PROVE  RecoverInv'
<1> USE DEF IInv
<1>1. /\ 1 \in DOMAIN posted /\ posted \in Seq(Block)
      /\ \A x : Queued(x)' <=> Queued(x) /\ x # posted[1]
      /\ \A i \in DOMAIN posted' : i \in Int /\ i + 1 \in DOMAIN posted /\ i + 1 > 1 /\ posted'[i] = posted[i + 1]
      /\ \A i \in DOMAIN posted : i = 1 \/ (i \in Int /\ i - 1 \in DOMAIN posted' /\ posted'[i - 1] = posted[i])
  BY TurnIs DEF TypeOK
<1>2. \A q \in Reqs : \A i \in DOMAIN sent[q] : sent[q][i].what = "result" => req[q].stage # "none"
  BY DEF SentInv, Events, OpStages
<1>3. \A q \in Reqs : \A i \in DOMAIN posted : IsEvent(posted[i], q) => req[q].stage # "none"
  BY DEF BlockInv, IsEvent, OpStages
<1>p. \A i \in DOMAIN posted : i \in Int /\ i >= 1
  BY <1>1, LenProperties
<1> SUFFICES ASSUME NEW q \in Reqs, req[q].kind = "sign"
             PROVE  /\ req[q].stage = "stashed" => Recoverable(q)' \/ Queued([do |-> "stash", op |-> q])'
                    /\ \A i \in DOMAIN posted' : IsEvent(posted'[i], q) /\ posted'[i].msg.what = "result" =>
                          \/ Recoverable(q)'
                          \/ \E j \in DOMAIN posted' : j < i /\ posted'[j] = [do |-> "stash", op |-> q]
                    /\ \A i \in DOMAIN sent'[q] : sent'[q][i].what = "result" => Recoverable(q)'
  BY DEF RecoverInv
<1> DEFINE st == [do |-> "stash", op |-> q]
<1>i. /\ req[q].stage = "stashed" => Recoverable(q) \/ Queued(st)
      /\ \A i \in DOMAIN posted : IsEvent(posted[i], q) /\ posted[i].msg.what = "result" =>
            Recoverable(q) \/ \E j \in DOMAIN posted : j < i /\ posted[j] = st
      /\ \A i \in DOMAIN sent[q] : sent[q][i].what = "result" => Recoverable(q)
      /\ posted[1] = st => Recoverable(q)'
  BY DEF RecoverInv
<1>f. st.do = "stash"
  OBVIOUS
<1> HIDE DEF st
<1>4. req[q].stage = "stashed" => Recoverable(q)' \/ Queued(st)'
  BY <1>1, <1>i
<1>5. ASSUME NEW i \in DOMAIN posted', IsEvent(posted'[i], q), posted'[i].msg.what = "result", ~Recoverable(q)'
      PROVE  \E j \in DOMAIN posted' : j < i /\ posted'[j] = st
  <2>1. i + 1 \in DOMAIN posted /\ posted'[i] = posted[i + 1] /\ i \in Int
    BY <1>1
  <2>2. ~Recoverable(q)
    BY <1>3, <1>5, <2>1
  <2>3. PICK j \in DOMAIN posted : j < i + 1 /\ posted[j] = st
    BY <1>5, <1>i, <2>1, <2>2
  <2>4. j # 1
    BY <1>5, <1>i, <2>3
  <2>5. j - 1 \in DOMAIN posted' /\ posted'[j - 1] = st /\ j \in Int
    BY <1>1, <2>3, <2>4
  <2>6. j - 1 < i
    BY <2>1, <2>3, <2>5
  <2> QED
    BY <2>5, <2>6
<1>6. ASSUME NEW i \in DOMAIN sent'[q], sent'[q][i].what = "result" PROVE Recoverable(q)'
  <2>1. CASE i \in DOMAIN sent[q] /\ sent'[q][i] = sent[q][i]
    BY <1>2, <1>6, <1>i, <2>1
  <2>2. CASE IsEvent(posted[1], q) /\ posted[1].msg.what = "result"
    <3>1. Recoverable(q) \/ \E j \in DOMAIN posted : j < 1 /\ posted[j] = st
      BY <1>1, <1>i, <2>2
    <3>2. Recoverable(q)
      BY <1>p, <3>1
    <3> QED
      BY <1>1, <1>3, <2>2, <3>2
  <2> QED
    BY <1>6, <2>1, <2>2
<1> QED
  BY <1>4, <1>5, <1>6 DEF st

\* stashSignArtifact(): from here on the result can be recovered.
LEMMA RunStashInv == ASSUME IInv, RunStash PROVE IInv'
<1> USE DEF IInv
<1>1. /\ Turn("stash") /\ posted' = Tail(posted)
      /\ UNCHANGED <<life, req, handling, opOwners, cancelled, sent, target, quiesced, faults>>
      /\ grace \in [Reqs -> {"none", "armed", "fired"}] /\ signResults \in [Reqs -> Conns \cup {NoConn}]
  BY DEF RunStash, TypeOK
<1>t. /\ handling = NoReq /\ ~quiesced
      /\ Head(posted) \in Block /\ Head(posted) = posted[1] /\ 1 \in DOMAIN posted /\ posted[1].do = "stash"
      /\ posted' \in Seq(Block) /\ EachBlockOnce'
      /\ \A x : Queued(x)' <=> Queued(x) /\ x # posted[1]
      /\ \A i \in DOMAIN posted' : i \in Int /\ i + 1 \in DOMAIN posted /\ i + 1 > 1 /\ posted'[i] = posted[i + 1]
  BY <1>1, TurnIs
<1>2. PICK r \in Reqs : posted[1] = [do |-> "stash", op |-> r]
  BY <1>t, BlockIs
<1>3. posted[1].op = r /\ req[r].stage \in OpStages \ {"launched"} /\ grace[r] = "none"
  BY <1>2, <1>t DEF BlockInv
<1>4. req[r].conn \in Conns /\ req[r].conn # NoConn
  BY <1>3 DEF ReqInv, OpStages
<1>5. signResults' = [signResults EXCEPT ![r] = req[r].conn] /\ grace' = [grace EXCEPT ![r] = "armed"]
  BY <1>3, <1>t DEF RunStash
<1>6. /\ grace' \in [Reqs -> {"none", "armed", "fired"}] /\ signResults' \in [Reqs -> Conns \cup {NoConn}]
      /\ grace'[r] = "armed" /\ signResults'[r] = req[r].conn
      /\ \A q \in Reqs : q # r => grace'[q] = grace[q] /\ signResults'[q] = signResults[q]
  BY <1>1, <1>4, <1>5
<1>7. TypeOK'
  BY <1>1, <1>6, <1>t DEF TypeOK
<1>8. EachBlockOnce' /\ LoopInv' /\ SentInv' /\ OrderInv'
  BY <1>1, StoreBlock
<1>9. ReqInv'
  <2> SUFFICES ASSUME NEW q \in Reqs
               PROVE  /\ signResults'[q] # NoConn => signResults'[q] = req[q].conn
                      /\ signResults'[q] # NoConn => grace'[q] = "armed"
                      /\ grace'[q] # "none" => req[q].stage \in OpStages \ {"launched"}
    BY <1>1 DEF ReqInv
  <2>1. CASE q = r
    BY <1>3, <1>6, <2>1
  <2>2. CASE q # r
    BY <1>6, <2>2 DEF ReqInv
  <2> QED
    BY <2>1, <2>2
<1>10. BlockInv'
  <2>1. ASSUME NEW i \in DOMAIN posted', posted'[i].do = "stash"
        PROVE  posted'[i].op \in Reqs /\ posted'[i].op # r
    <3>1. posted'[i] \in Block
      BY <1>t, PostedIs DEF TypeOK
    <3>2. posted'[i].op \in Reqs /\ posted'[i] = [do |-> "stash", op |-> posted'[i].op]
      BY <2>1, <3>1, BlockIs
    <3>3. posted'[i] # posted[1]
      BY <1>t DEF EachBlockOnce
    <3> QED
      BY <1>2, <3>2, <3>3
  <2> QED
    BY <1>1, <1>6, <1>t, <2>1 DEF BlockInv
<1>11. RecoverInv'
  <2>1. \A q \in Reqs : Recoverable(q) => Recoverable(q)'
    BY <1>1, <1>3, <1>6 DEF Recoverable
  <2>2. \A q \in Reqs : posted[1] = [do |-> "stash", op |-> q] => q = r
    BY <1>2
  <2>3. Recoverable(r)'
    BY <1>1, <1>6 DEF Recoverable
  <2> QED
    BY <1>1, <2>1, <2>2, <2>3, RestRecoverable
<1>12. DrainInv'
  <2>1. \A x : x.do # "stash" => (Queued(x)' <=> Queued(x))
    BY <1>t
  <2>2. \A q : /\ Queued([do |-> "prune", op |-> q])' <=> Queued([do |-> "prune", op |-> q])
               /\ Queued([do |-> "evict", conn |-> q])' <=> Queued([do |-> "evict", conn |-> q])
    BY <2>1
  <2> QED
    BY <1>1, <2>2 DEF DrainInv
<1> QED
  BY <1>7, <1>8, <1>9, <1>10, <1>11, <1>12

\* The operation has ended: its owner is forgotten.
LEMMA RunPruneInv == ASSUME IInv, RunPrune PROVE IInv'
<1> USE DEF IInv
<1>1. /\ Turn("prune") /\ posted' = Tail(posted) /\ opOwners \in [Reqs -> Conns \cup {NoConn}]
      /\ UNCHANGED <<life, req, handling, signResults, grace, cancelled, sent, target, quiesced, faults>>
  BY DEF RunPrune, TypeOK
<1>t. /\ handling = NoReq /\ ~quiesced
      /\ Head(posted) \in Block /\ Head(posted) = posted[1] /\ 1 \in DOMAIN posted /\ posted[1].do = "prune"
      /\ posted' \in Seq(Block)
      /\ \A x : Queued(x)' <=> Queued(x) /\ x # posted[1]
      /\ \A i \in DOMAIN posted' : i \in Int /\ i + 1 \in DOMAIN posted /\ i + 1 > 1 /\ posted'[i] = posted[i + 1]
  BY <1>1, TurnIs
<1>2. PICK r \in Reqs : posted[1] = [do |-> "prune", op |-> r]
  BY <1>t, BlockIs
<1>p. posted[1].op = r
  BY <1>2
<1>3. opOwners' = [opOwners EXCEPT ![r] = NoConn]
  BY <1>p, <1>t DEF RunPrune
<1>4. /\ opOwners' \in [Reqs -> Conns \cup {NoConn}] /\ opOwners'[r] = NoConn
      /\ \A q \in Reqs : q # r => opOwners'[q] = opOwners[q]
  BY <1>1, <1>3
<1>5. TypeOK'
  BY <1>1, <1>4, <1>t DEF TypeOK
<1>6. EachBlockOnce' /\ LoopInv' /\ SentInv' /\ OrderInv'
  BY <1>1, StoreBlock
<1>7. ReqInv'
  BY <1>1, <1>4 DEF ReqInv
<1>8. BlockInv'
  BY <1>1, <1>t DEF BlockInv
<1>9. RecoverInv'
  <2>1. \A q \in Reqs : Recoverable(q) => Recoverable(q)'
    BY <1>1 DEF Recoverable
  <2>2. \A q \in Reqs : posted[1] # [do |-> "stash", op |-> q]
    BY <1>t
  <2> QED
    BY <1>1, <2>1, <2>2, RestRecoverable
<1>10. DrainInv'
  <2>1. ASSUME NEW q \in Reqs, q # r, Queued([do |-> "prune", op |-> q])
        PROVE  Queued([do |-> "prune", op |-> q])'
    <3>1. [do |-> "prune", op |-> q].op = q /\ posted[1].op = r
      BY <1>2
    <3> QED
      BY <1>t, <2>1, <3>1
  <2>2. ASSUME NEW c, Queued([do |-> "evict", conn |-> c]) PROVE Queued([do |-> "evict", conn |-> c])'
    <3>1. [do |-> "evict", conn |-> c].do = "evict"
      OBVIOUS
    <3> QED
      BY <1>t, <2>2, <3>1
  <2>3. ASSUME NEW q \in Reqs, opOwners'[q] # NoConn
        PROVE  /\ req[q].stage = "pruned" => faults > 0 \/ Queued([do |-> "prune", op |-> q])'
               /\ life[opOwners'[q]] = "open" \/ Queued([do |-> "evict", conn |-> opOwners[q]])'
    <3>1. q # r /\ opOwners'[q] = opOwners[q]
      BY <1>4, <2>3
    <3>2. req[q].stage = "pruned" => faults > 0 \/ Queued([do |-> "prune", op |-> q])
      BY <1>t, <2>3, <3>1 DEF DrainInv
    <3>3. life[opOwners[q]] = "open" \/ Queued([do |-> "evict", conn |-> opOwners[q]])
      BY <1>t, <2>3, <3>1 DEF DrainInv
    <3>4. Queued([do |-> "evict", conn |-> opOwners[q]]) => Queued([do |-> "evict", conn |-> opOwners[q]])'
      BY <1>t, <3>1
    <3> QED
      BY <2>1, <3>1, <3>2, <3>3, <3>4
  <2>4. \A q \in Reqs : handling' # q
    BY <1>1, <1>t
  <2> QED
    BY <1>1, <2>3, <2>4 DEF DrainInv
<1> QED
  BY <1>5, <1>6, <1>7, <1>8, <1>9, <1>10

\* onClientDisconnected: whatever the stores hold for the client goes.
LEMMA RunEvictInv == ASSUME IInv, RunEvict PROVE IInv'
<1> USE DEF IInv
<1>1. /\ Turn("evict") /\ posted' = Tail(posted) /\ opOwners \in [Reqs -> Conns \cup {NoConn}]
      /\ signResults \in [Reqs -> Conns \cup {NoConn}]
      /\ UNCHANGED <<life, req, handling, grace, cancelled, sent, target, quiesced, faults>>
  BY DEF RunEvict, TypeOK
<1>t. /\ handling = NoReq /\ ~quiesced
      /\ Head(posted) \in Block /\ Head(posted) = posted[1] /\ 1 \in DOMAIN posted /\ posted[1].do = "evict"
      /\ posted' \in Seq(Block)
      /\ \A x : Queued(x)' <=> Queued(x) /\ x # posted[1]
      /\ \A i \in DOMAIN posted' : i \in Int /\ i + 1 \in DOMAIN posted /\ i + 1 > 1 /\ posted'[i] = posted[i + 1]
  BY <1>1, TurnIs
<1>2. PICK c \in Conns : posted[1] = [do |-> "evict", conn |-> c]
  BY <1>t, BlockIs
<1>3. posted[1].conn = c /\ life[c] = "closed" /\ c # NoConn
  BY <1>2, <1>t DEF BlockInv
<1>4. /\ opOwners' = [q \in Reqs |-> IF opOwners[q] = c THEN NoConn ELSE opOwners[q]]
      /\ signResults' = [q \in Reqs |-> IF signResults[q] = c THEN NoConn ELSE signResults[q]]
  BY <1>3, <1>t DEF RunEvict
<1>5. /\ opOwners' \in [Reqs -> Conns \cup {NoConn}] /\ signResults' \in [Reqs -> Conns \cup {NoConn}]
      /\ \A q \in Reqs : opOwners'[q] = NoConn \/ (opOwners'[q] = opOwners[q] /\ opOwners[q] # c)
      /\ \A q \in Reqs : \/ signResults'[q] = NoConn /\ signResults[q] = c
                         \/ signResults'[q] = signResults[q]
  BY <1>1, <1>4
<1>6. TypeOK'
  BY <1>1, <1>5, <1>t DEF TypeOK
<1>7. EachBlockOnce' /\ LoopInv' /\ SentInv' /\ OrderInv'
  BY <1>1, StoreBlock
<1>8. ReqInv'
  BY <1>1, <1>5 DEF ReqInv
<1>9. BlockInv'
  BY <1>1, <1>t DEF BlockInv
<1>10. RecoverInv'
  <2>1. \A q \in Reqs : Recoverable(q) => Recoverable(q)'
    BY <1>1, <1>3, <1>5 DEF Recoverable
  <2>2. \A q \in Reqs : posted[1] # [do |-> "stash", op |-> q]
    BY <1>t
  <2> QED
    BY <1>1, <2>1, <2>2, RestRecoverable
<1>11. DrainInv'
  <2>1. ASSUME NEW q \in Reqs, opOwners'[q] # NoConn
        PROVE  /\ req[q].stage = "pruned" => faults > 0 \/ Queued([do |-> "prune", op |-> q])'
               /\ life[opOwners'[q]] = "open" \/ Queued([do |-> "evict", conn |-> opOwners[q]])'
    <3>1. opOwners'[q] = opOwners[q] /\ opOwners[q] # c
      BY <1>5, <2>1
    <3>2. [do |-> "prune", op |-> q].do = "prune" /\ [do |-> "evict", conn |-> opOwners[q]].conn = opOwners[q]
      OBVIOUS
    <3>3. req[q].stage = "pruned" => faults > 0 \/ Queued([do |-> "prune", op |-> q])
      BY <1>t, <2>1, <3>1 DEF DrainInv
    <3>4. life[opOwners[q]] = "open" \/ Queued([do |-> "evict", conn |-> opOwners[q]])
      BY <1>t, <2>1, <3>1 DEF DrainInv
    <3>5. Queued([do |-> "prune", op |-> q]) => Queued([do |-> "prune", op |-> q])'
      BY <1>t, <3>2
    <3>6. Queued([do |-> "evict", conn |-> opOwners[q]]) => Queued([do |-> "evict", conn |-> opOwners[q]])'
      BY <1>3, <1>t, <3>1, <3>2
    <3> QED
      BY <3>1, <3>3, <3>4, <3>5, <3>6
  <2>2. \A q \in Reqs : handling' # q
    BY <1>1, <1>t
  <2> QED
    BY <1>1, <2>1, <2>2 DEF DrainInv
<1> QED
  BY <1>6, <1>7, <1>8, <1>9, <1>10, <1>11

\* A message goes out: the next event of its operation, or the broker's answer.
LEMMA RunSendInv == ASSUME IInv, RunSend PROVE IInv'
<1> USE DEF IInv
<1>1. /\ Turn("send") /\ posted' = Tail(posted) /\ sent \in [Reqs -> Seq(Message)]
      /\ posted \in Seq(Block)
      /\ UNCHANGED <<life, req, handling, opOwners, signResults, grace, cancelled, target, quiesced, faults>>
  BY DEF RunSend, TypeOK
<1>t. /\ handling = NoReq /\ ~quiesced
      /\ Head(posted) \in Block /\ Head(posted) = posted[1] /\ 1 \in DOMAIN posted /\ posted[1].do = "send"
      /\ posted' \in Seq(Block) /\ EachBlockOnce'
      /\ \A x : Queued(x)' <=> Queued(x) /\ x # posted[1]
      /\ \A i \in DOMAIN posted' : i \in Int /\ i + 1 \in DOMAIN posted /\ i + 1 > 1 /\ posted'[i] = posted[i + 1]
  BY <1>1, TurnIs
<1>2. PICK r \in Reqs, m \in Message : r = posted[1].op /\ m = posted[1].msg
  BY <1>t, BlockIs
<1>3. /\ m.to = req[r].conn /\ m.what # "started" /\ req[r].stage # "none"
      /\ m.what \in Events => req[r].stage \in OpStages /\ IsEvent(posted[1], r)
  BY <1>2, <1>t DEF BlockInv, OpStages, Events, IsEvent
<1>x. sent' = sent \/ sent' = [sent EXCEPT ![r] = Append(@, m)]
  BY <1>2, <1>t DEF RunSend, Send
<1>y. /\ sent' \in [Reqs -> Seq(Message)]
      /\ \A q \in Reqs : \A i \in DOMAIN sent'[q] :
            \/ i \in DOMAIN sent[q] /\ sent'[q][i] = sent[q][i]
            \/ /\ q = r /\ sent'[q][i] = m /\ i = Len(sent[q]) + 1
               /\ \A j \in DOMAIN sent[q] : j < i
      /\ \A q \in Reqs : \A i \in DOMAIN sent[q] : i \in DOMAIN sent'[q] /\ sent'[q][i] = sent[q][i]
      /\ \A q \in Reqs : Len(sent[q]) > 0 => Len(sent'[q]) > 0
      /\ \A q \in Reqs : Len(sent'[q]) = 0 \/ Len(sent[q]) # 0 \/ q = r
  <2>1. CASE sent' = sent
    BY <1>1, <2>1
  <2>2. CASE sent' = [sent EXCEPT ![r] = Append(@, m)]
    <3>1. /\ sent' \in [Reqs -> Seq(Message)]
          /\ \A q \in Reqs : q # r => sent'[q] = sent[q]
          /\ Len(sent'[r]) > 0
          /\ \A i \in DOMAIN sent[r] : i \in DOMAIN sent'[r] /\ sent'[r][i] = sent[r][i]
          /\ \A i \in DOMAIN sent'[r] : \/ i \in DOMAIN sent[r]
                                        \/ /\ sent'[r][i] = m /\ i = Len(sent[r]) + 1
                                           /\ \A j \in DOMAIN sent[r] : j < i
      BY <1>1, <2>2, OneMore
    <3> QED
      BY <3>1
  <2> QED
    BY <1>x, <2>1, <2>2
<1>d. \A q \in Reqs : \A i \in DOMAIN sent'[q] : i \in Int
  BY <1>y, LenProperties
<1>l. \A q \in Reqs : Level(q)' = Level(q)
  BY <1>1 DEF Level
<1>4. TypeOK' /\ EachBlockOnce'
  BY <1>1, <1>t, <1>y DEF TypeOK
<1>5. LoopInv'
  BY <1>1, <1>t DEF LoopInv
<1>6. ReqInv'
  BY <1>1 DEF ReqInv
<1>7. BlockInv'
  BY <1>1, <1>t DEF BlockInv
<1>8. SentInv'
  <2>1. ASSUME NEW q \in Reqs, NEW i \in DOMAIN sent'[q]
        PROVE  /\ sent'[q][i].to = req[q].conn
               /\ sent'[q][i].what = "started" => i = 1
               /\ sent'[q][i].what \in Events => req[q].stage \in OpStages
    <3>1. CASE i \in DOMAIN sent[q] /\ sent'[q][i] = sent[q][i]
      BY <3>1 DEF SentInv
    <3>2. CASE q = r /\ sent'[q][i] = m
      BY <1>3, <3>2
    <3> QED
      BY <1>y, <2>1, <3>1, <3>2
  <2>2. ASSUME NEW q \in Reqs, Len(sent'[q]) # 0 PROVE req[q].stage # "none"
    BY <1>3, <1>y, <2>2 DEF SentInv
  <2>3. ASSUME NEW q \in Reqs, req[q].stage \in OpStages
        PROVE  Len(sent'[q]) > 0 /\ sent'[q][1].what = "started"
    <3>1. handling # q
      BY <1>t
    <3>2. Len(sent[q]) > 0 /\ sent[q][1].what = "started"
      BY <2>3, <3>1 DEF SentInv
    <3>3. 1 \in DOMAIN sent[q]
      BY <1>1, <3>2, LenProperties
    <3> QED
      BY <1>y, <3>2, <3>3
  <2> QED
    BY <1>1, <2>1, <2>2, <2>3 DEF SentInv
<1>9. OrderInv'
  <2> SUFFICES ASSUME NEW q \in Reqs
               PROVE  /\ \A i, j \in DOMAIN sent'[q] :
                            sent'[q][i].what \in Events /\ sent'[q][j].what \in Events /\ i < j =>
                                Rank(sent'[q][i].what) < Rank(sent'[q][j].what)
                      /\ \A i \in DOMAIN sent'[q], j \in DOMAIN posted' :
                            sent'[q][i].what \in Events /\ IsEvent(posted'[j], q) =>
                                Rank(sent'[q][i].what) < Rank(posted'[j].msg.what)
                      /\ \A i, j \in DOMAIN posted' :
                            IsEvent(posted'[i], q) /\ IsEvent(posted'[j], q) /\ i < j =>
                                Rank(posted'[i].msg.what) < Rank(posted'[j].msg.what)
                      /\ \A i \in DOMAIN sent'[q] :
                            sent'[q][i].what \in Events => Rank(sent'[q][i].what) <= Level(q)
                      /\ \A i \in DOMAIN posted' :
                            IsEvent(posted'[i], q) => Rank(posted'[i].msg.what) <= Level(q)
    BY <1>l DEF OrderInv
  <2>1. ASSUME NEW i \in DOMAIN sent'[q], NEW j \in DOMAIN sent'[q],
               sent'[q][i].what \in Events, sent'[q][j].what \in Events, i < j
        PROVE  Rank(sent'[q][i].what) < Rank(sent'[q][j].what)
    <3>1. CASE j \in DOMAIN sent[q] /\ sent'[q][j] = sent[q][j]
      <4>1. i \in DOMAIN sent[q] /\ sent'[q][i] = sent[q][i]
        <5>1. ~(j < i)
          BY <1>d, <2>1
        <5> QED
          BY <1>y, <3>1, <5>1
      <4> QED
        BY <2>1, <3>1, <4>1 DEF OrderInv
    <3>2. CASE q = r /\ sent'[q][j] = m /\ j = Len(sent[q]) + 1
      <4>1. i # j
        BY <1>d, <2>1
      <4>2. i \in DOMAIN sent[q] /\ sent'[q][i] = sent[q][i]
        BY <1>y, <3>2, <4>1
      <4>3. IsEvent(posted[1], q) /\ posted[1].msg.what = m.what
        BY <1>2, <1>3, <2>1, <3>2
      <4> QED
        BY <1>t, <2>1, <3>2, <4>2, <4>3 DEF OrderInv
    <3> QED
      BY <1>y, <2>1, <3>1, <3>2
  <2>2. ASSUME NEW i \in DOMAIN sent'[q], NEW j \in DOMAIN posted',
               sent'[q][i].what \in Events, IsEvent(posted'[j], q)
        PROVE  Rank(sent'[q][i].what) < Rank(posted'[j].msg.what)
    <3>1. CASE i \in DOMAIN sent[q] /\ sent'[q][i] = sent[q][i]
      BY <1>t, <2>2, <3>1 DEF OrderInv
    <3>2. CASE q = r /\ sent'[q][i] = m
      <4>1. IsEvent(posted[1], q) /\ posted[1].msg.what = m.what
        BY <1>2, <1>3, <2>2, <3>2
      <4>2. 1 < j + 1 /\ j + 1 \in DOMAIN posted /\ posted'[j] = posted[j + 1]
        BY <1>t
      <4> QED
        BY <1>t, <2>2, <3>2, <4>1, <4>2 DEF OrderInv
    <3> QED
      BY <1>y, <2>2, <3>1, <3>2
  <2>3. \A i, j \in DOMAIN posted' :
           IsEvent(posted'[i], q) /\ IsEvent(posted'[j], q) /\ i < j =>
               Rank(posted'[i].msg.what) < Rank(posted'[j].msg.what)
    BY <1>1, RestOrdered
  <2>4. ASSUME NEW i \in DOMAIN sent'[q], sent'[q][i].what \in Events
        PROVE  Rank(sent'[q][i].what) <= Level(q)
    <3>1. CASE i \in DOMAIN sent[q] /\ sent'[q][i] = sent[q][i]
      BY <2>4, <3>1 DEF OrderInv
    <3>2. CASE q = r /\ sent'[q][i] = m
      BY <1>2, <1>3, <1>t, <2>4, <3>2 DEF OrderInv
    <3> QED
      BY <1>y, <2>4, <3>1, <3>2
  <2>5. \A i \in DOMAIN posted' : IsEvent(posted'[i], q) => Rank(posted'[i].msg.what) <= Level(q)
    BY <1>t DEF OrderInv
  <2> QED
    BY <2>1, <2>2, <2>3, <2>4, <2>5
<1>10. RecoverInv'
  <2>1. \A q \in Reqs : Recoverable(q) => Recoverable(q)'
    BY <1>1 DEF Recoverable
  <2>2. \A q \in Reqs : posted[1] # [do |-> "stash", op |-> q]
    BY <1>t
  <2>3. \A q \in Reqs : \A i \in DOMAIN sent'[q] : sent'[q][i].what = "result" =>
            \/ i \in DOMAIN sent[q] /\ sent'[q][i] = sent[q][i]
            \/ IsEvent(posted[1], q) /\ posted[1].msg.what = "result"
    BY <1>2, <1>3, <1>y DEF Events
  <2> QED
    BY <1>1, <2>1, <2>2, <2>3, RestRecoverable
<1>11. DrainInv'
  <2>1. \A x : x.do # "send" => (Queued(x)' <=> Queued(x))
    BY <1>t
  <2>2. \A q : /\ Queued([do |-> "prune", op |-> q])' <=> Queued([do |-> "prune", op |-> q])
               /\ Queued([do |-> "evict", conn |-> q])' <=> Queued([do |-> "evict", conn |-> q])
    BY <2>1
  <2> QED
    BY <1>1, <2>2 DEF DrainInv
<1> QED
  BY <1>4, <1>5, <1>6, <1>7, <1>8, <1>9, <1>10, <1>11

(***************************************************************************)
(* The theorems.                                                           *)
(***************************************************************************)

\* Every step keeps the invariant.
LEMMA NextInv == IInv /\ [Next]_vars => IInv'
<1> SUFFICES ASSUME IInv, [Next]_vars PROVE IInv'
  OBVIOUS
<1>1. CASE UNCHANGED vars
  <2>1. TypeOK' /\ EachBlockOnce' /\ LoopInv' /\ ReqInv'
    BY <1>1 DEF vars, IInv, TypeOK, EachBlockOnce, LoopInv, ReqInv
  <2>2. BlockInv' /\ SentInv' /\ OrderInv'
    BY <1>1 DEF vars, IInv, BlockInv, SentInv, OrderInv, Level
  <2>3. RecoverInv' /\ DrainInv'
    BY <1>1 DEF vars, IInv, RecoverInv, Recoverable, DrainInv, Queued
  <2> QED
    BY <2>1, <2>2, <2>3 DEF IInv
<1>2. ASSUME NEW c \in Conns, Connect(c) \/ Disconnect(c) PROVE IInv'
  BY <1>2, ConnectInv, DisconnectInv
<1>3. ASSUME NEW c \in Conns, NEW r \in Reqs, NEW k \in OpKinds, Refuse(c, r, k) \/ Launch(c, r, k)
      PROVE  IInv'
  BY <1>3, RefuseInv, LaunchInv
<1>4. ASSUME NEW c \in Conns, NEW r \in Reqs, Broker(c, r) PROVE IInv'
  BY <1>4, BrokerInv
<1>5. ASSUME NEW c \in Conns, NEW r \in Reqs, NEW o \in Reqs, Cancel(c, r, o) \/ GetSignResult(c, r, o)
      PROVE  IInv'
  BY <1>5, CancelInv, GetSignResultInv
<1>6. ASSUME NEW r \in Reqs,
             \/ EmitProgress(r) \/ EmitStash(r) \/ EmitResult(r)
             \/ EmitFinished(r) \/ EmitPrune(r) \/ BrokerReply(r) \/ GraceOver(r)
      PROVE  IInv'
  BY <1>6, EmitProgressInv, EmitStashInv, EmitResultInv, EmitFinishedInv, EmitPruneInv,
     BrokerReplyInv, GraceOverInv
<1>7. CASE LoopStep
  BY <1>7, ReplyLaunchedInv, RunSendInv, RunStashInv, RunPruneInv, RunEvictInv DEF LoopStep
<1>8. CASE QuiesceLoop
  BY <1>8, QuiesceLoopInv
<1> QED
  BY <1>1, <1>2, <1>3, <1>4, <1>5, <1>6, <1>7, <1>8 DEF Next

\* Every reachable state of the operations is one of the inductive invariant.
THEOREM Invariant == Spec => []IInv
<1>1. Init => IInv
  BY InitInv
<1>2. IInv /\ [Next]_vars => IInv'
  BY NextInv
<1> QED
  BY <1>1, <1>2, PTL DEF Spec

\* The protocol of an operation as its client sees it: OpStarted first, whatever
\* the worker posted meanwhile (replyLaunched), then each event once and in
\* order, to the connection that asked; no block is queued twice.
THEOREM Protocol == Spec => []ProtocolInv
<1>1. IInv => ProtocolInv
  <2> SUFFICES ASSUME IInv PROVE EventOrder
    BY DEF IInv, ProtocolInv
  <2> SUFFICES ASSUME NEW r \in Reqs
               PROVE  /\ \A i \in 1..Len(sent[r]) : sent[r][i].to = req[r].conn
                      /\ \A w \in Events \cup {"started"} : \A i, j \in At(r, w) : i = j
                      /\ \A w \in Events : At(r, w) # {} => At(r, "started") # {}
                      /\ \A w \in Events : \A i \in At(r, "started"), j \in At(r, w) : i < j
                      /\ \A i \in At(r, "progress"), j \in At(r, "result") : i < j
                      /\ \A i \in At(r, "progress"), j \in At(r, "finished") : i < j
                      /\ \A i \in At(r, "result"), j \in At(r, "finished") : i < j
    BY DEF EventOrder, Events
  <2>1. DOMAIN sent[r] = 1..Len(sent[r]) /\ Len(sent[r]) \in Nat
    BY LenProperties DEF IInv, TypeOK
  <2>2. \A w : \A i \in At(r, w) : i \in DOMAIN sent[r] /\ i \in Int /\ i >= 1 /\ sent[r][i].what = w
    BY <2>1 DEF At
  <2>3. \A i, j \in DOMAIN sent[r] :
           sent[r][i].what \in Events /\ sent[r][j].what \in Events /\ i < j =>
               Rank(sent[r][i].what) < Rank(sent[r][j].what)
    BY DEF IInv, OrderInv
  <2>4. ASSUME NEW w \in Events, NEW v \in Events, NEW i \in At(r, w), NEW j \in At(r, v), i < j
        PROVE  Rank(w) < Rank(v)
    BY <2>2, <2>3, <2>4
  <2>5. \A i \in At(r, "started") : i = 1
    BY <2>2 DEF IInv, SentInv
  <2>6. "started" \notin Events
    BY DEF Events
  <2>7. ASSUME NEW w \in Events, NEW i \in At(r, w), NEW j \in At(r, w) PROVE i = j
    <3>1. ~(Rank(w) < Rank(w))
      BY Numbers
    <3>2. ~(i < j) /\ ~(j < i)
      BY <2>4, <3>1
    <3> QED
      BY <2>2, <3>2
  <2>8. ASSUME NEW w \in Events, NEW j \in At(r, w) PROVE 1 \in At(r, "started") /\ 1 < j
    <3>1. req[r].stage \in OpStages /\ Len(sent[r]) > 0
      BY <2>1, <2>2 DEF IInv, SentInv
    <3>2. handling # r
      BY <3>1 DEF IInv, LoopInv
    <3>3. sent[r][1].what = "started"
      BY <3>1, <3>2 DEF IInv, SentInv
    <3>4. 1 \in At(r, "started")
      BY <2>1, <3>1, <3>3 DEF At
    <3>5. j # 1
      BY <2>2, <2>6, <3>3
    <3> QED
      BY <2>2, <3>4, <3>5
  <2>9. ASSUME NEW w \in Events, NEW v \in Events, Rank(w) < Rank(v), NEW i \in At(r, w), NEW j \in At(r, v)
        PROVE  i < j
    <3>1. ~(j < i)
      BY <2>4, <2>9, Numbers
    <3>2. i # j
      BY <2>2, <2>9, Numbers
    <3> QED
      BY <2>2, <3>1, <3>2
  <2>10. /\ \A w \in Events \cup {"started"} : \A i, j \in At(r, w) : i = j
         /\ \A i \in 1..Len(sent[r]) : sent[r][i].to = req[r].conn
    BY <2>1, <2>5, <2>7 DEF IInv, SentInv
  <2>11. /\ \A w \in Events : At(r, w) # {} => At(r, "started") # {}
         /\ \A w \in Events : \A i \in At(r, "started"), j \in At(r, w) : i < j
    BY <2>5, <2>8
  <2>12. /\ \A i \in At(r, "progress"), j \in At(r, "result") : i < j
         /\ \A i \in At(r, "progress"), j \in At(r, "finished") : i < j
         /\ \A i \in At(r, "result"), j \in At(r, "finished") : i < j
    BY <2>9, Numbers DEF Events
  <2> QED
    BY <2>10, <2>11, <2>12
<1> QED
  BY <1>1, Invariant, PTL

\* A Sign result that was announced to a client that is still there can be
\* fetched again (handleGetSignResult) until its grace window is over.
THEOREM Recovery == Spec => []AnnouncedIsRecoverable
<1>1. IInv => AnnouncedIsRecoverable
  <2> SUFFICES ASSUME IInv, NEW r \in Reqs, At(r, "result") # {}, req[r].kind = "sign",
                      life[req[r].conn] = "open", ~quiesced
               PROVE  signResults[r] = req[r].conn \/ grace[r] = "fired"
    BY DEF AnnouncedIsRecoverable
  <2>1. DOMAIN sent[r] = 1..Len(sent[r])
    BY LenProperties DEF IInv, TypeOK
  <2>2. PICK i \in DOMAIN sent[r] : sent[r][i].what = "result"
    BY <2>1 DEF At
  <2>3. Recoverable(r)
    BY <2>2 DEF IInv, RecoverInv
  <2> QED
    BY <2>3 DEF Recoverable
<1> QED
  BY <1>1, Invariant, PTL

\* m_opOwners and m_signResults do not grow for the process lifetime: each entry
\* has its own way out, also when its client leaves in the middle.
THEOREM Stores == Spec => []StoresDrain
<1>1. IInv => StoresDrain
  <2> SUFFICES ASSUME IInv, ~quiesced, NEW r \in Reqs
               PROVE  /\ opOwners[r] # NoConn =>
                            \/ Working(r) \/ faults > 0 \/ Queued([do |-> "prune", op |-> r])
                      /\ opOwners[r] # NoConn =>
                            life[opOwners[r]] = "open" \/ Queued([do |-> "evict", conn |-> opOwners[r]])
                      /\ signResults[r] # NoConn => grace[r] = "armed"
    BY DEF StoresDrain
  <2>1. opOwners[r] # NoConn => Working(r) \/ req[r].stage = "pruned"
    BY DEF IInv, ReqInv, OpStages, Working
  <2>2. opOwners[r] # NoConn /\ req[r].stage = "pruned" => faults > 0 \/ Queued([do |-> "prune", op |-> r])
    BY DEF IInv, DrainInv
  <2>3. opOwners[r] # NoConn =>
           life[opOwners[r]] = "open" \/ Queued([do |-> "evict", conn |-> opOwners[r]])
    BY DEF IInv, DrainInv
  <2>4. signResults[r] # NoConn => grace[r] = "armed"
    BY DEF IInv, ReqInv
  <2> QED
    BY <2>1, <2>2, <2>3, <2>4
<1> QED
  BY <1>1, Invariant, PTL

(***************************************************************************)
(* Who may cancel what: a second invariant, inductive on top of the first. *)
(***************************************************************************)

\* An operation that runs, and whose client is there, is entered as its own; only
\* while the loop is still in the middle of the launch it is not yet.
OwnersKnown ==
    ~quiesced => \A r \in Reqs :
        Working(r) /\ handling # r /\ life[req[r].conn] = "open" => opOwners[r] = req[r].conn

\* Requests are taken in order, and nothing is cancelled, or asks for a cancel,
\* before it exists: a Cancel cannot name an operation that is launched later.
InOrder ==
    /\ \A p, q \in Reqs : p < q /\ req[q].stage # "none" => req[p].stage # "none"
    /\ \A q \in Reqs : target[q] # NoReq => req[q].stage # "none"
    /\ \A r \in cancelled : req[r].stage # "none"

ScopeInv == OwnersKnown /\ InOrder /\ CancelScoped

\* A step that cancels nothing, asks for nothing and takes nobody in or out.
LEMMA ScopeKept ==
  ASSUME ScopeInv, UNCHANGED <<life, cancelled, target>>, ~quiesced' => ~quiesced,
         \A q \in Reqs : /\ req'[q].conn = req[q].conn
                         /\ req'[q].stage = "none" <=> req[q].stage = "none"
                         /\ Working(q)' => Working(q),
         cancelled \subseteq Reqs, OwnersKnown'
  PROVE  ScopeInv'
<1>1. InOrder'
  BY DEF ScopeInv, InOrder
<1>2. \A q \in Reqs : AskedFor(q)' <=> AskedFor(q)
  BY DEF AskedFor
<1>3. CancelScoped'
  BY <1>2 DEF ScopeInv, CancelScoped
<1> QED
  BY <1>1, <1>3 DEF ScopeInv

\* The workers change nothing but their own operation and the queue.
LEMMA WorkerScope ==
  ASSUME IInv, ScopeInv, NEW r \in Reqs,
         \/ EmitProgress(r) \/ EmitStash(r) \/ EmitResult(r)
         \/ EmitFinished(r) \/ EmitPrune(r) \/ BrokerReply(r)
  PROVE  ScopeInv'
<1>1. req \in [Reqs -> Request] /\ req[r] \in Request /\ cancelled \subseteq Reqs
  BY DEF IInv, TypeOK
<1>2. UNCHANGED <<life, handling, opOwners, cancelled, target, quiesced>>
  BY DEF EmitProgress, EmitStash, EmitResult, EmitFinished, EmitPrune, BrokerReply, WorkerRest
<1>3. /\ \A q \in Reqs : q # r => req'[q] = req[q]
      /\ req'[r].conn = req[r].conn /\ req[r].stage # "none" /\ req'[r].stage # "none"
      /\ Working(r)' => Working(r)
  <2>1. CASE EmitProgress(r)
    <3> DEFINE R == [req[r] EXCEPT !.progress = TRUE]
    <3>1. R.conn = req[r].conn /\ R.stage = req[r].stage
      BY <1>1 DEF Request
    <3>2. req' = [req EXCEPT ![r] = R] /\ req[r].stage = "launched"
      BY <2>1 DEF EmitProgress
    <3> HIDE DEF R
    <3> QED
      BY <1>1, <3>1, <3>2 DEF Working
  <2>2. ASSUME NEW s \in Stages \ {"none", "launched"}, Stage(r, s), req[r].stage # "none",
               s \in {"stashed", "resulted", "failed", "finished"} => Working(r)
        PROVE  /\ \A q \in Reqs : q # r => req'[q] = req[q]
               /\ req'[r].conn = req[r].conn /\ req[r].stage # "none" /\ req'[r].stage # "none"
               /\ Working(r)' => Working(r)
    <3>1. /\ \A q \in Reqs : q # r => req'[q] = req[q]
          /\ req'[r].conn = req[r].conn /\ req'[r].stage = s
      BY <1>1, <2>2, StageIs
    <3> QED
      BY <2>2, <3>1 DEF Working
  <2>3. CASE EmitStash(r)
    BY <2>2, <2>3 DEF EmitStash, Stages, Working
  <2>4. CASE EmitResult(r)
    BY <2>2, <2>4 DEF EmitResult, Stages, Working
  <2>5. CASE EmitFinished(r)
    BY <2>2, <2>5 DEF EmitFinished, Stages, Working
  <2>6. CASE EmitPrune(r)
    BY <2>2, <2>6 DEF EmitPrune, Stages, Working
  <2>7. CASE BrokerReply(r)
    BY <2>2, <2>7 DEF BrokerReply, Stages
  <2> QED
    BY <2>1, <2>3, <2>4, <2>5, <2>6, <2>7
<1>4. \A q \in Reqs : /\ req'[q].conn = req[q].conn
                      /\ req'[q].stage = "none" <=> req[q].stage = "none"
                      /\ Working(q)' => Working(q)
  BY <1>3 DEF Working
<1>5. OwnersKnown'
  BY <1>2, <1>4 DEF ScopeInv, OwnersKnown
<1> QED
  BY <1>1, <1>2, <1>4, <1>5, ScopeKept

\* Blocks and timers: an owner is pruned when its operation has ended, and
\* evicted when its client has left.
LEMMA LoopScope ==
  ASSUME IInv, ScopeInv, LoopStep \/ QuiesceLoop \/ \E r \in Reqs : GraceOver(r)
  PROVE  ScopeInv'
<1>1. /\ cancelled \subseteq Reqs /\ posted \in Seq(Block) /\ handling \in Reqs \cup {NoReq}
      /\ opOwners \in [Reqs -> Conns \cup {NoConn}] /\ quiesced \in BOOLEAN
  BY DEF IInv, TypeOK
<1>2. UNCHANGED <<life, req, cancelled, target>> /\ (~quiesced' => ~quiesced)
  BY DEF LoopStep, ReplyLaunched, RunSend, RunStash, RunPrune, RunEvict, QuiesceLoop, GraceOver
<1>3. \A q \in Reqs : Working(q)' <=> Working(q)
  BY <1>2 DEF Working
<1>4. OwnersKnown'
  <2>1. CASE RunSend \/ RunStash \/ QuiesceLoop \/ \E r \in Reqs : GraceOver(r)
    <3>1. UNCHANGED <<handling, opOwners>>
      BY <2>1 DEF RunSend, RunStash, QuiesceLoop, GraceOver
    <3> QED
      BY <1>2, <1>3, <3>1 DEF ScopeInv, OwnersKnown
  <2>2. CASE ReplyLaunched
    <3>1. handling \in Reqs /\ opOwners' = [opOwners EXCEPT ![handling] = req[handling].conn]
      BY <1>1, <2>2 DEF ReplyLaunched
    <3> QED
      BY <1>1, <1>2, <1>3, <3>1 DEF ScopeInv, OwnersKnown
  <2>3. CASE RunPrune
    <3>1. /\ posted # << >> /\ Head(posted).do = "prune" /\ handling' = handling
          /\ opOwners' = [opOwners EXCEPT ![Head(posted).op] = NoConn]
      BY <2>3 DEF RunPrune, Turn
    <3>2. 1 \in DOMAIN posted /\ Head(posted) = posted[1] /\ posted[1].op \in Reqs
      BY <1>1, <3>1, HeadTailProperties, LenProperties, EmptySeq, PostedIs
    <3>3. req[posted[1].op].stage = "pruned"
      BY <3>1, <3>2 DEF IInv, BlockInv
    <3>4. ~Working(posted[1].op)
      BY <3>3 DEF Working
    <3> QED
      BY <1>1, <1>2, <1>3, <3>1, <3>2, <3>4 DEF ScopeInv, OwnersKnown
  <2>4. CASE RunEvict
    <3> DEFINE c == Head(posted).conn
    <3>1. /\ posted # << >> /\ Head(posted).do = "evict" /\ handling' = handling
          /\ opOwners' = [r \in Reqs |-> IF opOwners[r] = c THEN NoConn ELSE opOwners[r]]
      BY <2>4 DEF RunEvict, Turn
    <3>2. 1 \in DOMAIN posted /\ Head(posted) = posted[1]
      BY <1>1, <3>1, HeadTailProperties, LenProperties, EmptySeq
    <3>3. life[c] = "closed"
      BY <3>1, <3>2 DEF IInv, BlockInv
    <3> HIDE DEF c
    <3>4. \A q \in Reqs : life[opOwners[q]] = "open" => opOwners'[q] = opOwners[q]
      BY <3>1, <3>3
    <3> QED
      BY <1>2, <1>3, <3>1, <3>4 DEF ScopeInv, OwnersKnown
  <2> QED
    BY <2>1, <2>2, <2>3, <2>4 DEF LoopStep
<1> QED
  BY <1>1, <1>2, <1>3, <1>4, ScopeKept

\* A new request; of these only a Cancel asks for one, and it finds the owner
\* entered, because the launch is over and the operation not.
LEMMA ArrivalScope ==
  ASSUME IInv, ScopeInv, NEW c \in Conns, NEW r \in Reqs, NEW k \in Kinds,
         NEW s \in {"answered", "brokered", "launched"}, Takes(c, r, k, s),
         UNCHANGED <<life, opOwners, quiesced>>,
         handling' = IF s = "launched" THEN r ELSE handling,
         \/ UNCHANGED <<target, cancelled>>
         \/ \E o \in Reqs : /\ target' = [target EXCEPT ![r] = o]
                            /\ cancelled' = IF opOwners[o] = c THEN cancelled \cup {o} ELSE cancelled
  PROVE  ScopeInv'
<1>t. target \in [Reqs -> Reqs \cup {NoReq}] /\ cancelled \subseteq Reqs /\ s \in Stages
  BY DEF IInv, TypeOK, Stages
<1>1. /\ \A q \in Reqs : q # r => req'[q] = req[q]
      /\ req'[r].conn = c /\ req'[r].stage = s
      /\ req[r].stage = "none" /\ life[c] = "open" /\ handling = NoReq /\ ~quiesced
      /\ opOwners[r] = NoConn
  BY <1>t, BecameIs
<1>2. \A q \in Reqs : q < r => req[q].stage # "none"
  BY DEF Takes, Arrives
<1>3. \A q \in Reqs : q > r => req[q].stage = "none" /\ target[q] = NoReq
  BY <1>1 DEF ScopeInv, InOrder
<1>4. /\ target[r] = NoReq /\ r \notin cancelled
  BY <1>1 DEF ScopeInv, InOrder
<1>5. \A q \in Reqs : q # r => target'[q] = target[q]
  BY <1>t
<1>6. \A q \in Reqs : q \in cancelled' => q \in cancelled \/ (opOwners[q] = c /\ target'[r] = q)
  BY <1>t
<1>7. \A q \in Reqs : opOwners[q] = c => q # r /\ req[q].conn = c /\ req[q].stage # "none"
  BY <1>1 DEF IInv, ReqInv, OpStages
<1>8. OwnersKnown'
  <2>1. \A q \in Reqs : q # r => (Working(q)' <=> Working(q))
    BY <1>1 DEF Working
  <2>2. Working(r)' => handling' = r
    BY <1>1 DEF Working
  <2> QED
    BY <1>1, <2>1, <2>2 DEF ScopeInv, OwnersKnown
<1>9. InOrder'
  <2>1. \A p, q \in Reqs : p < q /\ req'[q].stage # "none" => req'[p].stage # "none"
    BY <1>1, <1>2 DEF ScopeInv, InOrder
  <2>2. \A q \in Reqs : target'[q] # NoReq => req'[q].stage # "none"
    BY <1>1, <1>5 DEF ScopeInv, InOrder
  <2>3. \A q \in cancelled' : q \in Reqs /\ req'[q].stage # "none"
    <3>1. cancelled' \subseteq Reqs
      <4>1. CASE cancelled' = cancelled
        BY <1>t, <4>1
      <4>2. ASSUME NEW o \in Reqs, cancelled' = IF opOwners[o] = c THEN cancelled \cup {o} ELSE cancelled
            PROVE  cancelled' \subseteq Reqs
        BY <1>t, <4>2
      <4> QED
        BY <4>1, <4>2
    <3>2. \A q \in cancelled : q \in Reqs /\ q # r /\ req[q].stage # "none"
      BY <1>t, <1>4 DEF ScopeInv, InOrder
    <3> QED
      BY <1>1, <1>6, <1>7, <3>1, <3>2
  <2> QED
    BY <2>1, <2>2, <2>3 DEF InOrder
<1>10. CancelScoped'
  <2> SUFFICES ASSUME NEW q \in Reqs
               PROVE  /\ q \in cancelled' => AskedFor(q)' \/ life[req'[q].conn] = "closed"
                      /\ Working(q)' /\ (AskedFor(q)' \/ life[req'[q].conn] = "closed") => q \in cancelled'
    BY <1>1 DEF CancelScoped
  <2>1. CASE q = r
    <3>1. ~AskedFor(r)'
      BY <1>3, <1>5 DEF AskedFor
    <3>2. r \notin cancelled'
      BY <1>4, <1>6, <1>7
    <3> QED
      BY <1>1, <2>1, <3>1, <3>2
  <2>2. CASE q # r
    <3>1. req'[q] = req[q] /\ (Working(q)' <=> Working(q))
      BY <1>1, <2>2 DEF Working
    <3>2. AskedFor(q) => AskedFor(q)'
      <4>1. SUFFICES ASSUME NEW p \in Reqs, p > q, target[p] = q, req[p].conn = req[q].conn
                     PROVE  AskedFor(q)'
        BY DEF AskedFor
      <4>2. p # r
        BY <1>4, <4>1
      <4> QED
        BY <1>1, <1>5, <3>1, <4>1, <4>2 DEF AskedFor
    <3>3. AskedFor(q)' => AskedFor(q) \/ (target'[r] = q /\ req[q].conn = c)
      <4>1. SUFFICES ASSUME NEW p \in Reqs, p > q, target'[p] = q, req'[p].conn = req'[q].conn
                     PROVE  AskedFor(q) \/ (target'[r] = q /\ req[q].conn = c)
        BY DEF AskedFor
      <4>2. CASE p = r
        BY <1>1, <3>1, <4>1, <4>2
      <4>3. CASE p # r
        BY <1>1, <1>5, <3>1, <4>1, <4>3 DEF AskedFor
      <4> QED
        BY <4>2, <4>3
    <3>4. ASSUME opOwners[q] = c, target'[r] = q PROVE AskedFor(q)'
      <4>1. q < r
        BY <1>3, <1>7, <2>2, <3>4
      <4> QED
        BY <1>1, <1>7, <3>1, <3>4, <4>1 DEF AskedFor
    <3>5. ASSUME Working(q), target'[r] = q, req[q].conn = c PROVE q \in cancelled'
      <4>1. opOwners[q] = c
        BY <1>1, <3>5 DEF ScopeInv, OwnersKnown
      <4>2. target'[r] # target[r]
        BY <1>4, <3>5
      <4> QED
        BY <1>t, <3>5, <4>1, <4>2
    <3>6. q \in cancelled => q \in cancelled'
      BY <1>t
    <3>7. q \in cancelled => AskedFor(q) \/ life[req[q].conn] = "closed"
      BY DEF ScopeInv, CancelScoped
    <3>8. Working(q) /\ (AskedFor(q) \/ life[req[q].conn] = "closed") => q \in cancelled
      BY <1>1 DEF ScopeInv, CancelScoped
    <3> QED
      BY <1>6, <3>1, <3>2, <3>3, <3>4, <3>5, <3>6, <3>7, <3>8
  <2> QED
    BY <2>1, <2>2
<1> QED
  BY <1>8, <1>9, <1>10 DEF ScopeInv

\* Who comes has no operation yet, and who leaves takes all of its own along.
LEMMA ClientScope ==
  ASSUME IInv, ScopeInv, NEW c \in Conns, Connect(c) \/ Disconnect(c)
  PROVE  ScopeInv'
<1>1. /\ UNCHANGED <<req, handling, opOwners, target, quiesced>> /\ life[c] # "closed"
      /\ life \in [Conns -> {"never", "open", "closed"}] /\ cancelled \subseteq Reqs
      /\ \E v \in {"open", "closed"} : life' = [life EXCEPT ![c] = v]
  BY DEF Connect, Disconnect, IInv, TypeOK
<1>2. \A q \in Reqs : (Working(q)' <=> Working(q)) /\ (AskedFor(q)' <=> AskedFor(q))
  BY <1>1 DEF Working, AskedFor
<1>3. \A q \in Reqs : req[q].stage # "none" => req[q].conn \in Conns /\ life[req[q].conn] # "never"
  BY DEF IInv, ReqInv
<1>4. \A q \in Reqs : Working(q) => req[q].stage # "none"
  BY DEF Working
<1>5. CASE Connect(c)
  <2>1. life[c] = "never" /\ life' = [life EXCEPT ![c] = "open"] /\ cancelled' = cancelled
    BY <1>5 DEF Connect
  <2>2. \A q \in Reqs : req[q].stage # "none" => life'[req[q].conn] = life[req[q].conn]
    BY <1>1, <1>3, <2>1
  <2>3. OwnersKnown'
    BY <1>1, <1>2, <1>4, <2>2 DEF ScopeInv, OwnersKnown
  <2>4. InOrder'
    BY <1>1, <2>1 DEF ScopeInv, InOrder
  <2>5. CancelScoped'
    BY <1>1, <1>2, <1>4, <2>1, <2>2 DEF ScopeInv, InOrder, CancelScoped
  <2> QED
    BY <2>3, <2>4, <2>5 DEF ScopeInv
<1>6. CASE Disconnect(c)
  <2>1. /\ life[c] = "open" /\ life' = [life EXCEPT ![c] = "closed"]
        /\ quiesced => cancelled' = cancelled
        /\ ~quiesced => cancelled' = cancelled \cup {q \in Reqs : Working(q) /\ req[q].conn = c}
    BY <1>6 DEF Disconnect
  <2>2. \A q \in Reqs : /\ req[q].conn = c => life'[req[q].conn] = "closed"
                        /\ req[q].conn # c => life'[req[q].conn] = life[req[q].conn]
    BY <1>1, <2>1
  <2>3. OwnersKnown'
    BY <1>1, <1>2, <2>2 DEF ScopeInv, OwnersKnown
  <2>4. InOrder'
    BY <1>1, <1>4, <2>1 DEF ScopeInv, InOrder
  <2>5. ASSUME NEW q \in Reqs
        PROVE  /\ q \in cancelled' => AskedFor(q) \/ life'[req[q].conn] = "closed"
               /\ Working(q) /\ ~quiesced /\ (AskedFor(q) \/ life'[req[q].conn] = "closed") => q \in cancelled'
    <3>1. /\ q \in cancelled => AskedFor(q) \/ life[req[q].conn] = "closed"
          /\ Working(q) /\ ~quiesced /\ (AskedFor(q) \/ life[req[q].conn] = "closed") => q \in cancelled
      BY DEF ScopeInv, CancelScoped
    <3>2. q \in cancelled => q \in cancelled'
      BY <2>1
    <3>3. q \in cancelled' => q \in cancelled \/ req[q].conn = c
      BY <2>1
    <3>4. Working(q) /\ ~quiesced /\ req[q].conn = c => q \in cancelled'
      BY <2>1
    <3> QED
      BY <2>2, <3>1, <3>2, <3>3, <3>4
  <2>6. CancelScoped'
    BY <1>1, <1>2, <2>5 DEF CancelScoped
  <2> QED
    BY <2>3, <2>4, <2>6 DEF ScopeInv
<1> QED
  BY <1>5, <1>6

\* An operation is cancelled only for its own client, which asked or left, and a
\* Cancel of that client does reach it as long as it runs (handleCancel), for any
\* number of clients, requests and operations.
THEOREM Scope == Spec => []CancelScoped
<1>1. Init => ScopeInv
  BY DEF Init, NoRequest, ScopeInv, OwnersKnown, InOrder, CancelScoped, AskedFor, Working
<1>2. IInv /\ ScopeInv /\ [Next]_vars => ScopeInv'
  <2> SUFFICES ASSUME IInv, ScopeInv, [Next]_vars PROVE ScopeInv'
    OBVIOUS
  <2>1. CASE UNCHANGED vars
    BY <2>1 DEF vars, ScopeInv, OwnersKnown, InOrder, CancelScoped, AskedFor, Working
  <2>2. ASSUME NEW c \in Conns, Connect(c) \/ Disconnect(c) PROVE ScopeInv'
    BY <2>2, ClientScope
  <2>3. ASSUME NEW c \in Conns, NEW r \in Reqs, NEW k \in OpKinds, Refuse(c, r, k) \/ Launch(c, r, k)
        PROVE  ScopeInv'
    <3>1. k \in Kinds
      BY DEF Kinds
    <3>2. CASE Refuse(c, r, k)
      <4>1. Takes(c, r, k, "answered") /\ UNCHANGED <<life, handling, opOwners, cancelled, target, quiesced>>
        BY <3>2 DEF Refuse, Takes
      <4> QED
        BY <3>1, <4>1, ArrivalScope
    <3>3. CASE Launch(c, r, k)
      <4>1. /\ Takes(c, r, k, "launched") /\ handling' = r
            /\ UNCHANGED <<life, opOwners, cancelled, target, quiesced>>
        BY <3>3 DEF Launch, Takes
      <4> QED
        BY <3>1, <4>1, ArrivalScope
    <3> QED
      BY <2>3, <3>2, <3>3
  <2>4. ASSUME NEW c \in Conns, NEW r \in Reqs, Broker(c, r) PROVE ScopeInv'
    <3>1. /\ Takes(c, r, "pk", "answered") \/ Takes(c, r, "pk", "brokered")
          /\ UNCHANGED <<life, handling, opOwners, cancelled, target, quiesced>> /\ "pk" \in Kinds
      BY <2>4 DEF Broker, Takes, Kinds
    <3> QED
      BY <3>1, ArrivalScope
  <2>5. ASSUME NEW c \in Conns, NEW r \in Reqs, NEW o \in Reqs, Cancel(c, r, o) PROVE ScopeInv'
    <3>1. /\ Takes(c, r, "cancel", "answered") /\ "cancel" \in Kinds
          /\ UNCHANGED <<life, handling, opOwners, quiesced>>
          /\ target' = [target EXCEPT ![r] = o]
          /\ cancelled' = IF opOwners[o] = c THEN cancelled \cup {o} ELSE cancelled
      BY <2>5 DEF Cancel, Takes, Kinds
    <3> QED
      BY <3>1, ArrivalScope
  <2>6. ASSUME NEW c \in Conns, NEW r \in Reqs, NEW o \in Reqs, GetSignResult(c, r, o) PROVE ScopeInv'
    <3>1. /\ Takes(c, r, "recover", "answered") /\ "recover" \in Kinds
          /\ UNCHANGED <<life, handling, opOwners, cancelled, target, quiesced>>
      BY <2>6 DEF GetSignResult, Takes, Kinds
    <3> QED
      BY <3>1, ArrivalScope
  <2>7. ASSUME NEW r \in Reqs,
               \/ EmitProgress(r) \/ EmitStash(r) \/ EmitResult(r)
               \/ EmitFinished(r) \/ EmitPrune(r) \/ BrokerReply(r)
        PROVE  ScopeInv'
    BY <2>7, WorkerScope
  <2>8. CASE LoopStep \/ QuiesceLoop \/ \E r \in Reqs : GraceOver(r)
    BY <2>8, LoopScope
  <2> QED
    BY <2>1, <2>2, <2>3, <2>4, <2>5, <2>6, <2>7, <2>8 DEF Next
<1>3. ScopeInv => CancelScoped
  BY DEF ScopeInv
<1> QED
  BY <1>1, <1>2, <1>3, Invariant, PTL DEF Spec
=============================================================================
