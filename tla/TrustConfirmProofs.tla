-------------------------- MODULE TrustConfirmProofs --------------------------
(***************************************************************************)
(* Confirmations against teardown, for any set of connections and any      *)
(* number of changes: nothing touches what is gone, places are given once  *)
(* and come back, and only what a person approved reaches the trust        *)
(* configuration.                                                          *)
(***************************************************************************)
EXTENDS TrustConfirm, SequenceTheorems, TLAPS

USE JobsAssumption DEF Jobs, NoOne, MainThread, Original

(***************************************************************************)
(* The inductive invariant.                                                *)
(***************************************************************************)

\* The loop's queue holds the continuation of exactly the jobs that are posted,
\* and evictions of connections that are closed.
QueueInv ==
    /\ \A j \in Jobs : job[j].state = "posted" <=> Queued(Continue(j))
    /\ \A c \in Conns : Queued(Evict(c)) => life[c] = "closed"

\* The guard's owner is the worker that is between its check and its post, or
\* the destructor; the guard is dead once the frontend is.
GuardInv ==
    /\ \A j \in Jobs : job[j].state = "locked" <=> guard.owner = j
    /\ guard.owner = MainThread => teardown = "drained" /\ guard.alive
    /\ guard.alive <=> FrontendAlive
    /\ guard.owner # NoOne => guard.alive

\* How far the teardown is, and what that leaves.
TeardownInv ==
    /\ quiesced <=> teardown # "running"
    /\ teardown = "transportGone" => posted = << >>

\* Who asked is a connection, and a place is held for whoever waits.
JobInv ==
    /\ \A j \in Jobs : job[j].state # "new" => job[j].conn \in Conns /\ life[job[j].conn] # "never"
    /\ \A j \in Jobs : ~quiesced /\ Waiting(j) /\ life[job[j].conn] = "open" => job[j].conn \in inFlight

IInv ==
    /\ TypeOK /\ EachBlockOnce
    /\ QueueInv /\ GuardInv /\ TeardownInv /\ JobInv
    /\ OneWaitingPerConnection /\ NoLeakedPlace

(***************************************************************************)
(* The queue.                                                              *)
(***************************************************************************)

\* Two blocks are the same only if they are for the same job or connection.
LEMMA BlocksDiffer ==
  ASSUME NEW b \in Block
  PROVE  /\ b.what = "continue" => b.job \in Jobs /\ b = Continue(b.job)
         /\ b.what = "evict" => b.conn \in Conns /\ b = Evict(b.conn)
         /\ b.what \in {"continue", "evict"}
         /\ \A j \in Jobs, c \in Conns : Continue(j) # Evict(c)
         /\ \A i, j \in Jobs : Continue(i) = Continue(j) => i = j
         /\ \A c, d \in Conns : Evict(c) = Evict(d) => c = d
  BY DEF Block, Continue, Evict

\* A block that was not queued is queued behind the others.
LEMMA AppendQueue ==
  ASSUME posted \in Seq(Block), EachBlockOnce, NEW b \in Block, ~Queued(b),
         posted' = Append(posted, b)
  PROVE  /\ posted' \in Seq(Block) /\ EachBlockOnce'
         /\ \A x : Queued(x)' <=> Queued(x) \/ x = b
<1>1. /\ posted' \in Seq(Block) /\ Len(posted') = Len(posted) + 1 /\ Len(posted) \in Nat
      /\ \A n \in 1..Len(posted) : posted'[n] = posted[n]
      /\ posted'[Len(posted) + 1] = b
  BY AppendProperties, LenProperties
<1>2. \A n \in 1..Len(posted') : n \in 1..Len(posted) \/ n = Len(posted')
  BY <1>1
<1>3. EachBlockOnce'
  BY <1>1, <1>2 DEF EachBlockOnce, Queued
<1>4. ASSUME NEW x PROVE Queued(x)' <=> Queued(x) \/ x = b
  BY <1>1, <1>2 DEF Queued
<1> QED
  BY <1>1, <1>3, <1>4

\* The block whose turn it is leaves the queue, and it only.
LEMMA TailQueue ==
  ASSUME posted \in Seq(Block), EachBlockOnce, posted # << >>, posted' = Tail(posted)
  PROVE  /\ Head(posted) \in Block /\ Queued(Head(posted))
         /\ posted' \in Seq(Block) /\ EachBlockOnce'
         /\ \A x : Queued(x)' <=> Queued(x) /\ x # Head(posted)
<1>1. /\ posted' \in Seq(Block) /\ Len(posted') = Len(posted) - 1 /\ Len(posted) \in Nat \ {0}
      /\ \A n \in 1..Len(posted') : posted'[n] = posted[n + 1]
      /\ Head(posted) = posted[1] /\ Head(posted) \in Block
  BY HeadTailProperties, LenProperties, EmptySeq
<1>2. \A n \in 1..Len(posted) : n = 1 \/ (n - 1 \in 1..Len(posted') /\ posted'[n - 1] = posted[n])
  BY <1>1
<1>3. EachBlockOnce'
  BY <1>1 DEF EachBlockOnce
<1>4. ASSUME NEW x PROVE Queued(x)' <=> Queued(x) /\ x # Head(posted)
  <2>1. Queued(x)' => Queued(x) /\ x # Head(posted)
    BY <1>1 DEF Queued, EachBlockOnce
  <2>2. Queued(x) /\ x # Head(posted) => Queued(x)'
    BY <1>1, <1>2 DEF Queued
  <2> QED
    BY <2>1, <2>2
<1> QED
  BY <1>1, <1>3, <1>4 DEF Queued

\* A job moves on; the others, and who asked for it, stay.
LEMMA JobMoves ==
  ASSUME job \in [Jobs -> Job], NEW j \in Jobs, NEW s \in JobState,
         job' = [job EXCEPT ![j].state = s]
  PROVE  /\ job' \in [Jobs -> Job]
         /\ \A i \in Jobs : i # j => job'[i] = job[i]
         /\ job'[j].state = s /\ job'[j].conn = job[j].conn
<1>1. job[j] \in Job
  OBVIOUS
<1>2. [job[j] EXCEPT !.state = s] \in Job
  BY <1>1 DEF Job
<1>3. job' = [job EXCEPT ![j] = [job[j] EXCEPT !.state = s]]
  OBVIOUS
<1>4. job'[j] = [job[j] EXCEPT !.state = s]
  BY <1>3
<1>5. job'[j].state = s /\ job'[j].conn = job[j].conn
  BY <1>1, <1>4 DEF Job
<1> QED
  BY <1>2, <1>3, <1>5

(***************************************************************************)
(* One step of the loop, a worker or main() at a time.                     *)
(***************************************************************************)
LEMMA InitInv == Init => IInv
<1> SUFFICES ASSUME Init PROVE IInv
  OBVIOUS
<1>1. posted \in Seq(Block) /\ Len(posted) = 0 /\ \A b : ~Queued(b)
  BY DEF Init, Queued
<1>2. NoJob \in Job
  BY DEF NoJob, Job, JobState, Verbs
<1>3. TypeOK
  BY <1>1, <1>2 DEF Init, TypeOK, Tiers, Teardown
<1>4. EachBlockOnce /\ QueueInv
  BY <1>1 DEF Init, EachBlockOnce, QueueInv, NoJob
<1>5. GuardInv /\ TeardownInv /\ JobInv
  BY DEF Init, GuardInv, TeardownInv, JobInv, NoJob, FrontendAlive, Waiting
<1>6. OneWaitingPerConnection /\ NoLeakedPlace
  BY DEF Init, OneWaitingPerConnection, NoLeakedPlace, NoJob, Waiting
<1> QED
  BY <1>3, <1>4, <1>5, <1>6 DEF IInv

\* acceptOne() touches a connection that nobody has asked on.
LEMMA ConnectInv ==
  ASSUME IInv, NEW c \in Conns, Connect(c)
  PROVE  IInv'
<1> USE DEF IInv, Connect
<1>q. posted' = posted /\ EachBlockOnce' /\ \A x : Queued(x)' <=> Queued(x)
  BY DEF EachBlockOnce, Queued
<1>j. job' \in [Jobs -> Job] /\ \A i \in Jobs : job'[i] = job[i]
  BY DEF TypeOK
<1>1. TypeOK'
  BY <1>q, <1>j DEF TypeOK, Teardown, Tiers
<1>2. QueueInv'
  BY <1>q, <1>j DEF QueueInv
<1>3. GuardInv'
  BY <1>q, <1>j DEF GuardInv, FrontendAlive, TypeOK
<1>4. TeardownInv'
  BY <1>q DEF TeardownInv, GuardInv, FrontendAlive
<1>5. JobInv'
  BY <1>q, <1>j DEF JobInv, Waiting, TypeOK, TeardownInv, OneWaitingPerConnection, QueueInv
<1>6. OneWaitingPerConnection'
  BY <1>q, <1>j DEF OneWaitingPerConnection, JobInv, Waiting, TypeOK
<1>7. NoLeakedPlace'
  BY <1>q, <1>j DEF NoLeakedPlace, TypeOK
<1> QED
  BY <1>q, <1>1, <1>2, <1>3, <1>4, <1>5, <1>6, <1>7

\* A plain change is done at once.
LEMMA WritePlainInv ==
  ASSUME IInv, NEW c \in Conns, NEW j \in Jobs, WritePlain(c, j)
  PROVE  IInv'
<1> USE DEF IInv, WritePlain, Arrives, Apply
<1>q. posted' = posted /\ EachBlockOnce' /\ \A x : Queued(x)' <=> Queued(x)
  BY DEF EachBlockOnce, Queued
<1>j. /\ job' \in [Jobs -> Job]
      /\ \A i \in Jobs : i # j => job'[i] = job[i]
      /\ job[j].state = "new" /\ job'[j].state = "done" /\ job'[j].conn = c
  BY DEF TypeOK, Job, JobState, Verbs, NoJob
<1>1. TypeOK'
  BY <1>q, <1>j DEF TypeOK, Teardown, Tiers
<1>2. QueueInv'
  BY <1>q, <1>j DEF QueueInv
<1>3. GuardInv'
  BY <1>q, <1>j DEF GuardInv, FrontendAlive, TypeOK
<1>4. TeardownInv'
  BY <1>q DEF TeardownInv, GuardInv, FrontendAlive
<1>5. JobInv'
  BY <1>q, <1>j DEF JobInv, Waiting, TypeOK, TeardownInv, OneWaitingPerConnection, QueueInv
<1>6. OneWaitingPerConnection'
  BY <1>q, <1>j DEF OneWaitingPerConnection, JobInv, Waiting, TypeOK
<1>7. NoLeakedPlace'
  BY <1>q, <1>j DEF NoLeakedPlace, TypeOK
<1> QED
  BY <1>q, <1>1, <1>2, <1>3, <1>4, <1>5, <1>6, <1>7

\* A confirmation takes the connection's place.
LEMMA RequestInv ==
  ASSUME IInv, NEW c \in Conns, NEW j \in Jobs, Request(c, j)
  PROVE  IInv'
<1> USE DEF IInv, Request, Arrives
<1>q. posted' = posted /\ EachBlockOnce' /\ \A x : Queued(x)' <=> Queued(x)
  BY DEF EachBlockOnce, Queued
<1>j. /\ job' \in [Jobs -> Job]
      /\ \A i \in Jobs : i # j => job'[i] = job[i]
      /\ job[j].state = "new" /\ job'[j].state = "asking" /\ job'[j].conn = c
  <2>1. PICK v \in Verbs : job' = [job EXCEPT ![j] = [NoJob EXCEPT !.state = "asking", !.verb = v, !.conn = c]]
    OBVIOUS
  <2>2. [NoJob EXCEPT !.state = "asking", !.verb = v, !.conn = c] \in Job
    BY DEF NoJob, Job, JobState, Verbs
  <2> QED
    BY <2>1, <2>2 DEF TypeOK, NoJob
<1>1. TypeOK'
  BY <1>q, <1>j DEF TypeOK, Teardown, Tiers
<1>2. QueueInv'
  BY <1>q, <1>j DEF QueueInv
<1>3. GuardInv'
  BY <1>q, <1>j DEF GuardInv, FrontendAlive, TypeOK
<1>4. TeardownInv'
  BY <1>q DEF TeardownInv, GuardInv, FrontendAlive
<1>5. JobInv'
  BY <1>q, <1>j DEF JobInv, Waiting, TypeOK, TeardownInv, OneWaitingPerConnection, QueueInv
<1>6. OneWaitingPerConnection'
  BY <1>q, <1>j DEF OneWaitingPerConnection, JobInv, Waiting, TypeOK
<1>7. NoLeakedPlace'
  BY <1>q, <1>j DEF NoLeakedPlace, TypeOK
<1> QED
  BY <1>q, <1>1, <1>2, <1>3, <1>4, <1>5, <1>6, <1>7

\* The person answers.
LEMMA AnswerInv ==
  ASSUME IInv, NEW j \in Jobs, Answer(j)
  PROVE  IInv'
<1> USE DEF IInv, Answer
<1>q. posted' = posted /\ EachBlockOnce' /\ \A x : Queued(x)' <=> Queued(x)
  BY DEF EachBlockOnce, Queued
<1>j. /\ job' \in [Jobs -> Job]
      /\ \A i \in Jobs : i # j => job'[i] = job[i]
      /\ job[j].state = "asking" /\ job'[j].state = "answered" /\ job'[j].conn = job[j].conn
  <2>1. PICK ok \in BOOLEAN : job' = [job EXCEPT ![j].state = "answered", ![j].approved = ok]
    OBVIOUS
  <2>2. job[j] \in Job
    BY DEF TypeOK
  <2>3. [job[j] EXCEPT !.state = "answered", !.approved = ok] \in Job
    BY <2>2 DEF Job, JobState
  <2>4. job' = [job EXCEPT ![j] = [job[j] EXCEPT !.state = "answered", !.approved = ok]]
    BY <2>1
  <2>5. job'[j] = [job[j] EXCEPT !.state = "answered", !.approved = ok]
    BY <2>4 DEF TypeOK
  <2>6. job'[j].state = "answered" /\ job'[j].conn = job[j].conn
    BY <2>2, <2>5 DEF Job
  <2> QED
    BY <2>3, <2>4, <2>6 DEF TypeOK
<1>1. TypeOK'
  BY <1>q, <1>j DEF TypeOK, Teardown, Tiers
<1>2. QueueInv'
  BY <1>q, <1>j DEF QueueInv
<1>3. GuardInv'
  BY <1>q, <1>j DEF GuardInv, FrontendAlive, TypeOK
<1>4. TeardownInv'
  BY <1>q DEF TeardownInv, GuardInv, FrontendAlive
<1>5. JobInv'
  BY <1>q, <1>j DEF JobInv, Waiting, TypeOK, TeardownInv, OneWaitingPerConnection, QueueInv
<1>6. OneWaitingPerConnection'
  BY <1>q, <1>j DEF OneWaitingPerConnection, JobInv, Waiting, TypeOK
<1>7. NoLeakedPlace'
  BY <1>q, <1>j DEF NoLeakedPlace, TypeOK
<1> QED
  BY <1>q, <1>1, <1>2, <1>3, <1>4, <1>5, <1>6, <1>7

\* The worker takes the guard, or finds the frontend gone.
LEMMA WorkerLockInv ==
  ASSUME IInv, NEW j \in Jobs, WorkerLock(j)
  PROVE  IInv'
<1> USE DEF IInv, WorkerLock
<1>q. posted' = posted /\ EachBlockOnce' /\ \A x : Queued(x)' <=> Queued(x)
  BY DEF EachBlockOnce, Queued
<1>j. /\ job' \in [Jobs -> Job]
      /\ \A i \in Jobs : i # j => job'[i] = job[i]
      /\ job[j].state = "answered" /\ job'[j].conn = job[j].conn
      /\ job'[j].state = IF guard.alive THEN "locked" ELSE "discarded"
  <2>1. CASE guard.alive
    BY <2>1, JobMoves DEF TypeOK, JobState
  <2>2. CASE ~guard.alive
    BY <2>2, JobMoves DEF TypeOK, JobState
  <2> QED
    BY <2>1, <2>2
<1>g. /\ guard.owner = NoOne /\ guard'.alive = guard.alive
      /\ guard'.owner = IF guard.alive THEN j ELSE NoOne
  BY DEF TypeOK
<1>1. TypeOK'
  BY <1>q, <1>j DEF TypeOK, Teardown, Tiers
<1>2. QueueInv'
  BY <1>q, <1>j DEF QueueInv
<1>3. GuardInv'
  <2>1. \A i \in Jobs : i # NoOne /\ i # MainThread
    OBVIOUS
  <2>2. \A i \in Jobs : job'[i].state = "locked" <=> guard'.owner = i
    BY <1>g, <1>j, <2>1 DEF GuardInv
  <2> QED
    BY <1>g, <2>1, <2>2 DEF GuardInv, FrontendAlive
<1>4. TeardownInv'
  BY <1>q DEF TeardownInv, GuardInv, FrontendAlive
<1>5. JobInv'
  <2>1. \A i \in Jobs : job'[i].conn = job[i].conn /\ (Waiting(i)' => Waiting(i))
    BY <1>j DEF Waiting
  <2>2. \A i \in Jobs : job'[i].state # "new" => job[i].state # "new"
    BY <1>j
  <2> QED
    BY <2>1, <2>2 DEF JobInv
<1>6. OneWaitingPerConnection'
  BY <1>q, <1>j DEF OneWaitingPerConnection, JobInv, Waiting, TypeOK
<1>7. NoLeakedPlace'
  BY <1>q, <1>j DEF NoLeakedPlace, TypeOK
<1> QED
  BY <1>q, <1>1, <1>2, <1>3, <1>4, <1>5, <1>6, <1>7

\* The worker posts under the guard.
LEMMA WorkerPostInv ==
  ASSUME IInv, NEW j \in Jobs, WorkerPost(j)
  PROVE  IInv'
<1> USE DEF IInv, WorkerPost
<1>b. Continue(j) \in Block /\ ~Queued(Continue(j))
  BY DEF Block, Continue, QueueInv
<1>d. /\ \A i \in Jobs : Continue(i) = Continue(j) => i = j
      /\ \A c \in Conns : Evict(c) # Continue(j)
  BY DEF Continue, Evict
<1>q. /\ posted' \in Seq(Block) /\ EachBlockOnce'
      /\ \A x : Queued(x)' <=> Queued(x) \/ x = Continue(j)
  BY <1>b, AppendQueue DEF TypeOK
<1>j. /\ job' \in [Jobs -> Job]
      /\ \A i \in Jobs : i # j => job'[i] = job[i]
      /\ job[j].state = "locked" /\ job'[j].state = "posted" /\ job'[j].conn = job[j].conn
  BY JobMoves DEF TypeOK, JobState
<1>g. guard.owner = j /\ FrontendAlive
  BY DEF GuardInv
<1>1. TypeOK'
  BY <1>q, <1>j, <1>d, <1>g DEF TypeOK, Teardown, Tiers
<1>2. QueueInv'
  BY <1>q, <1>j, <1>d, <1>g DEF QueueInv
<1>3. GuardInv'
  BY <1>q, <1>j, <1>d, <1>g DEF GuardInv, FrontendAlive, TypeOK
<1>4. TeardownInv'
  BY <1>q, <1>d, <1>g DEF TeardownInv, GuardInv, FrontendAlive
<1>5. JobInv'
  BY <1>q, <1>j, <1>d, <1>g DEF JobInv, Waiting, TypeOK, TeardownInv, OneWaitingPerConnection, QueueInv
<1>6. OneWaitingPerConnection'
  BY <1>q, <1>j, <1>d, <1>g DEF OneWaitingPerConnection, JobInv, Waiting, TypeOK
<1>7. NoLeakedPlace'
  BY <1>q, <1>j, <1>d, <1>g DEF NoLeakedPlace, TypeOK
<1> QED
  BY <1>q, <1>1, <1>2, <1>3, <1>4, <1>5, <1>6, <1>7

\* closeConnection() leaves the eviction behind, while the loop still delivers.
LEMMA DisconnectInv ==
  ASSUME IInv, NEW c \in Conns, Disconnect(c)
  PROVE  IInv'
<1> USE DEF IInv, Disconnect
<1>d. /\ Evict(c) \in Block /\ ~Queued(Evict(c))
      /\ \A d \in Conns : Evict(d) = Evict(c) => d = c
      /\ \A i \in Jobs : Continue(i) # Evict(c)
  BY DEF Block, Continue, Evict, QueueInv
<1>q. /\ posted' \in Seq(Block) /\ EachBlockOnce'
      /\ quiesced => posted' = posted
      /\ \A x : Queued(x)' <=> Queued(x) \/ (~quiesced /\ x = Evict(c))
  <2>1. CASE quiesced
    BY <2>1 DEF EachBlockOnce, Queued, TypeOK
  <2>2. CASE ~quiesced
    BY <2>2, <1>d, AppendQueue DEF TypeOK
  <2> QED
    BY <2>1, <2>2
<1>j. job' \in [Jobs -> Job] /\ \A i \in Jobs : job'[i] = job[i]
  BY DEF TypeOK
<1>1. TypeOK'
  BY <1>q, <1>j, <1>d DEF TypeOK, Teardown, Tiers
<1>2. QueueInv'
  <2>1. \A i \in Jobs : Queued(Continue(i))' <=> Queued(Continue(i))
    BY <1>q, <1>d
  <2>2. \A x \in Conns : Queued(Evict(x))' => Queued(Evict(x)) \/ x = c
    BY <1>q, <1>d
  <2> QED
    BY <1>j, <2>1, <2>2 DEF QueueInv, TypeOK
<1>3. GuardInv'
  BY <1>q, <1>j, <1>d DEF GuardInv, FrontendAlive, TypeOK
<1>4. TeardownInv'
  BY <1>q, <1>d DEF TeardownInv, GuardInv, FrontendAlive
<1>5. JobInv'
  BY <1>q, <1>j, <1>d DEF JobInv, Waiting, TypeOK, TeardownInv, OneWaitingPerConnection, QueueInv
<1>6. OneWaitingPerConnection'
  BY <1>q, <1>j, <1>d DEF OneWaitingPerConnection, JobInv, Waiting, TypeOK
<1>7. NoLeakedPlace'
  BY <1>q, <1>j, <1>d DEF NoLeakedPlace, TypeOK
<1> QED
  BY <1>q, <1>1, <1>2, <1>3, <1>4, <1>5, <1>6, <1>7

\* A block that is dropped disposes of its job.
LEMMA DropBlockInv ==
  ASSUME IInv, DropBlock
  PROVE  IInv'
<1> USE DEF IInv, DropBlock
<1>q. /\ Head(posted) \in Block /\ Queued(Head(posted))
      /\ posted' \in Seq(Block) /\ EachBlockOnce'
      /\ \A x : Queued(x)' <=> Queued(x) /\ x # Head(posted)
  BY TailQueue DEF TypeOK
<1>h. /\ Head(posted).what = "continue" => Head(posted).job \in Jobs /\ Head(posted) = Continue(Head(posted).job)
      /\ Head(posted).what = "evict" => Head(posted).conn \in Conns /\ Head(posted) = Evict(Head(posted).conn)
      /\ Head(posted).what \in {"continue", "evict"}
  BY <1>q, BlocksDiffer
<1>d. /\ \A i, k \in Jobs : Continue(i) = Continue(k) => i = k
      /\ \A c, d \in Conns : Evict(c) = Evict(d) => c = d
      /\ \A i \in Jobs, c \in Conns : Continue(i) # Evict(c)
  BY DEF Continue, Evict
<1>j. /\ job' \in [Jobs -> Job]
      /\ \A i \in Jobs : Head(posted) # Continue(i) => job'[i] = job[i]
      /\ \A i \in Jobs : Head(posted) = Continue(i) =>
            job[i].state = "posted" /\ job'[i].state = "discarded" /\ job'[i].conn = job[i].conn
  <2>1. CASE Head(posted).what = "continue"
    <3> DEFINE j == Head(posted).job
    <3>1. j \in Jobs /\ Head(posted) = Continue(j)
      BY <2>1, <1>h
    <3>2. job' = [job EXCEPT ![j].state = "discarded"]
      BY <2>1
    <3>3. job[j].state = "posted"
      BY <1>q, <3>1, SMTT(30) DEF QueueInv
    <3> HIDE DEF j
    <3>4. /\ job' \in [Jobs -> Job]
          /\ \A i \in Jobs : i # j => job'[i] = job[i]
          /\ job'[j].state = "discarded" /\ job'[j].conn = job[j].conn
      BY <3>1, <3>2, JobMoves DEF TypeOK, JobState
    <3>5. \A i \in Jobs : Head(posted) = Continue(i) <=> i = j
      BY <1>d, <3>1
    <3> QED
      BY <3>3, <3>4, <3>5
  <2>2. CASE Head(posted).what # "continue"
    BY <2>2, <1>h, <1>d DEF TypeOK
  <2> QED
    BY <2>1, <2>2
<1>1. TypeOK'
  BY <1>q, <1>j, <1>h, <1>d DEF TypeOK, Teardown, Tiers
<1>2. QueueInv'
  BY <1>q, <1>j, <1>h, <1>d DEF QueueInv
<1>3. GuardInv'
  BY <1>q, <1>j, <1>h, <1>d DEF GuardInv, FrontendAlive, TypeOK
<1>4. TeardownInv'
  BY <1>q, <1>h, <1>d DEF TeardownInv, GuardInv, FrontendAlive
<1>5. JobInv'
  BY <1>q, <1>j, <1>h, <1>d DEF JobInv, Waiting, TypeOK, TeardownInv, OneWaitingPerConnection, QueueInv
<1>6. OneWaitingPerConnection'
  BY <1>q, <1>j, <1>h, <1>d DEF OneWaitingPerConnection, JobInv, Waiting, TypeOK
<1>7. NoLeakedPlace'
  BY <1>q, <1>j, <1>h, <1>d DEF NoLeakedPlace, TypeOK
<1> QED
  BY <1>q, <1>1, <1>2, <1>3, <1>4, <1>5, <1>6, <1>7

\* The eviction gives back the place of a closed connection.
LEMMA RunEvictInv ==
  ASSUME IInv, RunEvict
  PROVE  IInv'
<1> USE DEF IInv, RunEvict
<1>q. /\ Head(posted) \in Block /\ Queued(Head(posted))
      /\ posted' \in Seq(Block) /\ EachBlockOnce'
      /\ \A x : Queued(x)' <=> Queued(x) /\ x # Head(posted)
  BY TailQueue DEF TypeOK
<1>h. /\ Head(posted).what = "continue" => Head(posted).job \in Jobs /\ Head(posted) = Continue(Head(posted).job)
      /\ Head(posted).what = "evict" => Head(posted).conn \in Conns /\ Head(posted) = Evict(Head(posted).conn)
      /\ Head(posted).what \in {"continue", "evict"}
  BY <1>q, BlocksDiffer
<1>d. /\ \A i, k \in Jobs : Continue(i) = Continue(k) => i = k
      /\ \A c, d \in Conns : Evict(c) = Evict(d) => c = d
      /\ \A i \in Jobs, c \in Conns : Continue(i) # Evict(c)
  BY DEF Continue, Evict
<1>j. job' \in [Jobs -> Job] /\ \A i \in Jobs : job'[i] = job[i]
  BY DEF TypeOK
<1>1. TypeOK'
  BY <1>q, <1>j, <1>h, <1>d DEF TypeOK, Teardown, Tiers
<1>2. QueueInv'
  BY <1>q, <1>j, <1>h, <1>d DEF QueueInv
<1>3. GuardInv'
  BY <1>q, <1>j, <1>h, <1>d DEF GuardInv, FrontendAlive, TypeOK
<1>4. TeardownInv'
  BY <1>q, <1>h, <1>d DEF TeardownInv, GuardInv, FrontendAlive
<1>5. JobInv'
  BY <1>q, <1>j, <1>h, <1>d DEF JobInv, Waiting, TypeOK, TeardownInv, OneWaitingPerConnection, QueueInv
<1>6. OneWaitingPerConnection'
  BY <1>q, <1>j, <1>h, <1>d DEF OneWaitingPerConnection, JobInv, Waiting, TypeOK
<1>7. NoLeakedPlace'
  BY <1>q, <1>j, <1>h, <1>d DEF NoLeakedPlace, TypeOK
<1> QED
  BY <1>q, <1>1, <1>2, <1>3, <1>4, <1>5, <1>6, <1>7

\* The continuation disposes of its job and gives back the place.
LEMMA RunContinueInv ==
  ASSUME IInv, RunContinue
  PROVE  IInv'
<1> USE DEF IInv, RunContinue
<1>q. /\ Head(posted) \in Block /\ Queued(Head(posted))
      /\ posted' \in Seq(Block) /\ EachBlockOnce'
      /\ \A x : Queued(x)' <=> Queued(x) /\ x # Head(posted)
  BY TailQueue DEF TypeOK
<1>h. /\ Head(posted).what = "continue" => Head(posted).job \in Jobs /\ Head(posted) = Continue(Head(posted).job)
      /\ Head(posted).what = "evict" => Head(posted).conn \in Conns /\ Head(posted) = Evict(Head(posted).conn)
      /\ Head(posted).what \in {"continue", "evict"}
  BY <1>q, BlocksDiffer
<1>d. /\ \A i, k \in Jobs : Continue(i) = Continue(k) => i = k
      /\ \A c, d \in Conns : Evict(c) = Evict(d) => c = d
      /\ \A i \in Jobs, c \in Conns : Continue(i) # Evict(c)
  BY DEF Continue, Evict
<1>t. config' \in [Tiers -> Jobs \cup {Original}] /\ read' \subseteq Jobs /\ inFlight' \subseteq Conns
  BY <1>h DEF TypeOK, ApplyAnswer, Apply, Tiers
<1>a. guard.alive
  BY DEF GuardInv, TeardownInv, FrontendAlive
<1>j. /\ job' \in [Jobs -> Job]
      /\ \A i \in Jobs : Head(posted) # Continue(i) => job'[i] = job[i]
      /\ \A i \in Jobs : Head(posted) = Continue(i) =>
            /\ job[i].state = "posted" /\ job'[i].conn = job[i].conn
            /\ job'[i].state = "done" /\ inFlight' = inFlight \ {job[i].conn}
  <2> DEFINE j == Head(posted).job
  <2>1. j \in Jobs /\ Head(posted) = Continue(j)
    BY <1>h
  <2>2. job' = [job EXCEPT ![j].state = "done"] /\ inFlight' = inFlight \ {job[j].conn}
    BY <1>a
  <2>3. job[j].state = "posted"
    BY <1>q, <2>1 DEF QueueInv
  <2> HIDE DEF j
  <2>4. /\ job' \in [Jobs -> Job]
        /\ \A i \in Jobs : i # j => job'[i] = job[i]
        /\ job'[j].state = "done" /\ job'[j].conn = job[j].conn
    BY <2>1, <2>2, JobMoves DEF TypeOK, JobState
  <2>5. \A i \in Jobs : Head(posted) = Continue(i) <=> i = j
    BY <1>d, <2>1
  <2> QED
    BY <2>2, <2>3, <2>4, <2>5
<1>1. TypeOK'
  BY <1>q, <1>j, <1>h, <1>d, <1>t, <1>a DEF TypeOK, Teardown, Tiers
<1>2. QueueInv'
  BY <1>q, <1>j, <1>h, <1>d, <1>t, <1>a DEF QueueInv
<1>3. GuardInv'
  <2>1. guard' = guard /\ teardown' = teardown
    OBVIOUS
  <2>2. \A i \in Jobs : job'[i].state = "locked" <=> job[i].state = "locked"
    BY <1>j
  <2> QED
    BY <2>1, <2>2 DEF GuardInv, FrontendAlive
<1>4. TeardownInv'
  BY <1>q, <1>h, <1>d, <1>t, <1>a DEF TeardownInv, GuardInv, FrontendAlive
<1>5. JobInv'
  <2>1. PICK j \in Jobs : Head(posted) = Continue(j)
    BY <1>h
  <2>2. /\ \A i \in Jobs : i # j => job'[i] = job[i]
        /\ job[j].state = "posted" /\ job'[j].state = "done" /\ job'[j].conn = job[j].conn
        /\ inFlight' = inFlight \ {job[j].conn} /\ life' = life /\ quiesced' = quiesced
    BY <1>j, <1>d, <2>1
  <2>3. ASSUME NEW i \in Jobs, job'[i].state # "new"
        PROVE  job'[i].conn \in Conns /\ life'[job'[i].conn] # "never"
    BY <2>2, <2>3 DEF JobInv
  <2>4. ASSUME NEW i \in Jobs, ~quiesced', Waiting(i)', life'[job'[i].conn] = "open"
        PROVE  job'[i].conn \in inFlight'
    <3>1. i # j /\ job'[i] = job[i] /\ Waiting(i) /\ Waiting(j)
      BY <2>2, <2>4 DEF Waiting
    <3>2. job[i].conn # job[j].conn
      BY <2>2, <2>4, <3>1 DEF OneWaitingPerConnection
    <3> QED
      BY <2>2, <2>4, <3>1, <3>2 DEF JobInv
  <2> QED
    BY <2>3, <2>4 DEF JobInv
<1>6. OneWaitingPerConnection'
  BY <1>q, <1>j, <1>h, <1>d, <1>t, <1>a DEF OneWaitingPerConnection, JobInv, Waiting, TypeOK
<1>7. NoLeakedPlace'
  BY <1>q, <1>j, <1>h, <1>d, <1>t, <1>a DEF NoLeakedPlace, TypeOK
<1> QED
  BY <1>q, <1>1, <1>2, <1>3, <1>4, <1>5, <1>6, <1>7

\* main() stops the deliveries.
LEMMA QuiesceLoopInv ==
  ASSUME IInv, QuiesceLoop
  PROVE  IInv'
<1> USE DEF IInv, QuiesceLoop
<1>q. posted' = posted /\ EachBlockOnce' /\ \A x : Queued(x)' <=> Queued(x)
  BY DEF EachBlockOnce, Queued
<1>j. job' \in [Jobs -> Job] /\ \A i \in Jobs : job'[i] = job[i]
  BY DEF TypeOK
<1>1. TypeOK'
  BY <1>q, <1>j DEF TypeOK, Teardown, Tiers
<1>2. QueueInv'
  BY <1>q, <1>j DEF QueueInv
<1>3. GuardInv'
  BY <1>q, <1>j DEF GuardInv, FrontendAlive, TypeOK
<1>4. TeardownInv'
  BY <1>q DEF TeardownInv, GuardInv, FrontendAlive
<1>5. JobInv'
  BY <1>q, <1>j DEF JobInv, Waiting, TypeOK, TeardownInv, OneWaitingPerConnection, QueueInv
<1>6. OneWaitingPerConnection'
  BY <1>q, <1>j DEF OneWaitingPerConnection, JobInv, Waiting, TypeOK
<1>7. NoLeakedPlace'
  BY <1>q, <1>j DEF NoLeakedPlace, TypeOK
<1> QED
  BY <1>q, <1>1, <1>2, <1>3, <1>4, <1>5, <1>6, <1>7

\* main() has waited for the queue.
LEMMA DrainInv ==
  ASSUME IInv, Drain
  PROVE  IInv'
<1> USE DEF IInv, Drain
<1>q. posted' = posted /\ EachBlockOnce' /\ \A x : Queued(x)' <=> Queued(x)
  BY DEF EachBlockOnce, Queued
<1>j. job' \in [Jobs -> Job] /\ \A i \in Jobs : job'[i] = job[i]
  BY DEF TypeOK
<1>1. TypeOK'
  BY <1>q, <1>j DEF TypeOK, Teardown, Tiers
<1>2. QueueInv'
  BY <1>q, <1>j DEF QueueInv
<1>3. GuardInv'
  BY <1>q, <1>j DEF GuardInv, FrontendAlive, TypeOK
<1>4. TeardownInv'
  BY <1>q DEF TeardownInv, GuardInv, FrontendAlive
<1>5. JobInv'
  BY <1>q, <1>j DEF JobInv, Waiting, TypeOK, TeardownInv, OneWaitingPerConnection, QueueInv
<1>6. OneWaitingPerConnection'
  BY <1>q, <1>j DEF OneWaitingPerConnection, JobInv, Waiting, TypeOK
<1>7. NoLeakedPlace'
  BY <1>q, <1>j DEF NoLeakedPlace, TypeOK
<1> QED
  BY <1>q, <1>1, <1>2, <1>3, <1>4, <1>5, <1>6, <1>7

\* The destructor of the frontend takes the guard.
LEMMA FrontendLockInv ==
  ASSUME IInv, FrontendLock
  PROVE  IInv'
<1> USE DEF IInv, FrontendLock
<1>q. posted' = posted /\ EachBlockOnce' /\ \A x : Queued(x)' <=> Queued(x)
  BY DEF EachBlockOnce, Queued
<1>j. job' \in [Jobs -> Job] /\ \A i \in Jobs : job'[i] = job[i]
  BY DEF TypeOK
<1>1. TypeOK'
  BY <1>q, <1>j DEF TypeOK, Teardown, Tiers
<1>2. QueueInv'
  BY <1>q, <1>j DEF QueueInv
<1>3. GuardInv'
  BY <1>q, <1>j DEF GuardInv, FrontendAlive, TypeOK
<1>4. TeardownInv'
  BY <1>q DEF TeardownInv, GuardInv, FrontendAlive
<1>5. JobInv'
  BY <1>q, <1>j DEF JobInv, Waiting, TypeOK, TeardownInv, OneWaitingPerConnection, QueueInv
<1>6. OneWaitingPerConnection'
  BY <1>q, <1>j DEF OneWaitingPerConnection, JobInv, Waiting, TypeOK
<1>7. NoLeakedPlace'
  BY <1>q, <1>j DEF NoLeakedPlace, TypeOK
<1> QED
  BY <1>q, <1>1, <1>2, <1>3, <1>4, <1>5, <1>6, <1>7

\* The frontend is gone; no worker is between its check and its post.
LEMMA FrontendGoneInv ==
  ASSUME IInv, FrontendGone
  PROVE  IInv'
<1> USE DEF IInv, FrontendGone
<1>q. posted' = posted /\ EachBlockOnce' /\ \A x : Queued(x)' <=> Queued(x)
  BY DEF EachBlockOnce, Queued
<1>j. job' \in [Jobs -> Job] /\ \A i \in Jobs : job'[i] = job[i]
  BY DEF TypeOK
<1>1. TypeOK'
  BY <1>q, <1>j DEF TypeOK, Teardown, Tiers
<1>2. QueueInv'
  BY <1>q, <1>j DEF QueueInv
<1>3. GuardInv'
  BY <1>q, <1>j DEF GuardInv, FrontendAlive, TypeOK
<1>4. TeardownInv'
  BY <1>q DEF TeardownInv, GuardInv, FrontendAlive
<1>5. JobInv'
  BY <1>q, <1>j DEF JobInv, Waiting, TypeOK, TeardownInv, OneWaitingPerConnection, QueueInv
<1>6. OneWaitingPerConnection'
  BY <1>q, <1>j DEF OneWaitingPerConnection, JobInv, Waiting, TypeOK
<1>7. NoLeakedPlace'
  BY <1>q, <1>j DEF NoLeakedPlace, TypeOK
<1> QED
  BY <1>q, <1>1, <1>2, <1>3, <1>4, <1>5, <1>6, <1>7

\* The transport goes with its queue empty.
LEMMA TransportGoneInv ==
  ASSUME IInv, TransportGone
  PROVE  IInv'
<1> USE DEF IInv, TransportGone
<1>q. posted' = posted /\ EachBlockOnce' /\ \A x : Queued(x)' <=> Queued(x)
  BY DEF EachBlockOnce, Queued
<1>j. job' \in [Jobs -> Job] /\ \A i \in Jobs : job'[i] = job[i]
  BY DEF TypeOK
<1>1. TypeOK'
  BY <1>q, <1>j DEF TypeOK, Teardown, Tiers
<1>2. QueueInv'
  BY <1>q, <1>j DEF QueueInv
<1>3. GuardInv'
  BY <1>q, <1>j DEF GuardInv, FrontendAlive, TypeOK
<1>4. TeardownInv'
  BY <1>q DEF TeardownInv, GuardInv, FrontendAlive
<1>5. JobInv'
  BY <1>q, <1>j DEF JobInv, Waiting, TypeOK, TeardownInv, OneWaitingPerConnection, QueueInv
<1>6. OneWaitingPerConnection'
  BY <1>q, <1>j DEF OneWaitingPerConnection, JobInv, Waiting, TypeOK
<1>7. NoLeakedPlace'
  BY <1>q, <1>j DEF NoLeakedPlace, TypeOK
<1> QED
  BY <1>q, <1>1, <1>2, <1>3, <1>4, <1>5, <1>6, <1>7

\* Every step, and none.
LEMMA StepInv == IInv /\ [Next]_vars => IInv'
<1> SUFFICES ASSUME IInv, [Next]_vars PROVE IInv'
  OBVIOUS
<1>1. ASSUME NEW c \in Conns, NEW j \in Jobs, WritePlain(c, j) \/ Request(c, j) PROVE IInv'
  BY <1>1, WritePlainInv, RequestInv
<1>2. ASSUME NEW c \in Conns, Connect(c) \/ Disconnect(c) PROVE IInv'
  BY <1>2, ConnectInv, DisconnectInv
<1>3. CASE LoopStep
  BY <1>3, DropBlockInv, RunEvictInv, RunContinueInv DEF LoopStep
<1>4. ASSUME NEW j \in Jobs, Answer(j) \/ WorkerStep(j) PROVE IInv'
  BY <1>4, AnswerInv, WorkerLockInv, WorkerPostInv DEF WorkerStep
<1>5. CASE QuiesceLoop \/ TeardownStep
  BY <1>5, QuiesceLoopInv, DrainInv, FrontendLockInv, FrontendGoneInv, TransportGoneInv
     DEF TeardownStep
<1>6. CASE UNCHANGED vars
  BY <1>6 DEF vars, IInv, TypeOK, EachBlockOnce, Queued, QueueInv, GuardInv, TeardownInv, JobInv,
              OneWaitingPerConnection, NoLeakedPlace, FrontendAlive, Waiting
<1> QED
  BY <1>1, <1>2, <1>3, <1>4, <1>5, <1>6 DEF Next

(***************************************************************************)
(* The theorems.                                                           *)
(***************************************************************************)

\* The inductive invariant holds in every reachable state.
THEOREM Invariant == Spec => []IInv
<1> QED
  BY InitInv, StepInv, PTL DEF Spec

\* However late the person answers: a worker that has seen the frontend alive
\* finds it, and the transport it posts to, alive when it posts; a posted block
\* runs or is dropped before the transport goes; and every confirmation and
\* every eviction is queued at most once.
THEOREM Lifetime == Spec => []LifetimeInv
<1>1. IInv => LifetimeInv
  <2> SUFFICES ASSUME IInv PROVE NoUseAfterFree
    BY DEF IInv, LifetimeInv
  <2>1. ASSUME NEW j \in Jobs, job[j].state = "locked" PROVE TransportAlive /\ FrontendAlive
    BY <2>1 DEF IInv, GuardInv, FrontendAlive, TransportAlive
  <2>2. ASSUME NEW j \in Jobs, job[j].state = "posted" PROVE TransportAlive
    <3>1. \E n \in 1..Len(posted) : posted[n] = Continue(j)
      BY <2>2 DEF IInv, QueueInv, Queued
    <3>2. posted # << >>
      BY <3>1
    <3> QED
      BY <3>2 DEF IInv, TeardownInv, TransportAlive
  <2> QED
    BY <2>1, <2>2 DEF NoUseAfterFree
<1> QED
  BY <1>1, Invariant, PTL

\* An open connection never has two confirmations waiting, and the place of a
\* closed one is held only until its eviction has run.
THEOREM Places == Spec => []PlaceInv
<1>1. IInv => PlaceInv
  BY DEF IInv, PlaceInv
<1> QED
  BY <1>1, Invariant, PTL

\* Only the continuation of a change that a person approved touches the trust
\* configuration or reads the descriptor a client handed over.
THEOREM OnlyApproved == Spec => OnlyApprovedApplied
<1> DEFINE Approved ==
      config'["trust"] # config["trust"] \/ read' # read => \E j \in Jobs :
          /\ config'["trust"] \in {j, config["trust"]}
          /\ read' \ read \subseteq {j}
          /\ read' # read => job[j].verb = "import"
          /\ job[j].approved
          /\ job[j].state = "posted" /\ job'[j].state = "done"
<1>1. IInv /\ [Next]_vars => [Approved]_vars
  <2> SUFFICES ASSUME IInv, Next PROVE Approved
    OBVIOUS
  <2>1. ASSUME NEW c \in Conns, NEW j \in Jobs, WritePlain(c, j) PROVE Approved
    BY <2>1 DEF WritePlain, Apply, IInv, TypeOK, Tiers
  <2>2. CASE RunContinue
    <3>1. /\ Head(posted) \in Block /\ Queued(Head(posted))
      BY <2>2, TailQueue DEF IInv, TypeOK, RunContinue
    <3> DEFINE j == Head(posted).job
    <3>2. j \in Jobs /\ Head(posted) = Continue(j)
      BY <2>2, <3>1, BlocksDiffer DEF RunContinue
    <3>3. job[j].state = "posted"
      BY <3>1, <3>2 DEF IInv, QueueInv
    <3>4. CASE guard.alive /\ job[j].approved
      <4>1. job' = [job EXCEPT ![j].state = "done"] /\ ApplyAnswer(j)
        BY <2>2, <3>4, SMTT(30) DEF RunContinue
      <4>2. job'[j].state = "done"
        BY <3>2, <4>1, JobMoves DEF IInv, TypeOK, JobState
      <4>3. Apply("trust", j) /\ read' = IF job[j].verb = "import" THEN read \cup {j} ELSE read
        BY <3>4, <4>1 DEF ApplyAnswer
      <4>4. config'["trust"] \in {j, config["trust"]}
        BY <4>3 DEF Apply, IInv, TypeOK, Tiers
      <4> HIDE DEF j
      <4> QED
        BY <3>2, <3>3, <3>4, <4>2, <4>3, <4>4
    <3>5. CASE ~(guard.alive /\ job[j].approved)
      BY <2>2, <3>5 DEF RunContinue, ApplyAnswer
    <3> QED
      BY <3>4, <3>5
  <2>3. CASE UNCHANGED <<config, read>>
    BY <2>3, SMTT(30)
  <2>4. Next => \/ UNCHANGED <<config, read>> \/ RunContinue
                \/ \E c \in Conns, j \in Jobs : WritePlain(c, j)
    BY DEF Next, Request, Connect, Disconnect, LoopStep, DropBlock, RunEvict, Answer, WorkerStep,
           WorkerLock, WorkerPost, QuiesceLoop, TeardownStep, Drain, FrontendLock, FrontendGone,
           TransportGone
  <2> QED
    BY <2>1, <2>2, <2>3, <2>4
<1> QED
  BY <1>1, Invariant, PTL DEF Spec, OnlyApprovedApplied
=============================================================================
