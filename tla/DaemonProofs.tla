------------------------------ MODULE DaemonProofs ------------------------------
(***************************************************************************)
(* The life of an agent process, for any number of clients, notifications, *)
(* card moves and faults: whatever may still run finds what it calls,      *)
(* nothing of the start-up is missed, and clients are told exactly what    *)
(* the core has forgotten.                                                 *)
(***************************************************************************)
EXTENDS AgentDaemon, FiniteSetTheorems, SequenceTheorems, TLAPS

(***************************************************************************)
(* Where in main() what stands.                                            *)
(***************************************************************************)

\* The steps of main(), counted.
LEMMA ProgramIs ==
  /\ Len(Program) = 27 /\ Len(Startup) = 13
  /\ Program[1] = "transport" /\ Program[2] = "core" /\ Program[3] = "frontend"
  /\ Program[4] = "sink" /\ Program[5] = "observers" /\ Program[6] = "cardHook"
  /\ Program[7] = "cancelOps" /\ Program[8] = "revokeLeases" /\ Program[9] = "evict"
  /\ Program[10] = "monitor" /\ Program[11] = "lifecycle" /\ Program[12] = "ignoreSignals"
  /\ Program[13] = "signalSources" /\ Program[14] = "quiesce" /\ Program[15] = "stopLifecycle"
  /\ Program[16] = "stopMonitor" /\ Program[17] = "cryptoShutdown" /\ Program[18] = "dismissPrompts"
  /\ Program[19] = "severObservers" /\ Program[20] = "stopRunLoop" /\ Program[21] = "runLoopReturns"
  /\ Program[22] = "quiesceLoop" /\ Program[23] = "drain" /\ Program[24] = "resetFrontend"
  /\ Program[25] = "cancelSources" /\ Program[26] = "destroyCore" /\ Program[27] = "destroyTransport"
  BY DEF Program, Startup, Teardown

\* Step s is one of the first n.
Upto(n, s) == \E i \in 1..n : Program[i] = s

LEMMA UptoIs ==
  ASSUME NEW n \in 0..27
  PROVE  /\ (Upto(n, "transport") <=> n >= 1) /\ (Upto(n, "core") <=> n >= 2) /\ (Upto(n, "frontend") <=> n >= 3)
         /\ (Upto(n, "sink") <=> n >= 4) /\ (Upto(n, "observers") <=> n >= 5) /\ (Upto(n, "cardHook") <=> n >= 6)
         /\ (Upto(n, "cancelOps") <=> n >= 7) /\ (Upto(n, "revokeLeases") <=> n >= 8) /\ (Upto(n, "evict") <=> n >= 9)
         /\ (Upto(n, "monitor") <=> n >= 10) /\ (Upto(n, "lifecycle") <=> n >= 11) /\ (Upto(n, "ignoreSignals") <=> n >= 12)
         /\ (Upto(n, "signalSources") <=> n >= 13) /\ (Upto(n, "quiesce") <=> n >= 14) /\ (Upto(n, "stopLifecycle") <=> n >= 15)
         /\ (Upto(n, "stopMonitor") <=> n >= 16) /\ (Upto(n, "cryptoShutdown") <=> n >= 17) /\ (Upto(n, "dismissPrompts") <=> n >= 18)
         /\ (Upto(n, "severObservers") <=> n >= 19) /\ (Upto(n, "stopRunLoop") <=> n >= 20) /\ (Upto(n, "runLoopReturns") <=> n >= 21)
         /\ (Upto(n, "quiesceLoop") <=> n >= 22) /\ (Upto(n, "drain") <=> n >= 23) /\ (Upto(n, "resetFrontend") <=> n >= 24)
         /\ (Upto(n, "cancelSources") <=> n >= 25) /\ (Upto(n, "destroyCore") <=> n >= 26) /\ (Upto(n, "destroyTransport") <=> n >= 27)
  BY ProgramIs DEF Upto

\* What stands, by how far main() is.
Standing ==
    /\ TransportAlive <=> at >= 1 /\ at < 27
    /\ CoreAlive <=> at >= 2 /\ at < 26
    /\ FrontendAlive <=> at >= 3 /\ at < 24
    /\ Quiesced <=> at >= 22
    /\ SinkSet <=> at >= 4 /\ at < 22
    /\ Handler("cancelOps") <=> at >= 7 /\ at < 22
    /\ Handler("revokeLeases") <=> at >= 8 /\ at < 22
    /\ Observing <=> at >= 5 /\ at < 19
    /\ Monitoring <=> at >= 10 /\ at < 16
    /\ InRunLoop <=> at = 13 \/ at = 20
    /\ Done("monitor") <=> at >= 10

LEMMA StandsNow == at \in 0..27 => Standing
<1> SUFFICES ASSUME at \in 0..27 PROVE Standing
  OBVIOUS
<1>1. \A s : Done(s) <=> Upto(at, s)
  BY DEF Done, Upto
<1>2. Len(Startup) = 13
  BY ProgramIs
<1> QED
  BY <1>1, <1>2, UptoIs DEF Standing, TransportAlive, CoreAlive, FrontendAlive, Quiesced, SinkSet,
     Handler, Observing, Monitoring, InRunLoop

\* ... before and after a step.
LEMMA StandingIs == at \in 0..27 /\ at' \in 0..27 => Standing /\ Standing'
<1>1. (at \in 0..27)' => Standing'
  BY StandsNow, PTL
<1> QED
  BY <1>1, StandsNow

(***************************************************************************)
(* The inductive invariant.                                                *)
(***************************************************************************)

\* What the variables hold, as far as the rest depends on it; a notification
\* that is being handled has a reason.
StateInv ==
    /\ proc \in {"up", "down", "stopped"} /\ at \in 0..27
    /\ notes \subseteq AllNotices
    /\ handling = Idle \/ /\ handling \in [note : AllNotices, stage : {"locking", "locked", "telling"}]
                          /\ HandlingReason \in Reasons
    /\ seen \in BOOLEAN /\ card \in BOOLEAN /\ published \in BOOLEAN
    /\ loopQ \in Seq(Blocks)
    /\ client \in [Clients -> {"none", "open", "left"}]
    /\ op \in [Clients -> {"none", "running", "asking", "answered", "cancelled", "leased", "ended"}]
    /\ forgot \in [Reasons -> Nat] /\ told \in [Reasons -> Nat]

\* Each activity, and the stretch of main() it can happen in.
PlaceInv ==
    /\ proc # "up" => at = 0
    /\ handling # Idle => InRunLoop
    /\ stateMutex = "monitor" => Monitoring
    /\ \A c \in Clients : Working(c) => CoreAlive
    /\ \A c \in Clients : op[c] # "none" => Done("monitor")
    /\ loopQ # << >> => Done("monitor") /\ TransportAlive
    /\ published \/ seen => Done("monitor")

\* The card as the transport offers it once queue q is through is s.
Offered(q, p, s) ==
    \/ p = s /\ \A i \in 1..Len(q) : q[i].do # "card"
    \/ \E i \in 1..Len(q) : q[i] = CardBlock(s) /\ \A j \in 1..Len(q) : j > i => q[j].do # "card"

\* ... as the monitor saw it, while the observers are set.
RosterInv == at >= 10 /\ at < 19 => Offered(loopQ, published, seen)

\* What clients are told is what the core has forgotten, whoever is up.
ToldInv ==
    ~Quiesced => \A r \in Reasons :
        forgot[r] = told[r] + Queued(r)
                    + (IF handling.stage = "telling" /\ HandlingReason = r THEN 1 ELSE 0)

IInv == StateInv /\ PlaceInv /\ GoneIsCancelled /\ RosterInv /\ ToldInv

(***************************************************************************)
(* The loop's queue.                                                       *)
(***************************************************************************)

\* A block is one of four kinds.
LEMMA BlockKinds ==
  ASSUME NEW b \in Blocks
  PROVE  /\ b.do = "card" => b.there \in BOOLEAN /\ b = CardBlock(b.there)
         /\ b.do = "tell" => b.reason \in Reasons /\ b = TellBlock(b.reason)
         /\ \A r \in Reasons : b = TellBlock(r) => b.do = "tell" /\ b.reason = r
  BY DEF Blocks, CardBlock, RevokeBlock, OpBlock, TellBlock

\* The blocks that are posted, and what tells them apart.
LEMMA BlocksPosted ==
  /\ RevokeBlock \in Blocks /\ RevokeBlock.do # "card"
  /\ \A s \in BOOLEAN : CardBlock(s) \in Blocks /\ CardBlock(s).do = "card" /\ CardBlock(s).there = s
  /\ \A c \in Clients : OpBlock(c) \in Blocks /\ OpBlock(c).do # "card"
  /\ \A r \in Reasons : TellBlock(r) \in Blocks /\ TellBlock(r).do # "card"
  /\ \A r, t \in Reasons : TellBlock(r) = TellBlock(t) => r = t
  /\ \A r \in Reasons : /\ RevokeBlock # TellBlock(r)
                        /\ \A s \in BOOLEAN : CardBlock(s) # TellBlock(r)
                        /\ \A c \in Clients : OpBlock(c) # TellBlock(r)
  BY DEF Blocks, CardBlock, RevokeBlock, OpBlock, TellBlock

\* How often a block is in a queue.
Count(q, b) == Cardinality({i \in 1..Len(q) : q[i] = b})

LEMMA QueuedIs ==
  ASSUME loopQ \in Seq(Blocks), NEW r
  PROVE  Queued(r) = Count(loopQ, TellBlock(r))
  BY LenProperties DEF Queued, Count

LEMMA CountTyped ==
  ASSUME NEW q \in Seq(Blocks), NEW b
  PROVE  Count(q, b) \in Nat /\ (q = << >> => Count(q, b) = 0)
<1>1. Len(q) \in Nat /\ IsFiniteSet(1..Len(q))
  BY LenProperties, FS_Interval
<1>2. IsFiniteSet({i \in 1..Len(q) : q[i] = b})
  BY <1>1, FS_Subset
<1>3. q = << >> => {i \in 1..Len(q) : q[i] = b} = {}
  OBVIOUS
<1> QED
  BY <1>2, <1>3, FS_CardinalityType, FS_EmptySet DEF Count

\* A block posted.
LEMMA CountAppend ==
  ASSUME NEW q \in Seq(Blocks), NEW x \in Blocks, NEW b
  PROVE  Count(Append(q, x), b) = Count(q, b) + (IF x = b THEN 1 ELSE 0)
<1> DEFINE S == {i \in 1..Len(q) : q[i] = b}
           T == {i \in 1..Len(Append(q, x)) : Append(q, x)[i] = b}
           n == Len(q) + 1
<1>1. /\ Len(q) \in Nat /\ Len(Append(q, x)) = n /\ Append(q, x)[n] = x
      /\ \A i \in 1..Len(q) : Append(q, x)[i] = q[i]
  BY AppendProperties, LenProperties
<1>2. IsFiniteSet(S)
  <2>1. IsFiniteSet(1..Len(q))
    BY <1>1, FS_Interval
  <2>2. S \subseteq 1..Len(q)
    OBVIOUS
  <2> QED
    BY <2>1, <2>2, FS_Subset
<1>3. T = IF x = b THEN S \cup {n} ELSE S
  BY <1>1
<1>4. n \notin S
  BY <1>1
<1>5. Cardinality(S) \in Nat
  BY <1>2, FS_CardinalityType
<1> HIDE DEF S, T, n
<1>6. Cardinality(T) = Cardinality(S) + (IF x = b THEN 1 ELSE 0)
  <2>1. CASE x = b
    <3>1. T = S \cup {n}
      BY <1>3, <2>1
    <3>2. Cardinality(S \cup {n}) = Cardinality(S) + 1
      BY <1>2, <1>4, FS_AddElement
    <3> QED
      BY <2>1, <3>1, <3>2
  <2>2. CASE x # b
    BY <1>3, <1>5, <2>2
  <2> QED
    BY <2>1, <2>2
<1> QED
  BY <1>6 DEF Count, S, T

\* A block taken.
LEMMA CountTail ==
  ASSUME NEW q \in Seq(Blocks), q # << >>, NEW b
  PROVE  Count(q, b) = Count(Tail(q), b) + (IF Head(q) = b THEN 1 ELSE 0)
<1> DEFINE S == {i \in 1..Len(q) : q[i] = b}
           T == {i \in 1..Len(Tail(q)) : Tail(q)[i] = b}
           f == [i \in T |-> i + 1]
<1>1. /\ Len(q) \in Nat \ {0} /\ Len(Tail(q)) = Len(q) - 1 /\ Head(q) = q[1]
      /\ \A i \in 1..(Len(q) - 1) : Tail(q)[i] = q[i + 1]
  BY HeadTailProperties, LenProperties, EmptySeq
<1>2. IsFiniteSet(T)
  <2>1. Len(Tail(q)) \in Int
    BY <1>1
  <2>2. IsFiniteSet(1..Len(Tail(q)))
    BY <2>1, FS_Interval
  <2>3. T \subseteq 1..Len(Tail(q))
    OBVIOUS
  <2> QED
    BY <2>2, <2>3, FS_Subset
<1>3. f \in Bijection(T, S \ {1})
  <2>1. f \in [T -> S \ {1}]
    BY <1>1
  <2>2. \A i, j \in T : f[i] = f[j] => i = j
    BY <1>1
  <2>3. \A k \in S \ {1} : k - 1 \in T /\ f[k - 1] = k
    BY <1>1
  <2> QED
    BY <2>1, <2>2, <2>3 DEF Bijection, Injection, Surjection, IsInjective
<1>4. IsFiniteSet(S \ {1}) /\ Cardinality(S \ {1}) = Cardinality(T)
  BY <1>2, <1>3, FS_Bijection DEF ExistsBijection
<1>5. 1 \in S <=> Head(q) = b
  BY <1>1
<1>6. S = IF Head(q) = b THEN (S \ {1}) \cup {1} ELSE S \ {1}
  BY <1>5
<1>7. Cardinality(S \ {1}) \in Nat
  BY <1>4, FS_CardinalityType
<1> HIDE DEF S, T, f
<1>8. Cardinality(S) = Cardinality(T) + (IF Head(q) = b THEN 1 ELSE 0)
  <2>1. Cardinality((S \ {1}) \cup {1}) = Cardinality(S \ {1}) + 1
    BY <1>4, FS_AddElement
  <2>2. CASE Head(q) = b
    <3>1. S = (S \ {1}) \cup {1}
      BY <1>6, <2>2
    <3>2. Cardinality(S) = Cardinality(S \ {1}) + 1
      BY <2>1, <3>1
    <3> QED
      BY <1>4, <2>2, <3>2
  <2>3. CASE Head(q) # b
    <3>1. S = S \ {1}
      BY <1>6, <2>3
    <3>2. Cardinality(S) = Cardinality(T)
      BY <1>4, <3>1
    <3> QED
      BY <1>4, <1>7, <2>3, <3>2
  <2> QED
    BY <2>2, <2>3
<1> QED
  BY <1>8 DEF Count, S, T

\* A block that is not about the card leaves what will be offered alone.
LEMMA OfferedAppend ==
  ASSUME NEW q \in Seq(Blocks), NEW x \in Blocks, NEW p, NEW s
  PROVE  /\ x.do # "card" /\ Offered(q, p, s) => Offered(Append(q, x), p, s)
         /\ x = CardBlock(s) => Offered(Append(q, x), p, s)
<1>1. /\ Len(q) \in Nat /\ Len(Append(q, x)) = Len(q) + 1 /\ Append(q, x)[Len(q) + 1] = x
      /\ \A i \in 1..Len(q) : Append(q, x)[i] = q[i]
  BY AppendProperties, LenProperties
<1>2. \A i \in 1..(Len(q) + 1) : i \in 1..Len(q) \/ i = Len(q) + 1
  BY <1>1
<1>3. ASSUME x = CardBlock(s) PROVE Offered(Append(q, x), p, s)
  BY <1>1, <1>3 DEF Offered
<1>4. ASSUME x.do # "card", p = s, \A i \in 1..Len(q) : q[i].do # "card"
      PROVE  Offered(Append(q, x), p, s)
  BY <1>1, <1>2, <1>4 DEF Offered
<1>5. ASSUME x.do # "card", NEW i \in 1..Len(q), q[i] = CardBlock(s),
             \A j \in 1..Len(q) : j > i => q[j].do # "card"
      PROVE  Offered(Append(q, x), p, s)
  <2>1. i \in 1..Len(Append(q, x)) /\ Append(q, x)[i] = CardBlock(s)
    BY <1>1, <1>5
  <2>2. \A j \in 1..Len(Append(q, x)) : j > i => Append(q, x)[j].do # "card"
    BY <1>1, <1>2, <1>5
  <2> QED
    BY <2>1, <2>2 DEF Offered
<1> QED
  BY <1>3, <1>4, <1>5 DEF Offered

\* A block that runs brings what is offered as far as it says.
LEMMA OfferedTail ==
  ASSUME NEW q \in Seq(Blocks), q # << >>, NEW p, NEW s \in BOOLEAN, Offered(q, p, s)
  PROVE  Offered(Tail(q), IF Head(q).do = "card" THEN Head(q).there ELSE p, s)
<1>1. /\ Len(q) \in Nat \ {0} /\ Len(Tail(q)) = Len(q) - 1 /\ Head(q) = q[1]
      /\ \A i \in 1..(Len(q) - 1) : Tail(q)[i] = q[i + 1]
  BY HeadTailProperties, LenProperties, EmptySeq
<1>2. \A i \in 1..(Len(q) - 1) : i + 1 \in 1..Len(q) /\ i + 1 > 1
  BY <1>1
<1>3. ASSUME p = s, \A i \in 1..Len(q) : q[i].do # "card"
      PROVE  Offered(Tail(q), IF Head(q).do = "card" THEN Head(q).there ELSE p, s)
  BY <1>1, <1>2, <1>3 DEF Offered
<1>4. ASSUME NEW i \in 1..Len(q), q[i] = CardBlock(s),
             \A j \in 1..Len(q) : j > i => q[j].do # "card"
      PROVE  Offered(Tail(q), IF Head(q).do = "card" THEN Head(q).there ELSE p, s)
  <2>1. CASE i = 1
    <3>1. Head(q).do = "card" /\ Head(q).there = s
      BY <1>1, <1>4, <2>1, BlocksPosted
    <3>2. \A j \in 1..Len(Tail(q)) : Tail(q)[j].do # "card"
      BY <1>1, <1>2, <1>4, <2>1
    <3> QED
      BY <3>1, <3>2 DEF Offered
  <2>2. CASE i # 1
    <3>1. i - 1 \in 1..Len(Tail(q)) /\ Tail(q)[i - 1] = CardBlock(s)
      BY <1>1, <1>4, <2>2
    <3>2. \A j \in 1..Len(Tail(q)) : j > i - 1 => Tail(q)[j].do # "card"
      BY <1>1, <1>2, <1>4
    <3> QED
      BY <3>1, <3>2 DEF Offered
  <2> QED
    BY <2>1, <2>2
<1> QED
  BY <1>3, <1>4 DEF Offered

(***************************************************************************)
(* One step at a time.                                                     *)
(***************************************************************************)

\* Nothing is forgotten or told, and no announcement posted or taken.
LEMMA ToldKept ==
  ASSUME StateInv, ToldInv, UNCHANGED <<forgot, told>>,
         Quiesced => Quiesced',
         loopQ' \in Seq(Blocks),
         \A r \in Reasons : Count(loopQ', TellBlock(r)) = Count(loopQ, TellBlock(r)),
         handling' = handling \/ (handling.stage # "telling" /\ handling'.stage # "telling")
  PROVE  ToldInv'
<1> SUFFICES ASSUME ~Quiesced', NEW r \in Reasons
             PROVE  (forgot[r] = told[r] + Queued(r)
                       + (IF handling.stage = "telling" /\ HandlingReason = r THEN 1 ELSE 0))'
  BY DEF ToldInv
<1>1. Queued(r) = Count(loopQ, TellBlock(r)) /\ Queued(r)' = Count(loopQ', TellBlock(r))
  BY LenProperties DEF Queued, Count, StateInv
<1>2. forgot[r] = told[r] + Queued(r)
                       + (IF handling.stage = "telling" /\ HandlingReason = r THEN 1 ELSE 0)
  BY DEF ToldInv
<1>3. Queued(r)' = Queued(r)
  BY <1>1
<1>4. (IF handling.stage = "telling" /\ HandlingReason = r THEN 1 ELSE 0)'
       = (IF handling.stage = "telling" /\ HandlingReason = r THEN 1 ELSE 0)
  BY DEF HandlingReason
<1> QED
  BY <1>2, <1>3, <1>4

\* A notification is taken: it has a reason, or nothing comes of it.
LEMMA NotifiedInv ==
  ASSUME IInv, Notified
  PROVE  IInv'
<1>s. Standing /\ Standing' /\ at' = at /\ at \in 0..27
  BY StandingIs DEF Notified, IInv, StateInv
<1>h. handling' = Idle \/ (handling' \in [note : AllNotices, stage : {"locking", "locked", "telling"}]
                          /\ handling'.stage = "locking" /\ HandlingReason' \in Reasons /\ InRunLoop)
  BY DEF Notified, HandlingReason, quiesceReasonFor, Reasons, IInv, StateInv
<1>i. handling = Idle /\ Idle.stage = "idle"
  BY DEF Notified, Idle
<1>1. StateInv'
  BY <1>s, <1>h DEF Notified, IInv, StateInv
<1>2. PlaceInv'
  BY <1>s, <1>h DEF Notified, IInv, StateInv, PlaceInv, Working, Standing
<1>3. GoneIsCancelled'
  BY <1>s DEF Notified, IInv, GoneIsCancelled, Standing
<1>4. RosterInv'
  BY <1>s DEF Notified, IInv, RosterInv
<1>5. ToldInv'
  <2>1. handling.stage # "telling" /\ handling'.stage # "telling"
    BY <1>h, <1>i
  <2> QED
    BY <1>s, <2>1, ToldKept DEF Notified, IInv, StateInv, Standing
<1> QED
  BY <1>1, <1>2, <1>3, <1>4, <1>5 DEF IInv

\* The mutex is taken by the notification.
LEMMA LockStateInv ==
  ASSUME IInv, LockState
  PROVE  IInv'
<1>s. Standing /\ Standing' /\ at' = at /\ at \in 0..27
  BY StandingIs DEF LockState, IInv, StateInv
<1>h. handling # Idle /\ handling.stage = "locking" /\ handling' # Idle
      /\ handling' \in [note : AllNotices, stage : {"locking", "locked", "telling"}]
      /\ handling'.stage = "locked" /\ HandlingReason' = HandlingReason
  <2>1. handling # Idle /\ handling.stage = "locking"
    BY DEF LockState, Idle
  <2>2. handling' = [handling EXCEPT !.stage = "locked"]
    BY DEF LockState
  <2>3. handling \in [note : AllNotices, stage : {"locking", "locked", "telling"}]
    BY <2>1 DEF IInv, StateInv
  <2>4. handling'.stage = "locked" /\ handling'.note = handling.note
    BY <2>2, <2>3
  <2> QED
    BY <2>1, <2>2, <2>3, <2>4 DEF HandlingReason, Idle
<1>1. StateInv'
  BY <1>s, <1>h DEF LockState, IInv, StateInv
<1>2. PlaceInv'
  BY <1>s, <1>h DEF LockState, IInv, StateInv, PlaceInv, Working, Standing
<1>3. GoneIsCancelled'
  BY <1>s DEF LockState, IInv, GoneIsCancelled, Standing
<1>4. RosterInv'
  BY <1>s DEF LockState, IInv, RosterInv
<1>5. ToldInv'
  BY <1>s, <1>h, ToldKept DEF LockState, IInv, StateInv, Standing
<1> QED
  BY <1>1, <1>2, <1>3, <1>4, <1>5 DEF IInv

\* The monitor takes the mutex; it is running.
LEMMA MonitorLocksInv ==
  ASSUME IInv, MonitorLocks
  PROVE  IInv'
<1>s. Standing /\ Standing' /\ at' = at /\ at \in 0..27
  BY StandingIs DEF MonitorLocks, IInv, StateInv
<1>1. StateInv'
  BY <1>s, DaemonAssumption DEF MonitorLocks, IInv, StateInv, HandlingReason
<1>2. PlaceInv'
  BY <1>s DEF MonitorLocks, IInv, StateInv, PlaceInv, Working, Standing
<1>3. GoneIsCancelled'
  BY <1>s DEF MonitorLocks, IInv, GoneIsCancelled, Standing
<1>4. RosterInv'
  BY <1>s DEF MonitorLocks, IInv, RosterInv
<1>5. ToldInv'
  BY <1>s DEF MonitorLocks, IInv, ToldInv, Standing, Queued, HandlingReason
<1> QED
  BY <1>1, <1>2, <1>3, <1>4, <1>5 DEF IInv

\* A notification arrives.
LEMMA SystemNoticeInv ==
  ASSUME IInv, SystemNotice
  PROVE  IInv'
<1>s. Standing /\ Standing' /\ at' = at /\ at \in 0..27
  BY StandingIs DEF SystemNotice, IInv, StateInv
<1>1. StateInv'
  BY <1>s, DaemonAssumption DEF SystemNotice, IInv, StateInv, HandlingReason
<1>2. PlaceInv'
  BY <1>s DEF SystemNotice, IInv, StateInv, PlaceInv, Working, Standing
<1>3. GoneIsCancelled'
  BY <1>s DEF SystemNotice, IInv, GoneIsCancelled, Standing
<1>4. RosterInv'
  BY <1>s DEF SystemNotice, IInv, RosterInv
<1>5. ToldInv'
  BY <1>s DEF SystemNotice, IInv, ToldInv, Standing, Queued, HandlingReason
<1> QED
  BY <1>1, <1>2, <1>3, <1>4, <1>5 DEF IInv

\* A card moves.
LEMMA MoveCardInv ==
  ASSUME IInv, MoveCard
  PROVE  IInv'
<1>s. Standing /\ Standing' /\ at' = at /\ at \in 0..27
  BY StandingIs DEF MoveCard, procVars, IInv, StateInv
<1>1. StateInv'
  BY <1>s, DaemonAssumption DEF MoveCard, procVars, IInv, StateInv, HandlingReason
<1>2. PlaceInv'
  BY <1>s DEF MoveCard, procVars, IInv, StateInv, PlaceInv, Working, Standing
<1>3. GoneIsCancelled'
  BY <1>s DEF MoveCard, procVars, IInv, GoneIsCancelled, Standing
<1>4. RosterInv'
  BY <1>s DEF MoveCard, procVars, IInv, RosterInv
<1>5. ToldInv'
  BY <1>s DEF MoveCard, procVars, IInv, ToldInv, Standing, Queued, HandlingReason
<1> QED
  BY <1>1, <1>2, <1>3, <1>4, <1>5 DEF IInv

\* The other agent ends.
LEMMA OtherEndsInv ==
  ASSUME IInv, OtherEnds
  PROVE  IInv'
<1>s. Standing /\ Standing' /\ at' = at /\ at \in 0..27
  BY StandingIs DEF OtherEnds, procVars, IInv, StateInv
<1>1. StateInv'
  BY <1>s, DaemonAssumption DEF OtherEnds, procVars, IInv, StateInv, HandlingReason
<1>2. PlaceInv'
  BY <1>s DEF OtherEnds, procVars, IInv, StateInv, PlaceInv, Working, Standing
<1>3. GoneIsCancelled'
  BY <1>s DEF OtherEnds, procVars, IInv, GoneIsCancelled, Standing
<1>4. RosterInv'
  BY <1>s DEF OtherEnds, procVars, IInv, RosterInv
<1>5. ToldInv'
  BY <1>s DEF OtherEnds, procVars, IInv, ToldInv, Standing, Queued, HandlingReason
<1> QED
  BY <1>1, <1>2, <1>3, <1>4, <1>5 DEF IInv

\* A request takes a card that is offered, so the monitor has been started.
LEMMA RequestInv ==
  ASSUME IInv, NEW c \in Clients, Request(c)
  PROVE  IInv'
<1>s. Standing /\ Standing' /\ at' = at /\ at \in 0..27
  BY StandingIs DEF Request, IInv, StateInv
<1>o. /\ op' \in [Clients -> {"none", "running", "asking", "answered", "cancelled", "leased", "ended"}]
      /\ \A d \in Clients : d # c => op'[d] = op[d]
      /\ op[c] = "none" /\ op'[c] \in {"running", "leased"}
  BY DEF Request, IInv, StateInv
<1>1. StateInv'
  BY <1>s, <1>o DEF Request, IInv, StateInv, HandlingReason
<1>2. PlaceInv'
  BY <1>s, <1>o DEF Request, IInv, StateInv, PlaceInv, Working, Standing
<1>3. GoneIsCancelled'
  BY <1>s, <1>o DEF Request, IInv, StateInv, PlaceInv, GoneIsCancelled, Standing, Working
<1>4. RosterInv'
  BY <1>s DEF Request, IInv, RosterInv
<1>5. ToldInv'
  BY <1>s DEF Request, IInv, ToldInv, Standing, Queued, HandlingReason
<1> QED
  BY <1>1, <1>2, <1>3, <1>4, <1>5 DEF IInv

\* A worker asks a person.
LEMMA AskInv ==
  ASSUME IInv, NEW c \in Clients, Ask(c)
  PROVE  IInv'
<1>s. Standing /\ Standing' /\ at' = at /\ at \in 0..27
  BY StandingIs DEF Ask, IInv, StateInv
<1>o. /\ op' \in [Clients -> {"none", "running", "asking", "answered", "cancelled", "leased", "ended"}]
      /\ \A d \in Clients : d # c => op'[d] = op[d]
      /\ op[c] = "running" /\ op'[c] = "asking"
  BY DEF Ask, IInv, StateInv
<1>1. StateInv'
  BY <1>s, <1>o DEF Ask, IInv, StateInv, HandlingReason
<1>2. PlaceInv'
  BY <1>s, <1>o DEF Ask, IInv, StateInv, PlaceInv, Working, Standing
<1>3. GoneIsCancelled'
  BY <1>s, <1>o DEF Ask, IInv, StateInv, PlaceInv, GoneIsCancelled, Standing, Working
<1>4. RosterInv'
  BY <1>s DEF Ask, IInv, RosterInv
<1>5. ToldInv'
  BY <1>s DEF Ask, IInv, ToldInv, Standing, Queued, HandlingReason
<1> QED
  BY <1>1, <1>2, <1>3, <1>4, <1>5 DEF IInv

\* The person has answered, or nobody did.
LEMMA PromptEndsInv ==
  ASSUME IInv, NEW c \in Clients, PromptEnds(c)
  PROVE  IInv'
<1>s. Standing /\ Standing' /\ at' = at /\ at \in 0..27
  BY StandingIs DEF PromptEnds, IInv, StateInv
<1>o. /\ op' \in [Clients -> {"none", "running", "asking", "answered", "cancelled", "leased", "ended"}]
      /\ \A d \in Clients : d # c => op'[d] = op[d]
      /\ op[c] = "asking" /\ op'[c] \in {"cancelled", "answered"}
  BY DEF PromptEnds, IInv, StateInv
<1>1. StateInv'
  BY <1>s, <1>o DEF PromptEnds, IInv, StateInv, HandlingReason
<1>2. PlaceInv'
  BY <1>s, <1>o DEF PromptEnds, IInv, StateInv, PlaceInv, Working, Standing
<1>3. GoneIsCancelled'
  BY <1>s, <1>o DEF PromptEnds, IInv, StateInv, PlaceInv, GoneIsCancelled, Standing, Working
<1>4. RosterInv'
  BY <1>s DEF PromptEnds, IInv, RosterInv
<1>5. ToldInv'
  BY <1>s DEF PromptEnds, IInv, ToldInv, Standing, Queued, HandlingReason
<1> QED
  BY <1>1, <1>2, <1>3, <1>4, <1>5 DEF IInv

\* A client leaves: whatever it could have started, its handler is registered.
LEMMA LeaveInv ==
  ASSUME IInv, NEW c \in Clients, Leave(c)
  PROVE  IInv'
<1>s. Standing /\ Standing' /\ at' = at /\ at \in 0..27
  BY StandingIs DEF Leave, IInv, StateInv
<1>o. /\ op' \in [Clients -> {"none", "running", "asking", "answered", "cancelled", "leased", "ended"}]
      /\ \A d \in Clients : d # c => op'[d] = op[d]
      /\ op'[c] = IF Handler("cancelOps") /\ Working(c) THEN "cancelled"
                   ELSE IF Handler("revokeLeases") /\ op[c] = "leased" THEN "ended" ELSE op[c]
      /\ client'[c] = "left" /\ \A d \in Clients : d # c => client'[d] = client[d]
  BY DEF Leave, IInv, StateInv
<1>1. StateInv'
  BY <1>s, <1>o DEF Leave, IInv, StateInv, HandlingReason
<1>2. PlaceInv'
  BY <1>s, <1>o DEF Leave, IInv, StateInv, PlaceInv, Working, Standing
<1>3. GoneIsCancelled'
  BY <1>s, <1>o DEF Leave, IInv, StateInv, PlaceInv, GoneIsCancelled, Standing, Working
<1>4. RosterInv'
  BY <1>s DEF Leave, IInv, RosterInv
<1>5. ToldInv'
  BY <1>s DEF Leave, IInv, ToldInv, Standing, Queued, HandlingReason
<1> QED
  BY <1>1, <1>2, <1>3, <1>4, <1>5 DEF IInv

\* A client connects.
LEMMA ConnectInv ==
  ASSUME IInv, NEW c \in Clients, Connect(c)
  PROVE  IInv'
<1>s. Standing /\ Standing' /\ at' = at /\ at \in 0..27
  BY StandingIs DEF Connect, IInv, StateInv
<1>o. /\ op' \in [Clients -> {"none", "running", "asking", "answered", "cancelled", "leased", "ended"}]
      /\ \A d \in Clients : d # c => op'[d] = op[d]
      /\ op'[c] = op[c]
      /\ client[c] = "none" /\ client'[c] = "open" /\ \A d \in Clients : d # c => client'[d] = client[d]
  BY DEF Connect, IInv, StateInv
<1>1. StateInv'
  BY <1>s, <1>o DEF Connect, IInv, StateInv, HandlingReason
<1>2. PlaceInv'
  BY <1>s, <1>o DEF Connect, IInv, StateInv, PlaceInv, Working, Standing
<1>3. GoneIsCancelled'
  BY <1>s, <1>o DEF Connect, IInv, StateInv, PlaceInv, GoneIsCancelled, Standing, Working
<1>4. RosterInv'
  BY <1>s DEF Connect, IInv, RosterInv
<1>5. ToldInv'
  BY <1>s DEF Connect, IInv, ToldInv, Standing, Queued, HandlingReason
<1> QED
  BY <1>1, <1>2, <1>3, <1>4, <1>5 DEF IInv

\* core.quiesce(): one more is forgotten, and due to be told.
LEMMA ForgetInv ==
  ASSUME IInv, Forget
  PROVE  IInv'
<1>s. Standing /\ Standing' /\ at' = at /\ at \in 0..27
  BY StandingIs DEF Forget, IInv, StateInv
<1>h. /\ handling # Idle /\ handling.stage = "locked" /\ handling' # Idle
      /\ handling' \in [note : AllNotices, stage : {"locking", "locked", "telling"}]
      /\ handling'.stage = "telling" /\ HandlingReason' = HandlingReason /\ HandlingReason \in Reasons
  <2>1. handling # Idle /\ handling.stage = "locked"
    BY DEF Forget, Idle
  <2>2. handling' = [handling EXCEPT !.stage = "telling"]
    BY DEF Forget
  <2>3. handling \in [note : AllNotices, stage : {"locking", "locked", "telling"}] /\ HandlingReason \in Reasons
    BY <2>1 DEF IInv, StateInv
  <2>4. handling'.stage = "telling" /\ handling'.note = handling.note
    BY <2>2, <2>3
  <2> QED
    BY <2>1, <2>2, <2>3, <2>4 DEF HandlingReason, Idle
<1>o. /\ op' \in [Clients -> {"none", "running", "asking", "answered", "cancelled", "leased", "ended"}]
      /\ \A c \in Clients : op'[c] = IF op[c] = "leased" THEN "ended" ELSE op[c]
  BY DEF Forget, LeasesEnd, IInv, StateInv
<1>f. /\ forgot' \in [Reasons -> Nat] /\ forgot'[HandlingReason] = forgot[HandlingReason] + 1
      /\ \A r \in Reasons : r # HandlingReason => forgot'[r] = forgot[r]
  BY <1>h DEF Forget, IInv, StateInv
<1>1. StateInv'
  BY <1>s, <1>h, <1>o, <1>f DEF Forget, IInv, StateInv
<1>2. PlaceInv'
  BY <1>s, <1>h, <1>o DEF Forget, IInv, StateInv, PlaceInv, Working, Standing
<1>3. GoneIsCancelled'
  BY <1>s, <1>o DEF Forget, IInv, GoneIsCancelled, Standing
<1>4. RosterInv'
  BY <1>s DEF Forget, IInv, RosterInv
<1>5. ToldInv'
  <2> SUFFICES ASSUME ~Quiesced', NEW r \in Reasons
               PROVE  (forgot[r] = told[r] + Queued(r)
                         + (IF handling.stage = "telling" /\ HandlingReason = r THEN 1 ELSE 0))'
    BY DEF ToldInv
  <2>1. forgot[r] = told[r] + Queued(r)
    <3>1. forgot[r] = told[r] + Queued(r) + 0
      BY <1>s, <1>h DEF IInv, ToldInv, Forget, Standing
    <3>2. told[r] \in Nat /\ Queued(r) \in Nat
      BY QueuedIs, CountTyped DEF IInv, StateInv
    <3> QED
      BY <3>1, <3>2
  <2>2. told'[r] = told[r] /\ Queued(r)' = Queued(r)
    BY DEF Forget, Queued
  <2>3. forgot'[r] = forgot[r] + (IF HandlingReason = r THEN 1 ELSE 0)
    BY <1>f DEF IInv, StateInv
  <2> QED
    BY <1>h, <2>1, <2>2, <2>3
<1> QED
  BY <1>1, <1>2, <1>3, <1>4, <1>5 DEF IInv

\* What was due is on the loop's queue.
LEMMA TellInv ==
  ASSUME IInv, Tell
  PROVE  IInv'
<1>s. Standing /\ Standing' /\ at' = at /\ at \in 0..27
  BY StandingIs DEF Tell, IInv, StateInv
<1>h. /\ handling # Idle /\ handling.stage = "telling" /\ handling' = Idle /\ Idle.stage = "idle"
      /\ HandlingReason \in Reasons
  BY DEF Tell, Idle, IInv, StateInv
<1> DEFINE x == TellBlock(HandlingReason)
<1>q. /\ loopQ' = Append(loopQ, x) /\ x \in Blocks /\ x.do # "card"
      /\ loopQ \in Seq(Blocks) /\ loopQ' \in Seq(Blocks)
  BY <1>h, BlocksPosted, AppendProperties DEF Tell, IInv, StateInv
<1>r. \A r \in Reasons : Count(loopQ', TellBlock(r)) = Count(loopQ, TellBlock(r)) + (IF HandlingReason = r THEN 1 ELSE 0)
  BY <1>h, <1>q, CountAppend, BlocksPosted
<1>1. StateInv'
  BY <1>s, <1>h, <1>q DEF Tell, IInv, StateInv
<1>2. PlaceInv'
  BY <1>s, <1>h DEF Tell, IInv, StateInv, PlaceInv, Working, Standing
<1>3. GoneIsCancelled'
  BY <1>s DEF Tell, IInv, GoneIsCancelled, Standing
<1>4. RosterInv'
  BY <1>s, <1>q, OfferedAppend DEF Tell, IInv, RosterInv
<1>5. ToldInv'
  <2> SUFFICES ASSUME ~Quiesced', NEW r \in Reasons
               PROVE  (forgot[r] = told[r] + Queued(r)
                         + (IF handling.stage = "telling" /\ HandlingReason = r THEN 1 ELSE 0))'
    BY DEF ToldInv
  <2>1. forgot[r] = told[r] + Queued(r) + (IF HandlingReason = r THEN 1 ELSE 0)
    BY <1>s, <1>h DEF IInv, ToldInv, Tell, Standing
  <2>2. /\ Queued(r) = Count(loopQ, TellBlock(r)) /\ Queued(r)' = Count(loopQ', TellBlock(r))
    BY <1>q, LenProperties DEF Queued, Count
  <2>3. told[r] \in Nat /\ Count(loopQ, TellBlock(r)) \in Nat
    BY <1>q, CountTyped DEF IInv, StateInv
  <2>4. told'[r] = told[r] /\ forgot'[r] = forgot[r]
    BY DEF Tell
  <2> QED
    BY <1>h, <1>r, <2>1, <2>2, <2>3, <2>4
<1> QED
  BY <1>1, <1>2, <1>3, <1>4, <1>5 DEF IInv

\* The monitor reports, and what it reports is what will be offered.
LEMMA MonitorReportsInv ==
  ASSUME IInv, MonitorReports
  PROVE  IInv'
<1>s. Standing /\ Standing' /\ at' = at /\ at \in 0..27
  BY StandingIs DEF MonitorReports, IInv, StateInv
<1>m. at >= 10 /\ at < 16 /\ Observing /\ FrontendAlive
  BY <1>s DEF MonitorReports, IInv, PlaceInv, Standing
<1> DEFINE q == Append(loopQ, CardBlock(~seen))
<1>q. /\ loopQ \in Seq(Blocks) /\ q \in Seq(Blocks) /\ RevokeBlock \in Blocks /\ CardBlock(~seen) \in Blocks
      /\ Append(q, RevokeBlock) \in Seq(Blocks)
      /\ loopQ' = q \/ loopQ' = Append(q, RevokeBlock)
      /\ seen' = ~seen /\ seen' \in BOOLEAN
  BY <1>m, BlocksPosted, AppendProperties DEF MonitorReports, IInv, StateInv
<1>r. \A r \in Reasons : Count(loopQ', TellBlock(r)) = Count(loopQ, TellBlock(r))
  <2> SUFFICES ASSUME NEW r \in Reasons PROVE Count(loopQ', TellBlock(r)) = Count(loopQ, TellBlock(r))
    OBVIOUS
  <2>1. CardBlock(~seen) # TellBlock(r) /\ RevokeBlock # TellBlock(r)
    BY <1>q, BlocksPosted
  <2>2. Count(loopQ, TellBlock(r)) \in Nat
    BY <1>q, CountTyped
  <2>3. Count(q, TellBlock(r)) = Count(loopQ, TellBlock(r))
    BY <1>q, <2>1, <2>2, CountAppend
  <2> HIDE DEF q
  <2>4. Count(Append(q, RevokeBlock), TellBlock(r)) = Count(q, TellBlock(r))
    BY <1>q, <2>1, <2>2, <2>3, CountAppend
  <2> QED
    BY <1>q, <2>3, <2>4
<1>1. StateInv'
  BY <1>s, <1>q DEF MonitorReports, IInv, StateInv, HandlingReason
<1>2. PlaceInv'
  BY <1>s, <1>m DEF MonitorReports, IInv, StateInv, PlaceInv, Working, Standing
<1>3. GoneIsCancelled'
  BY <1>s DEF MonitorReports, IInv, GoneIsCancelled, Standing
<1>4. RosterInv'
  <2>1. Offered(q, published, seen')
    BY <1>q, OfferedAppend
  <2>2. Offered(Append(q, RevokeBlock), published, seen')
    BY <1>q, <2>1, OfferedAppend, BlocksPosted
  <2> QED
    BY <1>q, <2>1, <2>2 DEF RosterInv, MonitorReports
<1>5. ToldInv'
  BY <1>s, <1>q, <1>r, ToldKept DEF MonitorReports, IInv, Standing
<1> QED
  BY <1>1, <1>2, <1>3, <1>4, <1>5 DEF IInv

\* A worker is through; the core has not joined it yet, so the transport stands.
LEMMA FinishInv ==
  ASSUME IInv, NEW c \in Clients, Finish(c)
  PROVE  IInv'
<1>s. Standing /\ Standing' /\ at' = at /\ at \in 0..27
  BY StandingIs DEF Finish, IInv, StateInv
<1>w. CoreAlive /\ Done("monitor")
  BY DEF Finish, IInv, PlaceInv, Working
<1>o. /\ op' \in [Clients -> {"none", "running", "asking", "answered", "cancelled", "leased", "ended"}]
      /\ op'[c] = "ended" /\ \A d \in Clients : d # c => op'[d] = op[d]
  BY DEF Finish, IInv, StateInv
<1>q. /\ loopQ' = Append(loopQ, OpBlock(c)) /\ OpBlock(c) \in Blocks /\ OpBlock(c).do # "card"
      /\ loopQ \in Seq(Blocks) /\ loopQ' \in Seq(Blocks)
  BY BlocksPosted, AppendProperties DEF Finish, IInv, StateInv
<1>r. \A r \in Reasons : Count(loopQ', TellBlock(r)) = Count(loopQ, TellBlock(r))
  BY <1>q, CountAppend, CountTyped, BlocksPosted
<1>1. StateInv'
  BY <1>s, <1>o, <1>q DEF Finish, IInv, StateInv, HandlingReason
<1>2. PlaceInv'
  BY <1>s, <1>w, <1>o DEF Finish, IInv, StateInv, PlaceInv, Working, Standing
<1>3. GoneIsCancelled'
  BY <1>s, <1>o DEF Finish, IInv, GoneIsCancelled, Standing
<1>4. RosterInv'
  BY <1>s, <1>q, OfferedAppend DEF Finish, IInv, RosterInv
<1>5. ToldInv'
  BY <1>s, <1>q, <1>r, ToldKept DEF Finish, IInv, Standing
<1> QED
  BY <1>1, <1>2, <1>3, <1>4, <1>5 DEF IInv

\* The loop takes a block.
LEMMA RunBlockInv ==
  ASSUME IInv, RunBlock
  PROVE  IInv'
<1>s. Standing /\ Standing' /\ at' = at /\ at \in 0..27
  BY StandingIs DEF RunBlock, IInv, StateInv
<1> DEFINE b == Head(loopQ)
<1>q. /\ loopQ \in Seq(Blocks) /\ loopQ # << >> /\ loopQ' = Tail(loopQ) /\ loopQ' \in Seq(Blocks) /\ b \in Blocks
  BY HeadTailProperties DEF RunBlock, IInv, StateInv
<1>b. /\ b.do = "card" => b.there \in BOOLEAN
      /\ b.do = "tell" => b.reason \in Reasons /\ b = TellBlock(b.reason)
      /\ \A r \in Reasons : b = TellBlock(r) => b.do = "tell" /\ b.reason = r
  BY <1>q, BlockKinds
<1>o. /\ op' \in [Clients -> {"none", "running", "asking", "answered", "cancelled", "leased", "ended"}]
      /\ \A c \in Clients : op'[c] = op[c] \/ (op[c] = "leased" /\ op'[c] = "ended")
  BY DEF RunBlock, LeasesEnd, IInv, StateInv
<1>t. /\ told' \in [Reasons -> Nat]
      /\ \A r \in Reasons : told'[r] = told[r] + (IF ~Quiesced /\ b = TellBlock(r) THEN 1 ELSE 0)
  <2>1. told \in [Reasons -> Nat]
    BY DEF IInv, StateInv
  <2>2. CASE ~Quiesced /\ b.do = "tell"
    BY <1>b, <2>1, <2>2 DEF RunBlock
  <2>3. CASE ~(~Quiesced /\ b.do = "tell")
    BY <1>b, <2>1, <2>3 DEF RunBlock
  <2> QED
    BY <2>2, <2>3
<1>p. published' = (IF ~Quiesced /\ b.do = "card" THEN b.there ELSE published) /\ published' \in BOOLEAN
  BY <1>b DEF RunBlock, IInv, StateInv
<1>1. StateInv'
  BY <1>s, <1>q, <1>o, <1>t, <1>p DEF RunBlock, IInv, StateInv, HandlingReason
<1>2. PlaceInv'
  BY <1>s, <1>q, <1>o DEF RunBlock, IInv, StateInv, PlaceInv, Working, Standing
<1>3. GoneIsCancelled'
  BY <1>s, <1>o DEF RunBlock, IInv, GoneIsCancelled, Standing
<1>4. RosterInv'
  <2> SUFFICES ASSUME at >= 10, at < 19 PROVE Offered(loopQ', published', seen')
    BY <1>s DEF RosterInv
  <2>1. Offered(loopQ, published, seen)
    BY <1>s DEF IInv, RosterInv
  <2>2. ~Quiesced
    BY <1>s DEF Standing
  <2>3. seen' = seen /\ seen \in BOOLEAN
    BY DEF IInv, StateInv, RunBlock
  <2> QED
    BY <1>q, <1>p, <2>1, <2>2, <2>3, OfferedTail
<1>5. ToldInv'
  <2> SUFFICES ASSUME ~Quiesced', NEW r \in Reasons
               PROVE  (forgot[r] = told[r] + Queued(r)
                         + (IF handling.stage = "telling" /\ HandlingReason = r THEN 1 ELSE 0))'
    BY DEF ToldInv
  <2> DEFINE due == IF handling.stage = "telling" /\ HandlingReason = r THEN 1 ELSE 0
  <2>1. forgot[r] = told[r] + Queued(r) + due /\ ~Quiesced
    BY <1>s DEF IInv, ToldInv, RunBlock, Standing
  <2>2. /\ Queued(r) = Count(loopQ, TellBlock(r)) /\ Queued(r)' = Count(loopQ', TellBlock(r))
    BY <1>q, LenProperties DEF Queued, Count
  <2>3. told[r] \in Nat /\ Count(loopQ', TellBlock(r)) \in Nat /\ due \in Nat
    BY <1>q, CountTyped DEF IInv, StateInv
  <2>4. forgot'[r] = forgot[r] /\ (IF handling.stage = "telling" /\ HandlingReason = r THEN 1 ELSE 0)' = due
    BY DEF RunBlock, HandlingReason
  <2>5. Count(loopQ, TellBlock(r)) = Count(loopQ', TellBlock(r)) + (IF b = TellBlock(r) THEN 1 ELSE 0)
    BY <1>q, CountTail
  <2>6. told'[r] = told[r] + (IF b = TellBlock(r) THEN 1 ELSE 0)
    BY <1>t, <2>1
  <2> HIDE DEF due, b
  <2> QED
    BY <2>1, <2>2, <2>3, <2>4, <2>5, <2>6
<1> QED
  BY <1>1, <1>2, <1>3, <1>4, <1>5 DEF IInv

\* main() takes a step.
LEMMA MainStepInv ==
  ASSUME IInv, MainStep
  PROVE  IInv'
<1>a. proc = "up" /\ handling = Idle /\ at \in 0..26 /\ at' = at + 1 /\ at' \in 0..27
  <2>1. proc = "up" /\ handling = Idle /\ at < Len(Program) /\ at' = at + 1 /\ at \in 0..27
    BY DEF MainStep, IInv, StateInv
  <2>2. Len(Program) = 27
    BY ProgramIs
  <2> QED
    BY ONLY <2>1, <2>2
<1>s. Standing /\ Standing'
  <2>1. at \in 0..27 /\ at' \in 0..27
    BY ONLY <1>a
  <2> QED
    BY <2>1, StandingIs
<1>p. /\ Program[at + 1] = "monitor" <=> at = 9
      /\ Program[at + 1] = "dismissPrompts" <=> at = 17
      /\ at = 15 => Program[at + 1] = "stopMonitor"
      /\ at = 25 => Program[at + 1] = "destroyCore"
      /\ at = 26 => Program[at + 1] = "destroyTransport"
  BY <1>a, ProgramIs
<1>m. /\ at = 15 => stateMutex # "monitor"
      /\ at = 25 => \A c \in Clients : ~Working(c)
      /\ at = 26 => loopQ = << >>
  BY <1>p DEF MainStep, MayTake, LoopSynced
<1>n. at = 9 => ~published /\ ~seen /\ loopQ = << >>
  BY <1>s DEF IInv, PlaceInv, Standing
<1>e. /\ at = 9 => seen' = card /\ loopQ' = IF card THEN Append(loopQ, CardBlock(TRUE)) ELSE loopQ
      /\ at # 9 => seen' = seen /\ loopQ' = loopQ
  <2>1. CASE at = 9
    <3>1. Program[at + 1] = "monitor"
      BY <1>p, <2>1
    <3>2. StartMonitor
      BY <3>1 DEF MainStep
    <3>3. Observing
      BY <1>s, <2>1 DEF Standing
    <3> QED
      BY <2>1, <3>2, <3>3 DEF StartMonitor
  <2>2. CASE at # 9
    <3>1. Program[at + 1] # "monitor"
      BY <1>p, <2>2
    <3> QED
      BY <2>2, <3>1 DEF MainStep
  <2> QED
    BY <2>1, <2>2
<1>o. /\ op' \in [Clients -> {"none", "running", "asking", "answered", "cancelled", "leased", "ended"}]
      /\ \A c \in Clients : op'[c] = op[c] \/ (op[c] = "asking" /\ op'[c] = "cancelled")
  <2>1. CASE at = 17
    <3>1. PICK reached \in SUBSET {c \in Clients : op[c] = "asking"} :
            op' = [c \in Clients |-> IF c \in reached THEN "cancelled" ELSE op[c]]
      BY <1>p, <2>1 DEF MainStep, DismissPrompts
    <3> QED
      BY <3>1 DEF IInv, StateInv
  <2>2. CASE at # 17
    BY <1>p, <2>2 DEF MainStep, IInv, StateInv
  <2> QED
    BY <2>1, <2>2
<1>u. UNCHANGED <<handling, notes, stateMutex, published, client, forgot, told, proc, card>>
  BY DEF MainStep
<1>q. /\ loopQ \in Seq(Blocks) /\ CardBlock(TRUE) \in Blocks /\ seen \in BOOLEAN /\ card \in BOOLEAN
      /\ loopQ' \in Seq(Blocks) /\ seen' \in BOOLEAN
  <2>1. loopQ \in Seq(Blocks) /\ CardBlock(TRUE) \in Blocks /\ seen \in BOOLEAN /\ card \in BOOLEAN
    BY BlocksPosted DEF IInv, StateInv
  <2>2. Append(loopQ, CardBlock(TRUE)) \in Seq(Blocks)
    BY <2>1, AppendProperties
  <2> QED
    BY <1>e, <2>1, <2>2
<1>1. StateInv'
  BY <1>a, <1>o, <1>u, <1>q DEF IInv, StateInv, HandlingReason
<1>2. PlaceInv'
  BY <1>a, <1>s, <1>m, <1>n, <1>e, <1>o, <1>u DEF IInv, StateInv, PlaceInv, Working, Standing
<1>3. GoneIsCancelled'
  BY <1>a, <1>s, <1>o, <1>u DEF IInv, GoneIsCancelled, Standing
<1>4. RosterInv'
  <2>1. CASE at = 9 /\ card
    <3>1. Offered(loopQ', published', TRUE)
      BY <1>e, <1>q, <2>1, OfferedAppend
    <3> QED
      BY <1>e, <1>q, <2>1, <3>1 DEF RosterInv
  <2>2. CASE at = 9 /\ ~card
    <3>1. published' = seen' /\ Len(loopQ') = 0
      BY <1>e, <1>n, <1>q, <1>u, <2>2 DEF IInv, StateInv
    <3> QED
      BY <3>1 DEF RosterInv, Offered
  <2>3. CASE at # 9
    BY <1>a, <1>e, <1>u, <2>3 DEF IInv, RosterInv
  <2> QED
    BY <2>1, <2>2, <2>3
<1>5. ToldInv'
  <2>1. \A r \in Reasons : Count(loopQ', TellBlock(r)) = Count(loopQ, TellBlock(r))
    <3> SUFFICES ASSUME NEW r \in Reasons PROVE Count(loopQ', TellBlock(r)) = Count(loopQ, TellBlock(r))
      OBVIOUS
    <3>1. Count(loopQ, TellBlock(r)) \in Nat
      BY <1>q, CountTyped
    <3>2. Count(Append(loopQ, CardBlock(TRUE)), TellBlock(r)) = Count(loopQ, TellBlock(r))
      <4> DEFINE x == CardBlock(TRUE)
      <4>1. x \in Blocks /\ x # TellBlock(r)
        BY BlocksPosted
      <4> HIDE DEF x
      <4>2. Count(Append(loopQ, x), TellBlock(r)) = Count(loopQ, TellBlock(r))
        BY <1>q, <3>1, <4>1, CountAppend
      <4> QED
        BY <4>2 DEF x
    <3> QED
      BY <1>e, <3>2
  <2>2. Quiesced => Quiesced'
    BY <1>a, <1>s DEF Standing
  <2> QED
    BY <1>u, <1>q, <2>1, <2>2, ToldKept DEF IInv
<1> QED
  BY <1>1, <1>2, <1>3, <1>4, <1>5 DEF IInv

\* What a process that has just begun, or one that has ended, looks like.
Fresh ==
    /\ proc \in {"up", "down", "stopped"} /\ card \in BOOLEAN
    /\ at = 0 /\ handling = Idle /\ notes = {}
    /\ stateMutex = "free" /\ seen = FALSE /\ published = FALSE /\ loopQ = << >>
    /\ client = [c \in Clients |-> "none"] /\ op = [c \in Clients |-> "none"]
    /\ forgot = [r \in Reasons |-> 0] /\ told = [r \in Reasons |-> 0]

LEMMA FreshInv == Fresh => IInv
<1> SUFFICES ASSUME Fresh PROVE IInv
  OBVIOUS
<1>1. StateInv
  <2>1. loopQ \in Seq(Blocks)
    BY EmptySeq DEF Fresh
  <2>2. client \in [Clients -> {"none", "open", "left"}]
    BY DEF Fresh
  <2>3. op \in [Clients -> {"none", "running", "asking", "answered", "cancelled", "leased", "ended"}]
    BY DEF Fresh
  <2>4. forgot \in [Reasons -> Nat] /\ told \in [Reasons -> Nat]
    BY DEF Fresh
  <2>5. /\ proc \in {"up", "down", "stopped"} /\ at \in 0..27 /\ notes \subseteq AllNotices /\ handling = Idle
    BY DEF Fresh
  <2>6. seen \in BOOLEAN /\ card \in BOOLEAN /\ published \in BOOLEAN
    BY DEF Fresh
  <2> QED
    BY <2>1, <2>2, <2>3, <2>4, <2>5, <2>6 DEF StateInv
<1>2. PlaceInv
  BY DEF Fresh, PlaceInv, Working
<1>3. GoneIsCancelled
  BY DEF Fresh, GoneIsCancelled
<1>4. RosterInv
  BY DEF Fresh, RosterInv
<1>5. ToldInv
  <2>1. loopQ \in Seq(Blocks)
    BY <1>1 DEF StateInv
  <2>2. \A r \in Reasons : Queued(r) = 0
    BY <2>1, QueuedIs, CountTyped DEF Fresh
  <2>3. handling.stage # "telling"
    BY DEF Fresh, Idle
  <2> QED
    BY <2>2, <2>3 DEF Fresh, ToldInv
<1> QED
  BY <1>1, <1>2, <1>3, <1>4, <1>5 DEF IInv

\* A process that ends leaves nothing.
LEMMA EndsInv ==
  ASSUME IInv, Ends("down") \/ Ends("stopped")
  PROVE  IInv'
<1>1. Fresh'
  BY DEF Ends, Fresh, IInv, StateInv
<1>2. Fresh' => IInv'
  BY FreshInv, PTL
<1> QED
  BY <1>1, <1>2

\* A signal kills, or is counted.
LEMMA SignalInv ==
  ASSUME IInv, Signal
  PROVE  IInv'
<1>1. CASE Ends("down")
  BY <1>1, EndsInv
<1>2. CASE UNCHANGED <<at, handling, notes, asked, stateMutex, seen, published, loopQ, client, op,
                       forgot, told, proc, card, other>>
  BY <1>2 DEF IInv, StateInv, PlaceInv, GoneIsCancelled, RosterInv, ToldInv, HandlingReason,
     Queued, Working, InRunLoop, Monitoring, CoreAlive, TransportAlive, Quiesced, Done
<1> QED
  BY <1>1, <1>2 DEF Signal

\* launchd starts the next process.
LEMMA RestartInv ==
  ASSUME IInv, Restart
  PROVE  IInv'
  BY DEF Restart, procVars, IInv, StateInv, PlaceInv, GoneIsCancelled, RosterInv, ToldInv, HandlingReason,
     Queued, Working, InRunLoop, Monitoring, CoreAlive, TransportAlive, Quiesced, Done

\* Every step, and none.
LEMMA StepInv == IInv /\ [Next]_vars => IInv'
<1> SUFFICES ASSUME IInv, [Next]_vars PROVE IInv'
  OBVIOUS
<1>1. CASE MainStep \/ Notified \/ LockState \/ Forget \/ Tell
  BY <1>1, MainStepInv, NotifiedInv, LockStateInv, ForgetInv, TellInv
<1>2. CASE MonitorLocks \/ MonitorReports \/ RunBlock
  BY <1>2, MonitorLocksInv, MonitorReportsInv, RunBlockInv
<1>3. ASSUME NEW c \in Clients,
             Connect(c) \/ Request(c) \/ Leave(c) \/ Ask(c) \/ PromptEnds(c) \/ Finish(c)
      PROVE  IInv'
  BY <1>3, ConnectInv, RequestInv, LeaveInv, AskInv, PromptEndsInv, FinishInv
<1>4. CASE MoveCard \/ SystemNotice \/ Signal \/ OtherEnds \/ Restart
  BY <1>4, MoveCardInv, SystemNoticeInv, SignalInv, OtherEndsInv, RestartInv
<1>5. CASE Exit0 \/ Crash \/ RefuseStart \/ RefuseSecond
  BY <1>5, EndsInv DEF Exit0, Crash, RefuseStart, RefuseSecond
<1>6. CASE UNCHANGED vars
  BY <1>6 DEF vars, procVars, IInv, StateInv, PlaceInv, GoneIsCancelled, RosterInv, ToldInv, HandlingReason,
     Queued, Working, InRunLoop, Monitoring, CoreAlive, TransportAlive, Quiesced, Done
<1> QED
  BY <1>1, <1>2, <1>3, <1>4, <1>5, <1>6 DEF Next

(***************************************************************************)
(* The theorems.                                                           *)
(***************************************************************************)

\* The inductive invariant holds in every reachable state.
THEOREM Invariant == Spec => []IInv
<1>1. Init => IInv
  BY FreshInv DEF Init, Fresh
<1> QED
  BY <1>1, StepInv, PTL DEF Spec

\* Whatever may still run, at start-up, while serving or during teardown, finds
\* what it calls: sink, handlers, monitor, blocks, workers and notifications.
THEOREM Lifetime == Spec => []LifetimeInv
<1>1. IInv => LifetimeInv
  <2> SUFFICES ASSUME IInv, at \in 0..27 PROVE LifetimeInv
    BY DEF IInv, StateInv
  <2>1. Standing
    BY StandsNow
  <2> QED
    BY <2>1 DEF LifetimeInv, IInv, PlaceInv, Standing
<1> QED
  BY <1>1, Invariant, PTL

\* Whoever has left is cancelled, however early it left, and an agent that
\* serves and has nothing under way offers the card exactly when it is there.
THEOREM StartupMissesNothing == Spec => []NothingMissed
<1>1. IInv => NothingMissed
  <2> SUFFICES ASSUME IInv PROVE RosterIsTrue
    BY DEF IInv, NothingMissed
  <2> SUFFICES ASSUME Serving, loopQ = << >>, seen = card PROVE published = card
    BY DEF RosterIsTrue
  <2>1. at = 13 /\ Len(loopQ) = 0
    BY ProgramIs DEF Serving
  <2>2. Offered(loopQ, published, seen)
    BY <2>1 DEF IInv, RosterInv
  <2> QED
    BY <2>1, <2>2 DEF Offered
<1> QED
  BY <1>1, Invariant, PTL

\* What clients have been told, what waits on the loop and what is due add up
\* to what the core has forgotten, reason by reason.
THEOREM ToldWhatWasForgotten == Spec => []ToldAfterForgot
<1>1. IInv => ToldAfterForgot
  BY DEF IInv, ToldInv, ToldAfterForgot
<1> QED
  BY <1>1, Invariant, PTL
=============================================================================
