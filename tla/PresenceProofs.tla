---------------------------- MODULE PresenceProofs ----------------------------
(***************************************************************************)
(* What is proved of Presence, whatever the number of readers, cards,      *)
(* retries and waiting blocks.                                             *)
(*                                                                         *)
(* Agreement: a client that took the snapshot once and has applied every   *)
(* presence event since knows what the agent publishes.  Every place that  *)
(* changes m_readers or m_cards sends the event that makes the same change *)
(* in the client; the proof goes through them one by one, and needs only   *)
(* that both sides compute Put and Drop from equal tables.                 *)
(*                                                                         *)
(* Roster: what the agent publishes is one card a reader, of its own type, *)
(* and the truth once nothing waits.  The proof remembers the reader each  *)
(* card was put into (home), and says of every waiting block what stands   *)
(* ahead of it and behind it in the queue, and of the tables what the      *)
(* queue will still do to them.                                            *)
(***************************************************************************)
EXTENDS Presence, TLAPS

\* ClientAgrees, with what the view is made of.
IInv ==
    /\ view \in [on : BOOLEAN, readers : {view.readers}, cards : {view.cards}]
    /\ ClientAgrees

\* An event about a reader changes the client's readers and nothing else of it.
LEMMA ReaderTold ==
  ASSUME NEW h, NEW r, IInv, TellReader(h, r), readers' = Put(readers, h, r), UNCHANGED cards
  PROVE  IInv'
  BY DEF IInv, ClientAgrees, TellReader

\* An event about a card changes the client's cards and nothing else of it.
LEMMA CardTold ==
  ASSUME NEW h, NEW c, IInv, TellCard(h, c), cards' = Put(cards, h, c), UNCHANGED readers
  PROVE  IInv'
  BY DEF IInv, ClientAgrees, TellCard

\* A withdrawal takes the object from both of the client's tables.
LEMMA GoneTold ==
  ASSUME NEW h, IInv, TellGone(h), readers' = Drop(readers, h), cards' = Drop(cards, h)
  PROVE  IInv'
  BY DEF IInv, ClientAgrees, TellGone

\* A step that publishes nothing tells nothing.
LEMMA NothingTold ==
  ASSUME IInv, UNCHANGED <<readers, cards, view>>
  PROVE  IInv'
  BY DEF IInv, ClientAgrees

\* The blocks the loop runs: each either tells what it changes or changes
\* nothing that is on the wire.
LEMMA BlockAgrees ==
  ASSUME IInv, RunReader \/ RunSeat \/ RunRelabel \/ RunWithdraw \/ RunResolved \/ RunType
  PROVE  IInv'
<1>1. CASE RunReader
  <2>1. PICK h, r : readers' = Put(readers, h, r) /\ TellReader(h, r)
    BY <1>1 DEF RunReader
  <2> QED
    BY <1>1, <2>1, ReaderTold DEF RunReader
<1>2. CASE RunSeat
  <2>1. \/ \E h, r : readers' = Put(readers, h, r) /\ TellReader(h, r)
        \/ UNCHANGED <<readers, view>>
    BY <1>2 DEF RunSeat
  <2>2. UNCHANGED cards
    BY <1>2 DEF RunSeat
  <2> QED
    BY <2>1, <2>2, ReaderTold, NothingTold
<1>3. CASE RunRelabel
  <2>1. \/ \E h, r : readers' = Put(readers, h, r) /\ TellReader(h, r)
        \/ UNCHANGED <<readers, view>>
    BY <1>3 DEF RunRelabel
  <2>2. UNCHANGED cards
    BY <1>3 DEF RunRelabel
  <2> QED
    BY <2>1, <2>2, ReaderTold, NothingTold
<1>4. CASE RunWithdraw
  <2>1. \/ \E h : readers' = Drop(readers, h) /\ cards' = Drop(cards, h) /\ TellGone(h)
        \/ UNCHANGED <<readers, cards, view>>
    BY <1>4 DEF RunWithdraw
  <2> QED
    BY <2>1, GoneTold, NothingTold
<1>5. CASE RunResolved
  <2>1. \/ \E h, c : cards' = Put(cards, h, c) /\ TellCard(h, c)
        \/ UNCHANGED <<cards, view>>
    BY <1>5 DEF RunResolved, PublishCard
  <2>2. UNCHANGED readers
    BY <1>5 DEF RunResolved
  <2> QED
    BY <2>1, <2>2, CardTold, NothingTold
<1>6. CASE RunType
  <2>1. \/ \E h, c : cards' = Put(cards, h, c) /\ TellCard(h, c)
        \/ UNCHANGED <<cards, view>>
    BY <1>6 DEF RunType
  <2>2. UNCHANGED readers
    BY <1>6 DEF RunType
  <2> QED
    BY <2>1, <2>2, CardTold, NothingTold
<1> QED
  BY <1>1, <1>2, <1>3, <1>4, <1>5, <1>6

\* Everything else leaves the wire alone, but for the snapshot, which is the
\* transport's own tables.
LEMMA NextAgrees ==
  ASSUME IInv, [Next]_vars
  PROVE  IInv'
<1>1. ASSUME NEW s \in Slots,
             PlugReader(s) \/ InsertCard(s) \/ RemoveCard(s) \/ UnplugReader(s) \/ \E l \in Labels : Relabel(s, l)
      PROVE  IInv'
  <2>1. UNCHANGED loopVars
    BY <1>1 DEF PlugReader, InsertCard, RemoveCard, UnplugReader, Relabel, Report
  <2> QED
    BY <2>1, NothingTold DEF loopVars, wireVars
<1>2. ASSUME NEW id \in Ids, ProbeDone(id) \/ ProbeLost(id)
      PROVE  IInv'
  BY <1>2, NothingTold DEF ProbeDone, ProbeLost, wireVars
<1>3. ASSUME NEW h \in Handles, BeginRead(h) \/ EndRead(h)
      PROVE  IInv'
  BY <1>3, NothingTold DEF BeginRead, EndRead, wireVars
<1>4. ASSUME NEW queued \in BOOLEAN, RunCard(queued) \/ \E id \in Ids : RetryTimer(id, queued)
      PROVE  IInv'
  BY <1>4, NothingTold DEF RunCard, RetryTimer, wireVars
<1>5. CASE GetState
  BY <1>5 DEF GetState, IInv, ClientAgrees
<1>6. CASE UNCHANGED vars
  BY <1>6, NothingTold DEF vars
<1> QED
  BY <1>1, <1>2, <1>3, <1>4, <1>5, <1>6, BlockAgrees DEF Next

\* A client that took GetState once and applied every event since knows what
\* m_readers and m_cards say: no publish, property change, withdrawal or card
\* type goes untold, late probes and retries included.
THEOREM Agreement == Spec => []ClientAgrees
<1>1. Init => IInv
  BY DEF Init, IInv, ClientAgrees
<1>2. IInv /\ [Next]_vars => IInv'
  BY NextAgrees
<1>3. IInv => ClientAgrees
  BY DEF IInv
<1> QED
  BY <1>1, <1>2, <1>3, PTL DEF Spec

(***************************************************************************)
(* The roster.  What a block says:                                         *)
(***************************************************************************)

\* The object that gets its handle from this block.
Intro(b) == IF b.do = "reader" THEN b.id ELSE IF b.do = "seat" THEN b.of ELSE Nothing

\* The object that goes with it.
Gone(b) == IF b.do = "withdraw" THEN b.id ELSE Nothing

\* The reader of which it is told what sits in it, and what does.
Told(b) == IF b.do \in {"reader", "seat"} THEN b.id ELSE Nothing
CardOf(b) == IF b.do = "seat" THEN b.of ELSE Nothing

\* The object that has its handle before the block is run.
Knows(b) == IF b.do \in {"seat", "withdraw", "resolved"} THEN b.id ELSE Nothing

\* The objects the monitor names in it, a withdrawal aside.
Named(b) ==
    IF b.do \in {"reader", "card", "relabel"} THEN {b.id}
    ELSE IF b.do = "seat" THEN {b.id, b.of} \ {Nothing} ELSE {}

(***************************************************************************)
(* The invariant.  home is the reader a card was put into; a reader has    *)
(* none.  P, w, nh and ni stand for posted, world, nextHandle and nextId.  *)
(***************************************************************************)

Present(w, i) == \E s \in Slots : w[s].reader = i \/ w[s].card = i
Leaving(P, i) == \E p \in DOMAIN P : Gone(P[p]) = i

HomeInv(home, ni) ==
    /\ home \in [Ids -> 0..MaxIds]
    /\ \A i \in 1..(ni - 1) : home[i] < i /\ (home[i] # Nothing => home[home[i]] = Nothing)

\* The newest card of a reader is the one that can be in it.
WorldInv(home, w, ni) ==
    /\ \A s \in Slots :
         /\ w[s].reader # Nothing => w[s].reader < ni /\ home[w[s].reader] = Nothing
         /\ w[s].card # Nothing => /\ w[s].reader # Nothing
                                   /\ w[s].card < ni /\ home[w[s].card] = w[s].reader
                                   /\ \A c \in (w[s].card + 1)..(ni - 1) : home[c] # w[s].reader
    /\ \A s, t \in Slots : w[s].reader # Nothing /\ w[s].reader = w[t].reader => s = t

BlockOK(home, b, ni) ==
    /\ b.do # "type" => b.id \in 1..(ni - 1)
    /\ b.do \in {"reader", "seat"} => home[b.id] = Nothing
    /\ b.do = "seat" /\ b.of # Nothing => b.of \in 1..(ni - 1) /\ home[b.of] = b.id
    /\ b.do \in {"card", "resolved"} => b.of # Nothing /\ home[b.id] = b.of
    /\ b.do = "type" => b.type = b.handle
BlocksInv(home, P, ni) == \A p \in DOMAIN P : BlockOK(home, P[p], ni)

\* Handles are given out in the order of the ObjectIds: the objects without
\* one are those whose block is still in the queue.
IntroInv(P, nh, ni) ==
    /\ nh \in 1..ni
    /\ \A p \in DOMAIN P : Intro(P[p]) # Nothing => Intro(P[p]) \in nh..(ni - 1)
    /\ \A i \in nh..(ni - 1) : \E p \in DOMAIN P : Intro(P[p]) = i
    /\ \A p, q \in DOMAIN P : p < q /\ Intro(P[p]) # Nothing /\ Intro(P[q]) # Nothing =>
          Intro(P[p]) < Intro(P[q])
    /\ \A p, q \in DOMAIN P : p <= q /\ Intro(P[q]) # Nothing => Knows(P[p]) # Intro(P[q])

\* A withdrawal is the last the monitor says of an object, a card goes before
\* its reader and before the next card of it gets a handle.
LeaveInv(home, P, w, ni) ==
    /\ \A p \in DOMAIN P : Gone(P[p]) # Nothing =>
         /\ ~Present(w, Gone(P[p]))
         /\ \A q \in DOMAIN P : q > p => Gone(P[p]) \notin Named(P[q]) /\ Gone(P[q]) # Gone(P[p])
         /\ home[Gone(P[p])] # Nothing =>
              /\ \/ Present(w, home[Gone(P[p])])
                 \/ \E q \in DOMAIN P : q > p /\ Gone(P[q]) = home[Gone(P[p])]
              /\ \A c \in (Gone(P[p]) + 1)..(ni - 1) : home[c] = home[Gone(P[p])] =>
                   \E q \in DOMAIN P : q > p /\ Intro(P[q]) = c
    /\ \A p \in DOMAIN P : \A i \in Named(P[p]) : Present(w, i) \/ Leaving(P, i)

\* The last that is told of a reader is true.
ToldInv(P, w) ==
    \A s \in Slots : w[s].reader # Nothing =>
        \A p \in DOMAIN P :
            Told(P[p]) = w[s].reader /\ (\A q \in DOMAIN P : q > p => Told(P[q]) # w[s].reader) =>
                CardOf(P[p]) = w[s].card

QueueInv(home, P, w, nh, ni) ==
    /\ HomeInv(home, ni) /\ WorldInv(home, w, ni) /\ BlocksInv(home, P, ni)
    /\ IntroInv(P, nh, ni) /\ LeaveInv(home, P, w, ni) /\ ToldInv(P, w)

\* The objects the loop knows: introduced, and not withdrawn yet.
Live(i) == i \in 1..(nextHandle - 1) /\ (Present(world, i) \/ Leaving(posted, i))

\* What the loop keeps, by the objects it knows; an object's handle is its id.
LoopInv(home) ==
    /\ \A i \in Ids : i \in DOMAIN idToHandle <=> Live(i)
    /\ \A i \in DOMAIN idToHandle : idToHandle[i] = i
    /\ readerNames = DOMAIN readers
    /\ \A i \in Ids : i \in DOMAIN readers <=> Live(i) /\ home[i] = Nothing
    /\ \A i \in DOMAIN readers : readers[i].id = i
    /\ \A s \in Slots : world[s].reader # Nothing /\ (\A p \in DOMAIN posted : Told(posted[p]) # world[s].reader) =>
          readers[world[s].reader].card = world[s].card
    /\ \A i \in DOMAIN cards : /\ Live(i) /\ home[i] # Nothing
                               /\ cards[i].id = i /\ cards[i].reader = home[i] /\ cards[i].type \in {Nothing, i}
    /\ \A i \in DOMAIN pending : /\ i < nextId /\ home[i] # Nothing
                                 /\ Present(world, i) \/ Leaving(posted, i)
    /\ \A i \in DOMAIN probe : i < nextId /\ home[i] # Nothing /\ probe[i].reader = home[i]
    /\ \A i \in DOMAIN reading : reading[i] = i

Kept == TypeOK /\ \E home \in [Ids -> 0..MaxIds] : QueueInv(home, posted, world, nextHandle, nextId) /\ LoopInv(home)

(***************************************************************************)
(* The queue.                                                              *)
(***************************************************************************)

Opt == Ids \cup {Nothing}
Places == [Slots -> [reader : Opt, card : Opt]]

LEMMA BlockTypes ==
  ASSUME NEW b \in Block
  PROVE  /\ Intro(b) \in Opt /\ Gone(b) \in Opt /\ Told(b) \in Opt /\ CardOf(b) \in Opt /\ Knows(b) \in Opt
         /\ Named(b) \subseteq Ids
<1>1. /\ b.do \in {"reader", "withdraw", "card", "seat", "relabel", "resolved"} => b.id \in Ids
      /\ b.do = "seat" => b.of \in Opt
  BY DEF Block, Opt
<1> QED
  BY <1>1 DEF Intro, Gone, Told, CardOf, Knows, Named, Opt

LEMMA OptIsNat == \A i \in Opt : i \in Nat /\ (i # Nothing => i \in Ids)
  BY PresenceAssumption DEF Opt, Ids, Nothing

\* The places of the blocks behind the first.
LEMMA TailIs ==
  ASSUME NEW P \in Seq(Block), P # << >>, NEW T, T = Tail(P)
  PROVE  /\ T \in Seq(Block) /\ Head(P) = P[1] /\ 1 \in DOMAIN P /\ P[1] \in Block
         /\ \A p \in DOMAIN T : p \in Nat \ {0} /\ p + 1 \in DOMAIN P /\ T[p] = P[p + 1]
         /\ \A p \in DOMAIN P : p \in Nat \ {0} /\ (p # 1 => p - 1 \in DOMAIN T /\ T[p - 1] = P[p])
  OBVIOUS

\* The loop takes the block at the head.
LEMMA TailIntro ==
  ASSUME NEW P \in Seq(Block), P # << >>, NEW T, T = Tail(P), NEW nh, NEW ni \in Nat, IntroInv(P, nh, ni),
         NEW mh, mh = IF Intro(P[1]) = Nothing THEN nh ELSE nh + 1
  PROVE  /\ IntroInv(T, mh, ni)
         /\ Intro(P[1]) \in {Nothing, nh}
         /\ Knows(P[1]) \in 1..(ni - 1) => Knows(P[1]) < nh
<1>1. /\ 1 \in DOMAIN P
      /\ \A p \in DOMAIN T : p \in Nat \ {0} /\ p + 1 \in DOMAIN P /\ T[p] = P[p + 1]
      /\ \A p \in DOMAIN P : p \in Nat \ {0} /\ (p # 1 => p - 1 \in DOMAIN T /\ T[p - 1] = P[p])
  BY TailIs
<1>2. \A p \in DOMAIN P : Intro(P[p]) \in Nat
  BY BlockTypes, OptIsNat
<1>n. nh \in Nat /\ nh <= ni
  BY DEF IntroInv
<1>3. Intro(P[1]) # Nothing => Intro(P[1]) = nh
  <2> SUFFICES ASSUME Intro(P[1]) # Nothing PROVE Intro(P[1]) = nh
    OBVIOUS
  <2>1. Intro(P[1]) \in nh..(ni - 1)
    BY <1>1 DEF IntroInv
  <2>2. nh \in nh..(ni - 1)
    BY <1>n, <2>1
  <2>3. PICK q \in DOMAIN P : Intro(P[q]) = nh
    BY <2>2 DEF IntroInv
  <2>4. CASE q = 1
    BY <2>3, <2>4
  <2>5. CASE q # 1
    <3>1. nh # Nothing /\ 1 < q
      BY <1>1, <1>n, <2>5 DEF IntroInv, Nothing
    <3>2. Intro(P[1]) < Intro(P[q])
      BY <1>1, <2>3, <3>1 DEF IntroInv
    <3> QED
      BY <1>n, <2>1, <2>3, <3>2
  <2> QED
    BY <2>4, <2>5
<1>4. ASSUME Knows(P[1]) \in 1..(ni - 1), ~(Knows(P[1]) < nh) PROVE FALSE
  <2>1. Knows(P[1]) \in nh..(ni - 1) /\ Knows(P[1]) # Nothing
    BY <1>4, <1>n DEF Nothing
  <2>2. PICK q \in DOMAIN P : Intro(P[q]) = Knows(P[1])
    BY <2>1 DEF IntroInv
  <2>3. 1 <= q
    BY <1>1
  <2> QED
    BY <1>1, <2>1, <2>2, <2>3 DEF IntroInv
<1>m. mh \in 1..ni /\ mh >= nh /\ (Intro(P[1]) # Nothing => mh = nh + 1) /\ (Intro(P[1]) = Nothing => mh = nh)
  BY <1>1, <1>3, <1>n DEF IntroInv
<1>5. \A p \in DOMAIN T : Intro(T[p]) # Nothing => Intro(T[p]) \in mh..(ni - 1)
  <2> SUFFICES ASSUME NEW p \in DOMAIN T, Intro(T[p]) # Nothing PROVE Intro(T[p]) \in mh..(ni - 1)
    OBVIOUS
  <2>1. p + 1 \in DOMAIN P /\ T[p] = P[p + 1] /\ 1 < p + 1
    BY <1>1
  <2>2. Intro(T[p]) \in nh..(ni - 1)
    BY <2>1 DEF IntroInv
  <2>3. Intro(P[1]) # Nothing => Intro(P[1]) < Intro(T[p])
    BY <1>1, <2>1 DEF IntroInv
  <2> QED
    BY <1>3, <1>m, <1>n, <2>2, <2>3
<1>6. \A i \in mh..(ni - 1) : \E p \in DOMAIN T : Intro(T[p]) = i
  <2> SUFFICES ASSUME NEW i \in mh..(ni - 1) PROVE \E p \in DOMAIN T : Intro(T[p]) = i
    OBVIOUS
  <2>1. i \in nh..(ni - 1) /\ i # Nothing
    BY <1>m, <1>n DEF IntroInv, Nothing
  <2>2. PICK q \in DOMAIN P : Intro(P[q]) = i
    BY <2>1 DEF IntroInv
  <2>3. q # 1
    BY <1>3, <1>m, <1>n, <2>1, <2>2
  <2> QED
    BY <1>1, <2>2, <2>3
<1>7. \A p, q \in DOMAIN T : /\ p + 1 \in DOMAIN P /\ q + 1 \in DOMAIN P
                              /\ (p < q => p + 1 < q + 1) /\ (p <= q => p + 1 <= q + 1)
                              /\ T[p] = P[p + 1] /\ T[q] = P[q + 1]
  BY <1>1
<1>8. \A p, q \in DOMAIN T : p < q /\ Intro(T[p]) # Nothing /\ Intro(T[q]) # Nothing => Intro(T[p]) < Intro(T[q])
  BY <1>7 DEF IntroInv
<1>9. \A p, q \in DOMAIN T : p <= q /\ Intro(T[q]) # Nothing => Knows(T[p]) # Intro(T[q])
  BY <1>7 DEF IntroInv
<1> QED
  BY <1>3, <1>4, <1>5, <1>6, <1>8, <1>9, <1>m DEF IntroInv

\* Behind the head, a withdrawal is what it was.
LEMMA TailLeave ==
  ASSUME NEW P \in Seq(Block), P # << >>, NEW T, T = Tail(P), NEW home, NEW w, NEW ni,
         LeaveInv(home, P, w, ni)
  PROVE  /\ LeaveInv(home, T, w, ni)
         /\ \A i : i # Gone(P[1]) => (Leaving(T, i) <=> Leaving(P, i))
         /\ Gone(P[1]) # Nothing => ~Leaving(T, Gone(P[1])) /\ ~Present(w, Gone(P[1]))
<1>0. P \in Seq(Block) /\ P # << >> /\ T = Tail(P)
  OBVIOUS
<1>1. /\ 1 \in DOMAIN P
      /\ \A p \in DOMAIN T : p \in Nat \ {0} /\ p + 1 \in DOMAIN P /\ T[p] = P[p + 1]
      /\ \A p \in DOMAIN P : p \in Nat \ {0} /\ (p # 1 => p - 1 \in DOMAIN T /\ T[p - 1] = P[p])
  BY ONLY <1>0, TailIs
<1>2. \A i : i # Gone(P[1]) => (Leaving(T, i) <=> Leaving(P, i))
  BY <1>1 DEF Leaving
<1>3. Gone(P[1]) # Nothing => ~Leaving(T, Gone(P[1])) /\ ~Present(w, Gone(P[1]))
  BY <1>1 DEF LeaveInv, Leaving
<1>4. ASSUME NEW p \in DOMAIN T, Gone(T[p]) # Nothing
      PROVE  /\ ~Present(w, Gone(T[p]))
             /\ \A q \in DOMAIN T : q > p => Gone(T[p]) \notin Named(T[q]) /\ Gone(T[q]) # Gone(T[p])
             /\ home[Gone(T[p])] # Nothing =>
                  /\ \/ Present(w, home[Gone(T[p])])
                     \/ \E q \in DOMAIN T : q > p /\ Gone(T[q]) = home[Gone(T[p])]
                  /\ \A c \in (Gone(T[p]) + 1)..(ni - 1) : home[c] = home[Gone(T[p])] =>
                       \E q \in DOMAIN T : q > p /\ Intro(T[q]) = c
  <2>1. PICK b : b = T[p]
    OBVIOUS
  <2>2. p + 1 \in DOMAIN P /\ P[p + 1] = b
    BY <1>1, <2>1
  <2>3. /\ ~Present(w, Gone(b))
        /\ \A q \in DOMAIN P : q > p + 1 => Gone(b) \notin Named(P[q]) /\ Gone(P[q]) # Gone(b)
        /\ home[Gone(b)] # Nothing =>
                  /\ \/ Present(w, home[Gone(b)])
                     \/ \E q \in DOMAIN P : q > p + 1 /\ Gone(P[q]) = home[Gone(b)]
                  /\ \A c \in (Gone(b) + 1)..(ni - 1) : home[c] = home[Gone(b)] =>
                       \E q \in DOMAIN P : q > p + 1 /\ Intro(P[q]) = c
    BY <1>4, <2>1, <2>2 DEF LeaveInv
  <2>4. \A q \in DOMAIN P : q > p + 1 => q - 1 \in DOMAIN T /\ q - 1 > p /\ T[q - 1] = P[q]
    BY <1>1
  <2>5. \A q \in DOMAIN T : q > p => q + 1 \in DOMAIN P /\ q + 1 > p + 1 /\ P[q + 1] = T[q]
    BY <1>1
  <2>6. \A q \in DOMAIN T : q > p => Gone(b) \notin Named(T[q]) /\ Gone(T[q]) # Gone(b)
    BY <2>3, <2>5
  <2>7. (\E q \in DOMAIN P : q > p + 1 /\ Gone(P[q]) = home[Gone(b)]) =>
           \E q \in DOMAIN T : q > p /\ Gone(T[q]) = home[Gone(b)]
    BY <2>4
  <2>8. \A c : (\E q \in DOMAIN P : q > p + 1 /\ Intro(P[q]) = c) => \E q \in DOMAIN T : q > p /\ Intro(T[q]) = c
    BY <2>4
  <2> QED
    BY <2>1, <2>3, <2>6, <2>7, <2>8
<1>5. ASSUME NEW p \in DOMAIN T, NEW i \in Named(T[p]) PROVE Present(w, i) \/ Leaving(T, i)
  <2>1. p + 1 \in DOMAIN P /\ i \in Named(P[p + 1]) /\ p + 1 > 1
    BY <1>1
  <2>2. Present(w, i) \/ Leaving(P, i)
    BY <2>1 DEF LeaveInv
  <2>3. Gone(P[1]) # Nothing => i # Gone(P[1])
    BY <1>1, <2>1 DEF LeaveInv
  <2>4. i # Nothing
    <3>1. P[p + 1] \in Block
      BY <2>1
    <3>2. i \in Ids
      BY <2>1, <3>1, BlockTypes
    <3> QED
      BY <3>2 DEF Ids, Nothing
  <2> QED
    BY <1>2, <2>2, <2>3, <2>4
<1> QED
  BY <1>2, <1>3, <1>4, <1>5 DEF LeaveInv

\* And what is told behind the head is the last that is told, but of the
\* reader the head alone tells of.
LEMMA TailTold ==
  ASSUME NEW P \in Seq(Block), P # << >>, NEW T, T = Tail(P), NEW w, ToldInv(P, w)
  PROVE  /\ ToldInv(T, w)
         /\ \A s \in Slots : w[s].reader # Nothing /\ (\A p \in DOMAIN T : Told(T[p]) # w[s].reader) =>
               \/ Told(P[1]) = w[s].reader /\ CardOf(P[1]) = w[s].card
               \/ \A p \in DOMAIN P : Told(P[p]) # w[s].reader
<1>0. P \in Seq(Block) /\ P # << >> /\ T = Tail(P)
  OBVIOUS
<1>1. /\ 1 \in DOMAIN P
      /\ \A p \in DOMAIN T : p \in Nat \ {0} /\ p + 1 \in DOMAIN P /\ T[p] = P[p + 1]
      /\ \A p \in DOMAIN P : p \in Nat \ {0} /\ (p # 1 => p - 1 \in DOMAIN T /\ T[p - 1] = P[p])
  BY ONLY <1>0, TailIs
<1>2. ASSUME NEW s \in Slots, w[s].reader # Nothing, NEW p \in DOMAIN T, Told(T[p]) = w[s].reader,
             \A q \in DOMAIN T : q > p => Told(T[q]) # w[s].reader
      PROVE  CardOf(T[p]) = w[s].card
  <2>1. p + 1 \in DOMAIN P /\ P[p + 1] = T[p]
    BY <1>1
  <2>2. \A q \in DOMAIN P : q > p + 1 => Told(P[q]) # w[s].reader
    <3> SUFFICES ASSUME NEW q \in DOMAIN P, q > p + 1 PROVE Told(P[q]) # w[s].reader
      OBVIOUS
    <3>1. q - 1 \in DOMAIN T /\ q - 1 > p /\ T[q - 1] = P[q]
      BY <1>1
    <3> QED
      BY <1>2, <3>1
  <2> QED
    BY <1>2, <2>1, <2>2 DEF ToldInv
<1>3. ASSUME NEW s \in Slots, w[s].reader # Nothing, \A p \in DOMAIN T : Told(T[p]) # w[s].reader
      PROVE  \/ Told(P[1]) = w[s].reader /\ CardOf(P[1]) = w[s].card
             \/ \A p \in DOMAIN P : Told(P[p]) # w[s].reader
  <2>1. \A p \in DOMAIN P : p # 1 => Told(P[p]) # w[s].reader
    BY <1>1, <1>3
  <2>2. CASE Told(P[1]) = w[s].reader
    <3>1. \A q \in DOMAIN P : q > 1 => Told(P[q]) # w[s].reader
      BY <2>1
    <3> QED
      BY <1>1, <1>3, <2>2, <3>1 DEF ToldInv
  <2> QED
    BY <2>1, <2>2
<1> QED
  BY <1>2, <1>3 DEF ToldInv

(***************************************************************************)
(* What a step posts.  T, v, mi and hm stand for the next P, w, ni and     *)
(* home.                                                                   *)
(***************************************************************************)

New(P, T) == DOMAIN T \ DOMAIN P

Grown(P, T) ==
    /\ T \in Seq(Block)
    /\ \A p \in DOMAIN P : p \in DOMAIN T /\ T[p] = P[p] /\ \A q \in New(P, T) : p < q

\* One ObjectId more, or none; the new one is introduced by one new block.
PostsIntro(P, T, ni, mi) ==
    /\ mi \in {ni, ni + 1}
    /\ \A p \in New(P, T) : Intro(T[p]) # Nothing => Intro(T[p]) = ni /\ mi = ni + 1
    /\ mi = ni + 1 => \E p \in New(P, T) : Intro(T[p]) = ni
    /\ \A p, q \in New(P, T) : Intro(T[p]) = ni /\ Intro(T[q]) = ni => p = q
    /\ \A p \in New(P, T) : Knows(T[p]) # ni

\* What a new block names was there before or is the new one; what is not
\* there any more is withdrawn by one.
PostsLeave(P, T, w, v, ni, mi, hm) ==
    /\ \A i \in Ids : Present(v, i) => Present(w, i) \/ i = ni
    /\ \A i \in Ids : Present(w, i) => Present(v, i) \/ \E q \in New(P, T) : Gone(T[q]) = i
    /\ \A q \in New(P, T) : Gone(T[q]) # Nothing => Present(w, Gone(T[q]))
    /\ \A q \in New(P, T) : \A i \in Named(T[q]) : Present(w, i) \/ (i = ni /\ Present(v, ni))
    /\ \A p \in New(P, T) : Gone(T[p]) # Nothing =>
         /\ ~Present(v, Gone(T[p]))
         /\ \A q \in New(P, T) : q > p => Gone(T[p]) \notin Named(T[q]) /\ Gone(T[q]) # Gone(T[p])
         /\ hm[Gone(T[p])] # Nothing =>
              /\ \/ Present(v, hm[Gone(T[p])])
                 \/ \E q \in New(P, T) : q > p /\ Gone(T[q]) = hm[Gone(T[p])]
              /\ \A c \in (Gone(T[p]) + 1)..(mi - 1) : hm[c] # hm[Gone(T[p])]

\* What it tells of a reader is true, and a reader it does not tell of is as it was.
PostsTold(P, T, w, v) ==
    \A s \in Slots : v[s].reader # Nothing =>
        /\ \A p \in New(P, T) : Told(T[p]) = v[s].reader => CardOf(T[p]) = v[s].card
        /\ (\A p \in New(P, T) : Told(T[p]) # v[s].reader) => v[s] = w[s]

LEMMA AppendIntro ==
  ASSUME NEW P \in Seq(Block), NEW T, Grown(P, T), NEW nh, NEW ni \in Nat, NEW mi,
         IntroInv(P, nh, ni), PostsIntro(P, T, ni, mi), \A p \in DOMAIN P : Knows(P[p]) # ni
  PROVE  IntroInv(T, nh, mi)
<1>1. /\ \A p \in DOMAIN P : p \in DOMAIN T /\ T[p] = P[p] /\ p \in Nat
      /\ \A p \in DOMAIN T : p \in Nat
      /\ \A p \in DOMAIN P : \A q \in New(P, T) : p < q
      /\ \A p \in DOMAIN T : p \in DOMAIN P \/ p \in New(P, T)
      /\ \A p \in New(P, T) : p \in DOMAIN T
  BY DEF Grown, New
<1>2. nh \in 1..ni /\ nh \in Nat /\ mi \in {ni, ni + 1} /\ nh \in 1..mi /\ ni # Nothing
  BY DEF IntroInv, PostsIntro, Nothing
<1>3. \A p \in DOMAIN T : Intro(T[p]) # Nothing => Intro(T[p]) \in nh..(mi - 1)
  <2> SUFFICES ASSUME NEW p \in DOMAIN T, Intro(T[p]) # Nothing PROVE Intro(T[p]) \in nh..(mi - 1)
    OBVIOUS
  <2>1. CASE p \in DOMAIN P
    <3>1. Intro(T[p]) \in nh..(ni - 1)
      BY <1>1, <2>1 DEF IntroInv
    <3> QED
      BY <1>2, <3>1
  <2>2. CASE p \in New(P, T)
    BY <1>2, <2>2 DEF PostsIntro
  <2> QED
    BY <1>1, <2>1, <2>2
<1>4. \A i \in nh..(mi - 1) : \E p \in DOMAIN T : Intro(T[p]) = i
  <2> SUFFICES ASSUME NEW i \in nh..(mi - 1) PROVE \E p \in DOMAIN T : Intro(T[p]) = i
    OBVIOUS
  <2>1. CASE i \in nh..(ni - 1)
    <3>1. PICK p \in DOMAIN P : Intro(P[p]) = i
      BY <2>1 DEF IntroInv
    <3> QED
      BY <1>1, <3>1
  <2>2. CASE i = ni /\ mi = ni + 1
    <3>1. PICK p \in New(P, T) : Intro(T[p]) = ni
      BY <2>2 DEF PostsIntro
    <3> QED
      BY <1>1, <2>2, <3>1
  <2> QED
    BY <1>2, <2>1, <2>2
<1>5. ASSUME NEW p \in DOMAIN T, NEW q \in DOMAIN T, p < q, Intro(T[p]) # Nothing, Intro(T[q]) # Nothing
      PROVE  Intro(T[p]) < Intro(T[q])
  <2>1. CASE q \in DOMAIN P
    <3>1. p \in DOMAIN P
      BY <1>1, <1>5, <2>1
    <3> QED
      BY <1>1, <1>5, <2>1, <3>1 DEF IntroInv
  <2>2. CASE q \in New(P, T)
    <3>1. Intro(T[q]) = ni
      BY <1>5, <2>2 DEF PostsIntro
    <3>2. CASE p \in DOMAIN P
      <4>1. Intro(T[p]) \in nh..(ni - 1)
        BY <1>1, <1>5, <3>2 DEF IntroInv
      <4> QED
        BY <1>2, <3>1, <4>1
    <3>3. CASE p \in New(P, T)
      <4>1. Intro(T[p]) = ni
        BY <1>5, <3>3 DEF PostsIntro
      <4>2. p = q
        BY <2>2, <3>1, <3>3, <4>1 DEF PostsIntro
      <4> QED
        BY <1>1, <1>5, <4>2
    <3> QED
      BY <1>1, <3>2, <3>3
  <2> QED
    BY <1>1, <2>1, <2>2
<1>6. ASSUME NEW p \in DOMAIN T, NEW q \in DOMAIN T, p <= q, Intro(T[q]) # Nothing
      PROVE  Knows(T[p]) # Intro(T[q])
  <2>1. CASE q \in DOMAIN P
    <3>1. p \in DOMAIN P
      BY <1>1, <1>6, <2>1
    <3> QED
      BY <1>1, <1>6, <2>1, <3>1 DEF IntroInv
  <2>2. CASE q \in New(P, T)
    <3>1. Intro(T[q]) = ni
      BY <1>6, <2>2 DEF PostsIntro
    <3>2. Knows(T[p]) # ni
      BY <1>1 DEF PostsIntro
    <3> QED
      BY <3>1, <3>2
  <2> QED
    BY <1>1, <2>1, <2>2
<1> QED
  BY <1>2, <1>3, <1>4, <1>5, <1>6 DEF IntroInv

LEMMA AppendTold ==
  ASSUME NEW P \in Seq(Block), NEW T, Grown(P, T), NEW w, NEW v, ToldInv(P, w), PostsTold(P, T, w, v)
  PROVE  ToldInv(T, v)
<1>1. /\ \A p \in DOMAIN P : p \in DOMAIN T /\ T[p] = P[p]
      /\ \A p \in DOMAIN P : \A q \in New(P, T) : p < q
      /\ \A p \in DOMAIN T : p \in DOMAIN P \/ p \in New(P, T)
      /\ \A p \in New(P, T) : p \in DOMAIN T
  BY DEF Grown, New
<1>2. ASSUME NEW s \in Slots, v[s].reader # Nothing, NEW p \in DOMAIN T, Told(T[p]) = v[s].reader,
             \A q \in DOMAIN T : q > p => Told(T[q]) # v[s].reader
      PROVE  CardOf(T[p]) = v[s].card
  <2>1. CASE p \in New(P, T)
    BY <1>2, <2>1 DEF PostsTold
  <2>2. CASE p \in DOMAIN P
    <3>1. \A q \in New(P, T) : q > p
      BY <1>1, <2>2 DEF Grown, New
    <3>2. v[s] = w[s]
      BY <1>1, <1>2, <3>1 DEF PostsTold
    <3>3. Told(P[p]) = w[s].reader /\ w[s].reader # Nothing
      BY <1>1, <1>2, <2>2, <3>2
    <3>4. \A q \in DOMAIN P : q > p => Told(P[q]) # w[s].reader
      BY <1>1, <1>2, <3>2
    <3>5. CardOf(P[p]) = w[s].card
      BY <2>2, <3>3, <3>4 DEF ToldInv
    <3> QED
      BY <1>1, <2>2, <3>2, <3>5
  <2> QED
    BY <1>1, <2>1, <2>2
<1> QED
  BY <1>2 DEF ToldInv

LEMMA AppendLeave ==
  ASSUME NEW P \in Seq(Block), NEW T, Grown(P, T), NEW w, NEW v, NEW ni \in 1..(MaxIds + 1), NEW mi, NEW home, NEW hm,
         HomeInv(home, ni), BlocksInv(home, P, ni), LeaveInv(home, P, w, ni),
         PostsIntro(P, T, ni, mi), PostsLeave(P, T, w, v, ni, mi, hm),
         \A i \in 1..(ni - 1) : hm[i] = home[i]
  PROVE  /\ LeaveInv(hm, T, v, mi)
         /\ \A i \in 1..(ni - 1) : (Present(v, i) \/ Leaving(T, i)) <=> (Present(w, i) \/ Leaving(P, i))
<1>1. /\ \A p \in DOMAIN P : p \in DOMAIN T /\ T[p] = P[p]
      /\ \A p \in DOMAIN P : \A q \in New(P, T) : p < q /\ q > p /\ ~(q < p) /\ ~(p > q)
      /\ \A p \in DOMAIN T : (p \in DOMAIN P \/ p \in New(P, T)) /\ T[p] \in Block
      /\ \A p \in New(P, T) : p \in DOMAIN T
  BY DEF Grown, New
<1>2. /\ ni \in Nat /\ mi \in {ni, ni + 1} /\ \A i \in 1..(ni - 1) : i \in Ids /\ i # ni /\ i # Nothing
      /\ \A i \in Ids : i # Nothing
  BY PresenceAssumption DEF PostsIntro, Ids, Nothing
<1>3. \A i \in Ids : Present(w, i) => Present(v, i) \/ \E q \in New(P, T) : Gone(T[q]) = i
  BY DEF PostsLeave
<1>4. \A i \in Ids : Present(v, i) => Present(w, i) \/ i = ni
  BY DEF PostsLeave
<1>5. \A i \in Ids : Present(w, i) => Present(v, i) \/ Leaving(T, i)
  BY <1>1, <1>3 DEF Leaving
<1>6. \A i : Leaving(P, i) => Leaving(T, i)
  BY <1>1 DEF Leaving
<1>7. \A p \in DOMAIN P : Gone(P[p]) # Nothing => Gone(P[p]) \in 1..(ni - 1)
  BY <1>1 DEF BlocksInv, BlockOK, Gone
<1>8. \A i \in 1..(ni - 1) : home[i] # Nothing => home[i] \in Ids
  <2> SUFFICES ASSUME NEW i \in 1..(ni - 1), home[i] # Nothing PROVE home[i] \in Ids
    OBVIOUS
  <2>1. home[i] \in 0..MaxIds
    BY <1>2 DEF HomeInv
  <2> QED
    BY <2>1, PresenceAssumption DEF Ids, Nothing
<1>9. \A i \in 1..(ni - 1) : (Present(v, i) \/ Leaving(T, i)) <=> (Present(w, i) \/ Leaving(P, i))
  <2> SUFFICES ASSUME NEW i \in 1..(ni - 1)
               PROVE  (Present(v, i) \/ Leaving(T, i)) <=> (Present(w, i) \/ Leaving(P, i))
    OBVIOUS
  <2>1. Present(v, i) => Present(w, i)
    BY <1>2, <1>4
  <2>2. Leaving(T, i) => Leaving(P, i) \/ Present(w, i)
    <3> SUFFICES ASSUME NEW p \in DOMAIN T, Gone(T[p]) = i PROVE Leaving(P, i) \/ Present(w, i)
      BY DEF Leaving
    <3>1. CASE p \in DOMAIN P
      BY <1>1, <3>1 DEF Leaving
    <3>2. CASE p \in New(P, T)
      BY <1>2, <3>2 DEF PostsLeave
    <3> QED
      BY <1>1, <3>1, <3>2
  <2> QED
    BY <1>2, <1>5, <1>6, <2>1, <2>2
<1>10. ASSUME NEW p \in DOMAIN P, NEW g, g = Gone(T[p]), g # Nothing
       PROVE  /\ ~Present(v, g)
              /\ \A q \in DOMAIN T : q > p => g \notin Named(T[q]) /\ Gone(T[q]) # g
              /\ hm[g] # Nothing =>
                   /\ \/ Present(v, hm[g])
                      \/ \E q \in DOMAIN T : q > p /\ Gone(T[q]) = hm[g]
                   /\ \A c \in (g + 1)..(mi - 1) : hm[c] = hm[g] => \E q \in DOMAIN T : q > p /\ Intro(T[q]) = c
  <2>1. g = Gone(P[p]) /\ g \in 1..(ni - 1) /\ g \in Ids /\ g # ni
    BY <1>1, <1>2, <1>7, <1>10
  <2>2. /\ ~Present(w, g)
        /\ \A q \in DOMAIN P : q > p => g \notin Named(P[q]) /\ Gone(P[q]) # g
        /\ home[g] # Nothing =>
              /\ \/ Present(w, home[g])
                 \/ \E q \in DOMAIN P : q > p /\ Gone(P[q]) = home[g]
              /\ \A c \in (g + 1)..(ni - 1) : home[c] = home[g] => \E q \in DOMAIN P : q > p /\ Intro(P[q]) = c
    BY <1>10, <2>1 DEF LeaveInv
  <2>3. ~Present(v, g)
    BY <1>4, <2>1, <2>2
  <2>4. \A q \in New(P, T) : g \notin Named(T[q]) /\ Gone(T[q]) # g
    BY <1>10, <2>1, <2>2 DEF PostsLeave
  <2>5. \A q \in DOMAIN T : q > p => g \notin Named(T[q]) /\ Gone(T[q]) # g
    BY <1>1, <2>2, <2>4
  <2>6. hm[g] = home[g]
    BY <2>1
  <2>7. ASSUME home[g] # Nothing
        PROVE  \/ Present(v, home[g])
               \/ \E q \in DOMAIN T : q > p /\ Gone(T[q]) = home[g]
    <3>1. CASE Present(w, home[g])
      <4>1. home[g] \in Ids
        BY <1>8, <2>1, <2>7
      <4> QED
        BY <1>1, <1>3, <3>1, <4>1
    <3>2. CASE \E q \in DOMAIN P : q > p /\ Gone(P[q]) = home[g]
      BY <1>1, <3>2
    <3> QED
      BY <2>2, <2>7, <3>1, <3>2
  <2>8. ASSUME home[g] # Nothing, NEW c \in (g + 1)..(mi - 1), hm[c] = home[g]
        PROVE  \E q \in DOMAIN T : q > p /\ Intro(T[q]) = c
    <3>1. CASE c \in (g + 1)..(ni - 1)
      <4>1. home[c] = home[g]
        BY <1>2, <2>1, <2>8, <3>1
      <4> QED
        BY <1>1, <2>2, <2>8, <3>1, <4>1
    <3>2. CASE c = ni /\ mi = ni + 1
      BY <1>1, <3>2 DEF PostsIntro
    <3>3. c \in (g + 1)..(ni - 1) \/ (c = ni /\ mi = ni + 1)
      BY ONLY <1>2, <2>1, c \in (g + 1)..(mi - 1)
    <3> QED
      BY <3>1, <3>2, <3>3
  <2> QED
    BY <2>3, <2>5, <2>6, <2>7, <2>8
<1>11. ASSUME NEW p \in New(P, T), NEW g, g = Gone(T[p]), g # Nothing
       PROVE  /\ ~Present(v, g)
              /\ \A q \in DOMAIN T : q > p => g \notin Named(T[q]) /\ Gone(T[q]) # g
              /\ hm[g] # Nothing =>
                   /\ \/ Present(v, hm[g])
                      \/ \E q \in DOMAIN T : q > p /\ Gone(T[q]) = hm[g]
                   /\ \A c \in (g + 1)..(mi - 1) : hm[c] = hm[g] => \E q \in DOMAIN T : q > p /\ Intro(T[q]) = c
  <2>1. /\ ~Present(v, g)
        /\ \A q \in New(P, T) : q > p => g \notin Named(T[q]) /\ Gone(T[q]) # g
        /\ hm[g] # Nothing =>
              /\ \/ Present(v, hm[g])
                 \/ \E q \in New(P, T) : q > p /\ Gone(T[q]) = hm[g]
              /\ \A c \in (g + 1)..(mi - 1) : hm[c] # hm[g]
    BY <1>11 DEF PostsLeave
  <2> QED
    BY <1>1, <2>1
<1>12. ASSUME NEW p \in DOMAIN T, NEW i \in Named(T[p]) PROVE Present(v, i) \/ Leaving(T, i)
  <2>1. i \in Ids
    BY <1>1, BlockTypes
  <2>2. CASE p \in DOMAIN P
    <3>1. Present(w, i) \/ Leaving(P, i)
      BY <1>1, <2>2 DEF LeaveInv
    <3> QED
      BY <1>5, <1>6, <2>1, <3>1
  <2>3. CASE p \in New(P, T)
    <3>1. Present(w, i) \/ (i = ni /\ Present(v, ni))
      BY <2>3 DEF PostsLeave
    <3> QED
      BY <1>5, <2>1, <3>1
  <2> QED
    BY <1>1, <2>2, <2>3
<1>13. LeaveInv(hm, T, v, mi)
  BY <1>1, <1>10, <1>11, <1>12 DEF LeaveInv
<1> QED
  BY <1>9, <1>13

\* All of it: a queue in order grows into a queue in order, and the objects
\* that were there or on their way out still are.
Posts(P, T, w, v, ni, mi, home, hm) ==
    /\ Grown(P, T)
    /\ PostsIntro(P, T, ni, mi) /\ PostsLeave(P, T, w, v, ni, mi, hm) /\ PostsTold(P, T, w, v)
    /\ \A p \in New(P, T) : BlockOK(hm, T[p], mi)
    /\ \A i \in 1..(ni - 1) : hm[i] = home[i]
    /\ HomeInv(hm, mi) /\ WorldInv(hm, v, mi)

LEMMA AppendQueue ==
  ASSUME NEW P \in Seq(Block), NEW T, NEW w, NEW v, NEW nh, NEW ni \in 1..(MaxIds + 1), NEW mi, NEW home, NEW hm,
         QueueInv(home, P, w, nh, ni), Posts(P, T, w, v, ni, mi, home, hm)
  PROVE  /\ QueueInv(hm, T, v, nh, mi)
         /\ \A i \in 1..(ni - 1) : (Present(v, i) \/ Leaving(T, i)) <=> (Present(w, i) \/ Leaving(P, i))
<1>1. /\ Grown(P, T) /\ HomeInv(home, ni) /\ BlocksInv(home, P, ni) /\ LeaveInv(home, P, w, ni)
      /\ PostsIntro(P, T, ni, mi) /\ PostsLeave(P, T, w, v, ni, mi, hm)
      /\ \A i \in 1..(ni - 1) : hm[i] = home[i]
      /\ IntroInv(P, nh, ni) /\ ToldInv(P, w) /\ PostsTold(P, T, w, v)
      /\ HomeInv(hm, mi) /\ WorldInv(hm, v, mi)
  BY DEF QueueInv, Posts
<1>2. ni \in Nat /\ mi \in {ni, ni + 1}
  BY <1>1, PresenceAssumption DEF PostsIntro
<1>3. \A p \in DOMAIN P : Knows(P[p]) # ni
  <2> SUFFICES ASSUME NEW p \in DOMAIN P PROVE Knows(P[p]) # ni
    OBVIOUS
  <2>1. Knows(P[p]) \in {Nothing} \cup 1..(ni - 1)
    BY <1>1 DEF BlocksInv, BlockOK, Knows
  <2> QED
    BY <2>1, PresenceAssumption DEF Nothing
<1>4. IntroInv(T, nh, mi)
  BY <1>1, <1>2, <1>3, AppendIntro
<1>5. ToldInv(T, v)
  BY <1>1, AppendTold
<1>6. /\ LeaveInv(hm, T, v, mi)
      /\ \A i \in 1..(ni - 1) : (Present(v, i) \/ Leaving(T, i)) <=> (Present(w, i) \/ Leaving(P, i))
  BY <1>1, AppendLeave
<1>7. ASSUME NEW p \in DOMAIN T PROVE BlockOK(hm, T[p], mi)
  <2>1. CASE p \in DOMAIN P
    <3>1. PICK b : b = P[p]
      OBVIOUS
    <3>2. T[p] = b /\ BlockOK(home, b, ni)
      BY <1>1, <2>1, <3>1 DEF Grown, BlocksInv
    <3>3. \A i \in 1..(ni - 1) : i \in 1..(mi - 1) /\ hm[i] = home[i]
      BY <1>1, <1>2
    <3>4. BlockOK(hm, b, mi)
      <4>1. b.do # "type" => b.id \in 1..(mi - 1) /\ hm[b.id] = home[b.id]
        BY <3>2, <3>3 DEF BlockOK
      <4>2. b.do = "seat" /\ b.of # Nothing => b.of \in 1..(mi - 1) /\ hm[b.of] = b.id
        BY <3>2, <3>3 DEF BlockOK
      <4> QED
        BY <3>2, <4>1, <4>2 DEF BlockOK
    <3> QED
      BY <3>2, <3>4
  <2>2. CASE p \in New(P, T)
    BY <2>2 DEF Posts
  <2> QED
    BY <2>1, <2>2 DEF New
<1> QED
  BY <1>1, <1>4, <1>5, <1>6, <1>7 DEF QueueInv, BlocksInv

\* The loop keeps what it has while others post.
LEMMA PostLoop ==
  ASSUME NEW home, NEW hm, TypeOK, LoopInv(home), QueueInv(home, posted, world, nextHandle, nextId),
         Posts(posted, posted', world, world', nextId, nextId', home, hm),
         UNCHANGED <<idToHandle, nextHandle, readers, readerNames, cards, pending>>,
         \A i \in DOMAIN probe' : i \in DOMAIN probe /\ probe'[i] = probe[i],
         \A i \in DOMAIN reading' : i \in DOMAIN reading /\ reading'[i] = reading[i]
  PROVE  QueueInv(hm, posted, world, nextHandle, nextId)' /\ LoopInv(hm)'
<1>t. posted \in Seq(Block) /\ nextId \in 1..(MaxIds + 1)
  BY DEF TypeOK
<1>p. PICK P, T, w, v, ni, mi, nh : P = posted /\ T = posted' /\ w = world /\ v = world' /\ ni = nextId /\ mi = nextId' /\ nh = nextHandle
  OBVIOUS
<1>1. /\ QueueInv(hm, T, v, nh, mi)
      /\ \A i \in 1..(ni - 1) : (Present(v, i) \/ Leaving(T, i)) <=> (Present(w, i) \/ Leaving(P, i))
  <2>1. P \in Seq(Block) /\ ni \in 1..(MaxIds + 1) /\ QueueInv(home, P, w, nh, ni) /\ Posts(P, T, w, v, ni, mi, home, hm)
    BY <1>p, <1>t
  <2> QED
    BY ONLY <2>1, AppendQueue
<1>2. QueueInv(hm, posted, world, nextHandle, nextId)'
  BY <1>1, <1>p
<1>3. nh \in 1..ni /\ ni \in Nat /\ mi \in {ni, ni + 1}
  BY <1>p, <1>t, PresenceAssumption DEF QueueInv, IntroInv, Posts, PostsIntro
<1>4. \A i : i \in 1..(nh - 1) => i \in 1..(ni - 1)
  BY <1>3
<1>5. \A i : Live(i)' <=> Live(i)
  BY <1>1, <1>4, <1>p DEF Live
<1>6. \A i : Live(i) => hm[i] = home[i]
  BY <1>4, <1>p DEF Live, Posts
<1>7. \A i \in Ids : i \in DOMAIN idToHandle' <=> Live(i)'
  BY <1>5 DEF LoopInv
<1>8. \A i \in Ids : i \in DOMAIN readers' <=> Live(i)' /\ hm[i] = Nothing
  BY <1>5, <1>6 DEF LoopInv
<1>9. ASSUME NEW s \in Slots, v[s].reader # Nothing, \A p \in DOMAIN T : Told(T[p]) # v[s].reader
      PROVE  readers'[v[s].reader].card = v[s].card
  <2>1. Grown(P, T) /\ PostsTold(P, T, w, v)
    BY <1>p DEF Posts
  <2>2. v[s] = w[s]
    BY <1>9, <2>1 DEF PostsTold, New
  <2>3. \A p \in DOMAIN P : Told(P[p]) # w[s].reader
    BY <1>9, <2>1, <2>2 DEF Grown
  <2> QED
    BY <1>9, <1>p, <2>2, <2>3 DEF LoopInv
<1>10. \A i \in DOMAIN cards' : /\ Live(i)' /\ hm[i] # Nothing
                                /\ cards'[i].id = i /\ cards'[i].reader = hm[i] /\ cards'[i].type \in {Nothing, i}
  BY <1>5, <1>6 DEF LoopInv
<1>11. \A i \in Ids : i < ni => i \in 1..(ni - 1) /\ i < mi /\ hm[i] = home[i]
  <2>1. \A i \in 1..(ni - 1) : hm[i] = home[i]
    BY <1>p DEF Posts
  <2>2. \A i \in Ids : i < ni => i \in 1..(ni - 1) /\ i < mi
    BY <1>3, PresenceAssumption DEF Ids
  <2> QED
    BY <2>1, <2>2
<1>12. \A i \in DOMAIN pending' : i < mi /\ hm[i] # Nothing /\ (Present(v, i) \/ Leaving(T, i))
  <2> SUFFICES ASSUME NEW i \in DOMAIN pending PROVE i < mi /\ hm[i] # Nothing /\ (Present(v, i) \/ Leaving(T, i))
    OBVIOUS
  <2>1. i \in Ids /\ i < ni /\ home[i] # Nothing /\ (Present(w, i) \/ Leaving(P, i))
    BY <1>p DEF LoopInv, TypeOK, IsMap
  <2> QED
    BY <1>1, <1>11, <2>1
<1>13. \A i \in DOMAIN probe' : i < mi /\ hm[i] # Nothing /\ probe'[i].reader = hm[i]
  <2> SUFFICES ASSUME NEW i \in DOMAIN probe' PROVE i < mi /\ hm[i] # Nothing /\ probe'[i].reader = hm[i]
    OBVIOUS
  <2>1. i \in DOMAIN probe /\ probe'[i] = probe[i]
    OBVIOUS
  <2>2. i \in Ids /\ i < ni /\ home[i] # Nothing /\ probe[i].reader = home[i]
    BY <1>p, <2>1 DEF LoopInv, TypeOK, IsMap
  <2> QED
    BY <1>11, <2>1, <2>2
<1>14. \A i \in DOMAIN reading' : reading'[i] = i
  BY DEF LoopInv
<1>15. /\ readerNames' = DOMAIN readers' /\ \A i \in DOMAIN readers' : readers'[i].id = i
       /\ \A i \in DOMAIN idToHandle' : idToHandle'[i] = i
  BY DEF LoopInv
<1>16. LoopInv(hm)'
  BY <1>7, <1>8, <1>9, <1>10, <1>12, <1>13, <1>14, <1>15, <1>p DEF LoopInv
<1> QED
  BY <1>2, <1>16

AddsOne(P, T, b) == Grown(P, T) /\ \E n \in Nat : New(P, T) = {n} /\ T[n] = b
AddsTwo(P, T, b, c) ==
    Grown(P, T) /\ \E n \in Nat, m \in Nat : n < m /\ New(P, T) = {n, m} /\ T[n] = b /\ T[m] = c

LEMMA OneMore ==
  ASSUME NEW P \in Seq(Block), NEW b \in Block
  PROVE  AddsOne(P, P \o <<b>>, b)
<1>0. PICK T : T = P \o <<b>>
  OBVIOUS
<1>1. T \in Seq(Block) /\ DOMAIN P = 1..Len(P) /\ Len(P) \in Nat /\ DOMAIN T = 1..(Len(P) + 1)
  BY <1>0
<1>2. T[Len(P) + 1] = b /\ \A p \in DOMAIN P : T[p] = P[p]
  BY <1>0
<1>3. New(P, T) = {Len(P) + 1}
  BY <1>1 DEF New
<1>4. Grown(P, T)
  BY <1>1, <1>2, <1>3 DEF Grown
<1> QED
  BY <1>0, <1>1, <1>2, <1>3, <1>4 DEF AddsOne

LEMMA TwoMore ==
  ASSUME NEW P \in Seq(Block), NEW b \in Block, NEW c \in Block
  PROVE  AddsTwo(P, P \o <<b, c>>, b, c)
<1>0. PICK T : T = P \o <<b, c>>
  OBVIOUS
<1>1. T \in Seq(Block) /\ DOMAIN P = 1..Len(P) /\ Len(P) \in Nat /\ DOMAIN T = 1..(Len(P) + 2)
  BY <1>0
<1>2. T[Len(P) + 1] = b /\ T[Len(P) + 2] = c /\ \A p \in DOMAIN P : T[p] = P[p]
  BY <1>0
<1>3. PICK n \in Nat, m \in Nat : n = Len(P) + 1 /\ m = Len(P) + 2
  BY <1>1
<1>4. n < m /\ New(P, T) = {n, m} /\ T[n] = b /\ T[m] = c
  BY <1>1, <1>2, <1>3 DEF New
<1>5. \A p \in DOMAIN P : p \in DOMAIN T /\ p < n /\ p < m
  BY <1>1, <1>3
<1>6. Grown(P, T)
  BY <1>1, <1>2, <1>4, <1>5 DEF Grown
<1> QED
  BY <1>0, <1>4, <1>6 DEF AddsTwo

\* A new object, a reader or a card of the reader r.
Housed(hm, home, i, r) == hm = [home EXCEPT ![i] = r]

LEMMA OneMoreHome ==
  ASSUME NEW ni \in Ids, NEW home, HomeInv(home, ni), NEW r \in 0..(ni - 1), r # Nothing => home[r] = Nothing,
         NEW hm, Housed(hm, home, ni, r)
  PROVE  HomeInv(hm, ni + 1) /\ hm[ni] = r /\ \A i \in 1..(ni - 1) : hm[i] = home[i]
<1> USE DEF Housed
<1>1. ni \in Nat /\ ni > 0 /\ ni <= MaxIds /\ MaxIds \in Nat
  BY PresenceAssumption DEF Ids
<1>2. home \in [Ids -> 0..MaxIds] /\ \A i \in 1..(ni - 1) : i \in Ids /\ i # ni
  BY <1>1 DEF HomeInv, Ids
<1>3. hm \in [Ids -> 0..MaxIds] /\ hm[ni] = r /\ \A i \in 1..(ni - 1) : hm[i] = home[i]
  BY <1>1, <1>2
<1>4. ASSUME NEW i \in 1..ni PROVE hm[i] < i /\ (hm[i] # Nothing => hm[hm[i]] = Nothing)
  <2>1. CASE i = ni
    <3>1. hm[i] = r /\ r < i
      BY <1>1, <1>3, <2>1
    <3>2. r # Nothing => r \in 1..(ni - 1)
      BY <1>1 DEF Nothing
    <3> QED
      BY <1>3, <3>1, <3>2
  <2>2. CASE i \in 1..(ni - 1)
    <3>1. hm[i] = home[i] /\ home[i] < i /\ (home[i] # Nothing => home[home[i]] = Nothing) /\ home[i] \in 0..MaxIds
      BY <1>2, <1>3, <2>2 DEF HomeInv
    <3>2. home[i] # Nothing => home[i] \in 1..(ni - 1)
      BY <1>1, <2>2, <3>1 DEF Nothing
    <3> QED
      BY <1>3, <3>1, <3>2
  <2> QED
    BY <1>1, <2>1, <2>2
<1>5. (ni + 1) - 1 = ni
  BY <1>1
<1> QED
  BY <1>3, <1>4, <1>5 DEF HomeInv

\* A block that introduces, withdraws and tells nothing.
LEMMA QuietPosts ==
  ASSUME NEW P \in Seq(Block), NEW b \in Block, NEW T, AddsOne(P, T, b), NEW w, NEW ni, NEW home,
         HomeInv(home, ni), WorldInv(home, w, ni), BlockOK(home, b, ni), ni \in Nat,
         Intro(b) = Nothing, Gone(b) = Nothing, Told(b) = Nothing, Knows(b) # ni,
         \A i \in Named(b) : Present(w, i)
  PROVE  Posts(P, T, w, w, ni, ni, home, home)
<1>1. PICK n \in Nat : New(P, T) = {n} /\ T[n] = b
  BY DEF AddsOne
<1>2. Grown(P, T)
  BY DEF AddsOne
<1>3. PostsIntro(P, T, ni, ni)
  <2>1. ni # ni + 1
    BY ONLY ni \in Nat
  <2> QED
    BY <1>1, <2>1 DEF PostsIntro
<1>4. PostsLeave(P, T, w, w, ni, ni, home)
  BY <1>1 DEF PostsLeave
<1>5. PostsTold(P, T, w, w)
  BY <1>1 DEF PostsTold
<1> QED
  BY <1>1, <1>2, <1>3, <1>4, <1>5 DEF Posts

(***************************************************************************)
(* What the monitor posts.                                                 *)
(***************************************************************************)

Says(b, intro, gone, told, cardOf, knows, named) ==
    /\ b \in Block
    /\ Intro(b) = intro /\ Gone(b) = gone /\ Told(b) = told /\ CardOf(b) = cardOf
    /\ Knows(b) = knows /\ Named(b) = named

LEMMA SaysReader ==
  ASSUME NEW i \in Ids
  PROVE  Says([do |-> "reader", id |-> i], i, Nothing, i, Nothing, Nothing, {i})
  BY DEF Says, Block, Intro, Gone, Told, CardOf, Knows, Named

LEMMA SaysCard ==
  ASSUME NEW i \in Ids, NEW r \in Ids
  PROVE  Says([do |-> "card", id |-> i, of |-> r], Nothing, Nothing, Nothing, Nothing, Nothing, {i})
  BY DEF Says, Block, Intro, Gone, Told, CardOf, Knows, Named

LEMMA SaysSeat ==
  ASSUME NEW r \in Ids, NEW c \in Opt
  PROVE  Says([do |-> "seat", id |-> r, of |-> c], c, Nothing, r, c, r, {r, c} \ {Nothing})
  BY DEF Says, Block, Intro, Gone, Told, CardOf, Knows, Named, Opt

LEMMA SaysWithdraw ==
  ASSUME NEW i \in Ids
  PROVE  Says([do |-> "withdraw", id |-> i], Nothing, i, Nothing, Nothing, i, {})
  BY DEF Says, Block, Intro, Gone, Told, CardOf, Knows, Named

\* What is in a slot, by a world in order.
LEMMA InSlot ==
  ASSUME NEW w \in Places, NEW ni \in 1..(MaxIds + 1), NEW home, WorldInv(home, w, ni), NEW s \in Slots
  PROVE  /\ w[s].reader \in Opt /\ w[s].card \in Opt
         /\ w[s].reader # Nothing => w[s].reader \in Ids /\ w[s].reader \in 1..(ni - 1) /\ home[w[s].reader] = Nothing
         /\ w[s].card # Nothing => /\ w[s].card \in Ids /\ w[s].card \in 1..(ni - 1) /\ w[s].reader # Nothing
                                   /\ home[w[s].card] = w[s].reader
<1>1. w[s].reader \in Opt /\ w[s].card \in Opt
  BY DEF Places
<1>2. \A i \in Opt : i # Nothing /\ i < ni => i \in Ids /\ i \in 1..(ni - 1)
  BY PresenceAssumption DEF Opt, Ids, Nothing
<1> QED
  BY <1>1, <1>2 DEF WorldInv

LEMMA PlugPosts ==
  ASSUME NEW P \in Seq(Block), NEW b, NEW T, AddsOne(P, T, b), NEW w \in Places, NEW v, NEW ni \in Ids,
         NEW home, NEW hm, HomeInv(home, ni), WorldInv(home, w, ni), NEW s \in Slots, w[s].reader = Nothing,
         b = [do |-> "reader", id |-> ni], v = [w EXCEPT ![s].reader = ni], Housed(hm, home, ni, Nothing)
  PROVE  Posts(P, T, w, v, ni, ni + 1, home, hm)
<1>0. ni \in Nat /\ ni # Nothing /\ ni \in 1..(MaxIds + 1) /\ ni # ni + 1 /\ Nothing \in 0..(ni - 1)
  BY PresenceAssumption DEF Ids, Nothing
<1>1. Grown(P, T) /\ \E n \in Nat : New(P, T) = {n} /\ T[n] = b
  BY DEF AddsOne
<1>2. PICK n \in Nat : New(P, T) = {n} /\ T[n] = b
  BY <1>1
<1>3. Says(b, ni, Nothing, ni, Nothing, Nothing, {ni})
  BY SaysReader
<1>4. HomeInv(hm, ni + 1) /\ hm[ni] = Nothing /\ \A i \in 1..(ni - 1) : hm[i] = home[i]
  BY ONLY <1>0, ni \in Ids, HomeInv(home, ni), Housed(hm, home, ni, Nothing), OneMoreHome
<1>5. \A t \in Slots :
         /\ w[t].reader # Nothing => w[t].reader \in 1..(ni - 1) /\ home[w[t].reader] = Nothing
         /\ w[t].card # Nothing => /\ w[t].card \in 1..(ni - 1) /\ w[t].reader # Nothing
                                   /\ home[w[t].card] = w[t].reader
  BY <1>0, InSlot
<1>6. w[s].card = Nothing
  BY <1>5
<1>7. /\ v[s].reader = ni /\ v[s].card = Nothing
      /\ \A t \in Slots : t # s => v[t] = w[t]
  BY <1>6 DEF Places
<1>8. Present(v, ni) /\ \A i \in Ids : Present(v, i) <=> Present(w, i) \/ i = ni
  <2>1. \A i \in Ids : i # Nothing
    BY DEF Ids, Nothing
  <2> QED
    BY <1>6, <1>7, <2>1 DEF Present
<1>9. PostsIntro(P, T, ni, ni + 1)
  BY <1>0, <1>2, <1>3 DEF PostsIntro, Says
<1>10. PostsLeave(P, T, w, v, ni, ni + 1, hm)
  BY <1>2, <1>3, <1>8 DEF PostsLeave, Says
<1>11. PostsTold(P, T, w, v)
  <2> SUFFICES ASSUME NEW t \in Slots, v[t].reader # Nothing
               PROVE  /\ ni = v[t].reader => Nothing = v[t].card
                      /\ ni # v[t].reader => v[t] = w[t]
    BY <1>2, <1>3 DEF PostsTold, Says
  <2>1. CASE t = s
    BY <1>7, <2>1
  <2>2. CASE t # s
    <3>1. v[t] = w[t] /\ w[t].reader \in 1..(ni - 1)
      BY <1>5, <1>7, <2>2
    <3>2. w[t].reader # ni
      BY ONLY <1>0, <3>1
    <3> QED
      BY <3>1, <3>2
  <2> QED
    BY <2>1, <2>2
<1>12. BlockOK(hm, b, ni + 1)
  BY <1>0, <1>4 DEF BlockOK
<1>13. WorldInv(hm, v, ni + 1)
  <2>1. ASSUME NEW t \in Slots
        PROVE  /\ v[t].reader # Nothing => v[t].reader < ni + 1 /\ hm[v[t].reader] = Nothing
               /\ v[t].card # Nothing =>
                    /\ v[t].reader # Nothing
                    /\ v[t].card < ni + 1 /\ hm[v[t].card] = v[t].reader
                    /\ \A c \in (v[t].card + 1)..((ni + 1) - 1) : hm[c] # v[t].reader
    <3>1. CASE t = s
      BY <1>0, <1>4, <1>7, <3>1
    <3>2. CASE t # s
      <4>1. v[t] = w[t]
        BY <1>7, <3>2
      <4>2. \A i \in 1..(ni - 1) : i < ni + 1 /\ hm[i] = home[i]
        BY <1>0, <1>4
      <4>3. w[t].reader # Nothing => w[t].reader < ni + 1 /\ hm[w[t].reader] = Nothing
        BY <1>5, <4>2
      <4>4. w[t].card # Nothing =>
              /\ w[t].reader # Nothing
              /\ w[t].card < ni + 1 /\ hm[w[t].card] = w[t].reader
        BY <1>5, <4>2
      <4>5. ASSUME w[t].card # Nothing, NEW c \in (w[t].card + 1)..((ni + 1) - 1) PROVE hm[c] # w[t].reader
        <5>1. w[t].card \in 1..(ni - 1) /\ w[t].reader # Nothing
          BY <1>5, <4>5
        <5>2. c = ni \/ (c \in (w[t].card + 1)..(ni - 1) /\ c \in 1..(ni - 1))
          BY ONLY <1>0, <5>1, c \in (w[t].card + 1)..((ni + 1) - 1)
        <5>3. c \in (w[t].card + 1)..(ni - 1) => home[c] # w[t].reader
          BY <4>5 DEF WorldInv
        <5> QED
          BY <1>4, <5>1, <5>2, <5>3
      <4> QED
        BY <4>1, <4>3, <4>4, <4>5
    <3> QED
      BY <3>1, <3>2
  <2>2. ASSUME NEW t \in Slots, NEW u \in Slots, v[t].reader # Nothing, v[t].reader = v[u].reader PROVE t = u
    <3>1. \A x \in Slots : w[x].reader # ni
      BY <1>0, <1>5 DEF Nothing
    <3> QED
      BY <1>7, <2>2, <3>1 DEF WorldInv
  <2> QED
    BY <2>1, <2>2 DEF WorldInv
<1> QED
  BY <1>1, <1>2, <1>4, <1>9, <1>10, <1>11, <1>12, <1>13 DEF Posts

LEMMA InsertPosts ==
  ASSUME NEW P \in Seq(Block), NEW b, NEW d, NEW T, AddsTwo(P, T, b, d), NEW w \in Places, NEW v, NEW ni \in Ids,
         NEW home, NEW hm, HomeInv(home, ni), WorldInv(home, w, ni), NEW s \in Slots,
         w[s].reader # Nothing, w[s].card = Nothing, NEW r, r = w[s].reader,
         b = [do |-> "card", id |-> ni, of |-> r], d = [do |-> "seat", id |-> r, of |-> ni],
         v = [w EXCEPT ![s].card = ni], Housed(hm, home, ni, r)
  PROVE  Posts(P, T, w, v, ni, ni + 1, home, hm)
<1>0. ni \in Nat /\ ni # Nothing /\ ni \in 1..(MaxIds + 1) /\ ni # ni + 1 /\ ni \in Opt
  BY PresenceAssumption DEF Ids, Opt, Nothing
<1>1. /\ Grown(P, T)
      /\ \E n \in Nat, m \in Nat : n < m /\ New(P, T) = {n, m} /\ T[n] = b /\ T[m] = d
  BY DEF AddsTwo
<1>2. PICK n \in Nat, m \in Nat : n < m /\ New(P, T) = {n, m} /\ T[n] = b /\ T[m] = d
  BY <1>1
<1>5. \A t \in Slots :
         /\ w[t].reader # Nothing => w[t].reader \in Ids /\ w[t].reader \in 1..(ni - 1) /\ home[w[t].reader] = Nothing
         /\ w[t].card # Nothing => /\ w[t].card \in 1..(ni - 1) /\ w[t].reader # Nothing
                                   /\ home[w[t].card] = w[t].reader
  BY <1>0, InSlot
<1>r. r \in Ids /\ r \in 1..(ni - 1) /\ home[r] = Nothing /\ r # ni /\ r # Nothing
  BY <1>0, <1>5
<1>3. /\ Says(b, Nothing, Nothing, Nothing, Nothing, Nothing, {ni})
      /\ Says(d, ni, Nothing, r, ni, r, {r, ni} \ {Nothing})
  BY <1>0, <1>r, SaysCard, SaysSeat
<1>4. HomeInv(hm, ni + 1) /\ hm[ni] = r /\ \A i \in 1..(ni - 1) : hm[i] = home[i]
  <2>1. r \in 0..(ni - 1)
    BY ONLY <1>0, <1>r
  <2> QED
    BY ONLY <1>r, <2>1, ni \in Ids, HomeInv(home, ni), Housed(hm, home, ni, r), OneMoreHome
<1>7. /\ v[s].reader = r /\ v[s].card = ni
      /\ \A t \in Slots : t # s => v[t] = w[t]
  BY DEF Places
<1>8. Present(v, ni) /\ Present(w, r) /\ \A i \in Ids : Present(v, i) <=> Present(w, i) \/ i = ni
  <2>1. \A i \in Ids : i # Nothing
    BY DEF Ids, Nothing
  <2> QED
    BY <1>7, <2>1 DEF Present
<1>9. PostsIntro(P, T, ni, ni + 1)
  BY <1>0, <1>2, <1>3, <1>r DEF PostsIntro, Says
<1>10. PostsLeave(P, T, w, v, ni, ni + 1, hm)
  BY <1>2, <1>3, <1>8 DEF PostsLeave, Says
<1>11. PostsTold(P, T, w, v)
  <2> SUFFICES ASSUME NEW t \in Slots, v[t].reader # Nothing
               PROVE  /\ r = v[t].reader => ni = v[t].card
                      /\ r # v[t].reader => v[t] = w[t]
    BY <1>2, <1>3 DEF PostsTold, Says
  <2>1. CASE t = s
    BY <1>7, <2>1
  <2>2. CASE t # s
    <3>1. v[t] = w[t] /\ w[t].reader # r
      BY <1>7, <2>2 DEF WorldInv
    <3> QED
      BY <3>1
  <2> QED
    BY <2>1, <2>2
<1>12. BlockOK(hm, b, ni + 1) /\ BlockOK(hm, d, ni + 1)
  <2>1. ni \in 1..((ni + 1) - 1) /\ r \in 1..((ni + 1) - 1) /\ hm[r] = Nothing
    BY <1>0, <1>4, <1>r
  <2> QED
    BY <1>4, <1>r, <2>1 DEF BlockOK
<1>13. WorldInv(hm, v, ni + 1)
  <2>1. ASSUME NEW t \in Slots
        PROVE  /\ v[t].reader # Nothing => v[t].reader < ni + 1 /\ hm[v[t].reader] = Nothing
               /\ v[t].card # Nothing =>
                    /\ v[t].reader # Nothing
                    /\ v[t].card < ni + 1 /\ hm[v[t].card] = v[t].reader
                    /\ \A c \in (v[t].card + 1)..((ni + 1) - 1) : hm[c] # v[t].reader
    <3>1. CASE t = s
      <4>1. hm[r] = Nothing /\ r < ni + 1 /\ ni < ni + 1
        BY <1>0, <1>4, <1>r
      <4>2. \A c \in (ni + 1)..((ni + 1) - 1) : FALSE
        BY ONLY <1>0
      <4> QED
        BY <1>4, <1>7, <1>r, <3>1, <4>1, <4>2
    <3>2. CASE t # s
      <4>1. v[t] = w[t] /\ w[t].reader # r
        BY <1>7, <3>2 DEF WorldInv
      <4>2. \A i \in 1..(ni - 1) : i < ni + 1 /\ hm[i] = home[i]
        BY <1>0, <1>4
      <4>3. w[t].reader # Nothing => w[t].reader < ni + 1 /\ hm[w[t].reader] = Nothing
        BY <1>5, <4>2
      <4>4. w[t].card # Nothing =>
              /\ w[t].reader # Nothing
              /\ w[t].card < ni + 1 /\ hm[w[t].card] = w[t].reader
        BY <1>5, <4>2
      <4>5. ASSUME w[t].card # Nothing, NEW c \in (w[t].card + 1)..((ni + 1) - 1) PROVE hm[c] # w[t].reader
        <5>1. w[t].card \in 1..(ni - 1) /\ w[t].reader # Nothing
          BY <1>5, <4>5
        <5>2. c = ni \/ (c \in (w[t].card + 1)..(ni - 1) /\ c \in 1..(ni - 1))
          BY ONLY <1>0, <5>1, c \in (w[t].card + 1)..((ni + 1) - 1)
        <5>3. c \in (w[t].card + 1)..(ni - 1) => home[c] # w[t].reader
          BY <4>5 DEF WorldInv
        <5> QED
          BY <1>4, <4>1, <5>1, <5>2, <5>3
      <4> QED
        BY <4>1, <4>3, <4>4, <4>5
    <3> QED
      BY <3>1, <3>2
  <2>2. \A t \in Slots : v[t].reader = w[t].reader
    BY <1>7
  <2> QED
    BY <2>1, <2>2 DEF WorldInv
<1> QED
  BY <1>1, <1>2, <1>4, <1>9, <1>10, <1>11, <1>12, <1>13 DEF Posts

\* A card is in one place only.
LEMMA CardInOneSlot ==
  ASSUME NEW w \in Places, NEW ni \in 1..(MaxIds + 1), NEW home, WorldInv(home, w, ni), NEW s \in Slots,
         w[s].card # Nothing, NEW t \in Slots
  PROVE  w[t].reader # w[s].card /\ (w[t].card = w[s].card => t = s)
<1>1. \A u \in Slots :
         /\ w[u].reader # Nothing => home[w[u].reader] = Nothing
         /\ w[u].card # Nothing => w[u].reader # Nothing /\ home[w[u].card] = w[u].reader
  BY InSlot
<1> QED
  BY <1>1 DEF WorldInv

LEMMA RemovePosts ==
  ASSUME NEW P \in Seq(Block), NEW b, NEW d, NEW T, AddsTwo(P, T, b, d), NEW w \in Places, NEW v,
         NEW ni \in 1..(MaxIds + 1), NEW home, HomeInv(home, ni), WorldInv(home, w, ni), NEW s \in Slots,
         w[s].card # Nothing, NEW c, c = w[s].card, NEW r, r = w[s].reader,
         b = [do |-> "withdraw", id |-> c], d = [do |-> "seat", id |-> r, of |-> Nothing],
         v = [w EXCEPT ![s].card = Nothing]
  PROVE  Posts(P, T, w, v, ni, ni, home, home)
<1>0. ni \in Nat /\ ni # Nothing /\ ni # ni + 1
  BY PresenceAssumption DEF Nothing
<1>1. /\ Grown(P, T)
      /\ \E n \in Nat, m \in Nat : n < m /\ New(P, T) = {n, m} /\ T[n] = b /\ T[m] = d
  BY DEF AddsTwo
<1>2. PICK n \in Nat, m \in Nat : n < m /\ New(P, T) = {n, m} /\ T[n] = b /\ T[m] = d
  BY <1>1
<1>5. \A t \in Slots :
         /\ w[t].reader # Nothing => w[t].reader \in Ids /\ w[t].reader \in 1..(ni - 1) /\ home[w[t].reader] = Nothing
         /\ w[t].card # Nothing => /\ w[t].card \in Ids /\ w[t].card \in 1..(ni - 1) /\ w[t].reader # Nothing
                                   /\ home[w[t].card] = w[t].reader
  BY InSlot
<1>r. /\ r \in Ids /\ r \in 1..(ni - 1) /\ home[r] = Nothing /\ r # Nothing
      /\ c \in Ids /\ c \in 1..(ni - 1) /\ home[c] = r
  BY <1>5
<1>s. r # ni /\ c # ni /\ r # c
  BY <1>0, <1>r
<1>3. /\ Says(b, Nothing, c, Nothing, Nothing, c, {})
      /\ Says(d, Nothing, Nothing, r, Nothing, r, {r, Nothing} \ {Nothing})
  <2>1. Nothing \in Opt
    BY DEF Opt
  <2> QED
    BY <1>r, <2>1, SaysWithdraw, SaysSeat
<1>7. /\ v[s].reader = r /\ v[s].card = Nothing
      /\ \A t \in Slots : t # s => v[t] = w[t]
  BY DEF Places
<1>8. /\ Present(w, c) /\ Present(w, r) /\ Present(v, r) /\ ~Present(v, c)
      /\ \A i \in Ids : Present(w, i) <=> Present(v, i) \/ i = c
  <2>1. \A i \in Ids : i # Nothing
    BY DEF Ids, Nothing
  <2>2. \A t \in Slots : w[t].reader # c /\ (w[t].card = c => t = s)
    BY CardInOneSlot
  <2>3. Present(w, c) /\ Present(w, r) /\ Present(v, r)
    BY <1>7 DEF Present
  <2>4. ~Present(v, c)
    BY <1>7, <1>r, <1>s, <2>1, <2>2 DEF Present
  <2>5. \A i \in Ids : Present(w, i) <=> Present(v, i) \/ i = c
    BY <1>7, <2>1, <2>3 DEF Present
  <2> QED
    BY <2>3, <2>4, <2>5
<1>9. PostsIntro(P, T, ni, ni)
  BY <1>0, <1>2, <1>3, <1>s DEF PostsIntro, Says
<1>10. PostsLeave(P, T, w, v, ni, ni, home)
  <2>1. \A e \in (c + 1)..(ni - 1) : home[e] # r
    BY DEF WorldInv
  <2>3. Gone(T[n]) = c /\ Named(T[n]) = {} /\ Gone(T[m]) = Nothing /\ Named(T[m]) = {r}
    BY <1>2, <1>3, <1>r DEF Says
  <2>4. \A p \in New(P, T) : p = n \/ p = m
    BY <1>2
  <2>5. \A p \in New(P, T) : Gone(T[p]) # Nothing => p = n /\ Gone(T[p]) = c
    BY <2>3, <2>4
  <2>6. \A q \in New(P, T) : \A i \in Named(T[q]) : i = r
    BY <2>3, <2>4
  <2>7. \A q \in New(P, T) : q > n => c \notin Named(T[q]) /\ Gone(T[q]) # c
    BY <1>2, <1>r, <1>s, <2>3, <2>4
  <2> QED
    BY <1>2, <1>8, <1>r, <2>1, <2>3, <2>5, <2>6, <2>7 DEF PostsLeave
<1>11. PostsTold(P, T, w, v)
  <2> SUFFICES ASSUME NEW t \in Slots, v[t].reader # Nothing
               PROVE  /\ r = v[t].reader => Nothing = v[t].card
                      /\ r # v[t].reader => v[t] = w[t]
    BY <1>2, <1>3 DEF PostsTold, Says
  <2>1. CASE t = s
    BY <1>7, <2>1
  <2>2. CASE t # s
    <3>1. v[t] = w[t] /\ w[t].reader # r
      BY <1>7, <1>r, <2>2 DEF WorldInv
    <3> QED
      BY <3>1
  <2> QED
    BY <2>1, <2>2
<1>12. BlockOK(home, b, ni) /\ BlockOK(home, d, ni)
  BY <1>r DEF BlockOK
<1>13. WorldInv(home, v, ni)
  <2>1. \A t \in Slots : v[t].reader = w[t].reader /\ v[t].card \in {w[t].card, Nothing}
    BY <1>7
  <2> QED
    BY <2>1 DEF WorldInv
<1> QED
  BY <1>1, <1>2, <1>9, <1>10, <1>11, <1>12, <1>13 DEF Posts

\* The world without the reader of slot s.
Empties(w, v, s) == v = [w EXCEPT ![s] = [reader |-> Nothing, card |-> Nothing]]

LEMMA Emptied ==
  ASSUME NEW w \in Places, NEW v, NEW ni \in 1..(MaxIds + 1), NEW home, WorldInv(home, w, ni), NEW s \in Slots,
         w[s].reader # Nothing, Empties(w, v, s)
  PROVE  /\ WorldInv(home, v, ni)
         /\ \A t \in Slots : v[t].reader # Nothing => v[t] = w[t] /\ t # s
         /\ \A i \in Ids : Present(w, i) <=> Present(v, i) \/ i = w[s].reader \/ i = w[s].card
         /\ ~Present(v, w[s].reader) /\ Present(w, w[s].reader)
         /\ w[s].card # Nothing => ~Present(v, w[s].card) /\ Present(w, w[s].card)
<1>1. /\ v[s].reader = Nothing /\ v[s].card = Nothing
      /\ \A t \in Slots : t # s => v[t] = w[t]
  BY DEF Places, Empties
<1>2. \A u \in Slots :
         /\ w[u].reader # Nothing => home[w[u].reader] = Nothing
         /\ w[u].card # Nothing => w[u].reader # Nothing /\ home[w[u].card] = w[u].reader
  BY InSlot
<1>3. \A i \in Ids : i # Nothing
  BY DEF Ids, Nothing
<1>4. WorldInv(home, v, ni)
  <2>1. \A t \in Slots : v[t].reader # Nothing \/ v[t].card # Nothing => v[t] = w[t]
    BY <1>1
  <2> QED
    BY <2>1 DEF WorldInv
<1>5. \A i \in Ids : Present(w, i) <=> Present(v, i) \/ i = w[s].reader \/ i = w[s].card
  BY <1>1, <1>3 DEF Present
<1>6. ~Present(v, w[s].reader)
  <2>1. \A t \in Slots : w[t].card # w[s].reader /\ (w[t].reader = w[s].reader => t = s)
    BY <1>2 DEF WorldInv
  <2> QED
    BY <1>1, <2>1 DEF Present
<1>7. w[s].card # Nothing => ~Present(v, w[s].card)
  <2> SUFFICES ASSUME w[s].card # Nothing PROVE ~Present(v, w[s].card)
    OBVIOUS
  <2>1. \A t \in Slots : w[t].reader # w[s].card /\ (w[t].card = w[s].card => t = s)
    BY CardInOneSlot
  <2> QED
    BY <1>1, <2>1 DEF Present
<1> QED
  BY <1>1, <1>4, <1>5, <1>6, <1>7 DEF Present

LEMMA UnplugEmptyPosts ==
  ASSUME NEW P \in Seq(Block), NEW b, NEW T, AddsOne(P, T, b), NEW w \in Places, NEW v,
         NEW ni \in 1..(MaxIds + 1), NEW home, HomeInv(home, ni), WorldInv(home, w, ni), NEW s \in Slots,
         w[s].card = Nothing, NEW r, r = w[s].reader, r # Nothing,
         b = [do |-> "withdraw", id |-> r],
         Empties(w, v, s)
  PROVE  Posts(P, T, w, v, ni, ni, home, home)
<1>0. ni \in Nat /\ ni # Nothing /\ ni # ni + 1
  BY PresenceAssumption DEF Nothing
<1>1. Grown(P, T) /\ \E n \in Nat : New(P, T) = {n} /\ T[n] = b
  BY DEF AddsOne
<1>2. PICK n \in Nat : New(P, T) = {n} /\ T[n] = b
  BY <1>1
<1>r. r \in Ids /\ r \in 1..(ni - 1) /\ home[r] = Nothing /\ r # ni
  <2>1. r \in Ids /\ r \in 1..(ni - 1) /\ home[r] = Nothing
    BY InSlot
  <2> QED
    BY <1>0, <2>1
<1>3. Says(b, Nothing, r, Nothing, Nothing, r, {})
  BY <1>r, SaysWithdraw
<1>7. /\ WorldInv(home, v, ni)
      /\ \A t \in Slots : v[t].reader # Nothing => v[t] = w[t] /\ t # s
      /\ \A i \in Ids : Present(w, i) <=> Present(v, i) \/ i = r \/ i = Nothing
      /\ ~Present(v, r) /\ Present(w, r)
  <2>1. w \in Places /\ ni \in 1..(MaxIds + 1) /\ s \in Slots /\ w[s].reader # Nothing
    OBVIOUS
  <2>2. /\ WorldInv(home, v, ni)
        /\ \A t \in Slots : v[t].reader # Nothing => v[t] = w[t] /\ t # s
        /\ \A i \in Ids : Present(w, i) <=> Present(v, i) \/ i = w[s].reader \/ i = w[s].card
        /\ ~Present(v, w[s].reader) /\ Present(w, w[s].reader)
        /\ w[s].card # Nothing => ~Present(v, w[s].card) /\ Present(w, w[s].card)
    BY ONLY <2>1, WorldInv(home, w, ni), Empties(w, v, s), Emptied
  <2> QED
    BY ONLY <2>2, r = w[s].reader, w[s].card = Nothing
<1>8. \A i \in Ids : i # Nothing
  BY DEF Ids, Nothing
<1>9. PostsIntro(P, T, ni, ni)
  BY <1>0, <1>2, <1>3, <1>r DEF PostsIntro, Says
<1>10. PostsLeave(P, T, w, v, ni, ni, home)
  <2>3. Gone(T[n]) = r /\ Named(T[n]) = {}
    BY <1>2, <1>3 DEF Says
  <2>4. \A p \in New(P, T) : p = n /\ ~(p > n)
    BY <1>2
  <2> QED
    BY <1>2, <1>7, <1>8, <1>r, <2>3, <2>4 DEF PostsLeave
<1>11. PostsTold(P, T, w, v)
  BY <1>2, <1>3, <1>7 DEF PostsTold, Says
<1>12. BlockOK(home, b, ni)
  BY <1>r DEF BlockOK
<1> QED
  BY <1>1, <1>2, <1>7, <1>9, <1>10, <1>11, <1>12 DEF Posts

LEMMA UnplugPosts ==
  ASSUME NEW P \in Seq(Block), NEW b, NEW d, NEW T, AddsTwo(P, T, b, d), NEW w \in Places, NEW v,
         NEW ni \in 1..(MaxIds + 1), NEW home, HomeInv(home, ni), WorldInv(home, w, ni), NEW s \in Slots,
         NEW c, c = w[s].card, c # Nothing, NEW r, r = w[s].reader,
         b = [do |-> "withdraw", id |-> c], d = [do |-> "withdraw", id |-> r],
         Empties(w, v, s)
  PROVE  Posts(P, T, w, v, ni, ni, home, home)
<1>0. ni \in Nat /\ ni # Nothing /\ ni # ni + 1
  BY PresenceAssumption DEF Nothing
<1>1. /\ Grown(P, T)
      /\ \E n \in Nat, m \in Nat : n < m /\ New(P, T) = {n, m} /\ T[n] = b /\ T[m] = d
  BY DEF AddsTwo
<1>2. PICK n \in Nat, m \in Nat : n < m /\ New(P, T) = {n, m} /\ T[n] = b /\ T[m] = d
  BY <1>1
<1>r. /\ r \in Ids /\ r \in 1..(ni - 1) /\ home[r] = Nothing /\ r # Nothing
      /\ c \in Ids /\ c \in 1..(ni - 1) /\ home[c] = r
  BY InSlot
<1>s. r # ni /\ c # ni /\ r # c
  BY <1>0, <1>r
<1>3. Says(b, Nothing, c, Nothing, Nothing, c, {}) /\ Says(d, Nothing, r, Nothing, Nothing, r, {})
  BY <1>r, SaysWithdraw
<1>7. /\ WorldInv(home, v, ni)
      /\ \A t \in Slots : v[t].reader # Nothing => v[t] = w[t] /\ t # s
      /\ \A i \in Ids : Present(w, i) <=> Present(v, i) \/ i = r \/ i = c
      /\ ~Present(v, r) /\ Present(w, r)
      /\ ~Present(v, c) /\ Present(w, c)
  <2>1. w \in Places /\ ni \in 1..(MaxIds + 1) /\ s \in Slots /\ w[s].reader # Nothing
    BY <1>r
  <2>2. /\ WorldInv(home, v, ni)
        /\ \A t \in Slots : v[t].reader # Nothing => v[t] = w[t] /\ t # s
        /\ \A i \in Ids : Present(w, i) <=> Present(v, i) \/ i = w[s].reader \/ i = w[s].card
        /\ ~Present(v, w[s].reader) /\ Present(w, w[s].reader)
        /\ w[s].card # Nothing => ~Present(v, w[s].card) /\ Present(w, w[s].card)
    BY ONLY <2>1, WorldInv(home, w, ni), Empties(w, v, s), Emptied
  <2> QED
    BY ONLY <2>2, r = w[s].reader, c = w[s].card, c # Nothing
<1>9. PostsIntro(P, T, ni, ni)
  BY <1>0, <1>2, <1>3, <1>s DEF PostsIntro, Says
<1>10. PostsLeave(P, T, w, v, ni, ni, home)
  <2>1. \A e \in (c + 1)..(ni - 1) : home[e] # r
    BY DEF WorldInv
  <2>2. Gone(T[n]) = c /\ Named(T[n]) = {} /\ Gone(T[m]) = r /\ Named(T[m]) = {}
    BY <1>2, <1>3 DEF Says
  <2>3. \A p \in New(P, T) : p = n \/ p = m
    BY <1>2
  <2>4. n \in New(P, T) /\ m \in New(P, T) /\ m > n
    BY <1>2
  <2>5. \A p \in New(P, T) : Gone(T[p]) # Nothing => (p = n /\ Gone(T[p]) = c) \/ (p = m /\ Gone(T[p]) = r)
    BY <2>2, <2>3
  <2>6. \A q \in New(P, T) : Named(T[q]) = {} /\ ~(q > m) /\ (q > n => Gone(T[q]) = r)
    BY <1>2, <2>2, <2>3
  <2> QED
    BY <1>7, <1>r, <1>s, <2>1, <2>2, <2>4, <2>5, <2>6 DEF PostsLeave
<1>11. PostsTold(P, T, w, v)
  BY <1>2, <1>3, <1>7 DEF PostsTold, Says
<1>12. BlockOK(home, b, ni) /\ BlockOK(home, d, ni)
  BY <1>r DEF BlockOK
<1> QED
  BY <1>1, <1>2, <1>7, <1>9, <1>10, <1>11, <1>12 DEF Posts

(***************************************************************************)
(* The steps of the monitor and of the workers.                            *)
(***************************************************************************)

KeptBy(home) == TypeOK /\ QueueInv(home, posted, world, nextHandle, nextId) /\ LoopInv(home)

LEMMA KeptHasHome == ASSUME Kept PROVE \E home : KeptBy(home)
  BY DEF Kept, KeptBy

LEMMA PostKept ==
  ASSUME NEW home, NEW hm, KeptBy(home),
         Posts(posted, posted', world, world', nextId, nextId', home, hm),
         world' \in Places, nextId' \in 1..(MaxIds + 1), relabels' \in 0..MaxRelabels,
         UNCHANGED <<idToHandle, nextHandle, readers, readerNames, cards, pending, view>>,
         \A i \in DOMAIN probe' : i \in DOMAIN probe /\ probe'[i] = probe[i],
         \A i \in DOMAIN reading' : i \in DOMAIN reading /\ reading'[i] = reading[i]
  PROVE  Kept'
<1>1. QueueInv(hm, posted, world, nextHandle, nextId)' /\ LoopInv(hm)'
  BY PostLoop DEF KeptBy
<1>2. posted' \in Seq(Block) /\ hm \in [Ids -> 0..MaxIds]
  BY DEF Posts, Grown, HomeInv
<1>3. TypeOK'
  <2>1. IsMap(probe, Ids, [at : {"worker", "timer"}, reader : Ids])'
    BY DEF KeptBy, TypeOK, IsMap
  <2>2. IsMap(reading, Handles, Ids)'
    BY DEF KeptBy, TypeOK, IsMap
  <2>3. world' \in [Slots -> [reader : Ids \cup {Nothing}, card : Ids \cup {Nothing}]]
    BY DEF Places, Opt
  <2> QED
    BY <1>2, <2>1, <2>2, <2>3 DEF KeptBy, TypeOK
<1> QED
  BY <1>1, <1>2, <1>3 DEF Kept

\* What Report leaves alone.
LEMMA ReportKept ==
  ASSUME NEW home, NEW hm, KeptBy(home), UNCHANGED loopVars,
         Posts(posted, posted', world, world', nextId, nextId', home, hm),
         world' \in Places, nextId' \in 1..(MaxIds + 1), relabels' \in 0..MaxRelabels
  PROVE  Kept'
<1>1. /\ UNCHANGED <<idToHandle, nextHandle, readers, readerNames, cards, pending, view>>
      /\ UNCHANGED <<probe, reading>>
  BY DEF loopVars, wireVars
<1>2. \A i \in DOMAIN probe' : i \in DOMAIN probe /\ probe'[i] = probe[i]
  BY <1>1
<1>3. \A i \in DOMAIN reading' : i \in DOMAIN reading /\ reading'[i] = reading[i]
  BY <1>1
<1> QED
  BY <1>1, <1>2, <1>3, PostKept

LEMMA MonitorKeeps ==
  ASSUME Kept, NEW s \in Slots,
         PlugReader(s) \/ InsertCard(s) \/ RemoveCard(s) \/ UnplugReader(s) \/ \E l \in Labels : Relabel(s, l)
  PROVE  Kept'
<1>0. PICK home : KeptBy(home)
  BY KeptHasHome
<1>p. PICK P, T, w, v, ni, mi : P = posted /\ T = posted' /\ w = world /\ v = world' /\ ni = nextId /\ mi = nextId'
  OBVIOUS
<1>1. /\ P \in Seq(Block) /\ w \in Places /\ ni \in 1..(MaxIds + 1) /\ HomeInv(home, ni) /\ WorldInv(home, w, ni)
      /\ relabels \in 0..MaxRelabels
  BY <1>0, <1>p DEF KeptBy, TypeOK, QueueInv, Places, Opt
<1>2. \A t \in Slots :
         /\ w[t].reader \in Opt /\ w[t].card \in Opt
         /\ w[t].reader # Nothing => w[t].reader \in Ids /\ w[t].reader \in 1..(ni - 1) /\ home[w[t].reader] = Nothing
         /\ w[t].card # Nothing => w[t].card \in Ids /\ w[t].reader # Nothing
  BY <1>1, InSlot
<1>3. Nothing \in Opt /\ (ni \in Ids => ni \in Opt /\ ni + 1 \in 1..(MaxIds + 1))
  BY <1>1, PresenceAssumption DEF Opt, Ids
<1>4. CASE PlugReader(s)
  <2>1. /\ w[s].reader = Nothing /\ ni \in Ids /\ v = [w EXCEPT ![s].reader = ni] /\ mi = ni + 1
        /\ T = P \o <<[do |-> "reader", id |-> ni]>> /\ UNCHANGED <<loopVars, relabels>>
    BY <1>4, <1>p DEF PlugReader, Report, Post
  <2>2. PICK b : b = [do |-> "reader", id |-> ni]
    OBVIOUS
  <2>3. PICK hm : Housed(hm, home, ni, Nothing)
    BY DEF Housed
  <2>4. AddsOne(P, T, b)
    <3>1. b \in Block
      BY <2>1, <2>2 DEF Block
    <3>2. AddsOne(P, P \o <<b>>, b)
      BY ONLY <1>1, <3>1, OneMore
    <3> QED
      BY <2>1, <2>2, <3>2
  <2>5. Posts(P, T, w, v, ni, ni + 1, home, hm)
    BY ONLY <1>1, <2>1, <2>2, <2>3, <2>4, s \in Slots, PlugPosts
  <2>6. v \in Places
    BY <1>1, <1>3, <2>1 DEF Places
  <2> QED
    BY <1>0, <1>1, <1>3, <1>p, <2>1, <2>5, <2>6, ReportKept
<1>5. CASE InsertCard(s)
  <2>0. PICK r : r = w[s].reader
    OBVIOUS
  <2>1. /\ r # Nothing /\ w[s].card = Nothing /\ ni \in Ids /\ v = [w EXCEPT ![s].card = ni] /\ mi = ni + 1
        /\ T = P \o <<[do |-> "card", id |-> ni, of |-> r], [do |-> "seat", id |-> r, of |-> ni]>>
        /\ UNCHANGED <<loopVars, relabels>>
    BY <1>5, <1>p, <2>0 DEF InsertCard, Report, Post
  <2>2. PICK b, d : b = [do |-> "card", id |-> ni, of |-> r] /\ d = [do |-> "seat", id |-> r, of |-> ni]
    OBVIOUS
  <2>3. PICK hm : Housed(hm, home, ni, r)
    BY DEF Housed
  <2>4. AddsTwo(P, T, b, d)
    <3>1. b \in Block /\ d \in Block
      BY <1>2, <2>0, <2>1, <2>2 DEF Block
    <3>2. AddsTwo(P, P \o <<b, d>>, b, d)
      BY ONLY <1>1, <3>1, TwoMore
    <3> QED
      BY <2>1, <2>2, <3>2
  <2>5. Posts(P, T, w, v, ni, ni + 1, home, hm)
    BY ONLY <1>1, <2>0, <2>1, <2>2, <2>3, <2>4, s \in Slots, InsertPosts
  <2>6. v \in Places
    BY <1>1, <1>3, <2>1 DEF Places
  <2>7. /\ Posts(posted, posted', world, world', nextId, nextId', home, hm)
        /\ world' \in Places /\ nextId' \in 1..(MaxIds + 1) /\ relabels' \in 0..MaxRelabels
    BY <1>1, <1>3, <1>p, <2>1, <2>5, <2>6
  <2> QED
    BY ONLY <1>0, <2>1, <2>7, ReportKept
<1>6. CASE RemoveCard(s)
  <2>0. PICK r, c : r = w[s].reader /\ c = w[s].card
    OBVIOUS
  <2>1. /\ c # Nothing /\ v = [w EXCEPT ![s].card = Nothing] /\ mi = ni
        /\ T = P \o <<[do |-> "withdraw", id |-> c], [do |-> "seat", id |-> r, of |-> Nothing]>>
        /\ UNCHANGED <<loopVars, relabels>>
    BY <1>6, <1>p, <2>0 DEF RemoveCard, Report, Post
  <2>2. PICK b, d : b = [do |-> "withdraw", id |-> c] /\ d = [do |-> "seat", id |-> r, of |-> Nothing]
    OBVIOUS
  <2>4. AddsTwo(P, T, b, d)
    <3>1. b \in Block /\ d \in Block
      BY <1>2, <2>0, <2>1, <2>2 DEF Block
    <3>2. AddsTwo(P, P \o <<b, d>>, b, d)
      BY ONLY <1>1, <3>1, TwoMore
    <3> QED
      BY <2>1, <2>2, <3>2
  <2>5. Posts(P, T, w, v, ni, ni, home, home)
    <3>1. w[s].card # Nothing
      BY <2>0, <2>1
    <3> QED
      BY ONLY <1>1, <2>0, <2>1, <2>2, <2>4, <3>1, s \in Slots, RemovePosts
  <2>6. v \in Places
    BY <1>1, <1>3, <2>1 DEF Places
  <2> QED
    BY <1>0, <1>1, <1>p, <2>1, <2>5, <2>6, ReportKept
<1>7. CASE UnplugReader(s)
  <2>0. PICK r, c : r = w[s].reader /\ c = w[s].card
    OBVIOUS
  <2>1. /\ r # Nothing /\ Empties(w, v, s) /\ mi = ni
        /\ T = P \o (IF c = Nothing THEN <<[do |-> "withdraw", id |-> r]>>
                     ELSE <<[do |-> "withdraw", id |-> c], [do |-> "withdraw", id |-> r]>>)
        /\ UNCHANGED <<loopVars, relabels>>
    BY <1>7, <1>p, <2>0 DEF UnplugReader, Report, Post, Empties
  <2>6. v \in Places
    BY <1>1, <1>3, <2>1 DEF Places, Empties
  <2>2. CASE c = Nothing
    <3>2. PICK b : b = [do |-> "withdraw", id |-> r]
      OBVIOUS
    <3>4. AddsOne(P, T, b)
      <4>1. b \in Block
        BY <1>2, <2>0, <2>1, <3>2 DEF Block
      <4>2. AddsOne(P, P \o <<b>>, b)
        BY ONLY <1>1, <4>1, OneMore
      <4> QED
        BY <2>1, <2>2, <3>2, <4>2
    <3>5. Posts(P, T, w, v, ni, ni, home, home)
      <4>1. w[s].card = Nothing
        BY <2>0, <2>2
      <4> QED
        BY ONLY <1>1, <2>0, <2>1, <3>2, <3>4, <4>1, s \in Slots, UnplugEmptyPosts
    <3> QED
      BY <1>0, <1>1, <1>p, <2>1, <2>6, <3>5, ReportKept
  <2>3. CASE c # Nothing
    <3>2. PICK b, d : b = [do |-> "withdraw", id |-> c] /\ d = [do |-> "withdraw", id |-> r]
      OBVIOUS
    <3>4. AddsTwo(P, T, b, d)
      <4>1. b \in Block /\ d \in Block
        BY <1>2, <2>0, <2>1, <2>3, <3>2 DEF Block
      <4>2. AddsTwo(P, P \o <<b, d>>, b, d)
        BY ONLY <1>1, <4>1, TwoMore
      <4> QED
        BY <2>1, <2>3, <3>2, <4>2
    <3>5. Posts(P, T, w, v, ni, ni, home, home)
      BY ONLY <1>1, <2>0, <2>1, <2>3, <3>2, <3>4, s \in Slots, UnplugPosts
    <3> QED
      BY <1>0, <1>1, <1>p, <2>1, <2>6, <3>5, ReportKept
  <2> QED
    BY <2>2, <2>3
<1>8. ASSUME NEW l \in Labels, Relabel(s, l) PROVE Kept'
  <2>0. PICK r : r = w[s].reader
    OBVIOUS
  <2>1. /\ r # Nothing /\ v = w /\ mi = ni
        /\ T = P \o <<[do |-> "relabel", id |-> r, label |-> l]>>
        /\ UNCHANGED loopVars
    BY <1>8, <1>p, <2>0 DEF Relabel, Report, Post
  <2>2. relabels' \in 0..MaxRelabels
    BY <1>1, <1>8, PresenceAssumption DEF Relabel
  <2>3. PICK b : b = [do |-> "relabel", id |-> r, label |-> l]
    OBVIOUS
  <2>4. b \in Block
    BY <1>2, <2>0, <2>1, <2>3 DEF Block
  <2>5. AddsOne(P, T, b)
    <3>1. AddsOne(P, P \o <<b>>, b)
      BY ONLY <1>1, <2>4, OneMore
    <3> QED
      BY <2>1, <2>3, <3>1
  <2>6. Posts(P, T, w, w, ni, ni, home, home)
    <3>1. ni \in Nat /\ ni # Nothing
      BY <1>1, PresenceAssumption DEF Nothing
    <3>2. /\ Intro(b) = Nothing /\ Gone(b) = Nothing /\ Told(b) = Nothing /\ Knows(b) # ni
          /\ Named(b) = {r} /\ BlockOK(home, b, ni)
      BY <1>2, <2>0, <2>1, <2>3, <3>1 DEF Intro, Gone, Told, Knows, Named, BlockOK
    <3>3. \A i \in Named(b) : Present(w, i)
      BY <2>0, <3>2 DEF Present
    <3> QED
      BY ONLY <1>1, <2>4, <2>5, <3>1, <3>2, <3>3, QuietPosts
  <2> QED
    BY <1>0, <1>1, <1>p, <2>1, <2>2, <2>6, ReportKept
<1> QED
  BY <1>4, <1>5, <1>6, <1>7, <1>8

LEMMA PutMap ==
  ASSUME NEW f, NEW k, NEW e, NEW D, NEW R, IsMap(f, D, R), k \in D, e \in R
  PROVE  IsMap(Put(f, k, e), D, R)
  BY DEF IsMap, Put

\* Only probes and reads change.
LEMMA StillKept ==
  ASSUME NEW home, KeptBy(home),
         UNCHANGED <<worldVars, posted, readerNames, pending, wireVars>>,
         IsMap(probe, Ids, [at : {"worker", "timer"}, reader : Ids])', IsMap(reading, Handles, Ids)',
         \A i \in DOMAIN probe' : i < nextId /\ home[i] # Nothing /\ probe'[i].reader = home[i],
         \A i \in DOMAIN reading' : reading'[i] = i
  PROVE  Kept'
<1>0. UNCHANGED <<world, nextId, relabels, posted, readerNames, pending, idToHandle, nextHandle, readers, cards, view>>
  BY DEF worldVars, wireVars
<1>1. TypeOK'
  BY <1>0 DEF KeptBy, TypeOK
<1>2. QueueInv(home, posted, world, nextHandle, nextId)'
  BY <1>0 DEF KeptBy
<1>3. \A i : Live(i)' <=> Live(i)
  BY <1>0 DEF Live
<1>4. LoopInv(home)'
  BY <1>0, <1>3 DEF KeptBy, LoopInv
<1>5. home \in [Ids -> 0..MaxIds]
  BY DEF KeptBy, QueueInv, HomeInv
<1> QED
  BY <1>1, <1>2, <1>4, <1>5 DEF Kept

\* What a probe, a read and an object with a handle are.
LEMMA KeptFacts ==
  ASSUME NEW home, KeptBy(home)
  PROVE  /\ \A i \in DOMAIN probe : /\ i \in Ids /\ probe[i] \in [at : {"worker", "timer"}, reader : Ids]
                                    /\ i < nextId /\ home[i] # Nothing /\ probe[i].reader = home[i]
         /\ \A i \in DOMAIN reading : i \in Handles /\ reading[i] = i
         /\ \A i \in DOMAIN cards : i \in Handles /\ cards[i].id = i
  BY DEF KeptBy, TypeOK, IsMap, LoopInv

LEMMA WorkersKeep ==
  ASSUME Kept, NEW id \in Ids, ProbeDone(id) \/ ProbeLost(id)
  PROVE  Kept'
<1>0. PICK home : KeptBy(home)
  BY KeptHasHome
<1>p. PICK P, T, w, ni : P = posted /\ T = posted' /\ w = world /\ ni = nextId
  OBVIOUS
<1>1. /\ P \in Seq(Block) /\ w \in Places /\ ni \in 1..(MaxIds + 1) /\ HomeInv(home, ni) /\ WorldInv(home, w, ni)
      /\ relabels \in 0..MaxRelabels
  BY <1>0, <1>p DEF KeptBy, TypeOK, QueueInv, Places, Opt
<1>2. /\ \A i \in DOMAIN probe : /\ i \in Ids /\ probe[i] \in [at : {"worker", "timer"}, reader : Ids]
                                 /\ i < ni /\ home[i] # Nothing /\ probe[i].reader = home[i]
      /\ \A i \in DOMAIN reading : i \in Handles /\ reading[i] = i
  BY <1>0, <1>p, KeptFacts
<1>3. id \in DOMAIN probe /\ probe' = Drop(probe, id) /\ UNCHANGED <<worldVars, readerNames, pending, reading, wireVars>>
  BY DEF ProbeDone, ProbeLost
<1>4. UNCHANGED <<world, nextId, relabels, readerNames, pending, reading, idToHandle, nextHandle, readers, cards, view>>
  BY <1>3 DEF worldVars, wireVars
<1>5. \A i \in DOMAIN probe' : i \in DOMAIN probe /\ probe'[i] = probe[i]
  BY <1>3 DEF Drop, Restrict
<1>6. CASE ProbeDone(id)
  <2>1. PICK refused \in BOOLEAN :
           T = P \o <<[do |-> "resolved", id |-> id, of |-> probe[id].reader, refused |-> refused]>>
    BY <1>6, <1>p DEF ProbeDone, Post
  <2>2. PICK r : r = home[id]
    OBVIOUS
  <2>3. r \in Ids /\ r # Nothing /\ probe[id].reader = r /\ id < ni
    BY <1>2, <1>3, <2>2
  <2>4. PICK b : b = [do |-> "resolved", id |-> id, of |-> r, refused |-> refused]
    OBVIOUS
  <2>5. b \in Block
    BY <2>3, <2>4 DEF Block
  <2>6. AddsOne(P, T, b)
    <3>1. AddsOne(P, P \o <<b>>, b)
      BY ONLY <1>1, <2>5, OneMore
    <3> QED
      BY <2>1, <2>3, <2>4, <3>1
  <2>7. Posts(P, T, w, w, ni, ni, home, home)
    <3>1. ni \in Nat /\ id # ni /\ id \in 1..(ni - 1)
      BY <1>1, <2>3, PresenceAssumption DEF Ids
    <3>2. /\ Intro(b) = Nothing /\ Gone(b) = Nothing /\ Told(b) = Nothing /\ Knows(b) # ni
          /\ Named(b) = {} /\ BlockOK(home, b, ni)
      BY <2>2, <2>3, <2>4, <3>1 DEF Intro, Gone, Told, Knows, Named, BlockOK
    <3>3. \A i \in Named(b) : Present(w, i)
      BY <3>2
    <3> QED
      BY ONLY <1>1, <2>5, <2>6, <3>1, <3>2, <3>3, QuietPosts
  <2>8. /\ Posts(posted, posted', world, world', nextId, nextId', home, home)
        /\ world' \in Places /\ nextId' \in 1..(MaxIds + 1) /\ relabels' \in 0..MaxRelabels
        /\ UNCHANGED <<idToHandle, nextHandle, readers, readerNames, cards, pending, view>>
        /\ \A i \in DOMAIN reading' : i \in DOMAIN reading /\ reading'[i] = reading[i]
    BY <1>1, <1>4, <1>p, <2>7
  <2> QED
    BY ONLY <1>0, <1>5, <2>8, PostKept
<1>7. CASE ProbeLost(id)
  <2>1. UNCHANGED posted
    BY <1>7 DEF ProbeLost
  <2>2. IsMap(probe, Ids, [at : {"worker", "timer"}, reader : Ids])' /\ IsMap(reading, Handles, Ids)'
    <3>1. IsMap(probe, Ids, [at : {"worker", "timer"}, reader : Ids]) /\ IsMap(reading, Handles, Ids)
      BY <1>0 DEF KeptBy, TypeOK
    <3> QED
      BY <1>4, <1>5, <3>1 DEF IsMap
  <2>3. \A i \in DOMAIN probe' : i < nextId /\ home[i] # Nothing /\ probe'[i].reader = home[i]
    BY <1>2, <1>5, <1>p
  <2>4. \A i \in DOMAIN reading' : reading'[i] = i
    BY <1>2, <1>4
  <2>5. UNCHANGED <<worldVars, posted, readerNames, pending, wireVars>>
    BY <1>3, <2>1
  <2> QED
    BY ONLY <1>0, <2>2, <2>3, <2>4, <2>5, StillKept
<1> QED
  BY <1>6, <1>7

LEMMA ReadsKeep ==
  ASSUME Kept, NEW h \in Handles, BeginRead(h) \/ EndRead(h)
  PROVE  Kept'
<1>0. PICK home : KeptBy(home)
  BY KeptHasHome
<1>p. PICK P, T, w, ni : P = posted /\ T = posted' /\ w = world /\ ni = nextId
  OBVIOUS
<1>1. /\ P \in Seq(Block) /\ w \in Places /\ ni \in 1..(MaxIds + 1) /\ HomeInv(home, ni) /\ WorldInv(home, w, ni)
      /\ relabels \in 0..MaxRelabels
  BY <1>0, <1>p DEF KeptBy, TypeOK, QueueInv, Places, Opt
<1>2. /\ \A i \in DOMAIN probe : i < nextId /\ home[i] # Nothing /\ probe[i].reader = home[i]
      /\ \A i \in DOMAIN reading : i \in Handles /\ reading[i] = i
      /\ \A i \in DOMAIN cards : i \in Handles /\ cards[i].id = i
  BY <1>0, KeptFacts
<1>3. CASE EndRead(h)
  <2>1. /\ h \in DOMAIN reading /\ reading' = Drop(reading, h) /\ reading[h] = h
        /\ UNCHANGED <<worldVars, readerNames, pending, probe, wireVars>>
    BY <1>2, <1>3 DEF EndRead
  <2>2. UNCHANGED <<world, nextId, relabels, readerNames, pending, probe, idToHandle, nextHandle, readers, cards, view>>
    BY <2>1 DEF worldVars, wireVars
  <2>3. T = P \o <<[do |-> "type", handle |-> h, type |-> h]>>
    BY <1>3, <1>p, <2>1 DEF EndRead, Post
  <2>4. PICK b : b = [do |-> "type", handle |-> h, type |-> h]
    OBVIOUS
  <2>5. b \in Block
    BY <2>4 DEF Block, Handles, Ids
  <2>6. AddsOne(P, T, b)
    <3>1. AddsOne(P, P \o <<b>>, b)
      BY ONLY <1>1, <2>5, OneMore
    <3> QED
      BY <2>3, <2>4, <3>1
  <2>7. Posts(P, T, w, w, ni, ni, home, home)
    <3>1. ni \in Nat /\ Nothing # ni
      BY <1>1, PresenceAssumption DEF Nothing
    <3>2. /\ Intro(b) = Nothing /\ Gone(b) = Nothing /\ Told(b) = Nothing /\ Knows(b) # ni
          /\ Named(b) = {} /\ BlockOK(home, b, ni)
      BY <2>4, <3>1 DEF Intro, Gone, Told, Knows, Named, BlockOK
    <3>3. \A i \in Named(b) : Present(w, i)
      BY <3>2
    <3> QED
      BY ONLY <1>1, <2>5, <2>6, <3>1, <3>2, <3>3, QuietPosts
  <2>8. /\ Posts(posted, posted', world, world', nextId, nextId', home, home)
        /\ world' \in Places /\ nextId' \in 1..(MaxIds + 1) /\ relabels' \in 0..MaxRelabels
        /\ UNCHANGED <<idToHandle, nextHandle, readers, readerNames, cards, pending, view>>
        /\ \A i \in DOMAIN probe' : i \in DOMAIN probe /\ probe'[i] = probe[i]
    BY <1>1, <1>p, <2>2, <2>7
  <2>9. \A i \in DOMAIN reading' : i \in DOMAIN reading /\ reading'[i] = reading[i]
    BY <2>1 DEF Drop, Restrict
  <2> QED
    BY ONLY <1>0, <2>8, <2>9, PostKept
<1>4. CASE BeginRead(h)
  <2>1. /\ h \in DOMAIN cards /\ reading' = Put(reading, h, cards[h].id)
        /\ UNCHANGED <<worldVars, posted, readerNames, pending, probe, wireVars>>
    BY <1>4 DEF BeginRead
  <2>2. reading' = Put(reading, h, h)
    BY <1>2, <2>1
  <2>3. IsMap(reading, Handles, Ids)'
    <3>1. IsMap(reading, Handles, Ids)
      BY <1>0 DEF KeptBy, TypeOK
    <3> QED
      BY <2>2, <3>1, PutMap DEF Handles, Ids
  <2>4. \A i \in DOMAIN reading' : reading'[i] = i
    BY <1>2, <2>2 DEF Put
  <2>5. IsMap(probe, Ids, [at : {"worker", "timer"}, reader : Ids])'
    BY <1>0, <2>1 DEF KeptBy, TypeOK
  <2>6. \A i \in DOMAIN probe' : i < nextId /\ home[i] # Nothing /\ probe'[i].reader = home[i]
    BY <1>2, <2>1
  <2>7. UNCHANGED <<worldVars, posted, readerNames, pending, wireVars>>
    BY <2>1
  <2> QED
    BY ONLY <1>0, <2>3, <2>4, <2>5, <2>6, <2>7, StillKept
<1> QED
  BY <1>3, <1>4

LEMMA TimerKeeps ==
  ASSUME Kept, NEW id \in Ids, NEW queued \in BOOLEAN, RetryTimer(id, queued)
  PROVE  Kept'
<1>0. PICK home : KeptBy(home)
  BY KeptHasHome
<1>1. /\ \A i \in DOMAIN probe : /\ i \in Ids /\ probe[i] \in [at : {"worker", "timer"}, reader : Ids]
                                 /\ i < nextId /\ home[i] # Nothing /\ probe[i].reader = home[i]
      /\ \A i \in DOMAIN reading : i \in Handles /\ reading[i] = i
  BY <1>0, KeptFacts
<1>2. id \in DOMAIN probe /\ UNCHANGED <<worldVars, posted, readerNames, reading, wireVars, pending>>
  BY DEF RetryTimer, Schedule
<1>3. \/ probe' = Drop(probe, id)
      \/ \E at \in {"worker", "timer"} : probe' = Put(probe, id, [at |-> at, reader |-> probe[id].reader])
  BY DEF RetryTimer, Schedule
<1>4. /\ IsMap(probe, Ids, [at : {"worker", "timer"}, reader : Ids])'
      /\ \A i \in DOMAIN probe' : i < nextId /\ home[i] # Nothing /\ probe'[i].reader = home[i]
  <2>1. CASE probe' = Drop(probe, id)
    <3>1. \A i \in DOMAIN probe' : i \in DOMAIN probe /\ probe'[i] = probe[i]
      BY <2>1 DEF Drop, Restrict
    <3> QED
      BY <1>1, <3>1 DEF IsMap
  <2>2. ASSUME NEW at \in {"worker", "timer"}, probe' = Put(probe, id, [at |-> at, reader |-> probe[id].reader])
        PROVE  /\ IsMap(probe, Ids, [at : {"worker", "timer"}, reader : Ids])'
               /\ \A i \in DOMAIN probe' : i < nextId /\ home[i] # Nothing /\ probe'[i].reader = home[i]
    <3>1. PICK e : e = [at |-> at, reader |-> probe[id].reader]
      OBVIOUS
    <3>2. e \in [at : {"worker", "timer"}, reader : Ids] /\ e.reader = home[id]
      BY <1>1, <1>2, <3>1
    <3>3. \A i \in DOMAIN probe' : i \in DOMAIN probe /\ (probe'[i] = probe[i] \/ (i = id /\ probe'[i] = e))
      BY <1>2, <2>2, <3>1 DEF Put
    <3> QED
      BY <1>1, <3>2, <3>3 DEF IsMap
  <2> QED
    BY <1>3, <2>1, <2>2
<1>5. IsMap(reading, Handles, Ids)' /\ \A i \in DOMAIN reading' : reading'[i] = i
  BY <1>0, <1>1, <1>2 DEF KeptBy, TypeOK
<1>6. UNCHANGED <<worldVars, posted, readerNames, pending, wireVars>>
  BY <1>2
<1> QED
  BY ONLY <1>0, <1>4, <1>5, <1>6, StillKept

(***************************************************************************)
(* The blocks the loop runs.                                               *)
(***************************************************************************)

Takes(P, T, b) == P # << >> /\ b = Head(P) /\ T = Tail(P)

\* What is known of the block b the loop takes; the next handle becomes mh.
Taken(home, P, T, b, w, nh, mh, ni) ==
    /\ b \in Block /\ BlockOK(home, b, ni)
    /\ nh \in 1..ni /\ Intro(b) \in {Nothing, nh} /\ mh = IF Intro(b) = Nothing THEN nh ELSE nh + 1
    /\ mh \in 1..ni
    /\ Knows(b) # Nothing => Knows(b) \in 1..(nh - 1)
    /\ \A i : i # Gone(b) => (Leaving(T, i) <=> Leaving(P, i))
    /\ Gone(b) # Nothing => Leaving(P, Gone(b)) /\ ~Leaving(T, Gone(b)) /\ ~Present(w, Gone(b))
    /\ \A i \in Named(b) : Present(w, i) \/ Leaving(P, i)
    /\ \A s \in Slots : w[s].reader # Nothing /\ (\A p \in DOMAIN T : Told(T[p]) # w[s].reader) =>
          \/ Told(b) = w[s].reader /\ CardOf(b) = w[s].card
          \/ Told(b) # w[s].reader /\ \A p \in DOMAIN P : Told(P[p]) # w[s].reader

LEMMA TakeQueue ==
  ASSUME NEW P \in Seq(Block), NEW T, NEW b, Takes(P, T, b), NEW w, NEW nh, NEW ni \in 1..(MaxIds + 1), NEW home,
         QueueInv(home, P, w, nh, ni), NEW mh, mh = IF Intro(b) = Nothing THEN nh ELSE nh + 1
  PROVE  QueueInv(home, T, w, mh, ni) /\ Taken(home, P, T, b, w, nh, mh, ni)
<1>0. P \in Seq(Block) /\ P # << >> /\ T = Tail(P) /\ ni \in Nat
  BY PresenceAssumption DEF Takes
<1>q. /\ HomeInv(home, ni) /\ WorldInv(home, w, ni) /\ BlocksInv(home, P, ni)
      /\ IntroInv(P, nh, ni) /\ LeaveInv(home, P, w, ni) /\ ToldInv(P, w)
  BY DEF QueueInv
<1>1. /\ T \in Seq(Block) /\ 1 \in DOMAIN P /\ P[1] \in Block /\ Head(P) = P[1]
      /\ \A p \in DOMAIN T : p \in Nat \ {0} /\ p + 1 \in DOMAIN P /\ T[p] = P[p + 1]
  BY ONLY <1>0, TailIs
<1>2. b = P[1]
  BY <1>1 DEF Takes
<1>m. mh = IF Intro(P[1]) = Nothing THEN nh ELSE nh + 1
  BY <1>2
<1>3. /\ IntroInv(T, mh, ni)
      /\ Intro(P[1]) \in {Nothing, nh}
      /\ Knows(P[1]) \in 1..(ni - 1) => Knows(P[1]) < nh
  BY ONLY <1>0, <1>q, <1>m, TailIntro
<1>4. /\ LeaveInv(home, T, w, ni)
      /\ \A i : i # Gone(P[1]) => (Leaving(T, i) <=> Leaving(P, i))
      /\ Gone(P[1]) # Nothing => ~Leaving(T, Gone(P[1])) /\ ~Present(w, Gone(P[1]))
  BY ONLY <1>0, <1>q, TailLeave
<1>5. /\ ToldInv(T, w)
      /\ \A s \in Slots : w[s].reader # Nothing /\ (\A p \in DOMAIN T : Told(T[p]) # w[s].reader) =>
               \/ Told(P[1]) = w[s].reader /\ CardOf(P[1]) = w[s].card
               \/ \A p \in DOMAIN P : Told(P[p]) # w[s].reader
  BY ONLY <1>0, <1>q, TailTold
<1>6. BlockOK(home, b, ni) /\ BlocksInv(home, T, ni)
  BY <1>1, <1>2, <1>q DEF BlocksInv
<1>7. nh \in 1..ni /\ mh \in 1..ni
  BY <1>3, <1>q DEF IntroInv
<1>8. Knows(b) # Nothing => Knows(b) \in 1..(nh - 1)
  <2>1. Knows(b) # Nothing => Knows(b) \in 1..(ni - 1)
    BY <1>6 DEF BlockOK, Knows
  <2>2. Knows(b) # Nothing => Knows(b) < nh
    BY <1>2, <1>3, <2>1
  <2> QED
    BY ONLY <1>0, <1>7, <2>1, <2>2
<1>9. Gone(b) # Nothing => Leaving(P, Gone(b))
  BY <1>1, <1>2 DEF Leaving
<1>10. \A i \in Named(b) : Present(w, i) \/ Leaving(P, i)
  BY <1>1, <1>2, <1>q DEF LeaveInv
<1>11. \A s \in Slots : w[s].reader # Nothing /\ (\A p \in DOMAIN T : Told(T[p]) # w[s].reader) =>
          \/ Told(b) = w[s].reader /\ CardOf(b) = w[s].card
          \/ Told(b) # w[s].reader /\ \A p \in DOMAIN P : Told(P[p]) # w[s].reader
  BY <1>1, <1>2, <1>5
<1>12. QueueInv(home, T, w, mh, ni)
  BY <1>3, <1>4, <1>5, <1>6, <1>q DEF QueueInv
<1>13. Taken(home, P, T, b, w, nh, mh, ni)
  <2>1. b \in Block /\ Intro(b) \in {Nothing, nh}
    BY <1>1, <1>2, <1>3
  <2>2. \A i : i # Gone(b) => (Leaving(T, i) <=> Leaving(P, i))
    BY <1>2, <1>4
  <2>3. Gone(b) # Nothing => Leaving(P, Gone(b)) /\ ~Leaving(T, Gone(b)) /\ ~Present(w, Gone(b))
    BY <1>2, <1>4, <1>9
  <2> QED
    BY <1>6, <1>7, <1>8, <1>10, <1>11, <2>1, <2>2, <2>3 DEF Taken
<1> QED
  BY <1>12, <1>13

\* A reader that is plugged in and of which nothing more will be told has
\* its handle.
LEMMA UntoldIsKnown ==
  ASSUME NEW P \in Seq(Block), NEW w \in Places, NEW nh, NEW ni \in 1..(MaxIds + 1), NEW home,
         QueueInv(home, P, w, nh, ni), NEW s \in Slots, w[s].reader # Nothing,
         \A p \in DOMAIN P : Told(P[p]) # w[s].reader
  PROVE  w[s].reader \in 1..(nh - 1)
<1>1. HomeInv(home, ni) /\ WorldInv(home, w, ni) /\ BlocksInv(home, P, ni) /\ IntroInv(P, nh, ni)
  BY DEF QueueInv
<1>2. PICK r : r = w[s].reader
  OBVIOUS
<1>3. r \in 1..(ni - 1) /\ home[r] = Nothing /\ r # Nothing
  BY <1>1, <1>2, InSlot
<1>4. nh \in 1..ni /\ ni \in Nat
  BY <1>1, PresenceAssumption DEF IntroInv
<1>5. ASSUME r \in nh..(ni - 1) PROVE FALSE
  <2>1. PICK p \in DOMAIN P : Intro(P[p]) = r
    BY <1>1, <1>5 DEF IntroInv
  <2>2. PICK b : b = P[p]
    OBVIOUS
  <2>3. BlockOK(home, b, ni) /\ Intro(b) = r /\ Told(b) # r
    BY <1>1, <1>2, <2>1, <2>2 DEF BlocksInv
  <2>4. b.do = "seat" /\ b.of = r
    BY <1>3, <2>3 DEF Intro, Told
  <2>5. home[b.of] = b.id /\ b.id \in 1..(ni - 1)
    BY <1>3, <2>3, <2>4 DEF BlockOK
  <2> QED
    BY <1>3, <2>4, <2>5 DEF Nothing
<1> QED
  BY ONLY <1>2, <1>3, <1>4, <1>5

\* What the loop's tables must become when it runs the block b.
HandlesApplied(b) ==
    /\ \A i \in Ids : i \in DOMAIN idToHandle' <=> (i \in DOMAIN idToHandle /\ i # Gone(b)) \/ i = Intro(b)
    /\ \A i \in DOMAIN idToHandle' : idToHandle'[i] = i
ReadersApplied(home, b) ==
    /\ readerNames' = DOMAIN readers'
    /\ \A i \in Ids : i \in DOMAIN readers' <=>
          (i \in DOMAIN readers /\ i # Gone(b)) \/ (i = Intro(b) /\ home[i] = Nothing)
    /\ \A i \in DOMAIN readers' : /\ readers'[i].id = i
                                  /\ Told(b) = i => readers'[i].card = CardOf(b)
                                  /\ Told(b) # i => readers'[i].card = readers[i].card
CardsApplied(home, b) ==
    /\ \A i \in DOMAIN cards' :
          /\ Live(i) /\ i # Gone(b) /\ home[i] # Nothing
          /\ cards'[i].id = i /\ cards'[i].reader = home[i] /\ cards'[i].type \in {Nothing, i}
    /\ \A i \in DOMAIN pending' : /\ i < nextId /\ home[i] # Nothing /\ i # Gone(b)
                                  /\ Present(world, i) \/ Leaving(posted, i)
    /\ \A i \in DOMAIN probe' : i < nextId /\ home[i] # Nothing /\ probe'[i].reader = home[i]
Applied(home, b) == HandlesApplied(b) /\ ReadersApplied(home, b) /\ CardsApplied(home, b)

\* Its tables are typed, and so is the view it changes with them.
Typed ==
    /\ IsMap(pending, Ids, 0..MaxRetries)
    /\ IsMap(probe, Ids, [at : {"worker", "timer"}, reader : Ids])
    /\ IsMap(idToHandle, Ids, Handles)
    /\ IsMap(readers, Handles, ReaderRec)
    /\ IsMap(cards, Handles, CardRec)

LEMMA ViewTyped ==
  ASSUME TypeOK, IInv', view' = view \/ view'.on,
         IsMap(readers, Handles, ReaderRec)', IsMap(cards, Handles, CardRec)'
  PROVE  view'.on \in BOOLEAN /\ IsMap(view.readers, Handles, ReaderRec)' /\ IsMap(view.cards, Handles, CardRec)'
<1>1. CASE view' = view
  BY <1>1 DEF TypeOK
<1>2. CASE view'.on
  <2>1. view'.on \in BOOLEAN
    BY DEF IInv
  <2>2. view'.readers = readers' /\ view'.cards = cards'
    BY <1>2 DEF IInv, ClientAgrees
  <2> QED
    BY <2>1, <2>2
<1> QED
  BY <1>1, <1>2

LEMMA BlockRun ==
  ASSUME NEW home, KeptBy(home), NEW b, IInv', Takes(posted, posted', b),
         UNCHANGED <<worldVars, reading>>,
         NEW mh, mh = IF Intro(b) = Nothing THEN nextHandle ELSE nextHandle + 1,
         Taken(home, posted, posted', b, world, nextHandle, mh, nextId) => nextHandle' = mh /\ Applied(home, b) /\ Typed',
         view' = view \/ view'.on
  PROVE  Kept'
<1>u. UNCHANGED <<world, nextId, relabels, reading>>
  BY DEF worldVars
<1>p. PICK P, T, w, nh, ni : P = posted /\ T = posted' /\ w = world /\ nh = nextHandle /\ ni = nextId
  OBVIOUS
<1>0. P \in Seq(Block) /\ w \in Places /\ ni \in 1..(MaxIds + 1) /\ QueueInv(home, P, w, nh, ni)
  BY <1>p DEF KeptBy, TypeOK, Places, Opt
<1>1. QueueInv(home, T, w, mh, ni) /\ Taken(home, P, T, b, w, nh, mh, ni)
  <2>1. Takes(P, T, b) /\ mh = IF Intro(b) = Nothing THEN nh ELSE nh + 1
    BY <1>p
  <2> QED
    BY ONLY <1>0, <2>1, TakeQueue
<1>2. nextHandle' = mh /\ Applied(home, b) /\ Typed'
  BY <1>1, <1>p
<1>3. QueueInv(home, posted, world, nextHandle, nextId)'
  BY <1>1, <1>2, <1>p, <1>u
<1>4. TypeOK'
  <2>1. posted' \in Seq(Block)
    <3>1. P # << >> /\ T = Tail(P)
      BY <1>p DEF Takes
    <3> QED
      BY <1>0, <1>p, <3>1, TailIs
  <2>2. nextHandle' \in 1..(MaxIds + 1)
    <3>1. mh \in 1..ni
      BY <1>1 DEF Taken
    <3> QED
      BY <1>0, <1>2, <3>1, PresenceAssumption
  <2>3. readerNames' \subseteq Ids
    BY <1>2 DEF Applied, ReadersApplied, Typed, IsMap, Handles, Ids
  <2>4. TypeOK /\ IInv' /\ IsMap(readers, Handles, ReaderRec)' /\ IsMap(cards, Handles, CardRec)'
    BY <1>2 DEF KeptBy, Typed
  <2>5. view'.on \in BOOLEAN /\ IsMap(view.readers, Handles, ReaderRec)' /\ IsMap(view.cards, Handles, CardRec)'
    BY <2>4, ViewTyped
  <2> QED
    BY <1>2, <1>u, <2>1, <2>2, <2>3, <2>4, <2>5 DEF Typed, TypeOK
<1>5. /\ \A i : i # Gone(b) => (Leaving(T, i) <=> Leaving(P, i))
      /\ Gone(b) # Nothing => ~Leaving(T, Gone(b)) /\ ~Present(w, Gone(b))
  BY <1>1 DEF Taken
<1>6. \A i \in Ids : Live(i)' <=> (Live(i) /\ i # Gone(b)) \/ i = Intro(b)
  <2> SUFFICES ASSUME NEW i \in Ids PROVE Live(i)' <=> (Live(i) /\ i # Gone(b)) \/ i = Intro(b)
    OBVIOUS
  <2>0. i # Nothing /\ i \in Nat /\ nh \in Nat /\ nh > 0
    <3>1. nh \in 1..ni
      BY <1>1 DEF Taken
    <3> QED
      BY <1>0, <3>1, PresenceAssumption DEF Ids, Nothing
  <2>1. Live(i)' <=> i \in 1..(mh - 1) /\ (Present(w, i) \/ Leaving(T, i))
    BY <1>2, <1>p, <1>u DEF Live
  <2>2. Live(i) <=> i \in 1..(nh - 1) /\ (Present(w, i) \/ Leaving(P, i))
    BY <1>p DEF Live
  <2>3. Intro(b) = Nothing \/ Intro(b) = nh
    BY <1>1 DEF Taken
  <2>4. CASE Intro(b) = Nothing
    <3>1. mh = nh /\ i # Intro(b)
      BY <1>1, <2>0, <2>4 DEF Taken
    <3> QED
      BY <1>5, <2>0, <2>1, <2>2, <3>1
  <2>5. CASE Intro(b) = nh
    <3>1. Gone(b) = Nothing /\ nh \in Named(b) /\ mh = nh + 1
      BY <1>1, <2>0, <2>5 DEF Taken, Intro, Gone, Named, Nothing
    <3>2. Leaving(T, i) <=> Leaving(P, i)
      BY <1>5, <2>0, <3>1
    <3>3. CASE i = nh
      <4>1. Present(w, i) \/ Leaving(P, i)
        BY <1>1, <3>1, <3>3 DEF Taken
      <4>2. i \in 1..(mh - 1)
        BY ONLY <2>0, <3>1, <3>3
      <4> QED
        BY <2>1, <2>5, <3>2, <3>3, <4>1, <4>2
    <3>4. CASE i # nh
      <4>1. i \in 1..(mh - 1) <=> i \in 1..(nh - 1)
        BY ONLY <2>0, <3>1, <3>4
      <4>2. i # Gone(b) /\ i # Intro(b)
        BY <2>0, <2>5, <3>1, <3>4
      <4> QED
        BY <2>1, <2>2, <3>2, <4>1, <4>2
    <3> QED
      BY <3>3, <3>4
  <2> QED
    BY <2>3, <2>4, <2>5
<1>7. ASSUME NEW s \in Slots, w[s].reader # Nothing, \A p \in DOMAIN T : Told(T[p]) # w[s].reader
      PROVE  readers'[w[s].reader].card = w[s].card
  <2>0. PICK r : r = w[s].reader
    OBVIOUS
  <2>1. r \in DOMAIN readers'
    <3>1. T \in Seq(Block)
      <4>1. P # << >> /\ T = Tail(P)
        BY <1>p DEF Takes
      <4> QED
        BY <1>0, <4>1, TailIs
    <3>2. r \in 1..(mh - 1)
      BY ONLY <1>0, <1>1, <1>7, <2>0, <3>1, UntoldIsKnown
    <3>3. WorldInv(home, w, ni)
      BY <1>0 DEF QueueInv
    <3>4. r \in Ids /\ home[r] = Nothing
      BY ONLY <1>0, <1>7, <2>0, <3>3, InSlot
    <3>5. Live(r)'
      BY <1>2, <1>p, <1>u, <2>0, <3>2 DEF Live, Present
    <3>6. r \in DOMAIN readers <=> Live(r)
      BY <3>4 DEF KeptBy, LoopInv
    <3> QED
      BY <1>2, <1>6, <3>4, <3>5, <3>6 DEF Applied, HandlesApplied, ReadersApplied, CardsApplied
  <2>2. /\ Told(b) = r => readers'[r].card = CardOf(b)
        /\ Told(b) # r => readers'[r].card = readers[r].card
    BY <1>2, <2>1 DEF Applied, HandlesApplied, ReadersApplied, CardsApplied
  <2>3. \/ Told(b) = r /\ CardOf(b) = w[s].card
        \/ Told(b) # r /\ \A p \in DOMAIN P : Told(P[p]) # r
    BY <1>1, <1>7, <2>0 DEF Taken
  <2>4. CASE Told(b) = r /\ CardOf(b) = w[s].card
    BY <2>0, <2>2, <2>4
  <2>5. CASE Told(b) # r /\ \A p \in DOMAIN P : Told(P[p]) # r
    <3>1. readers[r].card = w[s].card
      BY <1>7, <1>p, <2>0, <2>5 DEF KeptBy, LoopInv
    <3> QED
      BY <2>0, <2>2, <2>5, <3>1
  <2> QED
    BY <2>3, <2>4, <2>5
<1>8. \A i \in Ids : i \in DOMAIN idToHandle' <=> Live(i)'
  <2>1. \A i \in Ids : i \in DOMAIN idToHandle <=> Live(i)
    BY DEF KeptBy, LoopInv
  <2> QED
    BY <1>2, <1>6, <2>1 DEF Applied, HandlesApplied, ReadersApplied, CardsApplied
<1>9. \A i \in Ids : i \in DOMAIN readers' <=> Live(i)' /\ home[i] = Nothing
  <2>1. \A i \in Ids : i \in DOMAIN readers <=> Live(i) /\ home[i] = Nothing
    BY DEF KeptBy, LoopInv
  <2> QED
    BY <1>2, <1>6, <2>1 DEF Applied, HandlesApplied, ReadersApplied, CardsApplied
<1>10. \A i \in DOMAIN cards' : /\ Live(i)' /\ home[i] # Nothing
                                /\ cards'[i].id = i /\ cards'[i].reader = home[i] /\ cards'[i].type \in {Nothing, i}
  <2>1. \A i \in DOMAIN cards' : i \in Ids
    BY <1>2 DEF Typed, IsMap, Handles, Ids
  <2> QED
    BY <1>2, <1>6, <2>1 DEF Applied, HandlesApplied, ReadersApplied, CardsApplied
<1>11. \A i \in DOMAIN pending' : i < nextId' /\ home[i] # Nothing /\ (Present(world, i)' \/ Leaving(posted, i)')
  <2>1. \A i \in DOMAIN pending' : i < ni /\ home[i] # Nothing /\ i # Gone(b) /\ (Present(w, i) \/ Leaving(P, i))
    BY <1>2, <1>p DEF Applied, HandlesApplied, ReadersApplied, CardsApplied
  <2>2. \A i \in DOMAIN pending' : i < ni /\ home[i] # Nothing /\ (Present(w, i) \/ Leaving(T, i))
    BY <1>5, <2>1
  <2> QED
    BY <1>p, <1>u, <2>2
<1>12. /\ \A i \in DOMAIN probe' : i < nextId' /\ home[i] # Nothing /\ probe'[i].reader = home[i]
       /\ \A i \in DOMAIN reading' : reading'[i] = i
       /\ readerNames' = DOMAIN readers' /\ \A i \in DOMAIN readers' : readers'[i].id = i
       /\ \A i \in DOMAIN idToHandle' : idToHandle'[i] = i
  BY <1>2, <1>u DEF Applied, HandlesApplied, ReadersApplied, CardsApplied, KeptBy, LoopInv
<1>13. LoopInv(home)'
  BY <1>7, <1>8, <1>9, <1>10, <1>11, <1>12, <1>p, <1>u DEF LoopInv
<1>14. home \in [Ids -> 0..MaxIds]
  BY DEF KeptBy, QueueInv, HomeInv
<1> QED
  BY <1>3, <1>4, <1>13, <1>14 DEF Kept

LEMMA RunTakes ==
  ASSUME NEW kind, Run(kind)
  PROVE  \E b : Takes(posted, posted', b) /\ b = Head(posted) /\ b.do = kind /\ UNCHANGED <<worldVars, reading>>
  BY DEF Run, Takes

\* What the loop's tables are, for an object with a handle and for one without.
LEMMA KeptTables ==
  ASSUME NEW home, KeptBy(home)
  PROVE  /\ Typed
         /\ \A i \in Ids : (i \in DOMAIN idToHandle <=> Live(i)) /\ (i \in DOMAIN readers <=> Live(i) /\ home[i] = Nothing)
         /\ \A i \in DOMAIN idToHandle : idToHandle[i] = i
         /\ readerNames = DOMAIN readers
         /\ \A i \in DOMAIN readers : readers[i].id = i
         /\ \A i \in DOMAIN cards : /\ Live(i) /\ home[i] # Nothing
                                    /\ cards[i].id = i /\ cards[i].reader = home[i] /\ cards[i].type \in {Nothing, i}
         /\ \A i \in DOMAIN pending : i < nextId /\ home[i] # Nothing /\ (Present(world, i) \/ Leaving(posted, i))
         /\ \A i \in DOMAIN probe : i < nextId /\ home[i] # Nothing /\ probe[i].reader = home[i]
  BY DEF KeptBy, TypeOK, Typed, LoopInv

\* Cards, pending cards and probes are as they were.
LEMMA SameCards ==
  ASSUME NEW home, KeptBy(home), NEW b, Gone(b) = Nothing, UNCHANGED <<cards, pending, probe>>
  PROVE  /\ CardsApplied(home, b)
         /\ IsMap(cards, Handles, CardRec)' /\ IsMap(pending, Ids, 0..MaxRetries)'
         /\ IsMap(probe, Ids, [at : {"worker", "timer"}, reader : Ids])'
<1>1. \A i \in DOMAIN cards \cup DOMAIN pending : i # Nothing
  BY PresenceAssumption DEF KeptBy, TypeOK, IsMap, Handles, Ids, Nothing
<1>2. Typed
  BY KeptTables
<1> QED
  BY <1>1, <1>2, KeptTables DEF Typed, CardsApplied

\* The handles and the readers are as they were.
LEMMA SameHandles ==
  ASSUME NEW home, KeptBy(home), NEW b, Gone(b) = Nothing, Intro(b) = Nothing, UNCHANGED idToHandle
  PROVE  HandlesApplied(b) /\ IsMap(idToHandle, Ids, Handles)'
<1>1. \A i \in Ids : i # Nothing
  BY DEF Ids, Nothing
<1>2. Typed
  BY KeptTables
<1> QED
  BY <1>1, <1>2, KeptTables DEF Typed, HandlesApplied

LEMMA SameReaders ==
  ASSUME NEW home, KeptBy(home), NEW b, Gone(b) = Nothing, Intro(b) = Nothing, Told(b) = Nothing,
         UNCHANGED <<readers, readerNames>>
  PROVE  ReadersApplied(home, b) /\ IsMap(readers, Handles, ReaderRec)'
<1>1. \A i \in Ids : i # Nothing
  BY DEF Ids, Nothing
<1>2. Typed
  BY KeptTables
<1>3. \A i \in DOMAIN readers : i \in Ids
  BY <1>2 DEF Typed, IsMap, Handles, Ids
<1> QED
  BY <1>1, <1>2, <1>3, KeptTables DEF Typed, ReadersApplied

LEMMA RunReaderKeeps ==
  ASSUME Kept, IInv', RunReader
  PROVE  Kept'
<1>0. PICK home : KeptBy(home)
  BY KeptHasHome
<1>1. PICK b : Takes(posted, posted', b) /\ b = Head(posted) /\ b.do = "reader" /\ UNCHANGED <<worldVars, reading>>
  BY RunTakes DEF RunReader
<1>2. PICK i, rec : i = b.id /\ rec = [id |-> i, card |-> Nothing, label |-> "plain"]
  OBVIOUS
<1>3. /\ readerNames' = readerNames \cup {i}
      /\ Mint(handleFor(Minted, i))
      /\ readers' = Put(readers, idToHandle'[i], rec)
      /\ TellReader(idToHandle'[i], rec)
      /\ UNCHANGED <<pending, probe, cards>>
  BY <1>1, <1>2 DEF RunReader
<1>4. Intro(b) = i /\ Gone(b) = Nothing /\ Told(b) = i /\ CardOf(b) = Nothing
  BY <1>1, <1>2 DEF Intro, Gone, Told, CardOf
<1>5. PICK mh : mh = IF Intro(b) = Nothing THEN nextHandle ELSE nextHandle + 1
  OBVIOUS
<1>6. ASSUME Taken(home, posted, posted', b, world, nextHandle, mh, nextId)
      PROVE  nextHandle' = mh /\ Applied(home, b) /\ Typed'
  <2>1. /\ i \in 1..(nextId - 1) /\ home[i] = Nothing /\ i \in {Nothing, nextHandle}
        /\ nextId \in 1..(MaxIds + 1)
    BY <1>0, <1>1, <1>2, <1>4, <1>6 DEF Taken, BlockOK, KeptBy, TypeOK
  <2>2. i \in Ids /\ i # Nothing /\ i = nextHandle /\ i \in Nat
    BY <2>1, PresenceAssumption DEF Ids, Nothing
  <2>3. i \notin DOMAIN idToHandle
    <3>1. ~Live(i)
      BY <2>2 DEF Live
    <3> QED
      BY <1>0, <2>2, <3>1, KeptTables
  <2>4. idToHandle' = Put(idToHandle, i, i) /\ nextHandle' = nextHandle + 1
    BY <1>3, <2>2, <2>3 DEF Mint, handleFor, Minted
  <2>5. idToHandle'[i] = i
    BY <2>4 DEF Put
  <2>6. readers' = Put(readers, i, rec) /\ rec \in ReaderRec /\ rec.id = i /\ rec.card = Nothing
    BY <1>2, <1>3, <2>2, <2>5 DEF ReaderRec, Labels
  <2>7. nextHandle' = mh
    BY <1>4, <1>5, <2>2, <2>4
  <2>8. /\ DOMAIN readers' = DOMAIN readers \cup {i} /\ readers'[i] = rec
        /\ \A x \in DOMAIN readers : x # i => readers'[x] = readers[x]
    BY <2>6 DEF Put
  <2>9. /\ DOMAIN idToHandle' = DOMAIN idToHandle \cup {i}
        /\ \A x \in DOMAIN idToHandle : x # i => idToHandle'[x] = idToHandle[x]
    BY <2>4 DEF Put
  <2>10. Typed'
    <3>1. IsMap(idToHandle, Ids, Handles) /\ IsMap(readers, Handles, ReaderRec)
      BY <1>0 DEF KeptBy, TypeOK
    <3>2. IsMap(idToHandle, Ids, Handles)' /\ IsMap(readers, Handles, ReaderRec)'
      BY <2>2, <2>4, <2>6, <3>1, PutMap DEF Handles, Ids
    <3> QED
      BY <1>0, <1>3, <1>4, <3>2, SameCards DEF Typed
  <2>11. Applied(home, b)
    <3>1. \A x \in Ids : x # Gone(b)
      BY <1>4 DEF Ids, Nothing
    <3>2. \A x \in Ids : x \in DOMAIN idToHandle' <=> (x \in DOMAIN idToHandle /\ x # Gone(b)) \/ x = Intro(b)
      BY <1>4, <2>9, <3>1
    <3>3. \A x \in DOMAIN idToHandle' : idToHandle'[x] = x
      BY <1>0, <2>5, <2>9, KeptTables
    <3>4. readerNames' = DOMAIN readers'
      BY <1>0, <1>3, <2>8, KeptTables
    <3>5. \A x \in Ids : x \in DOMAIN readers' <=>
             (x \in DOMAIN readers /\ x # Gone(b)) \/ (x = Intro(b) /\ home[x] = Nothing)
      BY <1>4, <2>1, <2>8, <3>1
    <3>6. \A x \in DOMAIN readers' : /\ readers'[x].id = x
                                     /\ Told(b) = x => readers'[x].card = CardOf(b)
                                     /\ Told(b) # x => readers'[x].card = readers[x].card
      BY <1>0, <1>4, <2>6, <2>8, KeptTables
    <3>7. CardsApplied(home, b)
      BY ONLY <1>0, <1>3, <1>4, SameCards
    <3> QED
      BY <3>2, <3>3, <3>4, <3>5, <3>6, <3>7 DEF Applied, HandlesApplied, ReadersApplied
  <2> QED
    BY <2>7, <2>10, <2>11
<1>7. view' = view \/ view'.on
  BY <1>3 DEF TellReader, IInv
<1> QED
  BY ONLY <1>0, <1>1, <1>5, <1>6, <1>7, IInv', BlockRun

LEMMA RunSeatKeeps ==
  ASSUME Kept, IInv', RunSeat
  PROVE  Kept'
<1>0. PICK home : KeptBy(home)
  BY KeptHasHome
<1>1. PICK b : Takes(posted, posted', b) /\ b = Head(posted) /\ b.do = "seat" /\ UNCHANGED <<worldVars, reading>>
  BY RunTakes DEF RunSeat
<1>2. PICK i, c : i = b.id /\ c = b.of
  OBVIOUS
<1>3. UNCHANGED <<readerNames, pending, probe, cards>>
  BY DEF RunSeat
<1>4. /\ Intro(b) = c /\ Gone(b) = Nothing /\ Told(b) = i /\ CardOf(b) = c /\ Knows(b) = i
      /\ Named(b) = {i, c} \ {Nothing}
  BY <1>1, <1>2 DEF Intro, Gone, Told, CardOf, Knows, Named
<1>5. PICK mh : mh = IF Intro(b) = Nothing THEN nextHandle ELSE nextHandle + 1
  OBVIOUS
<1>6. ASSUME Taken(home, posted, posted', b, world, nextHandle, mh, nextId)
      PROVE  nextHandle' = mh /\ Applied(home, b) /\ Typed'
  <2>0. /\ b \in Block /\ BlockOK(home, b, nextId) /\ c \in {Nothing, nextHandle} /\ nextHandle \in 1..nextId
        /\ i # Nothing => i \in 1..(nextHandle - 1)
        /\ \A x \in Named(b) : Present(world, x) \/ Leaving(posted, x)
        /\ nextId \in 1..(MaxIds + 1)
    BY <1>0, <1>4, <1>6 DEF Taken, KeptBy, TypeOK
  <2>1. /\ i \in 1..(nextId - 1) /\ home[i] = Nothing
        /\ c # Nothing => c \in 1..(nextId - 1) /\ home[c] = i
    BY <1>1, <1>2, <2>0 DEF BlockOK
  <2>2. /\ i \in Ids /\ i # Nothing /\ nextHandle \in Nat
        /\ c # Nothing => c \in Ids /\ c = nextHandle /\ home[c] # Nothing
    BY <2>0, <2>1, PresenceAssumption DEF Ids, Nothing
  <2>3. Live(i)
    BY <1>4, <2>0, <2>2 DEF Live
  <2>4. i \in DOMAIN idToHandle /\ idToHandle[i] = i /\ i \in DOMAIN readers
    BY <1>0, <2>1, <2>2, <2>3, KeptTables
  <2>5. PICK rec : rec = [readers[i] EXCEPT !.card = IF c = Nothing THEN Nothing ELSE idToHandle'[c]]
    OBVIOUS
  <2>6. /\ Mint(IF c = Nothing THEN Minted ELSE handleFor(Minted, c))
        /\ readers' = Put(readers, i, rec)
    BY <1>1, <1>2, <2>4, <2>5 DEF RunSeat
  <2>7. c # Nothing => c \notin DOMAIN idToHandle
    <3>1. c # Nothing => ~Live(c)
      BY <2>2 DEF Live
    <3> QED
      BY <1>0, <2>2, <3>1, KeptTables
  <2>8. c = Nothing => UNCHANGED <<idToHandle, nextHandle>>
    BY <2>6 DEF Mint, Minted
  <2>9. c # Nothing => idToHandle' = Put(idToHandle, c, c) /\ nextHandle' = nextHandle + 1
    BY <2>2, <2>6, <2>7 DEF Mint, handleFor, Minted
  <2>10. nextHandle' = mh
    BY <1>4, <1>5, <2>8, <2>9
  <2>11. c # Nothing => /\ DOMAIN idToHandle' = DOMAIN idToHandle \cup {c} /\ idToHandle'[c] = c
                        /\ \A x \in DOMAIN idToHandle : x # c => idToHandle'[x] = idToHandle[x]
    BY <2>9 DEF Put
  <2>12. Typed
    BY <1>0, KeptTables
  <2>13. rec \in ReaderRec /\ rec.id = i /\ rec.card = c
    <3>1. readers[i] \in ReaderRec /\ readers[i].id = i
      BY <1>0, <2>4, <2>12, KeptTables DEF Typed, IsMap
    <3>2. PICK k : k = IF c = Nothing THEN Nothing ELSE idToHandle'[c]
      OBVIOUS
    <3>3. k = c /\ k \in Handles \cup {Nothing}
      BY <2>2, <2>11, <3>2 DEF Handles, Ids
    <3>4. rec = [readers[i] EXCEPT !.card = k]
      BY <2>5, <3>2
    <3> QED
      BY ONLY <3>1, <3>3, <3>4 DEF ReaderRec
  <2>14. /\ DOMAIN readers' = DOMAIN readers /\ readers'[i] = rec
         /\ \A x \in DOMAIN readers : x # i => readers'[x] = readers[x]
    BY <2>4, <2>6 DEF Put
  <2>15. Typed'
    <3>1. IsMap(readers, Handles, ReaderRec)'
      BY <2>12, <2>13, <2>14 DEF Typed, IsMap
    <3>2. IsMap(idToHandle, Ids, Handles)'
      BY <2>2, <2>8, <2>11, <2>12 DEF Typed, IsMap, Handles, Ids
    <3> QED
      BY <1>0, <1>3, <1>4, <3>1, <3>2, SameCards DEF Typed
  <2>16. Applied(home, b)
    <3>1. \A x \in Ids : x # Gone(b) /\ x # Nothing
      BY <1>4 DEF Ids, Nothing
    <3>2. \A x \in Ids : x \in DOMAIN idToHandle' <=> (x \in DOMAIN idToHandle /\ x # Gone(b)) \/ x = Intro(b)
      BY <1>4, <2>8, <2>11, <3>1
    <3>3. \A x \in DOMAIN idToHandle' : idToHandle'[x] = x
      BY <1>0, <2>8, <2>11, KeptTables
    <3>4. readerNames' = DOMAIN readers'
      BY <1>0, <1>3, <2>14, KeptTables
    <3>5. \A x \in Ids : x \in DOMAIN readers' <=>
             (x \in DOMAIN readers /\ x # Gone(b)) \/ (x = Intro(b) /\ home[x] = Nothing)
      BY <1>4, <2>2, <2>14, <3>1
    <3>6. \A x \in DOMAIN readers' : /\ readers'[x].id = x
                                     /\ Told(b) = x => readers'[x].card = CardOf(b)
                                     /\ Told(b) # x => readers'[x].card = readers[x].card
      BY <1>0, <1>4, <2>13, <2>14, KeptTables
    <3>7. CardsApplied(home, b)
      BY ONLY <1>0, <1>3, <1>4, SameCards
    <3> QED
      BY <3>2, <3>3, <3>4, <3>5, <3>6, <3>7 DEF Applied, HandlesApplied, ReadersApplied
  <2> QED
    BY <2>10, <2>15, <2>16
<1>7. view' = view \/ view'.on
  <2>1. (\E h, r : TellReader(h, r)) \/ UNCHANGED view
    BY DEF RunSeat
  <2> QED
    BY <2>1 DEF TellReader, IInv
<1> QED
  BY ONLY <1>0, <1>1, <1>5, <1>6, <1>7, IInv', BlockRun

LEMMA RunRelabelKeeps ==
  ASSUME Kept, IInv', RunRelabel
  PROVE  Kept'
<1>0. PICK home : KeptBy(home)
  BY KeptHasHome
<1>1. PICK b : Takes(posted, posted', b) /\ b = Head(posted) /\ b.do = "relabel" /\ UNCHANGED <<worldVars, reading>>
  BY RunTakes DEF RunRelabel
<1>2. UNCHANGED <<readerNames, pending, probe, idToHandle, nextHandle, cards>>
  BY DEF RunRelabel
<1>3. Intro(b) = Nothing /\ Gone(b) = Nothing /\ Told(b) = Nothing
  BY <1>1 DEF Intro, Gone, Told
<1>4. PICK mh : mh = IF Intro(b) = Nothing THEN nextHandle ELSE nextHandle + 1
  OBVIOUS
<1>5. ASSUME Taken(home, posted, posted', b, world, nextHandle, mh, nextId)
      PROVE  nextHandle' = mh /\ Applied(home, b) /\ Typed'
  <2>1. b.label \in Labels
    BY <1>1, <1>5 DEF Taken, Block
  <2>2. Typed
    BY <1>0, KeptTables
  <2>3. HandlesApplied(b) /\ IsMap(idToHandle, Ids, Handles)'
    BY ONLY <1>0, <1>2, <1>3, SameHandles
  <2>4. ReadersApplied(home, b) /\ IsMap(readers, Handles, ReaderRec)'
    <3>0. CASE UNCHANGED readers
      <4>1. UNCHANGED <<readers, readerNames>>
        BY <1>2, <3>0
      <4> QED
        BY ONLY <1>0, <1>3, <4>1, SameReaders
    <3>1. CASE ~UNCHANGED readers
      <4>1. PICK i, rec : i = b.id /\ rec = [readers[i] EXCEPT !.label = b.label]
        OBVIOUS
      <4>2. i \in DOMAIN idToHandle /\ idToHandle[i] \in DOMAIN readers
        BY <1>1, <3>1, <4>1 DEF RunRelabel
      <4>3. idToHandle[i] = i
        BY <1>0, <4>2, KeptTables
      <4>4. i \in DOMAIN readers /\ readers' = Put(readers, i, rec)
        BY <1>1, <3>1, <4>1, <4>2, <4>3 DEF RunRelabel
      <4>5. readers[i] \in ReaderRec /\ readers[i].id = i
        BY <1>0, <2>2, <4>4, KeptTables DEF Typed, IsMap
      <4>6. rec \in ReaderRec /\ rec.id = i /\ rec.card = readers[i].card
        BY ONLY <2>1, <4>1, <4>5 DEF ReaderRec
      <4>7. /\ DOMAIN readers' = DOMAIN readers /\ readers'[i] = rec
            /\ \A x \in DOMAIN readers : x # i => readers'[x] = readers[x]
        BY <4>4 DEF Put
      <4>8. IsMap(readers, Handles, ReaderRec)'
        BY <2>2, <4>6, <4>7 DEF Typed, IsMap
      <4>9. \A x \in Ids : x # Nothing
        BY DEF Ids, Nothing
      <4>10. \A x \in DOMAIN readers : x \in Ids
        BY <2>2 DEF Typed, IsMap, Handles, Ids
      <4>11. \A x \in DOMAIN readers' : /\ readers'[x].id = x /\ Told(b) # x
                                        /\ readers'[x].card = readers[x].card
        BY <1>0, <1>3, <4>6, <4>7, <4>9, <4>10, KeptTables
      <4>12. readerNames' = DOMAIN readers'
        BY <1>0, <1>2, <4>7, KeptTables
      <4> QED
        BY <1>3, <4>7, <4>8, <4>9, <4>11, <4>12 DEF ReadersApplied
    <3> QED
      BY <3>0, <3>1
  <2>6. /\ CardsApplied(home, b)
        /\ IsMap(cards, Handles, CardRec)' /\ IsMap(pending, Ids, 0..MaxRetries)'
        /\ IsMap(probe, Ids, [at : {"worker", "timer"}, reader : Ids])'
    BY ONLY <1>0, <1>2, <1>3, SameCards
  <2> QED
    BY <1>2, <1>3, <1>4, <2>3, <2>4, <2>6 DEF Applied, Typed
<1>6. view' = view \/ view'.on
  <2>1. (\E h, r : TellReader(h, r)) \/ UNCHANGED view
    BY DEF RunRelabel
  <2> QED
    BY <2>1 DEF TellReader, IInv
<1> QED
  BY ONLY <1>0, <1>1, <1>4, <1>5, <1>6, IInv', BlockRun

LEMMA RunWithdrawKeeps ==
  ASSUME Kept, IInv', RunWithdraw
  PROVE  Kept'
<1>0. PICK home : KeptBy(home)
  BY KeptHasHome
<1>1. PICK b : Takes(posted, posted', b) /\ b = Head(posted) /\ b.do = "withdraw" /\ UNCHANGED <<worldVars, reading>>
  BY RunTakes DEF RunWithdraw
<1>2. PICK i : i = b.id
  OBVIOUS
<1>3. pending' = Drop(pending, i) /\ readerNames' = readerNames \ {i} /\ UNCHANGED <<probe, nextHandle>>
  BY <1>1, <1>2 DEF RunWithdraw
<1>4. Intro(b) = Nothing /\ Gone(b) = i /\ Told(b) = Nothing /\ Knows(b) = i
  BY <1>1, <1>2 DEF Intro, Gone, Told, Knows
<1>5. PICK mh : mh = IF Intro(b) = Nothing THEN nextHandle ELSE nextHandle + 1
  OBVIOUS
<1>6. ASSUME Taken(home, posted, posted', b, world, nextHandle, mh, nextId)
      PROVE  nextHandle' = mh /\ Applied(home, b) /\ Typed'
  <2>0. /\ BlockOK(home, b, nextId) /\ nextHandle \in 1..nextId /\ nextId \in 1..(MaxIds + 1)
        /\ i # Nothing => i \in 1..(nextHandle - 1) /\ Leaving(posted, i)
    BY <1>0, <1>4, <1>6 DEF Taken, KeptBy, TypeOK
  <2>1. i \in 1..(nextId - 1)
    BY <1>1, <1>2, <2>0 DEF BlockOK
  <2>2. i \in Ids /\ i # Nothing
    BY <2>0, <2>1, PresenceAssumption DEF Ids, Nothing
  <2>3. Live(i)
    BY <2>0, <2>2 DEF Live
  <2>4. i \in DOMAIN idToHandle /\ idToHandle[i] = i
    BY <1>0, <2>2, <2>3, KeptTables
  <2>5. readers' = Drop(readers, i) /\ cards' = Drop(cards, i) /\ idToHandle' = Drop(idToHandle, i)
    BY <1>1, <1>2, <2>4 DEF RunWithdraw
  <2>6. /\ DOMAIN readers' = DOMAIN readers \ {i} /\ \A x \in DOMAIN readers' : readers'[x] = readers[x]
        /\ DOMAIN cards' = DOMAIN cards \ {i} /\ \A x \in DOMAIN cards' : cards'[x] = cards[x]
        /\ DOMAIN idToHandle' = DOMAIN idToHandle \ {i} /\ \A x \in DOMAIN idToHandle' : idToHandle'[x] = idToHandle[x]
        /\ DOMAIN pending' = DOMAIN pending \ {i} /\ \A x \in DOMAIN pending' : pending'[x] = pending[x]
    BY <1>3, <2>5 DEF Drop, Restrict
  <2>7. Typed
    BY <1>0, KeptTables
  <2>8. Typed'
    BY <1>3, <2>6, <2>7 DEF Typed, IsMap
  <2>9. \A x \in Ids : x # Nothing
    BY DEF Ids, Nothing
  <2>10. HandlesApplied(b)
    <3>1. \A x \in Ids : x \in DOMAIN idToHandle' <=> (x \in DOMAIN idToHandle /\ x # Gone(b)) \/ x = Intro(b)
      BY <1>4, <2>6, <2>9
    <3>2. \A x \in DOMAIN idToHandle' : idToHandle'[x] = x
      BY <1>0, <2>6, KeptTables
    <3> QED
      BY <3>1, <3>2 DEF HandlesApplied
  <2>11. ReadersApplied(home, b)
    <3>1. readerNames' = DOMAIN readers'
      BY <1>0, <1>3, <2>6, KeptTables
    <3>2. \A x \in DOMAIN readers' : x \in Ids /\ readers'[x].id = x
      BY <1>0, <2>6, <2>7, KeptTables DEF Typed, IsMap, Handles, Ids
    <3>3. \A x \in DOMAIN readers' : Told(b) # x /\ readers'[x].card = readers[x].card
      BY <1>4, <2>6, <2>9, <3>2
    <3> QED
      BY <1>4, <2>6, <2>9, <3>1, <3>2, <3>3 DEF ReadersApplied
  <2>12. CardsApplied(home, b)
    <3>1. \A x \in DOMAIN cards' :
               /\ Live(x) /\ x # Gone(b) /\ home[x] # Nothing
               /\ cards'[x].id = x /\ cards'[x].reader = home[x] /\ cards'[x].type \in {Nothing, x}
      BY <1>0, <1>4, <2>6, KeptTables
    <3>2. \A x \in DOMAIN pending' : /\ x < nextId /\ home[x] # Nothing /\ x # Gone(b)
                                     /\ Present(world, x) \/ Leaving(posted, x)
      BY <1>0, <1>4, <2>6, KeptTables
    <3>3. \A x \in DOMAIN probe' : x < nextId /\ home[x] # Nothing /\ probe'[x].reader = home[x]
      BY <1>0, <1>3, KeptTables
    <3> QED
      BY <3>1, <3>2, <3>3 DEF CardsApplied
  <2> QED
    BY <1>3, <1>4, <1>5, <2>8, <2>10, <2>11, <2>12 DEF Applied
<1>7. view' = view \/ view'.on
  <2>1. (\E h : TellGone(h)) \/ UNCHANGED view
    BY DEF RunWithdraw
  <2> QED
    BY <2>1 DEF TellGone, IInv
<1> QED
  BY ONLY <1>0, <1>1, <1>5, <1>6, <1>7, IInv', BlockRun

LEMMA RunCardKeeps ==
  ASSUME Kept, IInv', NEW queued \in BOOLEAN, RunCard(queued)
  PROVE  Kept'
<1>0. PICK home : KeptBy(home)
  BY KeptHasHome
<1>1. PICK b : Takes(posted, posted', b) /\ b = Head(posted) /\ b.do = "card" /\ UNCHANGED <<worldVars, reading>>
  BY RunTakes DEF RunCard
<1>2. PICK i, r : i = b.id /\ r = b.of
  OBVIOUS
<1>3. UNCHANGED <<readerNames, idToHandle, nextHandle, readers, cards, view>>
  BY DEF RunCard, wireVars
<1>4. /\ pending' = IF i \in DOMAIN pending THEN pending ELSE Put(pending, i, 0)
      /\ \E at \in {"worker", "timer"} : probe' = Put(probe, i, [at |-> at, reader |-> r])
  BY <1>1, <1>2 DEF RunCard, Schedule
<1>5. Intro(b) = Nothing /\ Gone(b) = Nothing /\ Told(b) = Nothing /\ Named(b) = {i}
  BY <1>1, <1>2 DEF Intro, Gone, Told, Named
<1>6. PICK mh : mh = IF Intro(b) = Nothing THEN nextHandle ELSE nextHandle + 1
  OBVIOUS
<1>7. ASSUME Taken(home, posted, posted', b, world, nextHandle, mh, nextId)
      PROVE  nextHandle' = mh /\ Applied(home, b) /\ Typed'
  <2>0. /\ b \in Block /\ BlockOK(home, b, nextId) /\ nextId \in 1..(MaxIds + 1)
        /\ Present(world, i) \/ Leaving(posted, i)
    BY <1>0, <1>5, <1>7 DEF Taken, KeptBy, TypeOK
  <2>1. i \in 1..(nextId - 1) /\ r # Nothing /\ home[i] = r /\ r \in Ids \cup {Nothing}
    BY <1>1, <1>2, <2>0 DEF BlockOK, Block
  <2>2. i \in Ids /\ i < nextId /\ i # Nothing /\ r \in Ids /\ 0 \in 0..MaxRetries
    BY <2>0, <2>1, PresenceAssumption DEF Ids, Nothing
  <2>3. PICK e : probe' = Put(probe, i, e) /\ e \in [at : {"worker", "timer"}, reader : Ids] /\ e.reader = r
    BY <1>4, <2>2
  <2>4. Typed
    BY <1>0, KeptTables
  <2>5. /\ DOMAIN probe' = DOMAIN probe \cup {i} /\ probe'[i] = e
        /\ \A x \in DOMAIN probe : x # i => probe'[x] = probe[x]
    BY <2>3 DEF Put
  <2>6. /\ DOMAIN pending' = DOMAIN pending \cup {i}
        /\ \A x \in DOMAIN pending : pending'[x] = pending[x]
        /\ i \notin DOMAIN pending => pending'[i] = 0
    BY <1>4 DEF Put
  <2>7. IsMap(pending, Ids, 0..MaxRetries)' /\ IsMap(probe, Ids, [at : {"worker", "timer"}, reader : Ids])'
    BY <2>2, <2>3, <2>4, <2>5, <2>6 DEF Typed, IsMap
  <2>8. CardsApplied(home, b)
    <3>0. \A x \in Ids : x # Gone(b)
      BY <1>5 DEF Ids, Nothing
    <3>1. \A x \in DOMAIN cards' : x \in Ids
      BY <1>3, <2>4 DEF Typed, IsMap, Handles, Ids
    <3>2. \A x \in DOMAIN cards' :
               /\ Live(x) /\ x # Gone(b) /\ home[x] # Nothing
               /\ cards'[x].id = x /\ cards'[x].reader = home[x] /\ cards'[x].type \in {Nothing, x}
      BY <1>0, <1>3, <3>0, <3>1, KeptTables
    <3>3. \A x \in DOMAIN pending' : x \in Ids
      BY <2>7 DEF IsMap
    <3>4. \A x \in DOMAIN pending' : /\ x < nextId /\ home[x] # Nothing /\ x # Gone(b)
                                     /\ Present(world, x) \/ Leaving(posted, x)
      <4>1. \A x \in DOMAIN pending : /\ x < nextId /\ home[x] # Nothing
                                      /\ Present(world, x) \/ Leaving(posted, x)
        BY ONLY <1>0, KeptTables
      <4>2. i < nextId /\ home[i] # Nothing /\ (Present(world, i) \/ Leaving(posted, i))
        BY ONLY <2>0, <2>1, <2>2
      <4>3. DOMAIN pending' = DOMAIN pending \cup {i}
        BY ONLY <2>6
      <4> QED
        BY ONLY <4>1, <4>2, <4>3, <3>0, <3>3
    <3>5. \A x \in DOMAIN probe' : x < nextId /\ home[x] # Nothing /\ probe'[x].reader = home[x]
      BY <1>0, <2>1, <2>2, <2>3, <2>5, KeptTables
    <3> QED
      BY <3>2, <3>4, <3>5 DEF CardsApplied
  <2>9. HandlesApplied(b) /\ IsMap(idToHandle, Ids, Handles)'
    BY ONLY <1>0, <1>3, <1>5, SameHandles
  <2>10. ReadersApplied(home, b) /\ IsMap(readers, Handles, ReaderRec)'
    <3>1. UNCHANGED <<readers, readerNames>>
      BY <1>3
    <3> QED
      BY ONLY <1>0, <1>5, <3>1, SameReaders
  <2>11. Typed'
    BY <1>3, <2>4, <2>7, <2>9, <2>10 DEF Typed
  <2> QED
    BY <1>3, <1>5, <1>6, <2>8, <2>9, <2>10, <2>11 DEF Applied
<1>8. view' = view \/ view'.on
  BY <1>3
<1> QED
  BY ONLY <1>0, <1>1, <1>6, <1>7, <1>8, IInv', BlockRun

\* The reader of a card the loop knows is one it knows.
LEMMA HomeIsLive ==
  ASSUME NEW home, KeptBy(home), NEW i, Live(i), home[i] # Nothing
  PROVE  home[i] \in Ids /\ Live(home[i]) /\ home[home[i]] = Nothing
<1>p. PICK P, w, nh, ni : P = posted /\ w = world /\ nh = nextHandle /\ ni = nextId
  OBVIOUS
<1>0. /\ P \in Seq(Block) /\ w \in Places /\ ni \in 1..(MaxIds + 1)
      /\ HomeInv(home, ni) /\ WorldInv(home, w, ni) /\ LeaveInv(home, P, w, ni) /\ nh \in 1..ni
  BY <1>p DEF KeptBy, TypeOK, Places, Opt, QueueInv, IntroInv
<1>1. i \in 1..(nh - 1) /\ (Present(w, i) \/ Leaving(P, i))
  BY <1>p DEF Live
<1>2. i \in 1..(ni - 1) /\ i \in Ids /\ i # Nothing
  BY <1>0, <1>1, PresenceAssumption DEF Ids, Nothing
<1>3. home[i] < i /\ home[home[i]] = Nothing /\ home[i] \in 0..MaxIds
  BY <1>0, <1>2 DEF HomeInv
<1>4. home[i] \in 1..(nh - 1) /\ home[i] \in Ids
  <2>1. i \in Nat /\ nh \in Nat /\ i < nh
    BY <1>0, <1>1, PresenceAssumption
  <2>2. home[i] # 0
    BY DEF Nothing
  <2> QED
    BY <1>3, <2>1, <2>2, PresenceAssumption DEF Ids
<1>5. Present(w, home[i]) \/ Leaving(P, home[i])
  <2>1. CASE Present(w, i)
    <3>1. PICK s \in Slots : w[s].reader = i \/ w[s].card = i
      BY <2>1 DEF Present
    <3>2. w[s].reader = i => home[i] = Nothing
      BY ONLY <1>0, <1>2, s \in Slots, InSlot
    <3>3. w[s].card = i => home[i] = w[s].reader
      BY ONLY <1>0, <1>2, s \in Slots, InSlot
    <3> QED
      BY <3>1, <3>2, <3>3 DEF Present
  <2>2. CASE Leaving(P, i)
    <3>1. PICK p \in DOMAIN P : Gone(P[p]) = i
      BY <2>2 DEF Leaving
    <3>2. \/ Present(w, home[i])
          \/ \E q \in DOMAIN P : q > p /\ Gone(P[q]) = home[i]
      BY <1>0, <1>2, <3>1 DEF LeaveInv
    <3> QED
      BY <3>2 DEF Leaving
  <2> QED
    BY <1>1, <2>1, <2>2
<1> QED
  BY <1>3, <1>4, <1>5, <1>p DEF Live

LEMMA RunResolvedKeeps ==
  ASSUME Kept, IInv', RunResolved
  PROVE  Kept'
<1>0. PICK home : KeptBy(home)
  BY KeptHasHome
<1>1. PICK b : Takes(posted, posted', b) /\ b = Head(posted) /\ b.do = "resolved" /\ UNCHANGED <<worldVars, reading>>
  BY RunTakes DEF RunResolved
<1>2. PICK i, r : i = b.id /\ r = b.of
  OBVIOUS
<1>3. UNCHANGED <<readerNames, readers>>
  BY DEF RunResolved
<1>4. \/ UNCHANGED <<pending, probe, idToHandle, nextHandle, cards, view>>
      \/ /\ i \in DOMAIN pending /\ pending[i] < MaxRetries
         /\ pending' = [pending EXCEPT ![i] = @ + 1]
         /\ probe' = Put(probe, i, [at |-> "timer", reader |-> r])
         /\ UNCHANGED <<idToHandle, nextHandle, cards, view>>
      \/ /\ i \in DOMAIN pending
         /\ pending' = Drop(pending, i)
         /\ PublishCard(i, r)
         /\ UNCHANGED probe
  BY <1>1, <1>2 DEF RunResolved, RetryAllowed
<1>5. Intro(b) = Nothing /\ Gone(b) = Nothing /\ Told(b) = Nothing /\ Knows(b) = i
  BY <1>1, <1>2 DEF Intro, Gone, Told, Knows
<1>6. PICK mh : mh = IF Intro(b) = Nothing THEN nextHandle ELSE nextHandle + 1
  OBVIOUS
<1>7. ASSUME Taken(home, posted, posted', b, world, nextHandle, mh, nextId)
      PROVE  nextHandle' = mh /\ Applied(home, b) /\ Typed'
  <2>0. /\ b \in Block /\ BlockOK(home, b, nextId) /\ nextId \in 1..(MaxIds + 1)
        /\ i # Nothing => i \in 1..(nextHandle - 1)
    BY <1>0, <1>5, <1>7 DEF Taken, KeptBy, TypeOK
  <2>1. i \in 1..(nextId - 1) /\ r # Nothing /\ home[i] = r
    BY <1>1, <1>2, <2>0 DEF BlockOK
  <2>2. r \in Ids
    BY <1>1, <1>2, <2>0 DEF Block
  <2>3. i \in Ids /\ i < nextId /\ i # Nothing
    BY <2>0, <2>1, PresenceAssumption DEF Ids, Nothing
  <2>4. Typed
    BY <1>0, KeptTables
  <2>5. \A x \in Ids : x # Gone(b)
    BY <1>5 DEF Ids, Nothing
  <2>6. /\ UNCHANGED <<idToHandle, nextHandle>>
        /\ CardsApplied(home, b)
        /\ IsMap(cards, Handles, CardRec)' /\ IsMap(pending, Ids, 0..MaxRetries)'
        /\ IsMap(probe, Ids, [at : {"worker", "timer"}, reader : Ids])'
    <3>1. CASE UNCHANGED <<pending, probe, idToHandle, nextHandle, cards, view>>
      <4>1. UNCHANGED <<cards, pending, probe>> /\ UNCHANGED <<idToHandle, nextHandle>>
        BY <3>1
      <4>2. /\ CardsApplied(home, b)
            /\ IsMap(cards, Handles, CardRec)' /\ IsMap(pending, Ids, 0..MaxRetries)'
            /\ IsMap(probe, Ids, [at : {"worker", "timer"}, reader : Ids])'
        BY ONLY <1>0, <1>5, <4>1, SameCards
      <4> QED
        BY <4>1, <4>2
    <3>2. CASE /\ i \in DOMAIN pending /\ pending[i] < MaxRetries
               /\ pending' = [pending EXCEPT ![i] = @ + 1]
               /\ probe' = Put(probe, i, [at |-> "timer", reader |-> r])
               /\ UNCHANGED <<idToHandle, nextHandle, cards, view>>
      <4>1. PICK e : e = [at |-> "timer", reader |-> r]
        OBVIOUS
      <4>2. e \in [at : {"worker", "timer"}, reader : Ids] /\ e.reader = r /\ probe' = Put(probe, i, e)
        BY <2>2, <3>2, <4>1
      <4>3. /\ DOMAIN probe' = DOMAIN probe \cup {i} /\ probe'[i] = e
            /\ \A x \in DOMAIN probe : x # i => probe'[x] = probe[x]
        BY <4>2 DEF Put
      <4>4. pending[i] \in 0..MaxRetries /\ pending[i] + 1 \in 0..MaxRetries
        BY <2>4, <3>2, PresenceAssumption DEF Typed, IsMap
      <4>5. /\ DOMAIN pending' = DOMAIN pending
            /\ \A x \in DOMAIN pending : pending'[x] \in 0..MaxRetries
        BY <2>4, <3>2, <4>4 DEF Typed, IsMap
      <4>6. IsMap(pending, Ids, 0..MaxRetries)' /\ IsMap(probe, Ids, [at : {"worker", "timer"}, reader : Ids])'
        BY <2>3, <2>4, <4>2, <4>3, <4>5 DEF Typed, IsMap
      <4>7. \A x \in DOMAIN cards' \cup DOMAIN pending' : x \in Ids
        BY <2>4, <3>2, <4>6 DEF Typed, IsMap, Handles, Ids
      <4>8. \A x \in DOMAIN cards' :
               /\ Live(x) /\ x # Gone(b) /\ home[x] # Nothing
               /\ cards'[x].id = x /\ cards'[x].reader = home[x] /\ cards'[x].type \in {Nothing, x}
        BY <1>0, <2>5, <3>2, <4>7, KeptTables
      <4>9. \A x \in DOMAIN pending' : /\ x < nextId /\ home[x] # Nothing /\ x # Gone(b)
                                       /\ Present(world, x) \/ Leaving(posted, x)
        BY <1>0, <2>5, <4>5, <4>7, KeptTables
      <4>10. \A x \in DOMAIN probe' : x < nextId /\ home[x] # Nothing /\ probe'[x].reader = home[x]
        BY <1>0, <2>1, <2>3, <4>2, <4>3, KeptTables
      <4> QED
        BY <2>4, <3>2, <4>6, <4>8, <4>9, <4>10 DEF CardsApplied, Typed
    <3>3. CASE /\ i \in DOMAIN pending
               /\ pending' = Drop(pending, i)
               /\ PublishCard(i, r)
               /\ UNCHANGED probe
      <4>1. Live(i)
        <5>1. Present(world, i) \/ Leaving(posted, i)
          BY <1>0, <3>3, KeptTables
        <5> QED
          BY <2>0, <2>3, <5>1 DEF Live
      <4>2. Live(r)
        BY <1>0, <2>1, <4>1, HomeIsLive
      <4>3. i \in DOMAIN idToHandle /\ r \in DOMAIN idToHandle /\ idToHandle[i] = i /\ idToHandle[r] = r
        BY <1>0, <2>2, <2>3, <4>1, <4>2, KeptTables
      <4>4. UNCHANGED <<idToHandle, nextHandle>>
        BY <3>3, <4>3 DEF PublishCard, Mint, handleFor, Minted
      <4>5. PICK rec : rec = [id |-> i, reader |-> r, type |-> Nothing]
        OBVIOUS
      <4>6. cards' = Put(cards, i, rec)
        BY <3>3, <4>3, <4>4, <4>5 DEF PublishCard
      <4>7. rec \in CardRec /\ rec.id = i /\ rec.reader = r /\ rec.type = Nothing
        BY <2>2, <2>3, <4>5 DEF CardRec, Handles, Ids
      <4>8. /\ DOMAIN cards' = DOMAIN cards \cup {i} /\ cards'[i] = rec
            /\ \A x \in DOMAIN cards : x # i => cards'[x] = cards[x]
        BY <4>6 DEF Put
      <4>9. \A x \in DOMAIN pending' : x \in DOMAIN pending /\ pending'[x] = pending[x]
        BY <3>3 DEF Drop, Restrict
      <4>10. IsMap(cards, Handles, CardRec)' /\ IsMap(pending, Ids, 0..MaxRetries)'
        BY <2>3, <2>4, <4>7, <4>8, <4>9 DEF Typed, IsMap, Handles, Ids
      <4>11. \A x \in DOMAIN cards' \cup DOMAIN pending' : x \in Ids
        BY <4>10 DEF IsMap, Handles, Ids
      <4>12. \A x \in DOMAIN cards' :
               /\ Live(x) /\ x # Gone(b) /\ home[x] # Nothing
               /\ cards'[x].id = x /\ cards'[x].reader = home[x] /\ cards'[x].type \in {Nothing, x}
        BY <1>0, <2>1, <2>5, <4>1, <4>7, <4>8, <4>11, KeptTables
      <4>13. \A x \in DOMAIN pending' : /\ x < nextId /\ home[x] # Nothing /\ x # Gone(b)
                                        /\ Present(world, x) \/ Leaving(posted, x)
        BY <1>0, <2>5, <4>9, <4>11, KeptTables
      <4>14. \A x \in DOMAIN probe' : x < nextId /\ home[x] # Nothing /\ probe'[x].reader = home[x]
        BY <1>0, <3>3, KeptTables
      <4>15. IsMap(probe, Ids, [at : {"worker", "timer"}, reader : Ids])'
        BY <2>4, <3>3 DEF Typed
      <4>16. CardsApplied(home, b)
        BY ONLY <4>12, <4>13, <4>14 DEF CardsApplied
      <4> QED
        BY <4>4, <4>10, <4>15, <4>16
    <3> QED
      BY <1>4, <3>1, <3>2, <3>3
  <2>7. HandlesApplied(b) /\ IsMap(idToHandle, Ids, Handles)'
    BY ONLY <1>0, <1>5, <2>6, SameHandles
  <2>8. ReadersApplied(home, b) /\ IsMap(readers, Handles, ReaderRec)'
    <3>1. UNCHANGED <<readers, readerNames>>
      BY <1>3
    <3> QED
      BY ONLY <1>0, <1>5, <3>1, SameReaders
  <2> QED
    BY <1>5, <1>6, <2>6, <2>7, <2>8 DEF Applied, Typed
<1>8. view' = view \/ view'.on
  <2>1. (\E h, c : TellCard(h, c)) \/ UNCHANGED view
    BY DEF RunResolved, PublishCard
  <2> QED
    BY <2>1 DEF TellCard, IInv
<1> QED
  BY ONLY <1>0, <1>1, <1>6, <1>7, <1>8, IInv', BlockRun

LEMMA RunTypeKeeps ==
  ASSUME Kept, IInv', RunType
  PROVE  Kept'
<1>0. PICK home : KeptBy(home)
  BY KeptHasHome
<1>1. PICK b : Takes(posted, posted', b) /\ b = Head(posted) /\ b.do = "type" /\ UNCHANGED <<worldVars, reading>>
  BY RunTakes DEF RunType
<1>2. PICK i : i = b.handle
  OBVIOUS
<1>3. UNCHANGED <<readerNames, pending, probe, idToHandle, nextHandle, readers>>
  BY DEF RunType
<1>4. Intro(b) = Nothing /\ Gone(b) = Nothing /\ Told(b) = Nothing
  BY <1>1 DEF Intro, Gone, Told
<1>5. PICK mh : mh = IF Intro(b) = Nothing THEN nextHandle ELSE nextHandle + 1
  OBVIOUS
<1>6. ASSUME Taken(home, posted, posted', b, world, nextHandle, mh, nextId)
      PROVE  nextHandle' = mh /\ Applied(home, b) /\ Typed'
  <2>1. b.type = i
    BY <1>1, <1>2, <1>6 DEF Taken, BlockOK
  <2>2. Typed
    BY <1>0, KeptTables
  <2>3. /\ CardsApplied(home, b)
        /\ IsMap(cards, Handles, CardRec)' /\ IsMap(pending, Ids, 0..MaxRetries)'
        /\ IsMap(probe, Ids, [at : {"worker", "timer"}, reader : Ids])'
    <3>1. CASE UNCHANGED cards
      <4>1. UNCHANGED <<cards, pending, probe>>
        BY <1>3, <3>1
      <4> QED
        BY ONLY <1>0, <1>4, <4>1, SameCards
    <3>2. CASE ~UNCHANGED cards
      <4>1. PICK rec : rec = [cards[i] EXCEPT !.type = i]
        OBVIOUS
      <4>2. i \in DOMAIN cards /\ cards' = Put(cards, i, rec)
        BY <1>1, <1>2, <2>1, <3>2, <4>1 DEF RunType
      <4>3. i \in Ids /\ cards[i] \in CardRec /\ Live(i) /\ home[i] # Nothing /\ cards[i].id = i /\ cards[i].reader = home[i]
        BY <1>0, <2>2, <4>2, KeptTables DEF Typed, IsMap, Handles, Ids
      <4>4. rec \in CardRec /\ rec.id = i /\ rec.reader = home[i] /\ rec.type = i
        BY ONLY <4>1, <4>3 DEF CardRec
      <4>5. /\ DOMAIN cards' = DOMAIN cards /\ cards'[i] = rec
            /\ \A x \in DOMAIN cards : x # i => cards'[x] = cards[x]
        BY <4>2 DEF Put
      <4>6. IsMap(cards, Handles, CardRec)'
        BY <2>2, <4>4, <4>5 DEF Typed, IsMap
      <4>7. \A x \in DOMAIN cards' \cup DOMAIN pending' : x # Gone(b)
        BY <1>3, <1>4, <2>2, <4>6 DEF Typed, IsMap, Handles, Ids, Nothing
      <4>8. \A x \in DOMAIN cards' :
               /\ Live(x) /\ x # Gone(b) /\ home[x] # Nothing
               /\ cards'[x].id = x /\ cards'[x].reader = home[x] /\ cards'[x].type \in {Nothing, x}
        BY <1>0, <4>3, <4>4, <4>5, <4>7, KeptTables
      <4>9. /\ \A x \in DOMAIN pending' : /\ x < nextId /\ home[x] # Nothing /\ x # Gone(b)
                                          /\ Present(world, x) \/ Leaving(posted, x)
            /\ \A x \in DOMAIN probe' : x < nextId /\ home[x] # Nothing /\ probe'[x].reader = home[x]
        BY <1>0, <1>3, <4>7, KeptTables
      <4> QED
        BY <1>3, <2>2, <4>6, <4>8, <4>9 DEF CardsApplied, Typed
    <3> QED
      BY <3>1, <3>2
  <2>4. HandlesApplied(b) /\ IsMap(idToHandle, Ids, Handles)'
    BY ONLY <1>0, <1>3, <1>4, SameHandles
  <2>5. ReadersApplied(home, b) /\ IsMap(readers, Handles, ReaderRec)'
    <3>1. UNCHANGED <<readers, readerNames>>
      BY <1>3
    <3> QED
      BY ONLY <1>0, <1>4, <3>1, SameReaders
  <2> QED
    BY <1>3, <1>4, <1>5, <2>3, <2>4, <2>5 DEF Applied, Typed
<1>7. view' = view \/ view'.on
  <2>1. (\E h, c : TellCard(h, c)) \/ UNCHANGED view
    BY DEF RunType
  <2> QED
    BY <2>1 DEF TellCard, IInv
<1> QED
  BY ONLY <1>0, <1>1, <1>5, <1>6, <1>7, IInv', BlockRun

(***************************************************************************)
(* All steps, and what the invariant says of the roster.                   *)
(***************************************************************************)

LEMMA SnapshotKeeps ==
  ASSUME Kept, IInv', GetState
  PROVE  Kept'
<1>0. PICK home : KeptBy(home)
  BY KeptHasHome
<1>1. /\ view'.on
      /\ UNCHANGED <<world, nextId, relabels, posted, readerNames, pending, probe, reading,
                     idToHandle, nextHandle, readers, cards>>
  BY DEF GetState, worldVars
<1>2. TypeOK'
  <2>1. TypeOK
    BY DEF Kept
  <2>2. IsMap(readers, Handles, ReaderRec)' /\ IsMap(cards, Handles, CardRec)'
    BY <1>1, <2>1 DEF TypeOK
  <2>3. view'.on \in BOOLEAN /\ IsMap(view.readers, Handles, ReaderRec)' /\ IsMap(view.cards, Handles, CardRec)'
    BY <1>1, <2>1, <2>2, ViewTyped
  <2> QED
    BY <1>1, <2>1, <2>2, <2>3 DEF TypeOK
<1>3. \A i : Live(i)' <=> Live(i)
  BY <1>1 DEF Live
<1>4. QueueInv(home, posted, world, nextHandle, nextId)' /\ LoopInv(home)'
  BY <1>0, <1>1, <1>3 DEF KeptBy, LoopInv
<1>5. home \in [Ids -> 0..MaxIds]
  BY <1>0 DEF KeptBy, QueueInv, HomeInv
<1> QED
  BY <1>2, <1>4, <1>5 DEF Kept

LEMMA NextKeeps ==
  ASSUME Kept, IInv, IInv', [Next]_vars
  PROVE  Kept'
<1>1. ASSUME NEW queued \in BOOLEAN, RunCard(queued) \/ \E id \in Ids : RetryTimer(id, queued)
      PROVE  Kept'
  BY <1>1, RunCardKeeps, TimerKeeps
<1>2. CASE UNCHANGED vars
  <2>0. PICK home : KeptBy(home)
    BY KeptHasHome
  <2>1. UNCHANGED <<worldVars, posted, readerNames, pending, wireVars>> /\ UNCHANGED <<probe, reading>>
    BY <1>2 DEF vars, worldVars, wireVars
  <2>2. IsMap(probe, Ids, [at : {"worker", "timer"}, reader : Ids])' /\ IsMap(reading, Handles, Ids)'
    BY <2>0, <2>1 DEF KeptBy, TypeOK
  <2>3. /\ \A i \in DOMAIN probe' : i < nextId /\ home[i] # Nothing /\ probe'[i].reader = home[i]
        /\ \A i \in DOMAIN reading' : reading'[i] = i
    BY <2>0, <2>1, KeptFacts
  <2> QED
    BY ONLY <2>0, <2>1, <2>2, <2>3, StillKept
<1>3. CASE RunReader \/ RunSeat \/ RunRelabel \/ RunWithdraw \/ RunResolved \/ RunType
  BY <1>3, RunReaderKeeps, RunSeatKeeps, RunRelabelKeeps, RunWithdrawKeeps, RunResolvedKeeps, RunTypeKeeps
<1>4. CASE GetState
  BY <1>4, SnapshotKeeps
<1> QED
  BY <1>1, <1>2, <1>3, <1>4, MonitorKeeps, WorkersKeep, ReadsKeep DEF Next

LEMMA InitKept == ASSUME Init PROVE Kept
<1>1. PICK home : home = [i \in Ids |-> 0]
  OBVIOUS
<1>2. home \in [Ids -> 0..MaxIds]
  BY <1>1, PresenceAssumption
<1>3. /\ world \in Places /\ posted = << >> /\ posted \in Seq(Block) /\ DOMAIN posted = {}
      /\ nextId = 1 /\ nextHandle = 1 /\ relabels = 0 /\ readerNames = {}
      /\ \A s \in Slots : world[s].reader = Nothing /\ world[s].card = Nothing
  BY DEF Init, Places, Opt
<1>4. /\ DOMAIN reading = {} /\ DOMAIN pending = {} /\ DOMAIN probe = {} /\ DOMAIN idToHandle = {}
      /\ DOMAIN readers = {} /\ DOMAIN cards = {} /\ DOMAIN view.readers = {} /\ DOMAIN view.cards = {}
      /\ view.on \in BOOLEAN
  BY DEF Init, NoMap
<1>5. TypeOK
  BY <1>3, <1>4, PresenceAssumption DEF TypeOK, IsMap, Places, Opt
<1>6. \A i : ~Live(i)
  BY <1>3 DEF Live
<1>7. QueueInv(home, posted, world, nextHandle, nextId)
  <2>1. \A i \in 1..(1 - 1) : FALSE
    OBVIOUS
  <2>2. 1 \in 1..1
    OBVIOUS
  <2>3. HomeInv(home, nextId)
    BY <1>2, <1>3, <2>1 DEF HomeInv
  <2>4. WorldInv(home, world, nextId)
    BY <1>3 DEF WorldInv
  <2>5. BlocksInv(home, posted, nextId) /\ LeaveInv(home, posted, world, nextId) /\ ToldInv(posted, world)
    BY <1>3 DEF BlocksInv, LeaveInv, ToldInv
  <2>6. IntroInv(posted, nextHandle, nextId)
    BY <1>3, <2>1, <2>2 DEF IntroInv
  <2> QED
    BY <2>3, <2>4, <2>5, <2>6 DEF QueueInv
<1>8. LoopInv(home)
  BY <1>3, <1>4, <1>6 DEF LoopInv
<1> QED
  BY <1>2, <1>5, <1>7, <1>8 DEF Kept

\* Of two cards of one reader, the loop knows one at a time.
LEMMA OneLiveCard ==
  ASSUME NEW home, KeptBy(home), NEW g, NEW h, Live(g), Live(h), g < h, home[g] = home[h], home[g] # Nothing
  PROVE  FALSE
<1>p. PICK P, w, nh, ni : P = posted /\ w = world /\ nh = nextHandle /\ ni = nextId
  OBVIOUS
<1>0. /\ P \in Seq(Block) /\ w \in Places /\ ni \in 1..(MaxIds + 1)
      /\ WorldInv(home, w, ni) /\ LeaveInv(home, P, w, ni) /\ IntroInv(P, nh, ni) /\ nh \in 1..ni
  BY <1>p DEF KeptBy, TypeOK, Places, Opt, QueueInv, IntroInv
<1>1. g \in 1..(nh - 1) /\ h \in 1..(nh - 1) /\ (Present(w, g) \/ Leaving(P, g))
  BY <1>p DEF Live
<1>2. g # Nothing /\ h # Nothing /\ h \in (g + 1)..(ni - 1) /\ h \notin nh..(ni - 1)
  BY <1>0, <1>1, PresenceAssumption DEF Nothing
<1>3. CASE Present(w, g)
  <2>1. PICK s \in Slots : w[s].reader = g \/ w[s].card = g
    BY <1>3 DEF Present
  <2>2. w[s].reader # g
    BY ONLY <1>0, <1>2, home[g] # Nothing, s \in Slots, InSlot
  <2>3. w[s].card = g /\ home[g] = w[s].reader /\ home[h] # w[s].reader
    BY <1>0, <1>2, <2>1, <2>2 DEF WorldInv
  <2> QED
    BY <2>3
<1>4. CASE Leaving(P, g)
  <2>1. PICK p \in DOMAIN P : Gone(P[p]) = g
    BY <1>4 DEF Leaving
  <2>2. PICK q \in DOMAIN P : Intro(P[q]) = h
    BY <1>0, <1>2, <2>1 DEF LeaveInv
  <2> QED
    BY <1>0, <1>2, <2>2 DEF IntroInv
<1> QED
  BY <1>1, <1>3, <1>4

LEMMA KeptOneCard == ASSUME Kept PROVE OneCardPerReader /\ TypeIsOwn
<1>0. PICK home : KeptBy(home)
  BY KeptHasHome
<1>1. \A h \in DOMAIN cards : /\ h \in Nat /\ Live(h) /\ home[h] # Nothing
                              /\ cards[h].reader = home[h] /\ cards[h].id = h /\ cards[h].type \in {Nothing, h}
  <2>1. \A h \in DOMAIN cards : h \in Nat
    BY <1>0, PresenceAssumption DEF KeptBy, TypeOK, IsMap, Handles
  <2> QED
    BY <1>0, <2>1, KeptTables
<1>2. ASSUME NEW h \in DOMAIN cards PROVE cards[h].reader \in DOMAIN readers
  <2>1. Live(h) /\ home[h] # Nothing /\ cards[h].reader = home[h]
    BY <1>1
  <2>2. home[h] \in Ids /\ Live(home[h]) /\ home[home[h]] = Nothing
    BY ONLY <1>0, <2>1, HomeIsLive
  <2> QED
    BY <1>0, <2>1, <2>2, KeptTables
<1>3. ASSUME NEW h \in DOMAIN cards, NEW g \in DOMAIN cards, cards[g].reader = cards[h].reader PROVE g = h
  <2>1. /\ g \in Nat /\ h \in Nat /\ Live(g) /\ Live(h) /\ home[g] = home[h] /\ home[g] # Nothing
    BY <1>1, <1>3
  <2>2. ~(g < h) /\ ~(h < g)
    BY ONLY <1>0, <2>1, OneLiveCard
  <2> QED
    BY ONLY <2>1, <2>2
<1>4. OneCardPerReader
  BY <1>2, <1>3 DEF OneCardPerReader
<1>5. TypeIsOwn
  BY <1>1 DEF TypeIsOwn
<1> QED
  BY <1>4, <1>5

LEMMA KeptQuiet == ASSUME Kept PROVE QuietIsTrue
<1> SUFFICES ASSUME posted = << >>,
                    NEW present, present = (UNION {{world[s].reader, world[s].card} : s \in Slots}) \ {Nothing}
             PROVE  /\ DOMAIN idToHandle = present
                    /\ DOMAIN pending \subseteq present
                    /\ {readers[h].id : h \in DOMAIN readers} = readerNames
                    /\ \A s \in Slots : world[s].reader # Nothing =>
                          /\ idToHandle[world[s].reader] \in DOMAIN readers
                          /\ readers[idToHandle[world[s].reader]].card =
                                IF world[s].card = Nothing THEN Nothing ELSE idToHandle[world[s].card]
  BY DEF QuietIsTrue
<1>0. PICK home : KeptBy(home)
  BY KeptHasHome
<1>p. PICK w, nh, ni : w = world /\ nh = nextHandle /\ ni = nextId
  OBVIOUS
<1>1. /\ w \in Places /\ ni \in 1..(MaxIds + 1) /\ WorldInv(home, w, ni)
      /\ IntroInv(posted, nh, ni) /\ DOMAIN posted = {}
  BY <1>0, <1>p DEF KeptBy, TypeOK, Places, Opt, QueueInv
<1>2. nh = ni
  <2>1. nh \in 1..ni /\ \A i \in nh..(ni - 1) : FALSE
    BY <1>1 DEF IntroInv
  <2>2. ni \in Nat /\ nh \in Nat
    BY <1>1, <2>1, PresenceAssumption
  <2>3. nh < ni => nh \in nh..(ni - 1)
    BY ONLY <2>2
  <2> QED
    BY <2>1, <2>2, <2>3
<1>3. \A s \in Slots :
         /\ w[s].reader # Nothing => w[s].reader \in Ids /\ w[s].reader \in 1..(ni - 1) /\ home[w[s].reader] = Nothing
         /\ w[s].card # Nothing => w[s].card \in Ids /\ w[s].card \in 1..(ni - 1)
  BY <1>1, InSlot
<1>4. \A i : i \in present <=> i # Nothing /\ Present(w, i)
  <2>1. ASSUME NEW i, i \in present PROVE i # Nothing /\ Present(w, i)
    <3>1. i # Nothing /\ i \in UNION {{world[s].reader, world[s].card} : s \in Slots}
      BY <2>1
    <3>2. PICK s \in Slots : i \in {world[s].reader, world[s].card}
      BY <3>1
    <3> QED
      BY <1>p, <3>1, <3>2 DEF Present
  <2>2. ASSUME NEW i, i # Nothing, Present(w, i) PROVE i \in present
    <3>1. PICK s \in Slots : i \in {world[s].reader, world[s].card}
      BY <1>p, <2>2 DEF Present
    <3>2. i \in UNION {{world[t].reader, world[t].card} : t \in Slots}
      BY <3>1
    <3> QED
      BY <2>2, <3>2
  <2> QED
    BY <2>1, <2>2
<1>5. \A i : i # Nothing /\ Present(w, i) => i \in Ids /\ i \in 1..(ni - 1)
  BY <1>3 DEF Present
<1>6. \A i : Live(i) <=> i # Nothing /\ Present(w, i)
  <2>1. \A i : ~Leaving(posted, i)
    BY <1>1 DEF Leaving
  <2>2. Nothing \notin 1..(ni - 1)
    BY DEF Nothing
  <2> QED
    BY <1>2, <1>5, <1>p, <2>1, <2>2 DEF Live
<1>7. DOMAIN idToHandle = present
  <2>1. DOMAIN idToHandle \subseteq Ids
    BY <1>0 DEF KeptBy, TypeOK, IsMap
  <2>2. \A i \in Ids : i \in DOMAIN idToHandle <=> Live(i)
    BY <1>0, KeptTables
  <2> QED
    BY <1>4, <1>5, <1>6, <2>1, <2>2
<1>8. DOMAIN pending \subseteq present
  <2>1. \A i \in DOMAIN pending : i \in Ids /\ (Present(w, i) \/ Leaving(posted, i))
    BY <1>0, <1>p DEF KeptBy, TypeOK, IsMap, LoopInv
  <2>2. \A i \in Ids : i # Nothing
    BY DEF Ids, Nothing
  <2>3. \A i : ~Leaving(posted, i)
    BY <1>1 DEF Leaving
  <2> QED
    BY <1>4, <2>1, <2>2, <2>3
<1>9. {readers[h].id : h \in DOMAIN readers} = readerNames
  <2>1. readerNames = DOMAIN readers /\ \A h \in DOMAIN readers : readers[h].id = h
    BY <1>0, KeptTables
  <2> QED
    BY <2>1
<1>10. ASSUME NEW s \in Slots, w[s].reader # Nothing
       PROVE  /\ idToHandle[w[s].reader] \in DOMAIN readers
              /\ readers[idToHandle[w[s].reader]].card = IF w[s].card = Nothing THEN Nothing ELSE idToHandle[w[s].card]
  <2>0. PICK r, c : r = w[s].reader /\ c = w[s].card
    OBVIOUS
  <2>1. Live(r) /\ r \in Ids /\ home[r] = Nothing
    BY <1>3, <1>6, <1>10, <2>0 DEF Present
  <2>2. c # Nothing => Live(c) /\ c \in Ids
    BY <1>3, <1>6, <2>0 DEF Present
  <2>3. idToHandle[r] = r /\ r \in DOMAIN readers /\ (c # Nothing => idToHandle[c] = c)
    BY <1>0, <2>1, <2>2, KeptTables
  <2>4. readers[r].card = c
    BY <1>0, <1>1, <1>10, <1>p, <2>0 DEF KeptBy, LoopInv
  <2> QED
    BY <2>0, <2>3, <2>4
<1> QED
  BY <1>7, <1>8, <1>9, <1>10, <1>p

\* Whatever the monitor, the reader workers and the loop do meanwhile: a card on
\* the wire has its reader there too and is the only card of it, its type was
\* read from it, and when the loop has run every posted block, the handles, the
\* readers and the cards seated in them are those of what is plugged in.
THEOREM Roster == Spec => []RosterInv
<1>1. Init => IInv /\ Kept
  BY InitKept DEF Init, IInv, ClientAgrees
<1>2. IInv /\ Kept /\ [Next]_vars => IInv' /\ Kept'
  BY NextAgrees, NextKeeps
<1>3. Kept => RosterInv
  BY KeptOneCard, KeptQuiet DEF RosterInv, Kept
<1> QED
  BY <1>1, <1>2, <1>3, PTL DEF Spec
=============================================================================
