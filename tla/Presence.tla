------------------------------- MODULE Presence -------------------------------
(***************************************************************************)
(* Readers and cards on the wire: the monitor thread reports, the loop     *)
(* publishes, and a card is published only after a probe on its reader's   *)
(* worker has found out what it can do (presence part of                   *)
(* agent/src/backend/SocketFrontend.cpp and SocketTransport.cpp).          *)
(*                                                                         *)
(* Three threads meet on the loop's FIFO queue of posted blocks: the       *)
(* monitor (LibreAgent's PresenceModel, external), the reader workers that *)
(* probe and read cards, and the loop itself with its delayed retries.     *)
(* `view` is what a client knows that took GetState once and has applied   *)
(* every presence event since.                                             *)
(***************************************************************************)
EXTENDS Integers, Sequences, Functions

CONSTANTS
    Slots,              \* places a reader can be plugged in
    MaxIds,             \* bound: ObjectIds the presence model gives out
    MaxRetries,         \* waits that fit the probe's retry budget
    MaxRelabels,        \* bound: relabellings of a reader
    MaxPosted           \* bound: blocks waiting when another is posted

ASSUME PresenceAssumption ==
    MaxIds \in Nat /\ MaxRetries \in Nat /\ MaxRelabels \in Nat /\ MaxPosted \in Nat

VARIABLES
    world,              \* world[s]: ObjectIds of the reader in s and its card
    nextId,             \* the presence model's next ObjectId
    relabels,           \* relabellings so far
    posted,             \* the loop's queue of posted blocks
    readerNames,        \* m_readerNames (its keys: reader ObjectIds)
    pending,            \* m_pendingCards: card ObjectId -> retries so far
    probe,              \* where a card's probe is: with a worker, or a timer
    reading,            \* reads under way: card handle -> ObjectId of its card
    idToHandle,         \* m_idToHandle; m_handleToId is its inverse
    nextHandle,         \* m_nextHandle
    readers,            \* m_readers, by handle
    cards,              \* m_cards and m_cardRouting, by handle
    view                \* the client's view

vars == <<world, nextId, relabels, posted, readerNames, pending, probe, reading,
          idToHandle, nextHandle, readers, cards, view>>

Ids == 1..MaxIds
Handles == 1..MaxIds
Nothing == 0
Labels == {"plain", "numbered"}

\* A card's type is named by the ObjectId of the card it was read from.
ReaderRec == [id : Ids, card : Handles \cup {Nothing}, label : Labels]
CardRec == [id : Ids, reader : Handles, type : Ids \cup {Nothing}]

Block ==
    [do : {"reader", "withdraw"}, id : Ids]
        \cup [do : {"card", "seat"}, id : Ids, of : Ids \cup {Nothing}]
        \cup [do : {"relabel"}, id : Ids, label : Labels]
        \cup [do : {"resolved"}, id : Ids, of : Ids, refused : BOOLEAN]
        \cup [do : {"type"}, handle : Handles, type : Ids]

IsMap(f, D, R) == DOMAIN f \subseteq D /\ \A x \in DOMAIN f : f[x] \in R

\* The values every variable ranges over; retries stay within their budget.
TypeOK ==
    /\ world \in [Slots -> [reader : Ids \cup {Nothing}, card : Ids \cup {Nothing}]]
    /\ nextId \in 1..(MaxIds + 1)
    /\ relabels \in 0..MaxRelabels
    /\ posted \in Seq(Block)
    /\ readerNames \subseteq Ids
    /\ IsMap(pending, Ids, 0..MaxRetries)
    /\ IsMap(probe, Ids, [at : {"worker", "timer"}, reader : Ids])
    /\ IsMap(reading, Handles, Ids)
    /\ nextHandle \in 1..(MaxIds + 1)
    /\ IsMap(idToHandle, Ids, Handles)
    /\ IsMap(readers, Handles, ReaderRec)
    /\ IsMap(cards, Handles, CardRec)
    /\ view.on \in BOOLEAN
    /\ IsMap(view.readers, Handles, ReaderRec)
    /\ IsMap(view.cards, Handles, CardRec)

NoMap == [x \in {} |-> Nothing]

Init ==
    /\ world = [s \in Slots |-> [reader |-> Nothing, card |-> Nothing]]
    /\ nextId = 1 /\ nextHandle = 1 /\ relabels = 0
    /\ posted = << >>
    /\ readerNames = {}
    /\ reading = NoMap /\ pending = NoMap /\ probe = NoMap /\ idToHandle = NoMap
    /\ readers = NoMap /\ cards = NoMap
    /\ view = [on |-> FALSE, readers |-> NoMap, cards |-> NoMap]

(***************************************************************************)
(* Helpers.                                                                *)
(***************************************************************************)
Put(f, k, v) == [x \in DOMAIN f \cup {k} |-> IF x = k THEN v ELSE f[x]]
Drop(f, k) == Restrict(f, DOMAIN f \ {k})

worldVars == <<world, nextId, relabels>>
wireVars == <<idToHandle, nextHandle, readers, cards, view>>
loopVars == <<readerNames, pending, probe, reading, wireVars>>

\* The handles given out and the next one; handleFor(): the handle an object
\* has, or a new one.  Handles are counted up and never given out again.
Minted == [map |-> idToHandle, next |-> nextHandle]
handleFor(m, i) ==
    IF i \in DOMAIN m.map THEN m ELSE [map |-> Put(m.map, i, m.next), next |-> m.next + 1]
Mint(m) == idToHandle' = m.map /\ nextHandle' = m.next

\* A presence event reaches the client.
TellReader(h, r) == view' = IF view.on THEN [view EXCEPT !.readers = Put(@, h, r)] ELSE view
TellCard(h, c) == view' = IF view.on THEN [view EXCEPT !.cards = Put(@, h, c)] ELSE view
TellGone(h) ==
    view' = IF view.on THEN [view EXCEPT !.readers = Drop(@, h), !.cards = Drop(@, h)] ELSE view

(***************************************************************************)
(* The monitor thread (PresenceModel, external), as main() wires it: a     *)
(* reader is reported before its card, a card's arrival and removal before *)
(* the reader's HasCard/Card flip, and a card goes before its reader.      *)
(***************************************************************************)
Post(blocks) == Len(posted) <= MaxPosted /\ posted' = posted \o blocks
Report(blocks) == Post(blocks) /\ UNCHANGED loopVars

PlugReader(s) ==
    /\ world[s].reader = Nothing
    /\ nextId \in Ids
    /\ world' = [world EXCEPT ![s].reader = nextId]
    /\ nextId' = nextId + 1
    /\ Report(<<[do |-> "reader", id |-> nextId]>>)
    /\ UNCHANGED relabels

InsertCard(s) ==
    /\ world[s].reader # Nothing /\ world[s].card = Nothing
    /\ nextId \in Ids
    /\ world' = [world EXCEPT ![s].card = nextId]
    /\ nextId' = nextId + 1
    /\ Report(<<[do |-> "card", id |-> nextId, of |-> world[s].reader],
                [do |-> "seat", id |-> world[s].reader, of |-> nextId]>>)
    /\ UNCHANGED relabels

RemoveCard(s) ==
    /\ world[s].card # Nothing
    /\ world' = [world EXCEPT ![s].card = Nothing]
    /\ Report(<<[do |-> "withdraw", id |-> world[s].card],
                [do |-> "seat", id |-> world[s].reader, of |-> Nothing]>>)
    /\ UNCHANGED <<nextId, relabels>>

UnplugReader(s) ==
    /\ world[s].reader # Nothing
    /\ world' = [world EXCEPT ![s] = [reader |-> Nothing, card |-> Nothing]]
    /\ LET withdraw(i) == [do |-> "withdraw", id |-> i]
       IN  Report(IF world[s].card = Nothing THEN <<withdraw(world[s].reader)>>
                  ELSE <<withdraw(world[s].card), withdraw(world[s].reader)>>)
    /\ UNCHANGED <<nextId, relabels>>

\* Another reader of the same model makes the label carry a number, or back.
Relabel(s, l) ==
    /\ world[s].reader # Nothing
    /\ relabels < MaxRelabels
    /\ relabels' = relabels + 1
    /\ Report(<<[do |-> "relabel", id |-> world[s].reader, label |-> l]>>)
    /\ UNCHANGED <<world, nextId>>

(***************************************************************************)
(* The reader workers.                                                     *)
(***************************************************************************)

\* The probe answers: what the card is, or that a session was refused.
ProbeDone(id) ==
    /\ id \in DOMAIN probe /\ probe[id].at = "worker"
    /\ \E refused \in BOOLEAN :
          Post(<<[do |-> "resolved", id |-> id, of |-> probe[id].reader, refused |-> refused]>>)
    /\ probe' = Drop(probe, id)
    /\ UNCHANGED <<worldVars, readerNames, pending, reading, wireVars>>

\* The worker of a withdrawn reader is gone: its probes never answer.
ProbeLost(id) ==
    /\ id \in DOMAIN probe /\ probe[id].at = "worker"
    /\ probe[id].reader \notin readerNames
    /\ probe' = Drop(probe, id)
    /\ UNCHANGED <<worldVars, posted, readerNames, pending, reading, wireVars>>

\* A client has the card read (cardRouting() knows it now) ...
BeginRead(h) ==
    /\ h \in DOMAIN cards \ DOMAIN reading
    /\ cards[h].type = Nothing
    /\ reading' = Put(reading, h, cards[h].id)
    /\ UNCHANGED <<worldVars, posted, readerNames, pending, probe, wireVars>>

\* ... and later the worker's card type sink fires for the handle it was given.
EndRead(h) ==
    /\ h \in DOMAIN reading
    /\ reading' = Drop(reading, h)
    /\ Post(<<[do |-> "type", handle |-> h, type |-> reading[h]]>>)
    /\ UNCHANGED <<worldVars, readerNames, pending, probe, wireVars>>

(***************************************************************************)
(* The loop.  Each action runs the block at the head of the queue.         *)
(***************************************************************************)
Run(kind) ==
    /\ posted # << >>
    /\ Head(posted).do = kind
    /\ posted' = Tail(posted)
    /\ UNCHANGED <<worldVars, reading>>

\* onReaderPublished: publishReader().
RunReader ==
    /\ Run("reader")
    /\ LET id == Head(posted).id
           rec == [id |-> id, card |-> Nothing, label |-> "plain"]
       IN  /\ readerNames' = readerNames \cup {id}
           /\ Mint(handleFor(Minted, id))
           /\ readers' = Put(readers, idToHandle'[id], rec)
           /\ TellReader(idToHandle'[id], rec)
    /\ UNCHANGED <<pending, probe, cards>>

\* onReaderPropertiesChanged: updateProperties().  The card named here is
\* usually not published yet; it gets its handle now.
RunSeat ==
    /\ Run("seat")
    /\ LET id == Head(posted).id
           of == Head(posted).of
       IN  IF id \in DOMAIN idToHandle /\ idToHandle[id] \in DOMAIN readers
           THEN LET h == idToHandle[id]
                    rec == [readers[h] EXCEPT !.card = IF of = Nothing THEN Nothing
                                                                       ELSE idToHandle'[of]]
                IN  /\ Mint(IF of = Nothing THEN Minted ELSE handleFor(Minted, of))
                    /\ readers' = Put(readers, h, rec)
                    /\ TellReader(h, rec)
           ELSE UNCHANGED <<idToHandle, nextHandle, readers, view>>
    /\ UNCHANGED <<readerNames, pending, probe, cards>>

\* onReaderRelabelled: relabelReader() tells of a change, and only of one.
RunRelabel ==
    /\ Run("relabel")
    /\ LET id == Head(posted).id
           label == Head(posted).label
           h == idToHandle[id]
           rec == [readers[h] EXCEPT !.label = label]
       IN  IF id \in DOMAIN idToHandle /\ h \in DOMAIN readers /\ readers[h].label # label
           THEN readers' = Put(readers, h, rec) /\ TellReader(h, rec)
           ELSE UNCHANGED <<readers, view>>
    /\ UNCHANGED <<readerNames, pending, probe, idToHandle, nextHandle, cards>>

\* Mutant: the pending card survives its withdrawal.
RunWithdrawLate ==
    /\ Run("withdraw")
    /\ LET id == Head(posted).id
           h == idToHandle[id]
       IN  /\ readerNames' = readerNames \ {id}
           /\ IF id \in DOMAIN idToHandle
              THEN /\ readers' = Drop(readers, h)
                   /\ cards' = Drop(cards, h)
                   /\ TellGone(h)
                   /\ idToHandle' = Drop(idToHandle, id)
              ELSE UNCHANGED <<readers, cards, view, idToHandle>>
    /\ UNCHANGED <<pending, probe, nextHandle>>

\* onWithdrawn: the card is no longer pending, a reader takes its worker with
\* it, and withdraw() tells the clients of what had been published.
RunWithdraw ==
    /\ Run("withdraw")
    /\ LET id == Head(posted).id
           h == idToHandle[id]
       IN  /\ pending' = Drop(pending, id)
           /\ readerNames' = readerNames \ {id}
           /\ IF id \in DOMAIN idToHandle
              THEN /\ readers' = Drop(readers, h)
                   /\ cards' = Drop(cards, h)
                   /\ TellGone(h)
                   /\ idToHandle' = Drop(idToHandle, id)
              ELSE UNCHANGED <<readers, cards, view, idToHandle>>
    /\ UNCHANGED <<probe, nextHandle>>

\* scheduleCardResolve(): the card is pending, and its reader's worker takes
\* the probe, or is too busy and the loop asks again after a delay.
Schedule(id, reader, queued) ==
    /\ pending' = IF id \in DOMAIN pending THEN pending ELSE Put(pending, id, 0)
    /\ probe' = Put(probe, id, [at |-> IF queued THEN "worker" ELSE "timer", reader |-> reader])

\* onCardPublished.
RunCard(queued) ==
    /\ Run("card")
    /\ Schedule(Head(posted).id, Head(posted).of, queued)
    /\ UNCHANGED <<readerNames, wireVars>>

\* The delayed retry: a card withdrawn meanwhile is dropped.
RetryTimer(id, queued) ==
    /\ id \in DOMAIN probe /\ probe[id].at = "timer"
    /\ IF id \in DOMAIN pending
       THEN Schedule(id, probe[id].reader, queued)
       ELSE probe' = Drop(probe, id) /\ UNCHANGED pending
    /\ UNCHANGED <<worldVars, posted, readerNames, reading, wireVars>>

\* publishCard(): the card and, should it have none, its reader get a handle.
PublishCard(id, of) ==
    LET h == idToHandle'[id]
        rec == [id |-> id, reader |-> idToHandle'[of], type |-> Nothing]
    IN  /\ Mint(handleFor(handleFor(Minted, id), of))
        /\ cards' = Put(cards, h, rec)
        /\ TellCard(h, rec)

\* retryAfter(): the session was refused, and the budget allows another wait.
RetryAllowed(id) == Head(posted).refused /\ pending[id] < MaxRetries

\* Mutant: a refused session is asked about again without arming the timer.
RunResolvedForgotten ==
    /\ Run("resolved")
    /\ LET id == Head(posted).id
       IN  \/ /\ id \notin DOMAIN pending
              /\ UNCHANGED <<pending, probe, idToHandle, nextHandle, cards, view>>
           \/ /\ id \in DOMAIN pending
              /\ RetryAllowed(id)
              /\ pending' = [pending EXCEPT ![id] = @ + 1]
              /\ UNCHANGED <<probe, idToHandle, nextHandle, cards, view>>
           \/ /\ id \in DOMAIN pending
              /\ ~RetryAllowed(id)
              /\ pending' = Drop(pending, id)
              /\ PublishCard(id, Head(posted).of)
              /\ UNCHANGED probe
    /\ UNCHANGED <<readerNames, readers>>

\* applyCardResolution().
RunResolved ==
    /\ Run("resolved")
    /\ LET id == Head(posted).id
       IN  \/ /\ id \notin DOMAIN pending              \* withdrawn while resolving
              /\ UNCHANGED <<pending, probe, idToHandle, nextHandle, cards, view>>
           \/ /\ id \in DOMAIN pending
              /\ RetryAllowed(id)
              /\ pending' = [pending EXCEPT ![id] = @ + 1]
              /\ probe' = Put(probe, id, [at |-> "timer", reader |-> Head(posted).of])
              /\ UNCHANGED <<idToHandle, nextHandle, cards, view>>
           \/ /\ id \in DOMAIN pending
              /\ ~RetryAllowed(id)
              /\ pending' = Drop(pending, id)
              /\ PublishCard(id, Head(posted).of)
              /\ UNCHANGED probe
    /\ UNCHANGED <<readerNames, readers>>

\* Mutant: the type is stored, the clients are not told.
RunTypeSilent ==
    /\ Run("type")
    /\ LET h == Head(posted).handle
       IN  cards' = IF h \in DOMAIN cards THEN [cards EXCEPT ![h].type = Head(posted).type] ELSE cards
    /\ UNCHANGED <<readerNames, pending, probe, idToHandle, nextHandle, readers, view>>

\* The card type sink's block: updateCardType().
RunType ==
    /\ Run("type")
    /\ LET h == Head(posted).handle
           rec == [cards[h] EXCEPT !.type = Head(posted).type]
       IN  IF h \in DOMAIN cards /\ cards[h].type # Head(posted).type
           THEN cards' = Put(cards, h, rec) /\ TellCard(h, rec)
           ELSE UNCHANGED <<cards, view>>
    /\ UNCHANGED <<readerNames, pending, probe, idToHandle, nextHandle, readers>>

\* GetState: the client has the snapshot and is sent every event from here on.
GetState ==
    /\ ~view.on
    /\ view' = [on |-> TRUE, readers |-> readers, cards |-> cards]
    /\ UNCHANGED <<worldVars, posted, readerNames, pending, probe, reading,
                   idToHandle, nextHandle, readers, cards>>

Next ==
    \/ \E s \in Slots : \/ PlugReader(s) \/ InsertCard(s) \/ RemoveCard(s) \/ UnplugReader(s)
                        \/ \E l \in Labels : Relabel(s, l)
    \/ \E id \in Ids : ProbeDone(id) \/ ProbeLost(id)
    \/ \E h \in Handles : BeginRead(h) \/ EndRead(h)
    \/ RunReader \/ RunSeat \/ RunRelabel \/ RunWithdraw \/ RunResolved \/ RunType
    \/ \E queued \in BOOLEAN : \/ RunCard(queued)
                               \/ \E id \in Ids : RetryTimer(id, queued)
    \/ GetState

Spec == Init /\ [][Next]_vars

\* The loop runs its blocks, a worker answers the probe it took, and a reader's
\* worker is not too busy for ever: a retry is at last accepted.
FairSpec ==
    /\ Spec
    /\ WF_vars(RunReader \/ RunSeat \/ RunRelabel \/ RunWithdraw \/ RunResolved \/ RunType
                 \/ \E queued \in BOOLEAN : RunCard(queued))
    /\ \A id \in Ids : WF_vars(ProbeDone(id)) /\ WF_vars(RetryTimer(id, TRUE))

(***************************************************************************)
(* Properties.                                                             *)
(***************************************************************************)

\* Every card on the wire names a reader that is on the wire too, and no two
\* of them name the same one: rebuildRoster() takes the first match for the
\* only one, although probes answer late and cards come and go meanwhile.
OneCardPerReader ==
    \A h \in DOMAIN cards :
        /\ cards[h].reader \in DOMAIN readers
        /\ \A g \in DOMAIN cards : cards[g].reader = cards[h].reader => g = h

\* A card's type was read from that very card: a read that ends after its card
\* was withdrawn labels no card that came after it.
TypeIsOwn == \A h \in DOMAIN cards : cards[h].type \in {Nothing, cards[h].id}

\* Once the loop has caught up with the monitor, the handles it keeps and the
\* readers it publishes are those of what is plugged in, each reader naming
\* the card that sits in it; no handle, name or pending card is left behind.
QuietIsTrue ==
    posted = << >> =>
        LET present == (UNION {{world[s].reader, world[s].card} : s \in Slots}) \ {Nothing}
        IN  /\ DOMAIN idToHandle = present
            /\ DOMAIN pending \subseteq present
            /\ {readers[h].id : h \in DOMAIN readers} = readerNames
            /\ \A s \in Slots : world[s].reader # Nothing =>
                  LET h == idToHandle[world[s].reader]
                  IN  /\ h \in DOMAIN readers
                      /\ readers[h].card = IF world[s].card = Nothing
                                           THEN Nothing ELSE idToHandle[world[s].card]

\* The roster as the loop keeps it: well typed, one card for a reader, every
\* type a card's own, and true when the loop has caught up.
RosterInv == TypeOK /\ OneCardPerReader /\ TypeIsOwn /\ QuietIsTrue

\* A client that took GetState once and applied every event since knows what
\* the transport's own maps say.
ClientAgrees == view.on => view.readers = readers /\ view.cards = cards

\* A card that stays in its reader is published at last, however often its
\* session is refused and however busy the reader's worker is for a while.
CardGetsPublished ==
    \A s \in Slots, id \in Ids :
        world[s].card = id ~> (world[s].card # id \/ \E h \in DOMAIN cards : cards[h].id = id)
=============================================================================
