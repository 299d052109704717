----------------------------- MODULE AgentDaemon -----------------------------
(***************************************************************************)
(* The life of one agent process and of the launchd job it belongs to:     *)
(* main() builds the parts in an order, serves from the run loop, and      *)
(* takes the parts down in an order, while the loop queue, the monitor     *)
(* thread, the reader workers, the system's power and session              *)
(* notifications, signals and launchd go on beside it.                     *)
(*                                                                         *)
(* What one part does inside is the subject of the other modules.  Here a  *)
(* part is what it gives others to call: a sink, handlers, observers,      *)
(* blocks on the loop.  A card is published in one step once its block     *)
(* runs (the probe is in Presence); an operation is a worker that may ask  *)
(* a person once (the events are in Operations).                           *)
(***************************************************************************)
EXTENDS Integers, Sequences, FiniteSets

CONSTANTS
    Clients,        \* connections that may be made to one agent process
    Notices,        \* the system notifications that happen
    MaxNotices,     \* bound: notifications in one behaviour
    MaxMoves,       \* bound: times a card is put in or taken out
    MaxFaults       \* bound: crashes and refused starts, together

\* What the system tells an agent: seven notifications and three power messages.
AllNotices == {"WillSleep", "DidWake", "SessionDidResignActive", "SessionDidBecomeActive",
               "WillPowerOff", "screenIsLocked", "screenIsUnlocked",
               "CanSystemSleep", "SystemWillSleep", "SystemHasPoweredOn"}

ASSUME DaemonAssumption ==
    /\ Notices \subseteq AllNotices
    /\ MaxNotices \in Nat /\ MaxMoves \in Nat /\ MaxFaults \in Nat

VARIABLES
    proc,           \* launchd's job: "up", or "down" with the last exit
    at,             \* how many steps of Program the main thread has taken
    handling,       \* the notification the main thread is in, and how far
    notes,          \* notifications that wait for the main run loop
    asked,          \* power messages the kernel waits for an answer to
    term,           \* the signal source has counted a SIGTERM
    stateMutex,     \* who holds it
    seen,           \* the card as the monitor last reported it
    card,           \* the card as it is
    published,      \* whether the transport offers it
    loopQ,          \* blocks posted to the loop
    client,         \* client[c]: the connection
    op,             \* op[c]: the client's operation on a reader worker, or its PKCS#11 lease
    forgot, told,   \* per reason: core.quiesce() calls, and announcements
    other,          \* another agent (one started by hand) has the socket
    stopAsked,      \* somebody asked the agent to stop
    used            \* [notices, moves, faults] so far

procVars == <<at, handling, notes, asked, term, stateMutex, seen, published, loopQ,
              client, op, forgot, told>>
vars == <<procVars, proc, card, other, stopAsked, used>>

-----------------------------------------------------------------------------
(* main(): the order in which parts come and go. *)

\* Mutant: the monitor starts before the disconnect handlers are registered.
StartupEagerMonitor == << "transport", "core", "frontend", "sink", "observers", "cardHook",
              "monitor", "cancelOps", "revokeLeases", "evict", "lifecycle",
              "ignoreSignals", "signalSources" >>

\* From the socket, which accepts at once, to the signal sources.
Startup == << "transport", "core", "frontend", "sink", "observers", "cardHook",
              "cancelOps", "revokeLeases", "evict", "monitor", "lifecycle",
              "ignoreSignals", "signalSources" >>

\* Mutant: the frontend goes before the loop is quiesced.
TeardownEagerReset == << "quiesce", "stopLifecycle", "stopMonitor", "cryptoShutdown", "dismissPrompts",
               "severObservers", "stopRunLoop", "runLoopReturns", "resetFrontend", "quiesceLoop", "drain",
               "cancelSources", "destroyCore", "destroyTransport" >>

\* Mutant: quiesce() does not stop the run loop.
TeardownRunsOn == SelectSeq(
             << "quiesce", "stopLifecycle", "stopMonitor", "cryptoShutdown", "dismissPrompts",
               "severObservers", "stopRunLoop", "runLoopReturns", "quiesceLoop", "drain",
               "resetFrontend", "cancelSources", "destroyCore", "destroyTransport" >>,
             LAMBDA s : s # "stopRunLoop")

\* quiesce() on the main queue, the teardown behind CFRunLoopRun(), and the
\* destructors of main()'s locals.
Teardown == << "quiesce", "stopLifecycle", "stopMonitor", "cryptoShutdown", "dismissPrompts",
               "severObservers", "stopRunLoop", "runLoopReturns", "quiesceLoop", "drain",
               "resetFrontend", "cancelSources", "destroyCore", "destroyTransport" >>

Program == Startup \o Teardown
Steps == {Program[i] : i \in DOMAIN Program}
Done(s) == \E i \in 1..at : Program[i] = s
Serving == proc = "up" /\ at = Len(Startup)

\* What stands between the two steps that bring a part up and take it away.
TransportAlive == Done("transport") /\ ~Done("destroyTransport")
CoreAlive == Done("core") /\ ~Done("destroyCore")
FrontendAlive == Done("frontend") /\ ~Done("resetFrontend")
Quiesced == Done("quiesceLoop")             \* m_loopQuiesced, set with the two below
SinkSet == Done("sink") /\ ~Quiesced
Handler(h) == Done(h) /\ ~Quiesced
Observing == Done("observers") /\ ~Done("severObservers")
Monitoring == Done("monitor") /\ ~Done("stopMonitor")
Listening == Done("lifecycle") /\ ~Done("stopLifecycle")

\* The main thread takes blocks and notifications: in the run loop, and until
\* a CFRunLoopStop() that was called has taken effect.
InRunLoop == \/ at = Len(Startup)
             \/ Done("stopRunLoop") /\ ~Done("runLoopReturns")

-----------------------------------------------------------------------------
(* Notifications: ioPowerCallback() and the observers of start(). *)

EventOf(n) ==
    CASE n \in {"WillSleep", "SystemWillSleep"} -> "Suspend"
      [] n \in {"DidWake", "SystemHasPoweredOn"} -> "Resume"
      [] n = "SessionDidResignActive" -> "SessionResign"
      [] n = "SessionDidBecomeActive" -> "SessionActive"
      [] n = "WillPowerOff" -> "PowerOff"
      [] n = "screenIsLocked" -> "ScreenLock"
      [] n = "screenIsUnlocked" -> "ScreenUnlock"
      [] n = "CanSystemSleep" -> "none"

Reasons == {"SystemSleep", "SessionInactive", "ScreenLocked"}

quiesceReasonFor(e) ==
    CASE e = "Suspend" -> "SystemSleep"
      [] e = "SessionResign" -> "SessionInactive"
      [] e = "ScreenLock" -> "ScreenLocked"
      [] OTHER -> "none"

\* Mutant: the idle-sleep query is left to the default case.
AckedSleepOnly == {"SystemWillSleep"}

\* The power messages that are answered with IOAllowPowerChange().
Acked == {"CanSystemSleep", "SystemWillSleep"}

PowerQuestions == {"CanSystemSleep", "SystemWillSleep"}

Idle == [note |-> "none", stage |-> "idle"]

(* Blocks on the loop. *)
CardBlock(there) == [do |-> "card", there |-> there]    \* publish or withdraw
RevokeBlock == [do |-> "revoke"]                        \* onCardRemovedForLease()
OpBlock(c) == [do |-> "op", client |-> c]               \* a worker's continuation
TellBlock(r) == [do |-> "tell", reason |-> r]           \* broadcastQuiesced()
Blocks == {CardBlock(b) : b \in BOOLEAN} \cup {RevokeBlock}
          \cup {OpBlock(c) : c \in Clients} \cup {TellBlock(r) : r \in Reasons}

TypeOK ==
    /\ proc \in {"up", "down", "stopped"} /\ at \in 0..Len(Program)
    /\ handling \in [note : AllNotices \cup {"none"}, stage : {"idle", "locking", "locked", "telling"}]
    /\ notes \subseteq Notices /\ asked \subseteq PowerQuestions /\ term \in BOOLEAN
    /\ stateMutex \in {"free", "main", "monitor"}
    /\ seen \in BOOLEAN /\ card \in BOOLEAN /\ published \in BOOLEAN
    /\ loopQ \in Seq(Blocks)
    /\ client \in [Clients -> {"none", "open", "left"}]
    /\ op \in [Clients -> {"none", "running", "asking", "answered", "cancelled", "leased", "ended"}]
    /\ forgot \in [Reasons -> Nat] /\ told \in [Reasons -> Nat]
    /\ other \in BOOLEAN /\ stopAsked \in BOOLEAN
    /\ used \in [notices : 0..MaxNotices, moves : 0..MaxMoves, faults : 0..MaxFaults]

Init ==
    /\ proc = "up"
    /\ at = 0 /\ handling = Idle /\ notes = {} /\ asked = {} /\ term = FALSE
    /\ stateMutex = "free" /\ seen = FALSE /\ published = FALSE /\ loopQ = << >>
    /\ client = [c \in Clients |-> "none"] /\ op = [c \in Clients |-> "none"]
    /\ forgot = [r \in Reasons |-> 0] /\ told = [r \in Reasons |-> 0]
    /\ card \in BOOLEAN /\ other \in BOOLEAN /\ stopAsked = FALSE
    /\ used = [notices |-> 0, moves |-> 0, faults |-> 0]

\* What the process held is gone with it; launchd sees how it ended.
Ends(how) ==
    /\ proc' = how
    /\ at' = 0 /\ handling' = Idle /\ notes' = {} /\ asked' = {} /\ term' = FALSE
    /\ stateMutex' = "free" /\ seen' = FALSE /\ published' = FALSE /\ loopQ' = << >>
    /\ client' = [c \in Clients |-> "none"] /\ op' = [c \in Clients |-> "none"]
    /\ forgot' = [r \in Reasons |-> 0] /\ told' = [r \in Reasons |-> 0]
    /\ UNCHANGED <<card, other>>

Spend(what, bound) == used[what] < bound /\ used' = [used EXCEPT ![what] = @ + 1]

-----------------------------------------------------------------------------
(* The main thread. *)

\* dispatch_sync() onto the loop returns behind what was posted before it.
LoopSynced == loopQ = << >>

\* A worker that the core's destructor joins.
Working(c) == op[c] \in {"running", "asking", "answered", "cancelled"}

\* What holds the main thread up before a step: the socket is another
\* agent's; the monitor thread is in a callback when bridge.stop() joins it;
\* a run loop nobody stopped; a dispatch_sync(); the workers ~AgentCore() joins.
MayTake(s) ==
    CASE s = "transport" -> ~other
      [] s = "quiesce" -> term
      [] s = "stopMonitor" -> stateMutex # "monitor"
      [] s = "runLoopReturns" -> Done("stopRunLoop")
      [] s \in {"quiesceLoop", "drain", "destroyTransport"} -> LoopSynced
      [] s = "destroyCore" -> \A c \in Clients : ~Working(c)
      [] OTHER -> TRUE

\* bridge.start() reports a card that is already seated before it returns,
\* through the observers that are set by then.
StartMonitor ==
    /\ seen' = card
    /\ loopQ' = IF card /\ Observing THEN Append(loopQ, CardBlock(TRUE)) ELSE loopQ

\* cancel() for every prompt that stands.  A dismissal may come to nothing:
\* the helper is gone, or has not raised that prompt yet.
DismissPrompts ==
    \E reached \in SUBSET {c \in Clients : op[c] = "asking"} :
        op' = [c \in Clients |-> IF c \in reached THEN "cancelled" ELSE op[c]]

\* One step of main(), and what it does to the others.
MainStep ==
    /\ proc = "up" /\ handling = Idle /\ at < Len(Program)
    /\ LET s == Program[at + 1] IN
        /\ MayTake(s)
        /\ at' = at + 1
        /\ IF s = "monitor" THEN StartMonitor ELSE UNCHANGED <<seen, loopQ>>
        /\ IF s = "dismissPrompts" THEN DismissPrompts ELSE UNCHANGED op
        \* deregistered: the kernel does not wait for this process any more
        /\ asked' = IF s = "stopLifecycle" THEN {} ELSE asked
    /\ UNCHANGED <<handling, notes, term, stateMutex, published, client, forgot, told,
                   proc, card, other, stopAsked, used>>

\* return 0.
Exit0 ==
    /\ proc = "up" /\ at = Len(Program)
    /\ Ends("stopped")
    /\ UNCHANGED <<stopAsked, used>>

\* A notification is taken from the run loop.  A power query without an event
\* is answered at once, PowerOff raises SIGTERM (which the source counts), an
\* event without a reason changes nothing, and every other goes on to forget.
Notified ==
    /\ proc = "up" /\ InRunLoop /\ handling = Idle
    /\ \E n \in notes :
        LET e == EventOf(n)  goesOn == quiesceReasonFor(e) # "none" IN
        /\ notes' = notes \ {n}
        /\ handling' = IF goesOn THEN [note |-> n, stage |-> "locking"] ELSE Idle
        /\ asked' = IF ~goesOn /\ n \in Acked THEN asked \ {n} ELSE asked
        /\ term' = (term \/ (e = "PowerOff" /\ ~Done("cancelSources")))
        /\ stopAsked' = (stopAsked \/ e = "PowerOff")
    /\ UNCHANGED <<at, stateMutex, seen, published, loopQ, client, op, forgot, told,
                   proc, card, other, used>>

HandlingReason == quiesceReasonFor(EventOf(handling.note))

\* Mutant: clients are told first, the core forgets behind it.
LockStateTelling ==
    /\ handling.stage = "locking" /\ stateMutex = "free"
    /\ stateMutex' = "main"
    /\ handling' = [handling EXCEPT !.stage = "locked"]
    /\ loopQ' = Append(loopQ, TellBlock(HandlingReason))
    /\ UNCHANGED <<at, notes, asked, term, seen, published, client, op, forgot, told,
                   proc, card, other, stopAsked, used>>

\* quiesce() of the seams takes the mutex of the monitor's callbacks first.
LockState ==
    /\ handling.stage = "locking" /\ stateMutex = "free"
    /\ stateMutex' = "main"
    /\ handling' = [handling EXCEPT !.stage = "locked"]
    /\ UNCHANGED <<at, notes, asked, term, seen, published, loopQ, client, op, forgot, told,
                   proc, card, other, stopAsked, used>>

LeasesEnd == [c \in Clients |-> IF op[c] = "leased" THEN "ended" ELSE op[c]]

\* core.quiesce(reason) and the end of the lock.  Every reason ends the
\* leases; the sessions a sleep or a switch scrubs are the core's own.
Forget ==
    /\ handling.stage = "locked"
    /\ forgot' = [forgot EXCEPT ![HandlingReason] = @ + 1]
    /\ op' = LeasesEnd
    /\ stateMutex' = "free"
    /\ handling' = [handling EXCEPT !.stage = "telling"]
    /\ UNCHANGED <<at, notes, asked, term, seen, published, loopQ, client, told,
                   proc, card, other, stopAsked, used>>

\* The post to the loop and, back in ioPowerCallback(), the answer.
Tell ==
    /\ handling.stage = "telling"
    /\ loopQ' = Append(loopQ, TellBlock(HandlingReason))
    /\ asked' = IF handling.note \in Acked THEN asked \ {handling.note} ELSE asked
    /\ handling' = Idle
    /\ UNCHANGED <<at, notes, term, stateMutex, seen, published, client, op, forgot, told,
                   proc, card, other, stopAsked, used>>

-----------------------------------------------------------------------------
(* The monitor thread. *)

MonitorLocks ==
    /\ proc = "up" /\ Monitoring /\ seen # card /\ stateMutex = "free"
    /\ stateMutex' = "monitor"
    /\ UNCHANGED <<at, handling, notes, asked, term, seen, published, loopQ, client, op,
                   forgot, told, proc, card, other, stopAsked, used>>

\* The callback, under the mutex: presence reaches the observers; a removal
\* also runs the card hook, which posts the end of the card's leases.
MonitorReports ==
    /\ stateMutex = "monitor"
    /\ seen' = ~seen
    /\ LET told1 == IF Observing THEN Append(loopQ, CardBlock(~seen)) ELSE loopQ IN
       loopQ' = IF seen /\ Done("cardHook") /\ FrontendAlive THEN Append(told1, RevokeBlock) ELSE told1
    /\ stateMutex' = "free"
    /\ UNCHANGED <<at, handling, notes, asked, term, published, client, op, forgot, told,
                   proc, card, other, stopAsked, used>>

-----------------------------------------------------------------------------
(* The loop: connections, requests and posted blocks. *)

Connect(c) ==
    /\ proc = "up" /\ TransportAlive /\ client[c] = "none"
    /\ client' = [client EXCEPT ![c] = "open"]
    /\ UNCHANGED <<at, handling, notes, asked, term, stateMutex, seen, published, loopQ, op,
                   forgot, told, proc, card, other, stopAsked, used>>

\* A request for an operation or a lease; it needs a card the transport
\* offers.  Without a sink the frame is dropped, which changes nothing.
Request(c) ==
    /\ client[c] = "open" /\ SinkSet /\ published
    /\ op[c] = "none"
    /\ \E what \in {"running", "leased"} : op' = [op EXCEPT ![c] = what]
    /\ UNCHANGED <<at, handling, notes, asked, term, stateMutex, seen, published, loopQ, client,
                   forgot, told, proc, card, other, stopAsked, used>>

\* closeConnection(): the handlers that are registered, in their order.
Leave(c) ==
    /\ client[c] = "open" /\ TransportAlive
    /\ client' = [client EXCEPT ![c] = "left"]
    /\ op' = [op EXCEPT ![c] =
                 IF Handler("cancelOps") /\ Working(c) THEN "cancelled"
                 ELSE IF Handler("revokeLeases") /\ @ = "leased" THEN "ended" ELSE @]
    /\ UNCHANGED <<at, handling, notes, asked, term, stateMutex, seen, published, loopQ,
                   forgot, told, proc, card, other, stopAsked, used>>

\* The loop takes a block; once it is quiesced, blocks are dropped.
RunBlock ==
    /\ loopQ # << >>
    /\ LET b == Head(loopQ)  runs == ~Quiesced IN
        /\ published' = IF runs /\ b.do = "card" THEN b.there ELSE published
        /\ op' = IF runs /\ b.do = "revoke" THEN LeasesEnd ELSE op
        /\ told' = IF runs /\ b.do = "tell" THEN [told EXCEPT ![b.reason] = @ + 1] ELSE told
    /\ loopQ' = Tail(loopQ)
    /\ UNCHANGED <<at, handling, notes, asked, term, stateMutex, seen, client, forgot,
                   proc, card, other, stopAsked, used>>

-----------------------------------------------------------------------------
(* The reader workers. *)

\* The gate of the prompt: a cancelled operation does not ask.
Ask(c) ==
    /\ op[c] = "running"
    /\ op' = [op EXCEPT ![c] = "asking"]
    /\ UNCHANGED <<at, handling, notes, asked, term, stateMutex, seen, published, loopQ, client,
                   forgot, told, proc, card, other, stopAsked, used>>

\* The person answers, or the client's receive budget is over.  Behind the
\* prompt a crypto shutdown is looked for.
PromptEnds(c) ==
    /\ op[c] = "asking"
    /\ op' = [op EXCEPT ![c] = IF Done("cryptoShutdown") THEN "cancelled" ELSE "answered"]
    /\ UNCHANGED <<at, handling, notes, asked, term, stateMutex, seen, published, loopQ, client,
                   forgot, told, proc, card, other, stopAsked, used>>

\* The worker is through, and posts what the frontend does behind it.
Finish(c) ==
    /\ op[c] \in {"running", "answered", "cancelled"}
    /\ op' = [op EXCEPT ![c] = "ended"]
    /\ loopQ' = Append(loopQ, OpBlock(c))
    /\ UNCHANGED <<at, handling, notes, asked, term, stateMutex, seen, published, client,
                   forgot, told, proc, card, other, stopAsked, used>>

-----------------------------------------------------------------------------
(* Cards, the system, signals and launchd. *)

MoveCard ==
    /\ Spend("moves", MaxMoves)
    /\ card' = ~card
    /\ stateMutex # "monitor"       \* a change during a callback is the next event
    /\ UNCHANGED <<procVars, proc, other, stopAsked>>

\* A notification is delivered to the run loop of a process that listens.
SystemNotice ==
    /\ proc = "up" /\ Listening /\ Spend("notices", MaxNotices)
    /\ \E n \in Notices \ notes :
        /\ notes' = notes \cup {n}
        /\ asked' = asked \cup ({n} \cap PowerQuestions)
    /\ UNCHANGED <<at, handling, term, stateMutex, seen, published, loopQ, client, op, forgot,
                   told, proc, card, other, stopAsked>>

\* SIGTERM or SIGINT from outside.  Until main() ignores them they kill; from
\* then until the sources are resumed nothing counts them.
Signal ==
    /\ proc = "up" /\ ~stopAsked
    /\ stopAsked' = TRUE
    /\ UNCHANGED used
    /\ \/ ~Done("ignoreSignals") /\ Ends("down")
       \/ /\ Done("ignoreSignals")
          /\ term' = (term \/ (Done("signalSources") /\ ~Done("cancelSources")))
          /\ UNCHANGED <<at, handling, notes, asked, stateMutex, seen, published, loopQ, client, op,
                         forgot, told, proc, card, other>>

Crash == proc = "up" /\ Spend("faults", MaxFaults) /\ Ends("down") /\ UNCHANGED stopAsked

\* A start refused before there is a socket: signature, entitlement, arguments,
\* container, or a socket that cannot be bound (exit 4, 5, 2, 1, 1).
RefuseStart == proc = "up" /\ at = 0 /\ Spend("faults", MaxFaults) /\ Ends("down") /\ UNCHANGED stopAsked

\* Mutant: the second agent leaves quietly, with exit 0.
RefuseSecondQuietly ==
    /\ proc = "up" /\ at = 0 /\ other
    /\ Ends("stopped")
    /\ UNCHANGED <<stopAsked, used>>

\* Exit 3: another agent has the socket.
RefuseSecond == proc = "up" /\ at = 0 /\ other /\ Ends("down") /\ UNCHANGED <<stopAsked, used>>

\* The agent that was started by hand ends.
OtherEnds == other /\ other' = FALSE /\ UNCHANGED <<procVars, proc, card, stopAsked, used>>

\* KeepAlive, SuccessfulExit false: after any exit that was not clean.
Restart == proc = "down" /\ proc' = "up" /\ UNCHANGED <<procVars, card, other, stopAsked, used>>

-----------------------------------------------------------------------------
Next ==
    \/ MainStep \/ Exit0 \/ Notified \/ LockState \/ Forget \/ Tell
    \/ MonitorLocks \/ MonitorReports \/ RunBlock
    \/ \E c \in Clients : Connect(c) \/ Request(c) \/ Leave(c) \/ Ask(c) \/ PromptEnds(c) \/ Finish(c)
    \/ MoveCard \/ SystemNotice \/ Signal \/ Crash \/ RefuseStart \/ RefuseSecond \/ OtherEnds \/ Restart

Spec == Init /\ [][Next]_vars

\* Threads that have something to do do it; a prompt ends at the latest with
\* the client's receive budget; launchd restarts; the other agent does not
\* stay for ever.
Fairness ==
    /\ WF_vars(MainStep) /\ WF_vars(Exit0) /\ WF_vars(Notified)
    /\ WF_vars(LockState) /\ WF_vars(Forget) /\ WF_vars(Tell)
    /\ WF_vars(MonitorLocks) /\ WF_vars(MonitorReports) /\ WF_vars(RunBlock)
    /\ \A c \in Clients : WF_vars(PromptEnds(c)) /\ WF_vars(Finish(c))
    /\ WF_vars(RefuseSecond) /\ WF_vars(OtherEnds) /\ WF_vars(Restart)

FairSpec == Spec /\ Fairness

-----------------------------------------------------------------------------
(* Properties. *)

\* Whatever may still run finds what it calls: the sink the frontend and the
\* core, the disconnect handlers and a callback of the monitor the core, a
\* block that is not dropped the frontend, a worker the core and the
\* transport, a notification the core and the transport (main.cpp 413-421).
LifetimeInv ==
    proc = "up" =>
        /\ SinkSet => FrontendAlive /\ CoreAlive
        /\ Handler("cancelOps") => CoreAlive
        /\ Monitoring => CoreAlive
        /\ loopQ # << >> => TransportAlive
        /\ loopQ # << >> /\ ~Quiesced => FrontendAlive /\ CoreAlive
        /\ \A c \in Clients : Working(c) => CoreAlive /\ TransportAlive
        /\ handling # Idle \/ (InRunLoop /\ notes # {}) => CoreAlive /\ TransportAlive

\* Nothing that happens during the start-up is missed.  A client that has left
\* has no lease and no operation that goes on without a cancel, however early
\* it left (an agent whose loop is quiesced ends anyway and does not hear of
\* it), and an agent that serves and has nothing under way offers the card
\* exactly when it is there, one that was seated before included
\* (main.cpp 344-361).
GoneIsCancelled ==
    \A c \in Clients : client[c] = "left" /\ ~Quiesced => op[c] \in {"none", "cancelled", "ended"}
RosterIsTrue ==
    Serving /\ loopQ = << >> /\ seen = card => published = card
NothingMissed == GoneIsCancelled /\ RosterIsTrue

\* Clients are told a reason only when the core has forgotten for it, and as
\* often: what is told and what waits on the loop make up what was forgotten,
\* but for the notification being handled (AgentCoreSeams.h 79-84).
Queued(r) == Cardinality({i \in DOMAIN loopQ : loopQ[i] = TellBlock(r)})
ToldAfterForgot ==
    proc = "up" /\ ~Quiesced => \A r \in Reasons :
        forgot[r] = told[r] + Queued(r)
                    + (IF handling.stage = "telling" /\ HandlingReason = r THEN 1 ELSE 0)

\* A SIGTERM that was counted, PowerOff's included, ends the process, whoever
\* is asked, whatever the monitor does and wherever a worker is (main.cpp 373-430).
TermEnds == term ~> proc # "up"

\* The kernel's questions about sleep are answered, or the agent no longer
\* counts among those who are asked (SystemLifecycle.mm 44-58).
PowerAnswered == asked # {} ~> asked = {}

\* Unless somebody stops it, the agent comes to serve: over crashes, refused
\* starts and another agent that has the socket for a while (main.cpp 185-192).
ComesToServe == []<>(Serving \/ stopAsked)
=============================================================================
