------------------------------- MODULE Prompter -------------------------------
(***************************************************************************)
(* The prompter and the agent's client of it.  MacPrompterClient.cpp (the  *)
(* agent) asks for a secret or a confirmation on a connection of its own   *)
(* and waits for the one reply; it dismisses a prompt by its id on another *)
(* connection, and resets the prompter when it starts.  PrompterServer.cpp *)
(* reads on a serial queue and hands every call that waits to a concurrent *)
(* worker queue; PromptWindow.mm raises, ends and counts the panels on the *)
(* main thread.                                                            *)
(*                                                                         *)
(* Threads: the agent's callers, the serial queue, up to MaxWorkers        *)
(* workers, the main thread (one block or one event a step), the person.   *)
(* The agent and the prompter die and are restarted independently.         *)
(***************************************************************************)
EXTENDS Integers, Sequences, FiniteSets

CONSTANTS
    Shapes,             \* the shapes requests take: [kind, addressed, timed]
    MaxReqs,            \* bound: requests in one behaviour
    MaxFaults,          \* bound: deaths, of the agent and of the prompter together
    MaxWorkers          \* threads the worker queue may grow to

Kinds == {"secret", "confirm"}

ASSUME PrompterAssumption ==
    /\ Shapes \subseteq [kind : Kinds, addressed : BOOLEAN, timed : BOOLEAN]
    /\ \A s \in Shapes : s.kind = "confirm" => ~s.addressed /\ ~s.timed
    /\ MaxReqs \in Nat /\ MaxFaults \in Nat /\ MaxWorkers \in Nat

VARIABLES
    agent,              \* the agent process: which one, and how far it is
    req,                \* req[r]: a request, at the client and at the prompter
    reset,              \* reset[g]: the start-up reset of agent g
    workQ,              \* the worker queue: requests and resets not yet begun
    mainQ,              \* the main queue's blocks
    panels,             \* PromptWindow::Impl::panels, oldest first
    crashes             \* deaths of the prompter

vars == <<agent, req, reset, workQ, mainQ, panels, crashes>>

Reqs == 1..MaxReqs
Agents == 1..(MaxFaults + 1)      \* one after the other

(***************************************************************************)
(* A request.  `addressed`: it carries a prompt id, which the agent mints  *)
(* and never reuses; `timed`: it carries a deadline.  `client` is the      *)
(* caller in the agent, `stage` the request at the prompter ("over" once   *)
(* its connection is closed, with or without a reply), `dismissed` whether *)
(* a dismissal ended its panel, `cancel` the dismissal sent for it.        *)
(***************************************************************************)
Stages == {"new", "sent", "queued", "raising", "standing", "asking", "answered", "over"}
Request == [kind : Kinds, addressed : BOOLEAN, timed : BOOLEAN, gen : 0..(MaxFaults + 1),
            client : {"none", "waiting", "returned"}, stage : Stages,
            dismissed : BOOLEAN, cancel : {"none", "sent", "main", "done", "lost"}]
NoRequest == [kind |-> "secret", addressed |-> FALSE, timed |-> FALSE, gen |-> 0,
              client |-> "none", stage |-> "new", dismissed |-> FALSE, cancel |-> "none"]

Call(r) == [do |-> "call", req |-> r]           \* provider(req), on a worker
ResetCall(g) == [do |-> "reset", gen |-> g]     \* resetHandler(), on a worker
Raise(r) == [do |-> "raise", req |-> r]         \* dispatch_sync of showPrompt()
Dismiss(r) == [do |-> "dismiss", req |-> r]     \* dispatch_async of dismiss()
Sweep(g) == [do |-> "sweep", gen |-> g]         \* dispatch_sync of dismissAll()

Jobs == {Call(r) : r \in Reqs} \cup {ResetCall(g) : g \in Agents}
Blocks == {Raise(r) : r \in Reqs} \cup {Dismiss(r) : r \in Reqs} \cup {Sweep(g) : g \in Agents}

TypeOK ==
    /\ agent \in [gen : Agents, up : {"resetting", "serving", "stopping", "dead"}]
    /\ req \in [Reqs -> Request]
    /\ reset \in [Agents -> {"none", "sent", "queued", "sweeping", "done", "lost"}]
    /\ workQ \in Seq(Jobs) /\ mainQ \in Seq(Blocks) /\ panels \in Seq(Reqs)
    /\ crashes \in 0..MaxFaults

\* The first agent serves; it met a prompter with nothing to sweep.
Init ==
    /\ agent = [gen |-> 1, up |-> "serving"]
    /\ req = [r \in Reqs |-> NoRequest]
    /\ reset = [g \in Agents |-> IF g = 1 THEN "done" ELSE "none"]
    /\ workQ = << >> /\ mainQ = << >> /\ panels = << >>
    /\ crashes = 0

\* The panels or dialogs of S have their answer; the worker of each is woken.
Ended(S) == [r \in Reqs |-> IF r \in S THEN [req[r] EXCEPT !.stage = "answered"] ELSE req[r]]

\* Deaths so far, an agent that has not been restarted yet included.
FaultAllowed ==
    crashes + (IF agent.up = "dead" THEN agent.gen ELSE agent.gen - 1) < MaxFaults

InSeq(x, s) == \E n \in DOMAIN s : s[n] = x
Once(s) == \A m, n \in DOMAIN s : s[m] = s[n] => m = n
Stage(r, s) == req' = [req EXCEPT ![r].stage = s]

(***************************************************************************)
(* The agent.                                                              *)
(***************************************************************************)

\* request(), requestPinChange() or requestConfirmation(), up to the send.  A
\* caller that cannot connect, verify the peer or bound its wait returns Error
\* and leaves nothing behind.
Ask(r) ==
    /\ agent.up = "serving"
    /\ req[r].stage = "new" /\ \A q \in Reqs : q < r => req[q].stage # "new"
    /\ \E s \in Shapes :
          req' = [req EXCEPT ![r] = [NoRequest EXCEPT !.kind = s.kind, !.addressed = s.addressed,
                     !.timed = s.timed, !.gen = agent.gen, !.client = "waiting", !.stage = "sent"]]
    /\ UNCHANGED <<agent, reset, workQ, mainQ, panels, crashes>>

\* Live prompts of the agent's gate: confirmations are not among them.
Live(r) == req[r].client = "waiting" /\ req[r].kind # "confirm"

\* cancel(): CancelCurrent on a connection of its own, so it may overtake the
\* request or be overtaken.  The caller goes on waiting for its reply.
Cancel(r) ==
    /\ agent.up = "serving"
    /\ Live(r) /\ req[r].cancel = "none"
    /\ req' = [req EXCEPT ![r].cancel = "sent"]
    /\ UNCHANGED <<agent, reset, workQ, mainQ, panels, crashes>>

\* SIGTERM: main()'s quiesce dismisses every prompt that is live.
Quiesce ==
    /\ agent.up = "serving"
    /\ agent' = [agent EXCEPT !.up = "stopping"]
    /\ req' = [r \in Reqs |-> IF Live(r) /\ req[r].cancel = "none"
                              THEN [req[r] EXCEPT !.cancel = "sent"] ELSE req[r]]
    /\ UNCHANGED <<reset, workQ, mainQ, panels, crashes>>

\* The reply is there, or the connection ended without one.
Receive(r) ==
    /\ req[r].client = "waiting" /\ req[r].stage = "over"
    /\ req' = [req EXCEPT ![r].client = "returned"]
    /\ UNCHANGED <<agent, reset, workQ, mainQ, panels, crashes>>

\* kPromptReceiveBudget is over.  It outlives the deadline of a panel, but the
\* panel's clock starts when it is shown, so this may come at any time.
Budget(r) ==
    /\ req[r].client = "waiting" /\ req[r].kind # "confirm"
    /\ req' = [req EXCEPT ![r].client = "returned"]
    /\ UNCHANGED <<agent, reset, workQ, mainQ, panels, crashes>>

\* reset() returns: the prompter has answered, kResetReplyBudgetMs are over, or
\* the connection has failed.
ResetReturns ==
    /\ agent.up = "resetting"
    /\ agent' = [agent EXCEPT !.up = "serving"]
    /\ UNCHANGED <<req, reset, workQ, mainQ, panels, crashes>>

\* The process ends, in good order or not; what it sent stays in the sockets.
AgentExits ==
    /\ agent.up # "dead" /\ FaultAllowed
    /\ agent' = [agent EXCEPT !.up = "dead"]
    /\ req' = [r \in Reqs |-> IF req[r].client = "waiting"
                              THEN [req[r] EXCEPT !.client = "returned"] ELSE req[r]]
    /\ UNCHANGED <<reset, workQ, mainQ, panels, crashes>>

\* The next agent resets the prompter before it serves anyone.
AgentStarts ==
    /\ agent.up = "dead"
    /\ agent' = [gen |-> agent.gen + 1, up |-> "resetting"]
    /\ reset' = [reset EXCEPT ![agent.gen + 1] = "sent"]
    /\ UNCHANGED <<req, workQ, mainQ, panels, crashes>>

(***************************************************************************)
(* The prompter's serial queue: one request per connection.                *)
(***************************************************************************)
ReadRequest(r) ==
    /\ req[r].stage = "sent"
    /\ Stage(r, "queued")
    /\ workQ' = Append(workQ, Call(r))
    /\ UNCHANGED <<agent, reset, mainQ, panels, crashes>>

\* acceptOne() does not take the peer for the agent, or the frame cannot be
\* read: the connection is closed, at best behind an Error.
RefuseRequest(r) ==
    /\ req[r].stage = "sent"
    /\ Stage(r, "over")
    /\ UNCHANGED <<agent, reset, workQ, mainQ, panels, crashes>>

\* Threads of the worker queue that are taken: each call keeps its own until
\* the reply is sent.
Taken ==
    Cardinality({r \in Reqs : req[r].stage \in {"raising", "standing", "asking", "answered"}})
    + Cardinality({g \in Agents : reset[g] = "sweeping"})

\* Mutant: the dismissal needs a worker like every other call.
ReadCancelOnWorker(r) ==
    /\ req[r].cancel = "sent"
    /\ Taken < MaxWorkers
    /\ req' = [req EXCEPT ![r].cancel = "main"]
    /\ mainQ' = Append(mainQ, Dismiss(r))
    /\ UNCHANGED <<agent, reset, workQ, panels, crashes>>

\* m_cancel() inline: PromptWindow::dismiss() posts to the main queue.
ReadCancel(r) ==
    /\ req[r].cancel = "sent"
    /\ req' = [req EXCEPT ![r].cancel = "main"]
    /\ mainQ' = Append(mainQ, Dismiss(r))
    /\ UNCHANGED <<agent, reset, workQ, panels, crashes>>

ReadReset(g) ==
    /\ reset[g] = "sent"
    /\ reset' = [reset EXCEPT ![g] = "queued"]
    /\ workQ' = Append(workQ, ResetCall(g))
    /\ UNCHANGED <<agent, req, mainQ, panels, crashes>>

(***************************************************************************)
(* The workers.                                                            *)
(***************************************************************************)

\* The next call begins if there is a thread for it: showPrompt() goes to the
\* main thread and waits, confirmWithDeviceOwner() raises the platform's own
\* dialog and waits.  A version or a kind this build of the prompter does not
\* know, or a Mac that cannot authenticate its owner, is an Error at once.
BeginCall ==
    /\ workQ # << >> /\ Head(workQ).do = "call" /\ Taken < MaxWorkers
    /\ workQ' = Tail(workQ)
    /\ LET r == Head(workQ).req
       IN  \/ req[r].kind = "secret" /\ Stage(r, "raising") /\ mainQ' = Append(mainQ, Raise(r))
           \/ req[r].kind = "confirm" /\ Stage(r, "asking") /\ UNCHANGED mainQ
           \/ req' = Ended({r}) /\ UNCHANGED mainQ
    /\ UNCHANGED <<agent, reset, panels, crashes>>

\* The reset handler: dismissAll() goes to the main thread and waits.
BeginReset ==
    /\ workQ # << >> /\ Head(workQ).do = "reset" /\ Taken < MaxWorkers
    /\ workQ' = Tail(workQ)
    /\ reset' = [reset EXCEPT ![Head(workQ).gen] = "sweeping"]
    /\ mainQ' = Append(mainQ, Sweep(Head(workQ).gen))
    /\ UNCHANGED <<agent, req, panels, crashes>>

\* The semaphore was signalled: send the reply, scrub it, close the connection.
Reply(r) ==
    /\ req[r].stage = "answered"
    /\ Stage(r, "over")
    /\ UNCHANGED <<agent, reset, workQ, mainQ, panels, crashes>>

(***************************************************************************)
(* The main thread.                                                        *)
(***************************************************************************)

\* Mutant: the registry is cleared by key, which unaddressed panels share.
FinishByKey(S) ==
    panels' = SelectSeq(panels, LAMBDA q :
        \A p \in S : q # p /\ (req[p].addressed \/ req[q].addressed))

\* finishWithStatus() of the panels in S: each leaves the registry by itself,
\* and place keeps the order of the m that stay.
Finish(S) ==
    \E m \in 0..Len(panels) : \E place \in [1..m -> DOMAIN panels] :
        /\ \A i, j \in 1..m : i < j => place[i] < place[j]
        /\ {place[i] : i \in 1..m} = {n \in DOMAIN panels : panels[n] \notin S}
        /\ panels' = [i \in 1..m |-> panels[place[i]]]

Standing == {panels[n] : n \in DOMAIN panels}
OldestUnaddressed(n) == ~req[panels[n]].addressed /\ \A m \in 1..(n - 1) : req[panels[m]].addressed

\* Mutant: without an id, every panel that has none.
TargetsEveryUnaddressed(r) ==
    {q \in Standing : (req[r].addressed /\ q = r) \/ ~req[q].addressed}

\* finishPanels(): an id reaches its panel and every panel without one, no id
\* reaches the oldest panel without one.
Targets(r) ==
    IF req[r].addressed THEN {q \in Standing : q = r \/ ~req[q].addressed}
    ELSE {panels[n] : n \in {m \in DOMAIN panels : OldestUnaddressed(m)}}

\* The panel is registered and shown, its clock started.
RunRaise ==
    /\ mainQ # << >> /\ Head(mainQ).do = "raise"
    /\ mainQ' = Tail(mainQ)
    /\ panels' = Append(panels, Head(mainQ).req)
    /\ Stage(Head(mainQ).req, "standing")
    /\ UNCHANGED <<agent, reset, workQ, crashes>>

RunDismiss ==
    /\ mainQ # << >> /\ Head(mainQ).do = "dismiss"
    /\ mainQ' = Tail(mainQ)
    /\ LET r == Head(mainQ).req
       IN  /\ Finish(Targets(r))
           /\ req' = [q \in Reqs |->
                  [Ended(Targets(r))[q] EXCEPT !.dismissed = @ \/ q \in Targets(r),
                                               !.cancel = IF q = r THEN "done" ELSE @]]
    /\ UNCHANGED <<agent, reset, workQ, crashes>>

\* dismissAll(); the worker then answers with the count.
RunSweep ==
    /\ mainQ # << >> /\ Head(mainQ).do = "sweep"
    /\ mainQ' = Tail(mainQ)
    /\ Finish(Standing) /\ req' = Ended(Standing)
    /\ reset' = [reset EXCEPT ![Head(mainQ).gen] = "done"]
    /\ UNCHANGED <<agent, workQ, crashes>>

\* okPressed:, cancelPressed: or the window's close button.
Person(r) ==
    /\ r \in Standing
    /\ Finish({r}) /\ req' = Ended({r})
    /\ UNCHANGED <<agent, reset, workQ, mainQ, crashes>>

\* deadlineFired: of a panel that was given a deadline.
DeadlineFired(r) ==
    /\ r \in Standing /\ req[r].timed
    /\ Finish({r}) /\ req' = Ended({r})
    /\ UNCHANGED <<agent, reset, workQ, mainQ, crashes>>

\* The platform's dialog is answered; it has no timeout and no panel of ours.
ConfirmAnswered(r) ==
    /\ req[r].stage = "asking"
    /\ req' = Ended({r})
    /\ UNCHANGED <<agent, reset, workQ, mainQ, panels, crashes>>

\* The prompter dies, and launchd starts another: panels, queues, and what was
\* in its sockets are gone.
Crash ==
    /\ FaultAllowed
    /\ crashes' = crashes + 1
    /\ req' = [r \in Reqs |->
          [req[r] EXCEPT !.stage = IF @ = "new" THEN @ ELSE "over",
                         !.cancel = IF @ \in {"sent", "main"} THEN "lost" ELSE @]]
    /\ reset' = [g \in Agents |-> IF reset[g] \in {"none", "done"} THEN reset[g] ELSE "lost"]
    /\ workQ' = << >> /\ mainQ' = << >> /\ panels' = << >>
    /\ UNCHANGED agent

SerialStep(r) == ReadRequest(r) \/ RefuseRequest(r) \/ ReadCancel(r)
WorkerStep == BeginCall \/ BeginReset
MainStep == RunRaise \/ RunDismiss \/ RunSweep
ClientStep(r) == Receive(r) \/ Budget(r)

Next ==
    \/ \E r \in Reqs : \/ Ask(r) \/ Cancel(r) \/ ClientStep(r)
                       \/ SerialStep(r) \/ Reply(r)
                       \/ Person(r) \/ DeadlineFired(r) \/ ConfirmAnswered(r)
    \/ \E g \in Agents : ReadReset(g)
    \/ WorkerStep \/ MainStep
    \/ Quiesce \/ ResetReturns \/ AgentExits \/ AgentStarts
    \/ Crash

Spec == Init /\ [][Next]_vars

(***************************************************************************)
(* The queues are served, deadlines and budgets run out, a reply is sent.  *)
(* A worker that finds no free thread waits; the person need never answer. *)
(***************************************************************************)
FairSpec ==
    /\ Spec
    /\ WF_vars(MainStep) /\ WF_vars(WorkerStep)
    /\ \A r \in Reqs : /\ WF_vars(ReadRequest(r)) /\ WF_vars(ReadCancel(r)) /\ WF_vars(Reply(r))
                       /\ WF_vars(DeadlineFired(r))

(***************************************************************************)
(* Properties.                                                             *)
(***************************************************************************)

\* Every worker that waits can still be woken: the panel it waits for is in the
\* registry, once, or the block it waits for is on the main queue; nothing else
\* is there.
WaitersWoken ==
    /\ \A r \in Reqs : req[r].stage = "standing" <=> r \in Standing
    /\ Once(panels)
    /\ \A r \in Reqs : req[r].stage = "raising" <=> InSeq(Raise(r), mainQ)
    /\ \A r \in Reqs : req[r].stage = "queued" <=> InSeq(Call(r), workQ)
    /\ \A g \in Agents : reset[g] = "sweeping" <=> InSeq(Sweep(g), mainQ)

\* A dismissal closes no other prompt that has an address: such a panel ends as
\* dismissed only after its own agent asked for it by name.
OthersUntouched ==
    \A r \in Reqs : req[r].addressed /\ req[r].dismissed => req[r].cancel = "done"

\* Whatever is answered, dismissed, swept, timed out or lost: every waiting
\* worker can be woken (PrompterServer.cpp 434-504, PromptWindow.mm 812-932) and
\* prompts that have an address are dismissed by their own agent only.
PanelInv == TypeOK /\ WaitersWoken /\ OthersUntouched

\* What a request is to its agent and to the person in front of the screen.
FateOf(stage, shown) ==
    IF shown THEN "shown"
    ELSE IF stage = "asking" THEN "confirming"
    ELSE IF stage = "new" THEN "new"
    ELSE IF stage \in {"answered", "over"} THEN "over" ELSE "open"
DismissalOf(cancel) ==
    IF cancel = "none" THEN "none" ELSE IF cancel \in {"sent", "main"} THEN "called" ELSE "done"

Fates == [r \in Reqs |-> FateOf(req[r].stage, r \in Standing)]
Dismissals == [r \in Reqs |-> DismissalOf(req[r].cancel)]
Addressed == {r \in Reqs : req[r].addressed}
ToSweep == {g \in Agents : reset[g] \in {"sent", "queued", "sweeping"}}

\* The prompter with its queues, workers and main thread is a prompt service:
\* the registry shows a prompt once and lets go of it when the worker that
\* waits for it has its answer, each dismissal and each reset is carried out at
\* most once, and neither ends more than PromptService lets it.
Service == INSTANCE PromptService
    WITH Prompts <- Reqs, fate <- Fates, named <- Addressed, dismissal <- Dismissals,
         agent <- agent.gen, sweeps <- ToSweep
ImplementsService == Service!Spec

\* A standing panel that has a deadline, or a dismissal by its id on its way,
\* goes, even if nobody answers anything and every worker is taken.
StandingEnds ==
    \A r \in Reqs :
        req[r].stage = "standing" /\ (req[r].timed \/ (req[r].addressed /\ req[r].cancel = "sent")) ~>
            req[r].stage # "standing"

\* "cancel(promptId) opens a separate connection and sends CancelCurrent so an
\* in-flight prompt on another connection returns Cancelled"
\* (MacPrompterClient.h): once a prompt has been dismissed no panel of it stands.
CancelIsFinal ==
    \A r \in Reqs : req[r].addressed /\ req[r].cancel = "done" => r \notin Standing
=============================================================================
