# LibreDarwin: TLA+ models, model checks and proofs

LibreDarwin is the macOS host of the LibreSCRS smart-card agent: a per-user daemon
(`agent/`) that serves clients over a Unix socket, and a prompter helper (`prompter/`)
that asks a person for PINs and confirmations.  The card logic itself is the library
LibreAgent, outside this repository.  What LibreDarwin adds is concurrency: one serial
dispatch queue (the *loop*) per server, worker threads per reader, a monitor thread, a
queue of dialogs waiting for people, a socket path shared with other processes, and an
ordered teardown under all of it.  That is what is modelled here.

## 1. Inventory

| Component | State | Operations | Interacts with | Hard part | What makes it correct |
|---|---|---|---|---|---|
| Single-instance lock (`SingleInstanceLock.cpp`) | lock file, descriptor, flock | acquire, release | other processes through the file system | the holder removes the file; crashes between system calls | at most one owner; acquire ends |
| Agent listener (`SocketTransport.cpp` 70-420) | listening descriptor, path identity, accept source, re-bind flag, retry timer | bind, accept, path guard, pause/resume, cancel handler, destructor | lock, outsiders on the path | the path is replaced; cancel handlers come later; suspended sources | one listener; never remove a served file; closed only in the cancel handler; stop ends |
| Agent connections (`SocketTransport.cpp` 422-707) | connection map, outbound queues, timers, sink, disconnect handlers | accept, read, dispatch, enqueue, flush, broadcast, sendThenClose, close, quiesce | frontend (sink), workers (post) | a send closes the connection being served; limits; quiesce | bounded queues, nothing stranded, one fan-out per close, silence after quiesce |
| Presence (`SocketFrontend.cpp` 1665-1790, `SocketTransport.cpp` 709-1000) | handles, readers, cards, pending cards | publish, resolve, retry, withdraw, relabel, seat | monitor thread, reader workers, clients | probes that answer late, are refused, or never | one card per reader; clients agree; every card published at last |
| Card operations (`SocketFrontend.cpp` 510-1043, `SocketOperationChannel.cpp`) | op owners, Sign results with a grace timer | gates, launch, events, cancel, recovery, broker replies | workers, connections | worker and loop race from launch to finish; disconnects | event order; owner scope; stores drain; requests answered |
| Trust confirmations (`SocketFrontend.cpp` 1076-1501) | waiting set, guard mutex, configuration | ask, answer, apply, evict, teardown | people, prompter, main thread | an answer in the middle of teardown | no use after free; only approved changes; teardown does not wait |
| Start-up and teardown (`main.cpp`) | order of everything above, signal sources | create, start, register, quiesce, destroy, exit codes | all, launchd | sources still fire while things go away; a card or client that was there first | nothing runs on what is gone; nothing early is missed; SIGTERM ends; the agent comes back |
| Prompter and its client (`PrompterServer.cpp`, `PromptWindow.mm`, `MacPrompterClient.cpp`) | requests, worker and main queues, registry of panels, deadlines, budgets | prompt, confirm, dismiss, reset, answer, time out | agent, person, launchd | dismissals on other connections, a pool of blocked workers, either process dying | every waiting worker can be woken; dismissals reach their prompt only; clocks and dismissals get through |
| System lifecycle (`SystemLifecycle.mm`, `AgentCoreSeams.h`) | power, session and lock observers | sleep, lock, switch, power-off | core, transport, kernel | a second notice, or the monitor's callback, in the middle of one; the kernel waits | clients are told what was forgotten, and only that; the kernel is answered |
| Prompter wire protocol (`PrompterProtocol.cpp`) | none between frames; buffers with secrets | build, parse, refuse, zero | both ends, which may be of different builds | an older or newer peer; widths; early exits with a secret in hand | accepted means asked in full; refused aloud; no plaintext left; the wait without a budget ends |
| Authorizer, paths, logging, UI, packaging | none that lives on | - | - | - | not modelled (section 8) |

`PROJECT.json` lists the components with their sources, and under `hazards` what is
hard to test in this code, each at its line, with the properties that would catch it.

## 2. Modules

| Module | Models | Kind |
|---|---|---|
| `InstanceMutex` | what the lock promises: at most one owner of the path | abstract specification |
| `SingleInstanceLock` | acquire and release, one system call a step, crashes anywhere | component; implements `InstanceMutex` |
| `SocketListener` | listener state machine of one server per process, EXTENDS the lock | composition of lock, listeners, outsider |
| `SocketConnections` | connections of one transport | component |
| `TrustConfirm` | changes of the configuration, `confirmThenApply` against teardown | component |
| `Operations` | requests and operations of the clients | component |
| `Presence` | readers and cards on the wire, and a client's view of them | component |
| `Prompter` | requests and dismissals between the agent's client, the prompter's queues and its panels | composition of client, server and window; implements `PromptService` |
| `AgentDaemon` | `main()` from start to exit, the system's notices, signals and launchd | composition of the parts by their lifetimes |
| `PromptService` | what the prompter promises: a prompt shown once, answered once; what a dismissal and a sweep reach | abstract specification |
| `PrompterWire` | one exchange between an agent and a prompter of which one may be of another build | component |
| `ListenerProofs`, `ConnectionsProofs`, `TrustConfirmProofs`, `OperationsProofs`, `PresenceProofs`, `PrompterProofs`, `DaemonProofs`, `WireProofs` | the theorems of the module each extends (`ListenerProofs` also those of the lock), and the lemmas they rest on | proofs |
| `MC*.tla`, `*.cfg` | instances for TLC | |

### State and actions against the code

* **SingleInstanceLock.**  `lockFile` is the inode the lock path names, `lockFd[p]` the one
  p's descriptor refers to, `flocked[p]` whether that descriptor has the flock.  `Open`,
  `FlockGranted`/`FlockRefused`, `Verify`/`Retry` are the calls of the loop in `acquire()`,
  `ReleaseCheck`, `ReleaseUnlink`, `ReleaseClose` those of `release()`.  Inode numbers are
  reused as soon as nothing refers to them, as a file system does.
* **SocketListener.**  `srv[p]` is a server object, with the C++ members as fields.  Handlers
  of one process run on its serial queue and are one step each; `bindContainerSocket()`
  is a step per system call, because other processes act on the path in between.  Suspending
  and cancelling follow libdispatch: cancelling a suspended source never delivers its
  handler (`cancel = "stuck"`).  `Outsider` is a program without the lock.
  The prompter's listener (`PrompterServer.cpp` 113-324) is the same code without the pause.
* **SocketConnections.**  `conn[c]` is a `Connection`.  `batch`, `fan` and `flush` are the
  loop's call stack: a frame being dispatched may send, a send may flush, a flush may close
  the connection being dispatched; a new handler starts only when the stack is empty.
  Peers are nondeterministic: what a read yields, whether a send is taken, blocks or fails.
  Frames are model values with a size; the frontend's effect on the connection (Hello,
  immediate reply, reply from a worker, protocol mismatch) is `SinkCall`.
* **TrustConfirm.**  A change of a plain key is written at once (`WritePlain`); one of a trust key, or an
  import with its descriptor, becomes a job, which goes asking, answered, locked, posted, done or discarded.  The guard
  mutex is state, so the worker's lock-check-post-unlock interleaves with the destructor
  of the frontend and with the loop.  Requests the
  gates refuse change nothing and are not steps.
* **Operations.**  A handler's gates are sequences in the order the code passes them; `Refuse`
  stops at any of them.  That order is not checked: it is straight-line code of one handler, and the
  gates change nothing in this repository (the rate limiter's count is LibreAgent's).  `target` is what a Cancel
  names, which `CancelScoped` compares with what was cancelled.  A launch is two steps
  (`Launch`, `ReplyLaunched`), because the worker may run in between.  The worker's emits are
  separate steps, each of which posts a block or fails; blocks run in order on the loop.
* **Presence.**  ObjectIds and handles are counted up, as in the code.  The monitor posts the
  blocks main() wires; probes are with a worker or a timer.  A card's type is named by the
  ObjectId of the card it was read from, so that a label on the wrong card shows.
* **Prompter.**  `req[r]` is one request on its own connection, seen from both ends.  The serial
  queue, the worker queue with its limited threads, and the main queue each take one step at a
  time; a panel stands in `panels` from `RunRaise` until `finishWithStatus:`.  A dismissal is
  read inline and posted to the main queue, everything else waits for a worker, as in
  `onReadReady()`.  The words of a reply are one outcome; `dismissed` is kept because a property
  needs it.  A request or a dismissal may be read in either order, as they come on two connections.
* **PromptService.**  The same prompts without connections, queues and threads.  `fate[p]` is what the
  registry and the stage of a request come to (`FateOf`), `dismissal[p]` what became of CancelCurrent, `sweeps` the
  agents whose start-up reset has not been carried out.  The mapping takes what is shown from the registry and
  everything else from the worker's stage, so that a panel which goes without its worker's answer, or comes back, is no step of it.
* **AgentDaemon.**  `Program` is the order of main()'s calls and destructors and `at` how many are
  done; a part is alive between the two steps that make and destroy it.  `MayTake` holds what
  blocks the main thread: a `dispatch_sync`, the join of the monitor, the workers that
  `~AgentCore()` joins.  A notice is four steps (taken, mutex, `core.quiesce()`, posted and
  answered) because the monitor's callback takes the same mutex.  What the parts do
  inside is left to their modules: a card is published in one step and an operation asks once.
  `proc = "down"` is an exit that launchd restarts, `"stopped"` is exit 0.
* **PrompterWire.**  A frame is a function from the keys it carries to typed values, so that an
  absent key, a zero, and a value of another type are told apart.  Keys that are treated alike are
  one key.  The parsers are operators in the order of their checks; `plain` is the set of buffers that
  hold plaintext.  At least one end is this build; the other may be one that knows no version, a
  newer one, or one that garbles a value.

## 3. Runs

| Run | Instance | Shows |
|---|---|---|
| `lock` | 3 processes, 4 inodes, 2 attempts | mutual exclusion, refinement of `InstanceMutex`; acquire returns |
| `listener` | 2 processes, 3+3 inodes, 2 attempts, 2 faults | one listener, served path kept, cancel discipline; stop ends, a replaced path is re-bound, accepting resumes |
| `connections` | 2 connections, queues of 2, reads of 2 | accounting and bounds, no stranded frame, closing connections drain (`QueueInv`), fan-out exactly once, silence after quiesce; first frame or closed |
| `trust_confirm` | 2 clients, 2 changes | no use after free, one waiting each and no leaked place (`PlaceInv`), only approved trust changes, no list read before its approval; teardown ends, answers are disposed of |
| `operations` | 2 clients, 3 requests, 1 operation | event order and recoverability; a cancel reaches the operations of its own client, and no others, as long as they run (`CancelScoped`) |
| `operations_live` | 1 client, all kinds of request, 2 requests, 1 fault | owner and result stores drain; orphans end, requests are answered |
| `presence` | 1 port, 4 ObjectIds, 1 retry, 1 relabelling | one card per reader, own type and truth when quiet (`RosterInv`), client agreement; a card that stays is published |
| `prompter` | 2 requests of 3 shapes, 2 worker threads, 1 death of either process | every waiting worker can be woken, other prompts are untouched, refinement of `PromptService`; clocks and dismissals end a panel with all workers taken |
| `daemon` | 1 client, 4 kinds of notice, 2 notices, 1 card move, 1 fault | nothing runs on what is gone, nothing early is missed, told after forgotten; SIGTERM ends, the kernel is answered, the agent comes to serve |
| `wire` | protocols 1, 2 (own), 3, 5 and 7, 3 sets of options, 3 secrets | accepted means asked in full, honoured or refused, secrets scrubbed; a confirmation is not stranded |
| `final_last`, `cancel_first` | the smallest instance that shows it | a violation, see below |

Every property of a passing run has a mutant: a plausible slip in the code (a dropped
re-check, a timer not armed, a lock held too briefly, an off-by-one), written next to the
definition it replaces and marked `Mutant` there, under which TLC finds the property violated.

### Disagreements with comments and documents

Two runs expect a violation; each states what a comment or document says and shows a
behaviour of the code that differs (`findings` in `PROJECT.json` quotes the lines).

* `final_last`: `sendTo()` does not look at `closeWhenDrained`, so an operation's event can be
  queued behind the final frame; an overflow there closes the connection before that frame is written.
* `cancel_first`: a dismissal goes to the main thread directly, the request through a worker; one
  that arrives before the panel is registered is forgotten, and the panel is raised after it.

Also seen while modelling:

* The identity of the socket is read from the path after `bind()`, so a replacement in that window
  is recorded as our own (`BindSocket`, `BindStat`).
* `emitResult` can return false after the document was stashed for recovery (`EmitStash`, `EmitResult`).
* Requests that arrive between `create()` and `start()` are consumed without an answer (`DropUnsunk`).
* `AnotherInstance` may be reported because of a process that is only on its way out.
* The limit of one confirmation (`CHANGELOG.md` 22) is per connection: a client that reconnects while
  its dialog stands gets another (`SocketFrontend.cpp` 1814, `Evict` in `TrustConfirm`).
* The agent stops waiting for its start-up reset after half a second (`MacPrompterClient.cpp` 511), but
  the prompter still carries it out, and then sweeps a panel the new agent has raised.
* `sendReplyAndZeroWire` says that the scrub always runs; running out of memory while encoding or
  sending goes to the handler behind it (`PrompterProtocol.cpp` 207-221, `ThrowInSend`).
* The frame of a confirmation reply is not zeroed; one that carries a secret against the protocol is
  refused and its bytes stay (`MacPrompterClient.cpp` 261-306, `FrameZeroed`).
* A SIGTERM between `signal(SIGTERM, SIG_IGN)` and the resumed sources is lost, and one before
  that kills with the signal, so that launchd starts the agent again (`main.cpp` 396, `Signal`).

## 4. Bounds

Bounds are CONSTANTS, named in each module.  They are chosen so that the cases the properties
are about happen: a lock needs two contenders and a third that arrives during a release, and
one more inode than processes so that a removed file and its successor differ; `SocketListener`
needs two faults for a bind that fails after a replacement, or a crash while accepting is paused;
queues of two frames reach both limits, exactly and past them; two connections are enough for a
broadcast that closes one while serving the other; two changes are two clients at once, or
one that asks again; three requests are an operation, its cancel and its recovery; four ObjectIds
are a reader whose card is changed twice, or a reader and card that are replaced as a whole.
`MaxPosted` limits how far the monitor runs ahead of the loop in `Presence`; three blocks
hold a removal, its seat change and the next insertion.  With one frame size the two limits of a
queue fall together; two ports with four ObjectIds would take TLC more than five minutes.

In `Prompter` two requests on two threads use up the pool, and one death is enough for panels
without an agent, a reset that comes late, or queues that vanish; the three shapes are an addressed
secret without a deadline, an unaddressed one with a deadline, and a confirmation.

In `AgentDaemon` two notices are a query and the sleep it was about, the same sleep announced by
AppKit and by IOKit, or a sleep in which the machine is switched off; the notices left out of the
instance take the same paths as those in it (`EventOf`).  One move of the card covers a card that was
there before the start, comes, or goes; one fault a crash or a refused start; one client can leave
before, during and after start-up.  In `PrompterWire` `Width` 5 stands for 2^32: version 5 narrows to 0,
version 7 to this build's own number.  The options are everything absent, some, and everything present, and
one secret is too long.

Symmetry is used over connections in `operations` only, which checks no liveness.
`CHECK_DEADLOCK FALSE` appears where a behaviour may end: the bounded clients have made their
requests, the exchange is over, or the agent is stopped.  The lock and listener runs check deadlock.

## 5. Fairness

* The scheduler runs a process or thread that has something to do: weak fairness of system-call
  steps, of the loop's posted blocks, of begun handlers and of the destructor.
* Timers fire: path guard and retry timer (weak; they stay due), the first-frame timer (strong; it
  competes with reads), the grace timer, the probe's retry.
* A mutex that is free again and again is granted (`SF` in `TrustConfirm`).
* The broker's Reply fires, at the latest from its destructor (`SocketFrontend.cpp` 117-152); a cancelled
  operation reaches Finished; a worker answers the probe it took and is not too busy for ever.
  These three are promises of LibreAgent.
* The prompter's queues are served and the deadline of a panel fires (weak).  A worker that finds
  no thread waits; nothing is assumed of the platform's confirmation dialog.
* `AgentDaemon`: threads that can run do; launchd restarts what did not exit cleanly (its plist asks
  for that); a prompt ends, because the client has a receive budget of 330 seconds; an agent
  started by hand does not hold the socket for ever.  `ComesToServe` needs the last, nothing else does.
* `PrompterWire`: both processes run.  Nobody has to answer, and the budget need not end.
* Nothing is assumed of clients, people, outsiders, crashes, starts and stops.

## 6. Proofs

The eight proof modules are checked by TLAPS.  A theorem holds for every value of the constants:
any set of processes, connections or clients, any number of requests, changes, panels and
notices, any queue limits, any number of faults.  The assumptions are the ones the modules declare
(`ASSUME`), and say that bounds are numbers and that the values which stand for "nobody" and
"no inode" are no process, connection or inode; for the wire protocol also that there was no version
between 1, which is written as absence, and this build's, and that the core asks with 32 bit numbers,
as its types say (`VersionsAssumption`, `OptionsAssumption`).  Each module proves `Init => IInv` and
`IInv /\ [Next]_vars => IInv'`, with one lemma per action; `IInv` was checked by TLC as an
invariant of the component's run before it was proved.  All proofs are about safety: the
properties that a run states as invariants or as `[][A]_vars`.  Every one of those that a passing
run checks is stated by a theorem.

* **`ListenerProofs`: `LockMutualExclusion`.**  `MutualExclusion` is not inductive: a process in `granted` may sit on a
  removed file.  `LockInv` adds that the flock is exclusive per inode, who has a descriptor in which
  state, and that the path names the file of whoever is past the re-check until it unlinks it.
  `LockIInv` is `LockTypeOK` and `LockInv`; one step per system call.
* **`LockRefinesMutex`.**  With `holders` mapped to the processes that own the lock and have not taken
  its file off the path, every step is `Acquire`, `Release` or a stutter.
* **`ListenerInvariant`.**  Types, `LockInv`, `ServersConsistent` (the fields of each server object)
  and `ServersOwnLock`.  A listener step leaves the lock alone; a lock step of p leaves p's server
  object alone, which is `Down` unless p holds the lock.
* **`ListenerUnique`, `ListenerClosedInHandler`, `ListenerPathKept`** follow: a listener implies the
  lock, and the lock is exclusive; for the path, each step that writes `sockFile` is by the
  lock's owner, who at that point has no open listener, or by the outsider.
* **`ConnectionsProofs`: `Queues`, `FanOutOnce`, `Quiet`.**  In the middle of `flushWrites()` the queue
  being flushed is neither watched nor drained, so `QueueInv` alone is not inductive.  `Sound` is
  what holds of a connection always (accounted, bounded, nothing left when it is not open, not reading once
  it closes), `AtRest` what holds of all but the one being flushed; `RegisteredInv` has the handlers in
  main()'s order.  That `queuedBytes` is the sum of the queue is stated with a running tally (`Tallies`), so
  that appending and removing a frame are proved without induction over the queue.  The two action
  properties come from the same case split.
* **`TrustConfirmProofs`: `Lifetime`, `Places`, `OnlyApproved`.**  What makes an answer in the middle of
  teardown safe is who has the guard: `GuardInv` says that the guard's owner is exactly the worker between its
  check and its post, or the destructor, and that the guard lives as long as the frontend.  `QueueInv` ties
  each posted job to its one block, `JobInv` each waiting job of an open connection to its place.
* **`OperationsProofs`: `Protocol`, `Recovery`, `Stores`, `Scope`.**  The order of events is carried by a
  rank: what was sent is below what waits, in order, and what waits is no further than the worker's stage
  lets it be (`OrderInv`, `Rank`, `Level`).  A launch in the middle has told its client nothing, and afterwards
  the first thing it was told is OpStarted (`LoopInv`, `SentInv`).  `RecoverInv` follows a Sign result from
  the worker to the client: it can be recovered, or its stash waits ahead of the announcement.  `DrainInv`
  covers the launch in the middle too, whose prune may be posted before its owner is recorded.  `Scope`
  is proved on top of that invariant: `OwnersKnown` says that an operation that runs, whose launch is over and whose
  client is there, is entered as its client's own (a prune is queued only for one that has ended, an eviction only for a
  client that left), and `InOrder` that no Cancel was made ahead of the operation it names.
* **`PresenceProofs`: `Agreement`, `Roster`.**  `ClientAgrees` is inductive once the view is known to be a record of
  its three parts: each place that changes `m_readers` or `m_cards` sends the event that makes the same change in the
  client, and the snapshot is taken by the loop, between two blocks.  `RosterInv` is far from inductive, because it
  says nothing of the blocks that wait.  `Kept`, from which it follows, has a *home* for every card, the reader it was
  put into (bound by a quantifier: the code keeps no such table), and three conditions on the queue: objects are introduced in
  the order of their ObjectIds, so that a handle equals its id (`IntroInv`); what left the world is withdrawn once,
  behind its introduction, and a card ahead of its reader and of the next card of that reader (`LeaveInv`); the last
  that a waiting block says of a reader's seat is the truth (`ToldInv`).  `LoopInv` ties the tables to this: an object has
  an entry exactly while it is `Live`, there or waiting for its withdrawal, and a published card has its own type.
  Each action is proved by what it appends to the queue or takes from its head, not by what the
  whole queue is.
* **`PrompterProofs`: `Waiters`, `Others`, `RefinesService`.**  Each stage of a request or a reset corresponds to one entry of
  one queue or of the registry, in both directions (`RegistryInv`, `WorkInv`, `MainInv`): whoever waits is
  where something will wake it, and nothing is woken twice.  `FreshInv` says that a request that was not asked yet
  has not been cancelled, without which a panel could be raised dismissed.
  `RefinesService`: under that invariant the fate of a request follows from its stage alone
  (`FatesByStage`); then each action is one step of `PromptService` or changes nothing that it sees.  What is at the head of a queue
  is what its request or reset waits for (`HeadIs`), which makes a dismissal one that was called off and a sweep one that is due.
  That a dismissal without an id reaches the oldest of the panels without one, if there is one, is in the code and
  in `Prompter`, but not in `PromptService`: it says one at most.
* **`DaemonProofs`: `Lifetime`, `StartupMissesNothing`, `ToldWhatWasForgotten`.**  `Standing` turns "built and not yet
  destroyed" into intervals of main()'s 27 steps; `PlaceInv` says in which interval each activity can happen.
  `RosterInv` follows the card through the loop's queue (the last card block in it is what the monitor saw),
  `ToldInv` counts scrubs made, announced and queued; it is stated without the condition that the process is up,
  because a start begins from it.

* **`WireProofs`: `Honoured`, `NothingLeftOut`, `Scrubbed`.**  Lemmas say what a frame holds under which key after it was
  built and what the parsers make of it, with or without one garbled value; from these come that a parsed request
  is the request that was meant, and that a newer version is refused before anything else of it is believed.  `IInv` follows the
  exchange: the request on its way (`UpInv`), what the helper acts on (`TakenInv`), its answer and the
  frame of it (`AnswerInv`, `DownInv`), what the agent concludes (`OutcomeInv`), the refusal of a newer agent
  (`RefusedInv`), and in which buffer there may be plaintext at every stage of either end (`PlainInv`): each exit
  leaves the buffers clean that `SecretsScrubbed` asks to be, and an exception at most the tree and the body of a reply not.

What stays with TLC, and why:

* All liveness (`AcquireEnds`, `StopEnds`, `Reclaims`, `AcceptingResumes`, `FirstFrameOrClosed`, `TeardownEnds`,
  `AnswerDisposed`, `OrphansEnd`, `RequestAnswered`, `CardGetsPublished`, `StandingEnds`, `TermEnds`,
  `PowerAnswered`, `ComesToServe`, `ConfirmNotStranded`): the prover has neither fairness nor ENABLED.
* The two violations, which are counterexamples.

## 7. Plan

1. Done: lock, listener, connections, confirmations, operations, presence, prompter, daemon, wire.
2. Done: the proofs of every safety property of those.
3. Done: the abstract prompt service, and that `Prompter` implements it.
4. Compositions: `Operations` over the bounded queues of `SocketConnections`; presence events in them.

## 8. Not modelled

* LibreAgent (operation manager, flows, presence model, configuration store, PKCS#11 broker): external;
  it appears as environment actions, from how the code here uses it.
* CBOR bytes (a library; a body that is no map ends where one without its required key does) and the
  rendering of untrusted names in a prompt (`PrompterProtocol.cpp` 790-862).
* The option vocabulary of Sign, the authorizer's policy: stateless
  decisions; the models take every outcome.
* C++ data races proper (`setRequestSink` and `onClientDisconnect` write members from the main thread
  while the loop may read them): listed as a hazard.
* The power hold of `applyCardResolution`: the branch does not run on macOS today.
* `PrompterServer::stop()`: the prompter's process never calls it, and its listener is the one of
  `SocketListener`.
* Lengths of time: `PowerAnswered` says that a power message is answered, not that it is within the kernel's thirty
  seconds, and launchd's `ThrottleInterval` is no step.  A `create()` that fails (`main.cpp` 194) is one of the
  refused starts of `AgentDaemon`.
* AppKit layout, code-signing queries, logging, paths, hardening, packaging.
