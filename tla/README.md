# Formal models of the codex worker

This directory holds TLA+ models of superdev's one concurrent program, the
*codex worker* (`skills/subagent-driven-development/scripts/codex_worker/`, about
11.9k lines of Python), the TLC runs that check them on small instances, and TLAPS
proofs of what matters most for every size. Paths below are relative to that
directory.

    tlc -config MCGateway.cfg MCGateway      # a run (see PROJECT.json "runs")
    tlapm Gateway_proofs.tla                 # the proofs of a module

`PROJECT.json` maps every definition to the lines it models, lists the runs, the
theorems, the hazards with the properties that cover them, the disagreements found
between code and documents, and for each property a *mutant*: an operator, next to
the one it replaces and marked `Mutant:`, that breaks the property the way a slip in
the code would.

## 1. The system

One daemon per user owns one `codex app-server` child. Terminal clients (TUIs)
connect to the daemon's WebSocket gateway and are bridged to the child; the daemon's
own broker talks to the child over a connection of its own to start and follow turns
on behalf of command line callers. When a turn ends, the caller gets a completion and
the Claude session that asked for it gets a callback.

| part | files | state | operations | who it talks to |
|---|---|---|---|---|
| maintenance gate | `websocket_gateway.py` | `_active_mutations`, `_draining`, `_lease`, a condition | `mutation`, `drain`, `authorize` | entered by gateway and broker, drained by maintenance |
| gateway | `websocket_gateway.py` | bridges with `pending` requests, two connections, `closed` | accept, two pumps, `_close_bridge`, `close` | gate; TUI and child sockets |
| broker | `broker.py` | none of its own besides locks | session and turn operations, `MaintenanceCoordinator` | gate, runtime, registry, connection |
| turn runtime | `runtime.py` | per session: active turn, reservation, terminals, published ids | notifications, `reconcile_*`, `attach`, `detach_all`, `wait` | told by the connection, publishes to observers |
| Codex connection | `websocket_transport.py` | pending calls, approval queue, closed | `call`, reader thread, approval thread | child; runtime |
| callback dispatcher | `callback_dispatcher.py` | ten tables per turn, a worker thread | register, hand over, project, persist, send, `shutdown` | runtime (observer), facade, store, transport |
| callback store | `callback_store.py` | bindings and outbox in one JSON file | enqueue, record written, failed, fault | dispatcher |
| service | `service.py` | child, connection, gateway, `_stopping` | start, `terminate_owned` | gateway, connection, child |
| instances | `instance.py`, `rpc.py`, `_serve` of `cli.py` | start lock, `service.json`, startup receipts, the socket's path | start, stop, restart; boot, serve, close of the daemon | clients spawn the daemon and ask it to stop |
| registry, migration | `registry.py`, `migration.py` | `registry.json` and its copy in memory, the ledger and the intent of the migration, old instances' files | create, update; scan, resolve, recover | disk; facade, callback store |
| facade, rpc, cli, models | `facade.py`, `rpc.py`, `cli.py`, ... | none that lasts | validation, projection, dispatch | everything above |

What is hard here is not any single function. It is that a mutation's token can be
ended by four threads; that the reader thread applies notifications itself but hands
responses to other threads, so that the two overtake each other; that a callback may be
produced by a worker, by the client or by `shutdown`, each of which must be sure that
another does it before it may leave; and that all of this is torn down while it runs.
`PROJECT.json` "hazards" lists these at their lines.

What makes each part correct:

- *gate*: no mutation begins during a drain, and an unforced drain's lease means that
  none is inside; every entry is matched by one exit; no wake-up is lost.
- *gateway*: every token is at any time owned by exactly one thread (or open bridge)
  that will end it; every bridge unwinds.
- *maintenance*: an unforced stop does not end a running turn.
- *runtime*: a reservation is exclusive; a turn's end is reported once, never revoked,
  and every waiter learns of it; an older turn is never taken for the one being started.
- *dispatcher*: once a caller was answered, its callback is durable, recorded as
  failed, or somebody's duty; nothing is sent twice without cause, or kept forever.
- *service and instances*: a daemon that serves is the one at the service's path; the
  durable configuration is its own; a daemon that is gone left no child and no socket
  behind; a stop that succeeded stopped everything; a launch fails for no other reason
  than a mishap, another program, or what the kernel keeps of a TUI's connection; every
  command ends.
- *registry and migration*: a worker that a command reported stays; a scan or resolution
  cut off anywhere is completed by the next daemon as if it had run once; no worker of
  an old instance is lost.

## 2. Modules

### MaintenanceGate and Gateway

`MaintenanceGate` is what `ServiceMaintenanceGate` promises: a set `inside` of
mutations, a set of `drainers`, and whether a lease is `exclusive`; no threads and no
condition variable. `Gateway` is the code, and implements it (`GateRefined`:
`inside <- live`, the drainers are the maintainers past their claim, and a lease is
exclusive if it was not forced).

| `Gateway` | code |
|---|---|
| `active`, `live`, `draining`, `lease`, `asleep` | the gate's fields; `live` are the contexts entered and not left, `asleep` the threads in `_condition.wait()` |
| `Enter`, `Exit` | the two halves of the generator `mutation`; leaving an exhausted context does nothing |
| `Front...` (`fpc`, `fctx`, `fkey`) | `_pump_frontend` and `_forward_frontend`: admit, register, send, undo on failure |
| `Back...` (`bpc`, `bctx`) | `_pump_backend`: pop, leave, forward, close the frontend in the end |
| `Handler...`, `BeginClose`, `Close...` | `_handle_frontend` and `_close_bridge`; `drop` is its local list of contexts |
| `Worker...` | a broker operation inside `with gate.mutation(...)` |
| `Maintain...` | `MaintenanceCoordinator._maintain`, `terminate_owned`, `_terminate_resources`, `WebSocketGateway.close`, and `drain`'s `finally` |
| `Upstream...`, `TurnEnds`, `FrontDrop` | the child and the frontends, which the code does not control |

A turn is `tracked` if the request that started it still held the gate when the child
started it, `orphaned` if its requester had gone. Slots of bridges and tokens are
reused, so few of them stand for many.

Abstractions: of a frame only its class matters (mutation, notification, read); faults
sent to a frontend are left out; sends do not block (the
hazards note the back-pressure); the broker's loss of its own connection before a teardown shows as
calls that fail, which they may do at any time. The process ends after a teardown in
the code, sooner or later; the model goes on, so what a failed teardown leaves is seen.

### TurnRuntime

One session. `stream` is what the child has written and the reader thread has not yet
dispatched. `Deliver` is a notification applied by the reader thread
(`OnStarted`, `OnCompleted`, one method each); `HandReply` and `HandSnapshot` hand a
response to the waiting thread, whose `AcceptStart`, `RefuseStart`, `Reconcile` or
`Attach` comes later. `Fail` and `Detach` are the loss of the transport and
`detach_all`, which reports the active turn as lost without looking at, or adding to,
`published_terminal_ids`; `reports` counts what the observers are told, by whichever of
the three. A client reserves, calls, accepts or cancels, and waits (`asleep` is
`condition.wait()`); a reader runs `turn_status` or resumes the session.

Three things that the code lets happen are recorded as history in `slips`, because
much else follows from them: a read applied over later notifications (`stale`),
anything applied after the detach (`late`), and a client whose response was refused and
which cancelled the reservation another had made meanwhile (`stolen`). A property that
tolerates none of them says so with `Sound`: the stream in order, no slips.
`ReservationExclusive` tolerates all but `stolen`, and a stream in any order.

Not modelled: items, the event log, subscriptions, eviction at `event_limit` (the
model has fewer turns than the limit, so an old end is not reported again for having
been evicted). Publishing is one step with committing, for
what the observers do with it is the next module.

### TerminalCallback

`book` holds, for each turn, the set of those of the dispatcher's ten tables that it is
in. Per turn there is a publisher (`TurnEnds`, `OnTerminal`, `PublisherHandoff`: the thread
that runs the observer, with its two critical sections) and a client
(`facade._start_and_wait`, `completion_for`, `_persist_fallback_once`); both may be
anywhere when the other starts. The worker takes a ready turn, projects it
(`ProjectClaim`, `ProjectEnd`, shared with the client), persists it, retries or records
its loss, and otherwise sends the outbox. `shutdown` waits for the worker and drains.
`Crash` may come at any step and loses all but the outbox and the recorded faults; a
caller that was told stays told. Every operation of the store may fail, before or after
it took effect. Chosen at the start are `poison`, the turns whose event can never be
persisted, and `odd`, the turns that end in a status other than completed, failed and
interrupted: `RuntimeStore` keeps any status (`runtime.py:280`), `_handoff` stores no
snapshot of such an end (`callback_dispatcher.py:190-191`), and `completion_for` ends in
a `KeyError` (`FetchFails`). A client that leaves by that error, or by another error of
its wait than the timeout (`WaitFails`), has `strayed`: it never says that it is done.
`slips` again records what the code lets happen, in the present daemon: a store error
that ended the worker, a turn that was forgotten between the two critical sections of
`_on_terminal`, and a fallback that claimed a turn already forgotten. `dropped` are the
turns that a crash, or the end of a drain that ran out of time, forgot before there was
a durable trace of their callback.

A thread that has left its loop may or may not still be alive (`WorkerThreadAlive`):
`is_alive()` turns false a moment later.

### Lifecycle

Clients (`ServiceManager` in a command's process) and daemons (`_serve`) are processes
that share files, sockets and signals. A client has one pc; with the start lock held it
looks (`Survey`, `ProbeStart`), asks for maintenance (`Ask`, `AskLost`, `AwaitStopped`)
or launches and waits for readiness (`Launch`, `Poll...`, `Term...`, `Final`). A daemon
goes `boot`, `prepare`, `wait`, `commit`, `open`, `bound`, `serving`, and down through
`stopping`, `closing`, `unlink`, `teardown`.

| `Lifecycle` | code |
|---|---|
| `lock`, `Acquire`, `LockTimeout` | `acquire_start_lock` |
| `Survey`, `Before`, `Requested` | `_maintain` of `ServiceManager` up to the call, with and without `--force` |
| `Ask`, `Waiting`, `Reply`, `GiveUp` | the call `service/stop` or `service/restart`, its handler thread, its 30 s |
| `ProbeStart`, `LaunchFault`, `Launch`, `Poll...` | `_ensure_running_locked` and the start below it |
| `config`, `receipts` | `service.json`; the receipt with which a child reports an address in use |
| `Boot`, `Prepare`, `WaitSocket`, `Commit`, `Open`, `Serve` | `_serve`, `GlobalWorkerService.start`, `RpcServer.__init__` |
| `MaintainRefuses`, `MaintainTerminates`, `Torn` | `MaintenanceCoordinator._maintain` as seen from outside, `_terminate_resources` |
| `CloseRpc`, `CheckPath`, `UnlinkPath`, `Teardown` | `server_close` and the `finally` of `_serve` |
| `Crash`, `ChildDies`, `ForeignBinds`, `Kill` | what happens to processes from outside |

A listener that is closed with TUIs attached (`Attached`) may leave connections in
`timewait`, for the daemon closes them from its side (`Unbind`), until the kernel forgets
them. A start's probe binds without `SO_REUSEADDR` and fails on them (`Bindable`, in
`LaunchFault` and `Ended`); the daemon's own bind, in `serve` of the websockets library,
sets it and does not (`Prepare`). A daemon has its signal handlers until `serve_forever`
returns, so a SIGTERM that meets it in `stopping` may be ignored or end it (`Signal`).

A deadline that leaves something behind and an accident are *mishaps*, bounded by
`MaxMishaps` and remembered in `harm`; each property names the mishaps it cannot hold
under. `Overlap` are those after which a client no longer waits for what still goes on
(it was killed, or gave up): then another client's start may run beside it, on another
listener. `Unknown` is the service a forced command found not answering.

What the model showed of the code besides the finding of section 5: `_await_stopped`
waits 2 s, the dispatcher's shutdown may take 6 s, so a stop that succeeds can be
reported as failed (`AwaitTimeout`); a request abandoned after its 30 s stops the
service later; an unforced stop whose public status takes longer than the call reports
that there is nothing to stop (`SurveySlow`); a receipt that a killed client left, with
the generation used again, keeps the next start from spawning. And an orderly
restart, or a start soon after a stop, of a service that had a TUI attached may report
`address_in_use` with no other program there, so that the service stays down until the
kernel has let the connections go: `LaunchFailuresExplained` names this case.

### Migration

`old` is what the per-instance daemons left: records, and for each the events that still
wait, of which a worker may have several; `registry`, `binds` and `box`, `artifacts`,
`ledger`, `intent` are the files; `mem` is the registry as the daemon has it in memory.
A commit (`job`) writes one file per step in the code's order, `_commit`; `CommitFails`
is a write that fails before or after it took effect, with the rollback of `resolve`;
`Crash` may come between any two.

| `Migration` | code |
|---|---|
| `Clashes`, `Unique`, `Create`, `Annotate`, `Saves` | `SessionRegistry`: identity, `_create`, `update`, `_save` |
| `Quarantine`, `Plan`, `Refused` | `_plan` of `LegacyMigrator` |
| `Settled`, `Possible`, `Resolution`, `Remaining` | `resolve` and `_status_after_resolution` |
| `Start`, `Serve` | the migration in `_serve`: recovery first, then the scan |
| `Resolve` | `LiveMigrationCoordinator.resolve` and the recovery run by a status |
| `Look`, `Enter`, `Raw`, `BindNew` | `facade.start`, `session_start` and `session_resume` of the broker |

Abstracted: a digest is the content it is taken of; every event has an artifact; files
with wrong permissions, which a scan refuses, are left out; `drain` appears as what it
excludes, a client between its entry and its record.

What it showed besides the finding: an intent whose write failed after it took effect
stays with a daemon that goes on, and when another command takes its name the next
daemon does not start (`Recoverable` excepts `"intent"`); a crash in a resolution
followed by a change in the old instance ends every later start with
`legacy_source_changed`; two old instances with the same record and different callbacks
cannot be resolved; of a thread under two names the second conflict cannot be answered;
`--as` with the conflict's own name leaves the conflict open; a save that failed after
it took effect is reported as `not_persisted`.

## 3. The runs

| run | asks | bounds | states |
|---|---|---|---|
| `gateway` | safety of gate, bridges and maintenance; `GateRefined` | 1 bridge, 1 id, 1 worker, 2 maintainers, forced or not, 4 tokens | 667k |
| `gateway_live` | no stranded token, drains end, bridges unwind, without force | 1 bridge, 2 ids, 1 maintainer | 267k |
| `runtime` | safety and liveness of one session, stream in order | 2 clients, 1 reader, 2 turns | 416k |
| `callback` | safety of the dispatcher, with crashes; delivery and evidence under fairness | 1 new turn, poisoned or not, of unknown status or not, and 1 recovered, 2 sends, 1 crash | 208k |
| `lifecycle` | safety of start, stop and restart | 2 clients of different versions, 3 daemons, 2 listeners with TUIs, 1 mishap of six kinds | 3.09M |
| `lifecycle_live` | every command ends | 2 clients, 3 daemons, 1 listener; a crash, a kill or a slow stop | 433k |
| `migration` | safety and recovery of migration and registry | 5 worlds, 2 names, 2 clients, 1 fresh thread, 2 mishaps | 878k |

and five runs whose property the code violates (section 5).

Why the bounds are enough. *Tokens*: at most four contexts are referred to at once (a
pump, its pending entry, the closer, a worker). *One bridge* is enough for the
interleavings of pump, pump, handler and closer, since bridges share nothing but the
gate; that others hold it is played by the worker. *Two maintainers* are the smallest
number at which waiting for the gate and waiting for the mutations differ. *Two ids*
let one response overtake another. *Two clients* compete for one reservation while a
third party (`ExternalStart`, a TUI on the same thread) starts turns; *two turns* are
an old and a new one. One turn in `callback` is recovered from an earlier daemon, so
sending and producing overlap. `MaxSends` and `MaxCrashes` cut the repetition of the
same thing. *Two clients and three daemons* are a starter, its competitor, a daemon going
down, one coming up and one left behind; *one mishap* hits every step, and what follows
is played to its end; kills and slow stops make every property of `lifecycle` but the
types void (`Overlap`) and are left to `lifecycle_live`. That run has no TUIs, for a connection in TIME_WAIT does
nothing but make a launch fail at once. *Two mishaps* in `migration`
cut off a commit and its recovery; its worlds hold the ways in which two old entries can
contradict: a different worker or callback of one name, one that the registry has
already, a thread under two names, and a duplicate that is no contradiction. `HandlerRetire` has a bound too: a slot is not reused while its last
request still runs upstream. Symmetry (maintainers, tokens) is used only where no
liveness is checked. Deadlock is not checked in `gateway` and `gateway_strand`, where a stranded token
blocks every later unforced stop (that *is* the finding), nor in `callback` and
`callback_delivered`, which end after a shutdown, nor in the runs of `Lifecycle` and
`Migration`, which end with every client idle or a daemon that refuses to start.

Fairness. Threads run (weak fairness of each thread's own steps). The child answers
what it was asked; frames of one connection are read in order, so no answer is
overtaken forever (strong fairness of `BackRecv`). A call of the broker is answered or
fails by its timeout of 120 s (`StartFails`). In `TurnRuntime` the head of the stream
is dispatched. In `TerminalCallback` the store and the target succeed again and again
when tried again and again (strong fairness): a property of delivery can promise
nothing else. In `Lifecycle` each client and each daemon is scheduled (weak fairness of
each process as a whole); that a deadline expires is its client's step, and no mishap is
obliged to happen. Nothing obliges a frontend to leave, a client to ask or to time out, a
maintainer to come, a shutdown or a crash to happen. That a client which waits for
whatever turn comes (`waitingAny`) is ever served is not claimed.

## 4. What is proved

Every safety invariant and every action property that a passing run checks is the
conclusion of a theorem, for every value of the constants; what stays with TLC is
listed at the end of this section. Each inductive invariant was an `INVARIANT` of a
TLC run before it was proved.

| proof module | theorems | inductive invariant |
|---|---|---|
| `MaintenanceGate_proofs` | `GateExcludes` | the property itself |
| `Gateway_proofs` | `TypeCorrect`, `CounterIsExact`, `LeaseIsExclusive`, `NoWakeupIsLost`, `GateIsImplemented` | `GateInv`, `IInv` |
| `GatewayTokens_proofs` | `TokensAreHeld`, `ForwardedStaysRegistered`, `CleanStopsSpareTurns`, `LeaseFindsWorkSettled`, `UnforcedStopsStrandNothing` | `GatewayInv` |
| `TurnRuntime_proofs` | `TypeCorrect`, `ReservationIsExclusive` | `Books`, `Exclusive` |
| `TurnRuntimeOrder_proofs` | `IdentityIsFresh`, `WaitersFindTheirTurn`, `TerminalsAreStable`, `EndsAreReportedOnce` | `Chronicle`, `ToldOnce` |
| `TerminalCallback_proofs` | `TypeCorrect`, `AnswersAreAccounted`, `ClientsFindTheirTurn`, `ProjectionIsShared`, `SleepersAreWoken`, `ResendsAreExplained`, `DoneTurnsAreForgotten` | `Callback` |
| `Lifecycle_proofs` | `TypeCorrect`, `ServiceIsReachable`, `LeftoversAreExplained`, `ConfigIsFollowed`, `StopsAreComplete`, `LaunchFailuresAreExplained` | `Service`, `Launches` |
| `Migration_proofs` | `TypeCorrect`, `PromisesAreKept`, `NoWorkerIsLost`, `ScansRepair`, `ResolutionsAreRecoverable` | `TypeInv`, `PromiseInv`, `WholeInv`, `ScanInv`, `MendInv` |

*The gate.* Of the gateway's many actions few touch the gate, and first every step is
shown to be one of eight `GateStep`s (one lemma per group of actions). `GateInv` is then
inductive under these. It has four parts, and none of the properties is inductive
without the others: the counter counts the contexts inside (`Counted`); the gate is
closed exactly while one maintainer is past its claim (`OneDrainer`); the lease is that
maintainer's, and unless it was forced nothing is inside (`LeaseHeld`: without it
`authorize` could refuse); sleepers sleep with cause (`Awake`: without it a maintainer
would settle on a stale condition). The same `GateStep`s are the abstract gate's steps,
which gives the refinement.

*Tokens.* `Owned` says that every context inside the gate is in one place only: the
variable of a pump, a pending entry, the closer's list, or a broker operation. `BridgeOK`
says for each bridge which of these places can be filled at which pc of its threads, and
who closes it; it is what makes the handover from the frontend pump to the pending table,
and from there to the backend pump or the closer, exclusive. `StopOK` says that once the
gateway closes bridges none is being connected, `CleanOK` that from an empty inventory to
the end of the teardown no turn becomes active whose start was accounted for. That no
token is stranded without force (`UnforcedStopsStrandNothing`, for
`ForceModes \subseteq {FALSE}`) is then the statement that an unforced close meets no
bridge whose pump is between entry and registration, because its context would still be
inside. With force the theorem is false, which is finding 1.

*One session.* For any order of the stream, the child runs its turns one
after another (`Books`), and a reservation stands as long as one client, and no second, is
between reserving and accepting or cancelling (`Exclusive`). `Chronicle` is about time. It numbers what the child does, the start of turn `t` as
`2t-1` and its end as `2t`, and says that the stream is a part of this history in order, how far
the runtime has applied it, and that responses and snapshots that are still to be applied
were taken at some point of it. That an older turn is not taken for the one
being started, that waiters find their turn, and that terminals stay, follow by comparing
such points. The attempt to prove the last one failed at first, and a larger instance
showed why: a refused client could cancel a reservation that was not its own,
without the model calling this a slip. The slip `stolen` is what became of it. That the
end of a turn is reported once (`ToldOnce`) needs `Chronicle` too: until the detach the
turns in `published_terminal_ids` are those reported once (`PublishedIsCounted`), and the
detach, which does not look there, reports none of them because a turn whose end was
applied is not active again.

*Callbacks.* Turns share nothing but the worker and the shutdown, so `Callback` is a
conjunction over the turns, of five parts: frames and their acknowledgements (`Counted`);
that a claim belongs to one thread, which is in the section it claims (`Claims`); what is
in the tables while client and worker need it, and that it goes (`Registered`); that one
projection is made and its result kept (`Results`); and that what is settled has left a
trace, and what a client has left is settled or owned (`Traced`). The exceptions that the
theorems make are those of section 2. `AnswersAreAccounted` excepts the turns in
`dropped`: a caller is answered as soon as the worker is seen alive
(`callback_dispatcher.py:139-145`), so a daemon that crashes before the event is in the
outbox loses the callback of a caller that has its answer, and so does a drain that runs
out of time; what the theorem says is that until then somebody owned it.
`ClientsFindTheirTurn` says that the `KeyError` of `completion_for` has one cause only,
an end of unknown status. `DoneTurnsAreForgotten` excepts the turn forgotten between two
critical sections and the one claimed after it was forgotten, and says nothing of a
client that strayed.

*Lifecycle.* The start lock is what it all rests on: `Service` says who holds it (`Holding`), that a
request has one client that waits for it or was given up (`Asking`), and, for each daemon,
that one that starts is supervised by the holder, that one at the path is alone there,
that one that closes is awaited, and that one that may answer runs the durable
configuration (`Supervised`), and whose the private socket and the child are (`Files`).
`Launches` is for the action property: a launch fails only for a cause it names.
Nobody but another program, and the kernel for a while, keeps a listener from the daemon of a client, or makes it leave
a receipt (`Strangers`, `Leaving`, `Launched`), and while nothing else has gone wrong that
daemon comes up, or has ended for a cause that its client knows (`Underway`). Each part
names the mishaps that make it void, so that it holds for any number of them.

*Migration.* `TypeCorrect` is about the registry: to be unique, it needs every plan that
will replace it to be (`ScanPlan`, `ResolutionPlan`). `PromisesAreKept` needs
`PromiseInv`: the file alone is not inductive, for a save writes what the daemon has in
memory, and a commit what it planned when it began; both have to hold what was promised,
and during a commit of a live daemon no client is about to promise more (this is what
the drain is for). `WholeInv` accounts for each entry of the old instances: it is in the
files, or a candidate of an open conflict, or was passed over by a resolution; and it says
so of the files, of memory, of the plan of a commit and of the state that a rollback
restores. `ScanInv` says that before the first ledger is written the files are those that
the daemon found, or those of the plan it makes of them; lemma `PlanAgain`, that planning
over a partly executed plan gives the same plan, so that a scan cut off anywhere is
completed by the next. `MendInv` says the like of a resolution that was begun: it can be
done again, or is settled, whichever of its files were written.

The assumptions, all named in the modules:

| assumption | says | because |
|---|---|---|
| `GatewayAssumption` | tokens are finite; no identity is also the mark for "none" | the contexts of a process are; marks are `None`s and sentinels of the code |
| `TurnRuntimeAssumption` | the bound on turns is a number | any number of them |
| `TerminalCallbackAssumption` | recovered and poisoned turns are turns; bounds are numbers | what the constants stand for |
| `LifecycleAssumption` | daemons are finite; commands are among those the parser accepts; marks are no identities | a user's daemons are; `build_parser`, `cli.py:190-210` |
| `MigrationAssumption` | marks are no identities; a thread that Codex makes is one that nobody has | what the constants stand for |
| `WorldsAssumption` | the files a first start finds hold each name, session and thread once; entries of one old instance with the same ids are of the same worker and token | other files are refused when read: `registry.py:106-119`, `170-178`; `migration.py:291`; `callback_store.py:123-128` |

Where the provers shaped the models, the meaning stayed: tables are sets rather than
Boolean functions, and `None` is a record of a kind of its own rather than a string.

Only model-checked, because they need fairness and liveness, which are out of the
prover's reach: `DrainEnds`, `BridgesUnwind`, `WaitEnds`, `EndsPublished`,
`PendingDeliveredUnlessBlocked`, `EndsAccounted`, `CommandsEnd`. And of course the five
refutations of section 5, which hold of the instances they were found in.

## 5. Where the code and its documents disagree

1. `gateway_strand`: a forced stop that closes a bridge between the entry of a request
   and its registration leaves a token that nobody ends
   (`websocket_gateway.py:402-410` and `475-476`). Without force this does not happen
   (`gateway_live`); with it, `TokensHeld` shows that it is the only way.
2. `runtime_immutable`: "immutable once terminal"; a `turn/completed` that the reader
   thread dispatches after the loss of the connection, when `detach_all` has reported the
   turn as failed, replaces that terminal (`runtime.py:277`) and is reported too.
   `TerminalStable` and `ReportedOnce` say when it does not happen.
3. `callback_delivered`: every pending entry is scheduled "with bounded backoff"; a
   store error at `callback_dispatcher.py:476` ends the worker thread.
   `PendingDeliveredUnlessBlocked` says what else can block delivery.
4. `lifecycle_listener`: `daemon restart --app-server-listen OTHER`, the way the code
   itself recommends, stops the service and cannot start it again: the new daemon finds
   the old listener in `service.json` and refuses (`cli.py:939-942`).
5. `migration_discarded`: a resolution whose last write fails leaves the daemon with the
   registry it had before in memory; the next session that is created overwrites the
   resolved worker (`migration.py:925`, `940-942`). `NothingLost` says when none is lost.

The docstring of the gate (`websocket_gateway.py:87`) speaks of settling forwarded work;
a frontend that disconnects releases the gate for work still running, as
`test_websocket_gateway.py:368` wants it. `SettledUnlessAbandoned` says what holds.

No document speaks of three more things that the models show, so they are no findings:
an end of a status that the dispatcher does not know answers the caller with a `KeyError`,
leaves neither event nor fault, and keeps its context in the tables until the daemon ends
(`ClientFindsItsTurn`, `EndsAccounted`); a crash between the answer and the outbox loses
a callback (`AnsweredIsAccounted`); and a restart with a TUI attached may fail with
`address_in_use` (`LaunchFailuresExplained`).

## 6. Not modelled, and the plan

Not modelled for good: argument parsing, help texts and projections (no state); JSON
framing, HTTP upgrade and socket discovery (I/O); hooks, packaging scripts and plugins
(sequential glue); the skills themselves (prose); `InstanceManager` (`instance.py`,
lines 302-460), which nothing but tests calls any more. The exit by SIGTERM (`cli.py:635`)
takes no lease and is outside what the gate promises.

Next, in this order:

1. `CodexConnection` (`websocket_transport.py`): call ids, timeout against a late
   answer, approval queue at its bound, close against call; then `TurnRuntime`'s stream
   as its abstraction.
2. The other operations of a session (`broker.py`, `registry.py`, `facade.py`): archive
   and removal, goals, approvals, steer and interrupt.
3. Eviction at `event_limit` in `TurnRuntime`.
4. Late: the brainstorming server's owner watch and idle timeout.

Proofs to come: with the modules of this list, their invariants; and an abstract
specification for `TerminalCallback` (a callback is owed, delivered or recorded as lost)
and for `Migration` (a scan and a resolution as one step each), to be shown implemented
as `MaintenanceGate` is by `Gateway`.
