# A TLA+ model of Flask-XXLJob

This directory holds TLA+ modules that model the concurrent and failure-prone
parts of `flask_xxljob`, TLC configurations that check them on small instances,
and proofs of their main invariants for all instances, checked by TLAPS. Every
definition of a model is translated from the source; `PROJECT.json` maps it to
the lines it stands for. Paths below are relative to `flask_xxljob/`.

## 1. The system

Flask-XXLJob is an executor of the XXL-JOB scheduler inside a Flask
application. It announces the application to an Admin server, renews the
announcement from a background thread, serves five protocol endpoints that hand
requests to user callbacks, and sends job results back to the Admin.

| Component | Source | State | Operations |
|---|---|---|---|
| Registry lifecycle | `registry/registry_service.py` | one `_RegistryProcessState` per process: generation, committed worker, prepared candidate, stopping workers, pending and active removal, register window, cached removal, RPC sequence numbers, log closing flags; `state_lock` and `network_lock` | `register_once`, `remove_once`, `start`, `_prepare_start`/`_activate_prepared_start`, `stop`, `shutdown`; the renewal worker; the cleanup actor |
| Admin HTTP clients | `client/` | none between calls; the loop variables of `post_to_admins` | `registry`, `registry_remove`, `callback`, `callback_many` |
| Initialization | `extension.py` (`init_app`), `_lifecycle.py` | `app.extensions`, CLI command, application record, Blueprint, finalizer | preflight, private preparation, Flask commit, activation, rollback |
| Request callbacks | `callback/registry.py`, `extension.py`, `_app.py` | four fields per registry, one registry per application and one for the extension | `register_callbacks`, `on_*`, `set_*`, `seed_from` |
| Executor protocol | `protocol/`, `model/` | none; one request at a time | `/beat`, `/idleBeat`, `/run`, `/kill`, `/log` |
| Configuration | `config.py`, `utils/url_utils.py` | the loaded settings | `from_mapping`, `validate`, `validate_registry` |
| Log manager, Runtime | `_logging.py`, `runtime.py` | open handlers, closed flags | open, close |
| Status, CLI, data carriers | `status.py`, `cli/`, `model/`, `response/`, `utils/` | none | views, conversions |

**How they interact.** `init_app` makes a Runtime (configuration, Admin client,
callback registry, RegistryService, log manager), lets the registry prepare a
gated worker thread, publishes everything to Flask, and then opens the gate.
The registry calls the Admin client under `network_lock`, never under
`state_lock`; results come back into the state under `state_lock`, with a
sequence number that orders completions. `shutdown`, called by the application
finalizer or by `atexit`, stops the worker, may ask for a removal, and closes
the logs once the last background thread has no work left. The endpoints read
the callback registry that registrations replace concurrently.

**What is hard.** Between two critical sections of the registry any other
thread may act; one removal can be claimed by the stopping worker, by an actor,
or by a synchronous remove; a new lifecycle may start at any of these points;
answers are lost and completions overtake each other; `Thread.start()` can
fail; a commit of several steps can fail in the middle or be overlapped by
another; registrations copy and write back without a lock, while requests read
what they replace; a fork copies locks whose holders it does not copy. `PROJECT.json`
lists these hazards, each at its line with the properties that cover it.

**What makes each component correct.**

- Registry: one lifecycle owns the worker and the removal; no removal undoes a
  newer registration; a completed cleanup leaves the executor off the Admin's
  list; the cached answer is never stale; no removal is stranded, sent twice or
  run in parallel; operations return; the logs close, and not too early.
- Admin call: bounded requests, failover by policy and in order, a final answer
  is final, a success was performed.
- Initialization: all or nothing around the visibility of the Blueprint, no
  Admin call before it, an end for every thread and handler.
- Callbacks: a batch is accepted or rejected as a whole, duplicates raise,
  applications are isolated, module-level callbacks reach later applications.
- Endpoints: the token comes before everything, a body is bounded and whole, and
  the callback that runs is one that was registered for this request.
- Registry across forks: a child waits for nothing that stayed in its parent,
  does not withdraw its parent's registration, and works like a new process.
- Configuration: the address that is announced leads to the route that is
  mounted, and the check before the Registry is used refuses incomplete settings
  and none that `init_app` let pass.

## 2. Modules

| Module | What it is |
|---|---|
| `Registry` | the registry lifecycle in one process |
| `RegistryContract` | what the registry promises to the Admin server and to the application |
| `MCRegistry` | its instances and the fairness of the scheduler |
| `RegistryProofs`, `RemovalProofs`, `DeregisterProofs` | the lifecycle invariant; who performs a removal, and what it meets; what the cleanup achieves, and the refinement of `RegistryContract` |
| `AdminRpc` | what a caller may assume of an Admin call |
| `AdminCall` | the retry and failover loop, with batch acceptance |
| `MCAdminCall`, `AdminCallProofs` | its instance; its invariants and the refinement of `AdminRpc` |
| `InitApp`, `MCInitApp`, `InitAppProofs` | calls of `init_app` on one application |
| `Callbacks`, `MCCallbacks`, `CallbacksProofs` | the callback registries |
| `Protocol`, `MCProtocol`, `ProtocolProofs` | the executor endpoints, composed with `Callbacks` |
| `Process`, `MCProcess`, `ProcessProofs` | the Registry across `os.fork` |
| `Config`, `MCConfig` | the settings, the prefix and the addresses |

### Registry

A step is one critical section of `state_lock`, or the beginning or the end of
an Admin call under `network_lock`. `thr` maps every live thread to the step it
is at (`pc`) and its local variables; callers are named by a constant, spawned
threads are numbered. `cl` is the part of `_RegistryProcessState` about cleanup;
the helpers of the class that run with the lock held (`_ensure_pending_remove_locked`,
`_reconcile_register_coordination_locked`, `_request_remove_locked`,
`_invalidate_successful_cleanup_locked`, `_record_result_locked`) are operators
on it. `Event.set()` calls that follow a critical section directly are part of
it: they only wake a waiter, and a waiter that is woken later is one that is
scheduled later.

| Action | Code |
|---|---|
| `CallRegister`, `RpcBegin`, `RpcEnd`, `CommitRegister` | `register_once_result`: join the window, call, `_commit_one_shot` |
| `CallRemove`, `Terminal*`, `AwaitRegisters`, `AwaitRemove`, `CommitRemove` | `remove_once_result`, with its waits in the order of the code |
| `CallStart`, `Activate`, `CancelPrepared` | `start` and the prepare / activate pair of `init_app` |
| `CallStop`, `CallShutdown`, `ShutdownRequest` | `stop`, and the two critical sections of `shutdown` |
| `Schedule`, `Claim`, `CompleteRemove`, `Discard` | `_schedule_pending_remove`, the cleanup actor, `_execute_remove` |
| `Gate`, `AwaitOlder`, `CommitRenewal`, `WorkerQuit`, `Tick`, `FinishWorker` | the renewal worker |
| `MaybeCloseLogs` | `_maybe_close_logs_when_idle`, at each place where it is evaluated |

The Admin is one bit, `remote`: it lists this executor or not. Two history
variables serve `CleanupIsEffective`. `owed` is true once a cleanup was asked
for, until the next register or start; `released` once something happened that
the library cannot answer for, until the next removal that takes effect: a
removal failed, the answer of a register was lost or is stale when it arrives,
or a register came outside of the window or found the one removal of its
generation spent (`Spent`). In a quiet state `owed` without
`released` excludes `remote`; `CleanupSeesRegisters` is the same without the
exception, and does not hold (section 6).

`Faults` chooses what may go wrong: a call fails without effect (`call`) or with
one (`lost`), a worker or an actor thread cannot be started (`prepare`,
`spawn`), the configuration is invalid at shutdown (`config`).

`RegistryContract` is what is left of this for somebody outside: lifecycles that
start, renew and stop, cleanups that are claimed, called and put on record, the
Admin calls with their effect, and the closing of the logs. There are no threads,
locks, windows or pending removals in it, and manual registers and removes may
come at any time. `Registry` implements it (`ImplementsContract`) under the
mapping at its end: `Phase` reads the place of the committed worker, which waits
for the older cleanup in "starting"; `ActiveCleanup` is the operation that is
active and, once its thread has come back with one, the answer; `AdminCallNow` is
the call of the thread that holds `network_lock`.

### AdminCall and AdminRpc

One behaviour is one call, with any number of addresses up to `MaxAdmins`, any
policy and any batch. A request gets one of seven answers; unless the answer is
a success or a refusal, it may or may not have been performed. `AdminRpc` is the
view of the callers, the one that `RpcEnd` of `Registry` has built in: the call
returns, and a success was performed. `ImplementsRpc` is the refinement.

### InitApp

One action per access to what the calls share; the private resources of a call
(logs, worker, finalizer, the flags `cli_added` and `application_added`) are its
record in `own`. `OnError` is the decision of the exception handler by the
visibility of the Blueprint, `Settle` the path after publication, `Rollback*`
the path before it, in the order of `_close_uncommitted_runtime_resources`.
`overlapped` is a history variable, the calls that ran together with another.
`StopRegistry` and `StartRegistry` are other threads that find the published
Runtime; `early` are the calls whose Registry one of them started before the
Blueprint was accepted.

### Callbacks

`register_callbacks` reads the four fields, validates the batch against the
copy, and assigns the four fields; each access is an action. A callback is
identified by the call that registered it. `Target` and `Resolve` choose the
registry, `SeedFrom`, `Publish`, `Track` and the rollback are the part of
`init_app` that matters here.

### Protocol

A request is a thread of the server. It is composed with `Callbacks`, whose
steps go on while the request is served, so that every read of the callback
registry sees what is there at that moment.

| Action | Code |
|---|---|
| `Token`, `RoutingError` | `check_access_token`, and the hook that answers for a wrong method or path |
| `Lookup` | `/idleBeat`, `/kill`, `/log`: the callback is taken before the body is read |
| `BeginBody`, `ReadChunk`, `ReadFails`, `Parse` | `_read_limited_body` with chunks of any size, `parse_json_object`, `check_param_length`, `from_wire` |
| `HasRun`, `GetRun` | the two reads of `/run`, after the body |
| `Dispatch`, `Return` | `_dispatch` and its error handling |

What JSON parsing and field conversion find is a choice. `seen` and `since` are
history variables: the registry of the application, and the accepted calls, when
the request arrived.

### Process

`Registry` has what happens inside one `_RegistryProcessState`; `Process` has
what a fork does to it. The state lock and the network lock are variables with a
holder, and a critical section is two steps, `Enter` and its own action, so that
a fork may fall between them. `GuardRead` and `GuardCreate` are the two halves of
`_get_process_state`, `Recheck` is `_state_is_current` where the code asks after
a wait. `Fork` keeps the memory, drops every thread but the one that forks, and
changes the pid; that thread makes no call, or it is in the hook that
`register_blueprint` runs between the two halves of `init_app`'s start. The log
manager's lock is not replaced in a child and is modelled as it is. Of the
bookkeeping of `Registry` the model keeps one register window, one cleanup and
one worker at a time; `Registry` has the rest. A worker that is activated during
a removal waits for its end before the first renewal (`older`, `OlderRemoved`),
and a removal whose state was replaced ends for those that wait (`Recheck`). The
calls are status, register, start and close: the waits of `remove_executor` are
in `Registry` only (`CallsReturn`).

### Config

`InitApp` reads and checks a mapping, `UseRegistry` is a start of the Registry or
a one-shot call with its `validate_registry`, which reads the loaded object. A
mapping has one setting of interest besides the prefix, the addresses and the two
switches; for the settings with a field of their own it says the type only. Paths,
URLs and hosts are sequences of tokens on which `NormalizePrefix`, `Advertised`
and `UrlAccepted` work as the code does on characters. `MountedRule` is Flask's
rule for a Blueprint with a `url_prefix`.

## 3. Runs

| Run | Instance | Question |
|---|---|---|
| `MCRegistryLifecycle` | register, remove, start, stop, stop(remove); failing calls, actors that do not start; 2 callers, 4 calls | Does each lifecycle own its worker and its removal? Is a removal never run under a new lifecycle, twice at a time, twice in all, or stranded? Is a cleanup effective when registers and renewals overlap it? |
| `MCRegistryInit` | init, remove, start, stop(remove), shutdown(deregister); workers that do not start, invalid configuration, lost calls; 3 callers, 3 calls, 1 renewal | Can activation meet its consistency errors? Do the logs close too early? Does the registry keep its contract? |
| `MCRegistryLive` | register, remove, start, stop(remove), shutdown(deregister); 2 callers, 3 calls; fair | Do operations return, removals end, logs close? Is the registered flag the truth? |
| `MCAdminCall` | up to 3 addresses, retry counts on both sides of the cap 2, batches of 0 to 3 items with maximum 2 | Bounds, order, failover, finality, refinement |
| `MCInitApp` | 3 calls, every configuration, a failure at any step (of the commit: the CLI name, `app.extensions`, the application record, the Blueprint, the activation, the last log record), other threads that start and stop the registry | All or nothing, no early renewal, no leak |
| `MCCallbacks` | 2 registrations and 2 applications, or 3 registrations on the extension (`LastCall`), a batch over named and unnamed callbacks and one apart | Rejected batches leave no trace; isolation; duplicates, acceptance and seeding of what did not overlap |
| `MCProtocol` | 1 request, 1 application, 2 registrations, a body limit of 1 with bodies up to 3 | Is the right callback reached while callbacks are replaced? Token first, body whole and bounded |
| `MCProcess` | status, register, start, shutdown; 1 fork, 3 calls, 2 at a time | Does a child wait for a lock of its parent, or remove its parent's registration? Do starts and shutdowns work after a fork, and does all work end? |
| `MCConfig` | all prefixes and hosts of up to 4 tokens, every setting with a value of every kind, address lists with empty items, one use | Do address, route and hook agree? Does the second check refuse exactly what is incomplete? |
| `MCRegistryCached`, `MCRegistryVisible`, `MCCallbacksLost` | small instances | three statements of the documentation or of a comment that the code does not keep, see section 6 |

**Bounds.** The registry has no data but generations and sequence numbers, so an
error needs a number of *operations*, not of values. Three to four operations
from two or three threads cover a lifecycle, its cleanup, its successor and one
operation that overlaps all of them; each further thread repeats a role.
`MaxRenewals` bounds timer expiries: the first renewal, made without a timer, is
always there, and one expiry brings the loop back to where it was. The mutants
in `PROJECT.json` confirm the bounds: for each property of each run a
plausible bug in the code is found within them. For the Admin call two addresses
show a failover, the third that none is skipped. Two registrations are enough
for one to overwrite the other, and two applications for one to leak into the
other; what one that ran alone may rely on while two later ones overlap each
other needs a third, on one registry, so `MCCallbacks` makes a third call only
last, after two that name no application, and while no application is
initialized (the guard `LastCall` of its specification `MCSpec`). A request meets
a registration before, between and after its reads, and two are needed for a replacement; a second request would not change what the
first sees. One fork is enough for a child, and a child of a child starts where
a child does; three calls with two at a time give a parent that is forked inside
a call and a child with two threads in `_get_process_state` at once.
`MaxThreads` of `MCProcess` is larger than the threads any behaviour of the run
has, so no thread ever fails to be started for that reason. Bounds appear as
constants named `Max...` and in the guards that use them.

**Symmetry** is used on callers, calls and applications in runs of safety
properties; no definition names one of them. Runs with liveness have none.

**Fairness.** `MCRegistry!FairSpec` is weak fairness of the steps of each
thread. The operating system runs every runnable thread; an Admin call ends
within its connect and read timeouts; `network_lock` is contended only finitely
often since operations are bounded and the renewal is a timer; and events, once
set, stay set for those who wait (a wait that is enabled stays enabled). Timer
expiries and new operations are not fair. The Admin call runs in the thread of
its caller and is weakly fair in its loop. `Process` states no fairness: its
threads take finitely many steps between calls, renewals and forks, so
`WorkComesToItsEnd` says instead what holds when all of them wait (`AtRest`), and
`StopsOnlyToWait` that a thread which cannot take a step is one that waits: for a
lock, the timer, its activation or the removal it was activated under.

`CHECK_DEADLOCK FALSE` is in `MCRegistryLive`, `MCProcess` and `MCConfig`, where
a behaviour ends when no call is left. In the other runs a state without a
successor is an error: threads rest only when no operation is left.

## 4. Proofs

TLAPS checks these for every value of the constants, under the named
assumptions of the modules (threads are not numbers, bounds are naturals,
registries, calls and applications are disjoint).

- **`RegistryProofs`** — `LifecycleInv` is type correctness, `LifecycleOwnership`,
  `NeverRaised`, `NoCachedRemovalWhileLive` and `WindowOwnership`. The inductive
  invariant `IInv` adds that a candidate has not been stopped and that a thread
  that claims a removal is an actor. It is cut by the parts of the state,
  `LifeOK`, `CleanupOK`, `ThreadsOK` and `RestOK`, each with the values it depends
  on as parameters: each helper on `cl` has a lemma about the fields it may
  change, and a step combines these. Ownership needs the window: a removal that
  a window creates would belong to an ended lifecycle unless the window is known
  to belong to the current generation, and to be closed by a cleanup only
  without a worker. The theorems `TypeCorrect`, `OneLifecycle`,
  `ActivationNeverFails`, `NoStaleAnswer` and `LifecycleSafe` are its parts, for
  any number of callers, operations and renewals and all faults.
- **`RemovalProofs`** — on top of `IInv`, `RemovalInv` says which threads there
  are and what each is at (`Shapes`, `WorkersOK`, `ActorsOK`), that the active
  removal is the one of the single thread that is `Removing` (`RemovingOK`), that
  a worker which was activated during a removal waits for it, and that this
  removal is of an older generation (`WaitOK`), and that an active or pending
  operation is not done and not of the generation that is cached as removed.
  A window without registers in flight has been answered (`WindowOK`), which is
  what makes a removal that a window creates a new one. `OneRemovalAtATime`,
  `NewLifecycleWaits`, `RemovedOnce`, `NothingStranded` follow, and the action
  property `LogsCloseLast`: the nine conditions that `_maybe_close_logs_when_idle`
  tests exclude every thread that still has something to do.
- **`DeregisterProofs`** — what the library and the Admin server agree on, on top
  of `RemovalInv`. `CallsInv` is the bookkeeping: the calls that were sent are
  numbered, and the one under way holds `network_lock` and has the last number;
  a window counts the registers in flight that have joined it (`CountOK`, a
  cardinality); a removal outside of `remove_once_result` belongs to a lifecycle.
  `CleanupInv` says of every listing the library answers for (`Liable`) what is
  still to come for it (`ToCome`): a removal that is pending or about to call, a
  register that is about to report success to its window, or a cleanup that is
  possible and, once asked for, waits for a register in flight or for the second
  section of a `shutdown`. This needs what was asked for (`AskedOK`), that a
  removal whose call was sent has no renewal behind it (`RenewalFirst`), that a
  success reopens the cleanup (`ArrivalReopens`), and that what has listed the
  executor after a removal also completes after it (`ListedAfter`). In a quiet
  state nothing of `ToCome` is possible, so `CleanupWorks` follows, for any number
  of callers, calls and renewals and all faults. `SnapshotInv` is about the manual
  API before the first lifecycle: the registered flag says what the last call
  did, or the thread that will report that call is on its way.
  `SnapshotSpeaksTruth` assumes that no call fails and no answer is lost
  (`Faults` without `call` and `lost`; `MCRegistryLive` has no fault): after a
  call that failed the flag cannot say what the server did.
  The last part is the refinement, `ContractKept`: the initial state of `Registry`
  maps to the one of `RegistryContract`, and every step to a step or a stutter.
  Beyond the invariants above it needs `WireInv`, which ties the call that is seen to the
  thread that made it: whoever holds `network_lock` is alive and waits for an
  answer, and a thread on its way to a call has chosen its kind. From the contract alone follow `ContractOrdersCleanups` and
  `ContractKeepsListed`: while a lifecycle renews, only a removal that the
  application has called for itself takes the executor off the list.
- **`AdminCallProofs`** — one inductive invariant ties the request history of
  each address to the position and the attempt counter of the loop; the bounds,
  the order (`TriesInOrder`), the limits (`StaysWithinBounds`), the exhaustion
  and the finality follow from it, and so does the
  safety part of the refinement of `AdminRpc`: the initial state maps to an
  initial state, every step to a step or a stutter.
- **`CallbacksProofs`** — `RegistryInv` adds two facts to the types. Only a call
  that passed validation is seen in any registry or in any copy
  (`OnlyValidSeen`), which the copies must be part of, since a commit writes back
  what was copied before. A call for one application works on the registry of
  that application, and so does every call that has copied it (`HomeInv`).
  `RejectedLeaves` and `Isolation` follow, for any number of overlapping calls
  and initializations. The rest is about what a registration that overlapped no
  other can rely on, while those after it may overlap one another in any way
  (`MCCallbacks` has three that do). While such a call is under way
  all others rest (`Alone`). Once it is accepted each of its slots holds its
  callback, or one that replaced it on request, in the registry and in every copy
  of the registry (`ServedInv`): without the copies this is not inductive, since
  a later commit writes back what it copied. A batch without `replace` was found
  valid against such a copy, so its slots were free (`OneReplaces`); and the
  registry of a new application is used by no call before it is seeded
  (`SeededFirst`), so what was seeded stays (`SeedInv`). `OnceOrReplaced`,
  `StaysServed` and `SeededWhole` follow.
- **`ProtocolProofs`** — about requests that are served while any number of
  registrations and initializations go on. `BodyBounded` and `TokenFirst` follow
  from what is known of one request at each place. `CallbackMatches` needs where
  a callback comes from: `SeenInv` says that one that is seen in a slot of a
  registry, or of a copy, is in that slot of its own batch, and that it was
  registered for that registry or for the extension, from which it was seeded.
  `ReachInv` is about the registry a request finds at its arrival. What was
  registered by then without overlap is in the registry or was replaced on
  request, and what is written later, also from a copy made earlier, takes no
  slot away (`RegisteredReached`). A call that overlapped no other found a copy
  that was current, and until it writes nobody else does but calls it overlaps
  (`HeldIsCurrent`), so it brings nothing back that was replaced
  (`ReplacedIsGone`, with `GoneStays` for what has left a registry). A call that
  overlapped another may: `NoReplacedCallback` does not speak of its callback.
- **`InitAppProofs`** — for any number of calls of `init_app`, overlapping or
  not, and any set of faults. `InitInv` says what a call has at each place, that
  each shared entry has an owner which has not undone it, and (`AloneOK`) that
  while a call that overlapped no other is under way, or committed, the others
  rest and what it has published is there. The last is inductive because a call
  that begins later finds the extension key and is refused. `AllOrNothing`,
  `FailsCleanly`, `GateHolds` and `EverythingEnds` are what the run checks of
  states; the last assumes that the activation event can be set at the second
  attempt, see section 6. `OthersRuntimeKept` is about its steps: the Runtime
  under the extension key is removed only by the call that published it.
- **`ProcessProofs`** — for any number of threads, calls and forks. A fork ends
  the holder of a lock at any moment, so `ForkInv` says who may ask for one:
  beyond the check of the pid a thread works on a state of its own process, and
  the locks of such a state are held by living threads at the places where they
  are taken. Nothing is said of the states of forefathers, since nothing looks at
  them. The log manager's lock is not replaced; it is held only once the
  finalizer has run, and a child without a finalizer never asks for it.
  `NoOrphan` and `LeavesParentAlone` follow. `StartInv` adds that a process in
  which no two threads raced for a state has one state, the one in place
  (`OneState`): so no wait of its threads ends in a state that was replaced, and
  only the section that takes a worker out of service lets it end. `StartStays`
  follows, the counterpart of the limit in section 6. `WorkInv` is about the end
  of the work: what the state in place counts and collects is what its threads
  are at. The register window counts the registrations that have joined it (a
  cardinality), the actors are the threads with a removal to perform, a stopping
  worker is on its way to its last section, a prepared thread has the start that
  will activate it, a cleanup that waits has a registration, a pending removal or
  an actor behind it, and once the logs are to be closed either something keeps
  them open or some thread is about to ask. `WorkEnds` follows with one more
  step, that waiting is not circular (`SomeoneGoesOn`): who waits for an older
  removal waits for a thread that performs one (an actor or a worker that has
  stopped), which waits at most for the network lock or the state lock; who waits for the network lock waits for a thread that waits at most for
  the state lock; and the holders of the state lock and of the log manager's lock
  wait for nothing.

Only model-checked: the liveness properties and the liveness part of the
refinement (fairness is beyond the prover), `StopsOnlyToWait` (so is ENABLED),
and `Config`, whose operators are folds over sequences: what they
compute for every length is an induction over data.

## 5. What is not modelled

- The disabled configuration inside the registry (every operation returns at
  once).
- The text fields of the status snapshot, logging, redaction, colours, the
  backoff delay between retries, the wire format and its field conversions.
- Requests that the Admin performs after the client gave up waiting. No order of
  the client can exclude their effect.
- In `Config`, the length limits of host names, how IDNA writes a name, the
  splitting of an address list given as one string, and `NaN`, which the code
  accepts as a backoff since it compares false with zero. Nor that the loaded
  object is mutable: `validate_registry` reads some fields again at each start and
  one-shot call, while the access token is fixed when the client is built and
  renewals and callbacks use the other fields unchecked; the code promises nothing
  for a configuration that is changed after `init_app`.
- `status.py` and `cli/`: read-only views and one-line wrappers of operations
  that are modelled, without state and order of their own. The CLI prints what
  `register_once` and `remove_once` return.
- `response/`, `model/registry.py`, `model/callback.py`, `utils/json_utils.py`,
  `exceptions.py`: data carriers and conversions.
- `scripts/`, `examples/` and the packaging: not part of the program.
- In `Callbacks`, applications are never garbage-collected; in `InitApp` the
  registry of a Runtime is one resource with its states.
- In `Process`, the locks of the application record (`_app.py:54`) and of
  Python's logging, which a child inherits as they are; they are held for a few
  statements that call nothing. The lock of the Runtime is replaced after a fork
  (`runtime.py:63-71`) and contended by nobody: its finalizer runs once.
- Flask is external: `register_blueprint` accepts a name once, and may raise
  before or after the Blueprint is visible.

## 6. Known limits of the code

Three runs show a statement that the code does not keep:

- `MCRegistryCached`: a register that begins after the cleanup has closed its
  window joins none, so its success does not reopen the cleanup
  (`registry_service.py:634-647`), against `docs/api-reference.md:141-142`.
- `MCRegistryVisible`: of two registers of generation zero the older succeeds,
  the newer fails and is committed first; the success is dropped as stale and
  an overlapping `stop(remove=True)` removes nothing, against the comment at
  `registry_service.py:253-256`. The newer call need not fail: with three callers
  and five calls and no fault at all, a register that joined no window and was
  committed first makes the success of one that joined a window stale, or the
  completion of the removal itself, with the same end. `CleanupIsEffective`
  leaves out the register that was found stale, until a removal takes effect.
- `MCCallbacksLost`: overlapping registrations lose callbacks, against the
  docstring at `callback/registry.py:106`.

The models show more, without a run of their own. Each is found by changing an
instance or a property as described:

- An actor that fails to start makes `stop(remove=True)` raise before the idle
  test of the logs (`registry_service.py:1066`); with `shutdown` before it and
  nothing after it, the handlers stay open, against `CHANGELOG.md:34-35`.
  `MCRegistryLive` with the kinds register, stopRemove, shutdown and the fault
  `spawn` violates `LogsGetClosed`.
- After the one removal of a lifecycle was asked for and failed, or was
  overtaken by a newer call, a register that is accepted does not reopen the
  cleanup of its generation (`registry_service.py:275-298`), and a later
  `stop(remove=True)` that overlaps another register which fails sends nothing.
  `docs/api-reference.md:141-142` promises a new responsibility for each later
  accepted register, and denies only the automatic retry. `CleanupIsEffective`
  without `Spent`, with the kinds register, start and stopRemove, two callers,
  five calls and the faults `call` and `lost`, is violated.
- Two overlapping `init_app` calls: the refused one overwrites the extension key
  of the other and then removes it (`extension.py:369`), and accepted routes
  are left without a Runtime, against `README.md:210-211`. In `InitApp` without
  faults, `blueprint # Nobody => extension # Nobody` is violated.
- In the same situation a failing call removes the CLI command and the
  application record on which the succeeding one relies (`extension.py:348-384`).
- If `activate_event.set()` raises twice, the committed worker waits for ever
  and the logs stay open (`registry_service.py:894`), against
  `docs/application-factory.md:73-75`. `MCInitApp` with the fault `wake`
  violates `NothingOutlivesTheApp`.
- Another thread may call `start_registry` on the Runtime that `init_app` has
  published but not committed. If the commit then fails, the rollback cancels
  the candidate only, and the worker that was started renews for ever, without an
  owner (`extension.py:248`, `348`). `NothingOutlivesTheApp` without its
  exception for `early` is violated.
- A callback that is registered without an application after the extension-level
  callbacks were copied into an application and before it is tracked reaches
  neither that application nor the caller as an error (`extension.py:164`).
  `SeededIntoLaterApps` speaks of those registered before.
- Two threads of a forked child that fetch the state at the same time make two
  (`registry_service.py:133-135`): the start of one of them is undone without
  notice, and there are two network locks, against `docs/migration.md:72-74`
  ("In one process all four Registry RPC forms are strictly serialized").
  `StartIsKept` without `did.raced` is violated.

## 7. Plan

What could follow, most important first:

1. **`InitRegistry`**: `InitApp` over `RegistryContract` instead of the states of
   one resource.
2. **`Process` against the contract**: the same refinement for each state of a
   forked process, whose Admin calls are those of one server.
