# A TLA+ verification of file-monitor

file-monitor watches a directory, cuts each new file into FEC blocks and tells
a set of sender processes, over a Unix socket, which blocks each of them is to
transmit. Nothing comes back over the link, so a block that is given to nobody,
or to two senders, is never noticed downstream. This directory holds TLA+
modules of the program, TLC configurations that check them on small instances,
and TLAPS proofs of the properties that matter most.

Source paths below are relative to `src/src/file_monitor/`.

## The system

Everything runs in one asyncio event loop, so code is atomic between two awaits
that really suspend. The difficulty is in what happens *at* those awaits.

| Component | State | Operations | Talks to |
|---|---|---|---|
| planning (`domain/planning.py`, `services/planner.py`) | none | block count, block plans, shards, manifest, AssignSession | called by the dispatcher |
| IPC server (`ipc/uds.py`) | `_peers`, one send queue and two tasks per connection, `_incoming` | serve, handle a peer, write loop, send, incoming | sender processes; dispatcher; incoming loop |
| sender registry (`services/registry.py`) | `_last_seen` | register, refresh, remove, active_senders | incoming loop writes, dispatcher reads and removes |
| dispatcher (`services/dispatcher.py`) | `_dispatched_sessions`, locals of the running dispatch | dispatch, complete_session | registry, IPC server, hasher, clock |
| incoming loop and pipeline (`main.py`) | none | handlers per message type; one dispatch at a time | all of the above |
| watcher, inotify (`services/watcher.py`, `adapters/inotify_events.py`) | inotify queue, a blocking read in a thread, pending debounce timers, queue of stable paths | read, rescan on overflow, debounce, emit, close | the kernel; feeds the pipeline |
| supervisor (`supervision/supervisor.py`) | children, restart times, degraded children | spawn, restart with backoff, shutdown | sender processes |
| service (`main.py`) | task group, shutdown event, socket file, exit code | load, start, cancel on signal or failure, shut down | all |
| configuration (`config.py`) | none | load, validate | start-up |

What is hard, and where:

* **Reconnects.** A sender may open a new connection before the handler of the
  old one has noticed anything; two handlers then clean up one entry.
* **Half-dead connections.** The writer of a connection can fail while its
  handler waits in `sock_recv`, and the handler can end while the writer writes.
* **Full queues.** `_incoming` full makes handlers wait inside `put`; a send queue
  full makes the dispatcher sleep in the middle of a session, and during that
  sleep senders come, go, expire and complete.
* **Stale views.** The registry learns that a sender is gone only from its
  silence or from a failed send.
* **Silent arithmetic.** Residue, modulus, block count and symbol size must fit
  together on both sides of the wire.
* **Processes that die at the wrong moment.** The supervisor's tasks are cancelled
  or stopped anywhere between spawning a process and noticing its exit, and
  shutdown trusts the table they keep.
* **Changes that overlap their own handling.** A file is written again while its
  debounce timer fires, while its path waits to be dispatched, or between the
  `stat` and the hash of the dispatch; the inotify queue may overflow meanwhile.
* **A thread nobody can cancel.** The read of the inotify queue blocks in a thread;
  the process cannot exit before it returns.
* **One failure ends everything.** Any worker that raises ends the task group; the
  end may meet a signal, and what is cleaned up, and which code is returned, must
  not depend on who comes first.

`PROJECT.json` lists these as hazards, each at its line.

## Modules

| Module | What it is |
|---|---|
| `Planning` | `domain/planning.py` and `services/planner.py` as operators; a `ValueError` is a predicate that is false |
| `Config` | `config.py` and `constants.py` as operators; every step yields "ok" or the exception it raises |
| `SessionPlan` | one session end to end, under an accepted configuration: plan the messages, then each sender transmits what *its message* says |
| `UdsServer` | `ipc/uds.py` with the clients' ends of the connections |
| `IpcPort` | abstract: what the server promises its callers; `UdsServer!Implements` |
| `SenderRegistry` | `services/registry.py` as operators on a registry value |
| `SessionDispatcher` | dispatcher and incoming loop, on top of `IpcPort`, `SenderRegistry`, `Planning` |
| `DirectoryWatcher` | from a change of a file to its dispatch: kernel queue, `adapters/inotify_events.py`, `services/watcher.py`, the pipeline, and the `stat` and hash of `dispatch` |
| `ProcessSupervisor` | `supervision/supervisor.py` and the processes |
| `Service` | `main` and `run` of `main.py`, composed with `ProcessSupervisor` and `Config`; `UsesSupervisor` says that it implements the supervisor's specification |
| `MC...` | constants for TLC |
| `PlanningProofs`, `SessionPlanProofs`, `UdsServerProofs`, `UdsRefinementProofs`, `SessionDispatcherProofs`, `DirectoryWatcherProofs`, `ProcessSupervisorProofs`, `ServiceProofs` | theorems |

Definitions whose comment says "Faulty form of X" are not part of the model.
Each is a plausible bug; replacing X by it must make a property fail
(`PROJECT.json`, "mutants"), which shows that the property depends on X.

### Planning and SessionPlan

A list is a sequence; block ids, offsets and residues keep their zero-based
values. `calculate_block_count` takes the quotient exactly;
`float_ceil_division` models what CPython really does, one correctly rounded
division with `FloatBits` significant bits (53 in the code) followed by `ceil`.
The run, and `CountExactInFloats` for every width, show that the two agree for every
size below `2^FloatBits`.
`SessionPlan.Init` ranges over files, rosters and paths, including those the code
rejects, and over the FEC parameters and ports of the configurations that
`load_config` accepts. The senders are external: they follow
`src/docs/SENDER_CONTRACT.md` and nothing else.

### Config

A file is unreadable, malformed, nested too deeply for the parser, or a set of sections
that are tables with raw values for some keys. A raw value is what `int` and `str` make
of it: `int` raises a `ValueError` for a text that is no numeral and for `nan`, a
`TypeError` for an array, a table or a date, an `OverflowError` for `inf`; `str` raises
a `ValueError` for an integer of too many digits. The values of the environment are
texts. `ENV_OVERRIDES` lists the keys in the code's order, which is also the order
of the conversions. `override` and `convert` yield what one key does in the loop
over the environment and in the construction of `AppConfig`: "ok" or the exception it
raises, a `TypeError` or an `AttributeError` on a section that is no table.
`load_config` yields the first failure, as `main` meets it. A path is identified with what is found there.
`validate_config` creates the watched directory before it looks at anything else,
so an `OSError` comes first.

### UdsServer

Per connection `c`: the client's end (`client`, `inbox`), the handler task
(`handler`, `owner`, `held`), the queue and the writer task (`sendQueue`,
`writer`, `inflight`, `wire`), and `readShut`. Global: `_peers` (`peers`),
`_incoming` (`incoming`) and whether `serve` runs. The asyncio queue of a
connection is identified with the connection, so the code's test
`self._peers.get(sender_id) is send_queue` is `peers[s] = c`.

| Action | Code |
|---|---|
| `Accept` | accept loop of `serve` |
| `PeerHello`, `PeerRefused` | first message: `_complete_handshake` succeeds or raises |
| `PeerMessage`, `PeerPut` | later message; `put` on a full queue suspends and resumes |
| `PeerEof`, `PeerReset`, `HandlerCancelled` | the loop ends; `HandlerExit` is the whole finally block |
| `WriterGet`, `WriteDone`, `WriteFails` | `_write_loop` |
| `Send`, `TakeIncoming` | `send`, `_iter_incoming` |
| `StopServe` | finally block of `serve` |

After `SHUT_RD`, or after the client closed, what is already buffered is received
before the end of the stream, as the kernel does for `SOCK_SEQPACKET`. A client
that leaves payloads unread may instead cause `ECONNRESET` (`PeerReset`).
`sends`, `accepted`, `newest` and `first` are history variables.

### IpcPort

What a caller may rely on: a bounded queue per connected sender, a bounded
incoming queue. A payload accepted by `send` moves to a *limbo* when a write
begins or the sender reconnects, and from there, or from a queue that vanishes,
it is delivered or lost without notice. The refinement mapping at the end of
`UdsServer` maps the queue of a sender to that of its registered connection and
its limbo to what is in flight or queued on replaced connections.

### SenderRegistry and SessionDispatcher

The registry keeps silences (`now - last_seen`) instead of times. `dispatch`
suspends only while hashing and while sleeping before a retry: `pc` is "hashing"
or "retry" there. While `pc = "sending"` no other task can run, so all other
actions require `Yielded`. One action per outcome of `ipc.send`: `SendAccepted`,
`SendUnknown`, `SendFullRetry`, `SendFullLost`; `Finish` logs the lost shards and
records the session.

### DirectoryWatcher

The contents of a file are a version number. `kernel` is the inotify queue with its
limit: when full it takes one overflow marker, and an event equal to the last is
merged with it. `batch` is what the thread's last read returned, `timer[p]` the rest
of the sleep of the task in `_pending[p]`, `stable` is `_stable_paths`, `job` the file
that `dispatch` is hashing with the version whose size it took. `good` (the version
last handed to the dispatcher with its own size and hash) and `quiet` (time since the
last event) are history variables. What becomes of a file that has been handed over, a
session or nothing for want of a sender, is the subject of `SessionDispatcher`.

| Action | Code |
|---|---|
| `Write`, `Close`, `MoveIn`, `Delete`, `RemoveDir`, `MakeDir` | other programs, and what the kernel reports of it |
| `ThreadRead` | `asyncio.to_thread(self._inotify.read)` |
| `Consume`, `ConsumerFails` | the rest of `INotifyEvents.listen` and `_debounce` for every path it yields; `iterdir` of a missing directory raises |
| `Emit` | `_emit_when_stable` after its sleep |
| `Stat`, `StatFails`, `HashDone`, `HashFails` | `_listen` yields a path, `dispatch` looks at the file; errors are logged by the pipeline |
| `Cancelled`, `CancelledInDispatch`, `Finalise`, `ListenFails` | the end of the pipeline in each of its awaits; `StopListening` is the whole finally block with `INotifyEvents.close` |
| `Tick` | the clock |

A timer whose sleep has ended but whose task has not run yet (`timer[p] = 0`) can still
be cancelled by `_debounce`, as asyncio does. A task cancelled in `dispatch` leaves the
generator `_listen` suspended; its finally block runs when the event loop finalises it
(`pipe = "left"`). A batch is consumed in one step: `listen` suspends only in the read.

### ProcessSupervisor

Per child: the task of `_supervise_child` (`task`, `failures`, `exits`, `started`,
`wake`) and its process (`proc`). `table` is `_processes`. `consecutive_failures` is
capped at `Len(Backoff)`, above which the code treats all values alike. `shut` is
where `shutdown` is suspended.

| Action | Code |
|---|---|
| `Start`, `BackoffOver` | head of the loop (`LoopHead`), first and after a backoff |
| `SpawnOk`, `SpawnFails`, `Reap` | outcome of `spawn`; the exit seen by `wait`; then `AfterExit` |
| `CancelRun`, `TaskCancelled` | `main.py` cancels `run`; each task ends without its `pop` |
| `Shutdown`, `GraceOver`, `Escalate`, `ShutdownReturns` | `shutdown` between its awaits (`BeginShutdown` is its first part) |
| `Exit`, `Tick` | a process exits (it may ignore SIGTERM); time |

`main.py` cancels `run` and waits for its end before it calls `shutdown`. With `Alongside`
the model also has the use of the unit tests, which call `shutdown` while `run` goes on;
only then do the tests of `_stopping` and `_stop_event` in `_supervise_child` matter. A
task cancelled inside `spawn` leaves no process, because asyncio kills and reaps the one
it started.

### Service

The supervisor's steps are those of `ProcessSupervisor` (`ChildStep`, `CancelSupervisor`,
`ShutdownStep`, `ClockStep`); `Service` decides when `main.py` lets them happen. Of the
other three workers it keeps whether they run and how they end.

| Action | Code |
|---|---|
| `LoadConfig` | `main` up to `asyncio.run` |
| `ProtoMissing`, `StartRaises` | `run` before the task group |
| `OpenGroup`, `OpenGroupServeFails` | the group is opened; `serve` replaces the socket and binds, or raises |
| `ServeBreaks`, `WorkerFails` | a worker raises: `sock_accept`, `codec.decode` on a malformed message, the watcher's consumer |
| `Signal`, `CancelWorkers` | `trigger_shutdown`, `_cancel_workers_on_shutdown` |
| `WorkerCancelled` | a cancelled worker ends |
| `CallShutdown`, `Return` | after the group: `supervisor.shutdown()`, the unlink, the exit code |

The tasks take their first steps before any cancellation can reach them, because they
are created in one go and the group's owner then yields once. If `accept` fails and a
signal cancels `serve` while its finally block waits for the connections, the
`CancelledError` replaces the error and the exit code is 0; `failed` holds the workers
that really ended with an exception. `Undeletable` is what cannot be unlinked at the
socket's path, a directory or a socket in a directory one may not write to: it makes
`serve` fail at the start and the unlink at the end of `run` raise. That the permission
is withdrawn while the service runs is not modelled; its socket would stay.

## Runs

| Run | Instance | Shows |
|---|---|---|
| `session_plan` | sizes 0..17, k 1..3, symbol 1..2, six rosters, four paths, 4-bit floats | every byte sent once; block plans tile the file; float count exact; paths stay inside |
| `uds_traffic` | 2 senders, 2 connections, 2 messages each | types and bounds; the newest living connection, and only it, is registered and served; payloads in order; handshake first; refinement of `IpcPort` |
| `uds_live` | 1 sender, 2 connections | clean-up after failed writes, departures, stop |
| `dispatch_sessions` | 2 senders, 2 sessions of 3 blocks, queues of 1, hellos and completions | one assignment per sender, blocks accounted for, no block underway twice, tracking |
| `dispatch_senders` | 1 sender, 3 sessions, timeout of 2 s, all message types | only senders heard within the timeout are planned; an unreachable sender costs one shard for each of its messages handled; a dispatch ends |
| `dispatch_completed` | as `dispatch_sessions`, with heartbeats | **violated**, see below |
| `dispatch_undelivered` | one session | **violated**, see below |
| `supervisor_restarts` | 1 child, backoff 1, 2, limit 3 in 5 s, 11 s, both uses of shutdown | spawn rate bounded; only crash loops degrade; no spawn after stop; backoff interrupted; shutdown ends |
| `service` | 2 children, timeout 2 s, 15 configuration files, 3 environments, 4 states of the socket path | the supervisor is used properly; nothing left alive, no socket left; kill only after the timeout; true exit code; the service ends |
| `service_bad_config` | 1 child, the same files | **violated**, see below |
| `watcher` | 2 files, 2 changes each, inotify queue of 1, debounce of 2 ticks | no change forgotten; emitted when settled; the last contents reach the dispatcher; the stop wakes the reader |
| `watcher_stopped` | 1 file | **violated**, see below |

Bounds. Two connections of one sender are enough for a replaced connection to
outlive its successor's handshake; for any number of connections there are the
theorems below. Queues of size one are full after one element, so both
sides of every bound are reached. Two messages per connection are a hello and
one message that finds `_incoming` full. Two sessions are enough for a queue left
full by the first to block the second, and three for a sender that has left to be planned,
removed, registered by a late heartbeat and planned again. Three blocks over two senders make shards of different sizes. The sender
ids 1 and 4 are not their own positions. Eleven seconds hold
two windows of five and more, so a child can die three times inside one and across
two. A queue of one event overflows as soon as two files change, two versions
make a change meet the handling of the one before it, and two ticks separate a timer
that has just been set, one that runs and one that has fired. In `service` the clock
of the crash-loop window stops after one second, the grace period does not. The
files of `MCService` fail at every stage of `load_config`, and one is good only with
the right environment.

Deadlock is not checked for the server, which may be stopped for good, nor for
`session_plan`, which plans once. In the dispatcher runs time can
always pass. In the supervisor and service runs nothing is left to do after shutdown,
or when the bounded clock has stopped; in the watcher runs when no file changes.

Fairness. `UdsServer!Fairness` is weak fairness of accepting, of each handler, of
each writer's `queue.get` and of the consumer of `_incoming`: the event loop runs
every task that is ready. Nothing is assumed of clients, of resets, or of a
`sock_sendall` ever finishing. `SessionDispatcher!FairSpec` assumes that a hash
and a sleep end and that the dispatching task is then run.
`ProcessSupervisor!Fairness` assumes that ready tasks run, that time passes, and
that no process survives SIGKILL; a process may ignore SIGTERM for ever, and a
spawn may never end. `DirectoryWatcher!Fairness` assumes that a read with something
to return returns, that sleeps and hashes end and that ready tasks run; nobody has to
close a file. `ServiceFairness` assumes the same of the service's tasks and of SIGKILL;
no worker has to fail and no signal has to come. Traffic per
connection is bounded by `MaxMessages`, so the liveness results are for
connections that do not starve each other with endless traffic.

### Disagreements with the documents

* **A completed session can stay tracked** (`dispatch_completed`).
  `dispatcher.py:59` records a session after all its shards were delivered. If a
  shard had to be retried, the SessionComplete of an earlier sender may be handled
  during the sleep: `pop` finds nothing and the session is recorded afterwards.
  `docs/SENDER_CONTRACT.md:162`: "`file-monitor` drops the session from its
  tracking."
* **An accepted shard can be lost without a log line** (`dispatch_undelivered`).
  `send` only queues; when the connection ends, `uds.py:97-104` drops the queue.
  `docs/SENDER_CONTRACT.md:235` says the shard of a sender that disconnected is
  "logged as lost and dropped".
* **A stop can wait for ever when the watched directory is gone** (`watcher_stopped`).
  `INotifyEvents.close` wakes the blocked read by removing the watch. When the directory
  was removed, the watch went with it; `rm_watch` raises an `OSError` that line 21 of
  `adapters/inotify_events.py` ignores, nothing wakes the thread, and `asyncio.run` waits
  for it. The comment at `services/watcher.py:44` says what the call is for, and
  `docs/GUIDE.md:671` that the container "must return well inside the grace period".
  While the directory is there, `CloseWakesReader` holds.
* **A bad configuration can end in a traceback** (`service_bad_config`). `main` expects
  `ValueError` and `OSError`; a section that is no table raises an `AttributeError` or a
  `TypeError`, an array for a number a `TypeError`, `inf` for a number an `OverflowError`,
  arrays nested too deeply a `RecursionError`. `docs/GUIDE.md:661`: "a bad config exits
  **78** with one line, not a traceback."

Met while modelling, without a run of their own: `shutdown` called alongside `run` does
not see a child whose `spawn` is still awaited and leaves it alive (`supervisor.py:122`
and `:149`), but `main.py` never calls it so, which `ServiceImplementsSupervisor` proves;
`README.md:82` of the repository gives 0 as the default of `sender_count`, the code has 3;
the check for an empty `binary_path` cannot fail through `load_config`, which joins the
path to the directory of the file first; the error of an `int` that fails does not name
the key, as `docs/GUIDE.md:560` asks.

## Proofs

Proved by TLAPS for all values of the constants, from the named assumptions of the
modules. These ask for no more than the code does:

| Assumption | What it asks for |
|---|---|
| `PlanAssumption` | sizes are naturals, rosters lists of integers, paths lists of parts; files and environments have the form `Config` describes |
| `UdsAssumption`, `PortAssumption` | positive queue limits (`constants.py`); `None`, the model's word for "nothing", is no sender, connection, message or queue; the two proto hashes differ |
| `DispatchAssumption` | sender ids are naturals, at least one attempt, a positive port; `Incoming`, the messages a sender sends at will, has no SessionComplete (`SenderCompletes` sends those, for shards really delivered) |
| `RegistryAssumption` | a positive heartbeat interval and a positive limit of missed ones |
| `SupervisorAssumption` | a non-empty backoff schedule of naturals, at least one restart |
| `WatcherAssumption`, `EventsAssumption` | a positive limit of the kernel queue, a debounce time; the event markers are no paths |
| `ServiceAssumption` | `main.py`'s use of `shutdown` (`~ Alongside`), and as many children as the accepted configurations ask for |

No assumption bounds the numbers of senders, connections, sessions or files: where a
proof about them counts, finiteness is part of the invariant.

### Planning

* `BlockCountIsCeiling`, `ByteInOneBlock`, `BlockInOneShard` follow from the law and
  the uniqueness of Euclidean division.
* `RoundingKeepsCeiling` is the reason why `math.ceil(size / block_size)` is exact: rounding
  the quotient, scaled so that its significand is at least `half`, does not change its ceiling
  if the size fits the significand. `FloatCeilingExact` is about `float_ceil_division`
  itself: `ScaleExists` shows that `float_scale` finds a power of two that scales the
  quotient so. That needs `2^(n + 1) = 2 * 2^n` (`PowerOfTwo`, by counting the subsets of
  `1 .. n + 1`) and inductions, which the provers cannot do with a predicate as parameter;
  they are done by looking at the least counterexample (`LeastNatural`, from the
  well-foundedness of `<`). `CountExactInFloats` is the same for the state of `SessionPlan`.
* `EveryByteOnce`, `PlansTransmitted`, `FilepathInside` rest on one invariant, `PlanInv`:
  the messages are those of the plan, and the plan's inputs were accepted. That the FEC
  parameters are positive is not assumed; `AcceptedConfig` derives it from
  `validate_config`. A byte determines its block and the block its shard, so the set that
  `TimesSent` counts is a singleton or empty. `PlansTileFile` is about
  `compute_block_plans` alone (only the last block is clipped, because the ceiling leaves
  none after it), `SenderReadsPlan` ties it to the message. For the path, a relative path
  accepted by `path_accepted` has no part `..`, so `Depth` subtracts nothing.

### The IPC server

* `TypeCorrect`: `TypeOK` with `HeldInv` (a handler in `put` has an owner and holds a
  message), without which `PeerPut` could enqueue garbage.
* `NewestRegistered` and `RegisteredServed`. The invariant `RegInv` adds `NewestOwned`
  (the newest connection of `s` is owned by `s` and accepted): it ties the entry a
  clean-up looks at to the connection that cleans up. `DeathUnregisters` is the argument
  for the steps that end a task (`HandlerExit`, `WriteFails`), `UntouchedRegistration` for
  those that do not.
* `WrittenInOrder`. `OrderInv` adds `WriterInv`: a connection without a writer has an empty
  account, a writer in `get` has nothing in flight and one in `send` one payload, and a
  writer that runs has a handler that runs.
* `GreetedBeforeHeard`. `GreetInv` adds `Unread`: until the handshake the first message of a
  client is still at the head of its socket, so what the handler takes for the hello is
  what the client said first.
* `UdsRefinementProofs!ServerImplementsPort`: `UdsServer` implements `IpcPort`. `RefInv` adds
  to `OrderInv` that a connection not yet accepted has no owner (`FreshInv`), that no
  payload was accepted twice (`DistinctInv`), and that only finitely many handlers run,
  so that the number of a sender's feeds is a number. One lemma per kind of step: a put
  posts (`PutPosts`), a hello attaches and moves the replaced queue to the limbo
  (`HelloAttaches`), the end of a task of the registered connection detaches
  (`ExitDetaches`, `FailureDetaches`), a get begins a write (`GetBegins`), a write that
  ends delivers (`DoneDelivers`), `Send` sends. `DoneDelivers` is where `DistinctInv` is needed: what
  the abstract limbo gives up must not be held by another connection too.

### The dispatcher

`SessionDispatcherProofs`, for any number of senders, sessions, attempts and blocks, on
top of the port that the server was just shown to implement.

* `DispatcherTypeCorrect`, from `TypeInv`: `TypeOK` with what the later arguments need of
  types, namely that the shards in queues and history belong to sessions already begun.
* `OneAssignment` and `EveryBlockAccountedFor`, from `PlanInv` (the running dispatch has
  one assignment per sender, with residues 0, 1, ... of one modulus) and `LogInv`:
  `NoClash` (no two entries of the history share a session and a sender or a residue,
  the shards lost so far but not logged yet included), `Progressed` (of the running session the
  history holds the assignments before `job.index` and no others), and `WholeSession` (a
  session that has ended has every residue of one modulus). `StepKinds` sorts the actions
  by what they do to job and history, so that the senders' and the registry's steps, which can
  happen during a retry, are one case.
* `EveryByteAccountedFor` composes this with `ByteInOneBlock`: for a file of any size, cut
  by any FEC parameters into `TotalBlocks` blocks, each *byte* is in exactly one accepted
  AssignSession or one log line.
* `EachBlockReachesOnce`. `WireInv` says of each sender that what is underway to it (queued,
  in limbo, delivered) was accepted for it, and that there is one copy: the queue repeats
  nothing and shares nothing with the limbo, and neither shares anything with what was
  delivered. The property alone is not inductive: that a new shard overlaps nothing that
  is underway follows from its not clashing with `sent` (`FreshShard`). `WireMoves` is the argument
  for the steps of the port, which move a payload and create none; `OverlapClashes` turns a
  common block into a common residue.
* `DispatchRunsDown`, the safety half of `DispatchEnds`: `StepsLeft` (two steps, a send and
  a sleep, for each attempt of each assignment left) is a natural number, 0 exactly when no
  dispatch runs, that every step of the dispatch brings down and no other step changes.
  `RetryInv` is needed at the end of the loop, where no attempt may be pending.
* `DroppedWithoutRetries` delimits the first disagreement above: if
  `MAX_DISPATCH_ATTEMPTS` were 1, and so without the sleep, no completed session would stay tracked.
* `SessionsTracked`. `TrackInv` adds what holds during the dispatch: `succeeded` lists the
  senders of the accepted shards, and the session is not recorded yet.
* `LossesNeedMessages`. `LossInv`: a sender that has cost a shard since it was last heard is
  registered no more, and is not ahead in the running plan. The first half alone is not
  inductive: the plan outlives the removal.
* `HeardSendersPlanned`, an action property, from `SilenceInv`: a sender
  the registry believes silent for less than the timeout has been silent no longer than
  that.

### The watcher

* `WatcherTypeCorrect`, and `NothingForgotten`. The invariant `WatchInv` adds to
  `ChangeNeverForgotten` that the consumer lives while the watch does (`ConsumerLives`),
  that nothing is left in `batch` when the next read begins (`BatchTaken`), and that an idle
  pipeline has no job (`DispatchIdle`): without the first an event could be queued that
  nobody reads. `QueuedKeeps` carries the argument for the full queue: an event is in the
  queue afterwards, or an overflow marker is, and no other is lost.
* `EmittedWhenSettled` rests on `TimerMeasuresQuiet`: what is left of a sleep and the
  silence of its path add up to the debounce time.

### The supervisor and the service

* `SupervisorTypeCorrect`, from the lemma `AppendBounded` about the bounded deque.
* `ShutdownLeavesNothingAlive` and `KillsOnlyAfterGrace`, both assuming `~ Alongside`.
  The invariant `ShutInv` says that `_processes` knows every running process
  (`AllInTable`), that nothing changes the table once shutdown has begun
  (`StoppedAfterRun`), that shutdown waits for the whole table (`AwaitsAll`), and
  that up to the kill every running process has its SIGTERM (`TermedFirst`).
  `NothingLeftAlive` alone is not inductive: it says nothing before the end.
* `StopEndsSpawning`, an action property, for both uses of shutdown.
* `RestartsRationed` and `DegradedForCrashLoop`. The detector counts exits, the properties
  speak of spawns. `RateInv` relates the two bounded histories of a child: while it is up
  each remembered exit lies between two remembered spawns (`WhileUp`), while it is down
  the exits may be out of step by one, if the full deque has dropped its oldest
  (`WhileDown`); the latter also says that a child in backoff with a full deque has survived
  the test, and when it will be woken.
* `ServiceImplementsSupervisor`: a step of the service is a step of the supervisor or
  leaves it alone, the essential case being that `CallShutdown` has the guard of
  `Shutdown`. So `ShutInv` of the supervisor holds in the service, and with `PhaseInv`
  (what is known of failures, signals and the socket in each phase) gives
  `ServiceExitsClean` and `ExitCodeIsTrue`. `SupervisorInService` carries the supervisor's
  own theorems over.
* `TracebackCauses` delimits the last disagreement above. `Unexpected` names what makes
  `load_config` raise something that `main` does not catch: a file nested too deeply; a
  section that is no table and that an environment variable assigns to (a `TypeError`) or
  `dict.get` is called on (an `AttributeError`; only `pacing` and `senders`, because `_require`
  checks); an array, a table, a date or `inf` where an integer is due, unless the
  environment replaces it. Without one of these the exception is a `ValueError` or an
  `OSError`, and with one it is neither, unless another step fails first with a
  `ValueError`. The first failing step exists (`FirstFailure`, from `LeastNatural`), so its
  exception is the one `main` meets. `OtherBadConfigExits78` carries this into the service.
  `LoadedMeansAccepted` is the lemma that ties `accepted`, which `SessionPlan` asks of its
  configurations, to `load_config`.

### Only model-checked

* Liveness (`FailedWriteEndsHandler`, `DepartedClientForgotten`, `StopForgetsPeers`,
  `DispatchEnds`, `BackoffInterrupted`, `ShutdownCompletes`, `ServiceEnds`,
  `FinalVersionReachesDispatch`, `CloseWakesReader`): outside the prover's reach.
  `DispatchRunsDown` is as much of `DispatchEnds` as can be proved; that the running
  dispatch always has an enabled step is part of what TLC checks.

## Plan

Every component of the table above is modelled; every invariant and action property of a
passing run is also a theorem, and so are both refinements. What could follow: the files
skipped while no sender is active, once the code retries them, and ports beyond 65535,
once the code says what should become of them.
