-------------------------- MODULE DirectoryWatcher --------------------------
(***************************************************************************)
(* From a change of a file to its dispatch: the kernel's inotify queue,    *)
(* class INotifyEvents (adapters/inotify_events.py), the debouncing class  *)
(* DirectoryWatcher (services/watcher.py), the detection pipeline of       *)
(* main.py, and the part of SessionDispatcher.dispatch that looks at the   *)
(* file: stat, then the hash computed in a thread.                         *)
(*                                                                         *)
(* The event loop runs the code between two awaits as one action.  Two     *)
(* things happen beside it: a thread blocked in inotify.read, and whoever  *)
(* writes, moves and removes files.  The contents of a file are abstracted *)
(* to a version number; version 0 is what was there before the watch.      *)
(*                                                                         *)
(* thread    "reading"    a thread is in inotify.read                      *)
(*           "returned"   it has come back with batch                      *)
(* consumer  "running"    _consume_raw_events; "failed", "cancelled" ended *)
(* pipe      "listening"  _listen waits for a stable path                  *)
(*           "hashing"    dispatch has taken the size and awaits the hash  *)
(*           "left"       cancelled in dispatch: nobody iterates _listen   *)
(*                        any more, its finally block has not run yet      *)
(*           "stopped"    cancelled, "failed" ended by an error            *)
(***************************************************************************)
EXTENDS Integers, Sequences, Functions

CONSTANTS
    Paths,          \* names in the watched directory
    Debounce,       \* debounce_seconds, in ticks
    KernelMax,      \* fs.inotify.max_queued_events
    MaxVersion      \* bound: how often a file changes

ASSUME WatcherAssumption ==
    /\ Debounce \in Nat
    /\ KernelMax \in Nat \ {0}
    /\ MaxVersion \in Nat

None == -1

\* The events that carry no name.
Overflow == "Q_OVERFLOW"
Ignored == "IGNORED"

Events == Paths \cup {Overflow, Ignored}

NoPath == "none"

ASSUME EventsAssumption == Paths \cap {Overflow, Ignored, NoPath} = {}

VARIABLES
    file,           \* file[p]: "absent", "open" for writing, "closed"
    version,        \* version[p]: the contents of the file
    dir,            \* the watched path is a directory
    watch,          \* "on"; "gone" with the directory; "removed" by rm_watch
    kernel,         \* events that no read has taken yet
    thread,
    batch,          \* what the last read returned
    consumer,
    timer,          \* timer[p]: the rest of the sleep of _pending[p], None if none
    stable,         \* _stable_paths
    pipe,
    job,            \* in dispatch: the path, and its version when stat took the size
    closed,         \* INotifyEvents._closed
    good,           \* history, good[p]: the version last handed to the dispatcher
                    \* with its own size and its own hash
    quiet           \* history, quiet[p]: time since the last event of p that
                    \* was consumed, None if p has been emitted since

fileVars == <<file, version, dir>>
loopVars == <<consumer, timer, stable, pipe, job, closed, good, quiet>>
vars == <<file, version, dir, watch, kernel, thread, batch, consumer, timer, stable,
          pipe, job, closed, good, quiet>>

Idle == [path |-> NoPath, version |-> None]

Init ==
    /\ file \in [Paths -> {"absent", "closed"}]
    /\ version = [p \in Paths |-> 0]
    /\ dir = TRUE
    /\ watch = "on"
    /\ kernel = <<>>
    /\ thread = "reading"
    /\ batch = <<>>
    /\ consumer = "running"
    /\ timer = [p \in Paths |-> None]
    /\ stable = <<>>
    /\ pipe = "listening"
    /\ job = Idle
    /\ closed = FALSE
    /\ good = [p \in Paths |-> 0]
    /\ quiet = [p \in Paths |-> None]

(***************************************************************************)
(* The files and the kernel.                                               *)
(***************************************************************************)

\* An event enters the queue: a full queue gets one overflow marker instead,
\* and an event equal to the last one is merged with it.
queued(event) ==
    IF Len(kernel) >= KernelMax
    THEN IF Overflow \in Range(kernel) THEN kernel ELSE Append(kernel, Overflow)
    ELSE IF kernel # <<>> /\ kernel[Len(kernel)] = event THEN kernel ELSE Append(kernel, event)

\* The mask is CLOSE_WRITE | MOVED_TO; nothing is reported without the watch.
Report(event) == kernel' = IF watch = "on" THEN queued(event) ELSE kernel

\* The file is created or opened, and written to.
Write(p) ==
    /\ dir
    /\ version[p] < MaxVersion
    /\ file' = [file EXCEPT ![p] = "open"]
    /\ version' = [version EXCEPT ![p] = @ + 1]
    /\ UNCHANGED <<dir, watch, kernel, thread, batch, loopVars>>

Close(p) ==
    /\ file[p] = "open"
    /\ file' = [file EXCEPT ![p] = "closed"]
    /\ Report(p)
    /\ UNCHANGED <<version, dir, watch, thread, batch, loopVars>>

\* A finished file is moved into the directory, over an older one perhaps.
MoveIn(p) ==
    /\ dir
    /\ file[p] # "open"
    /\ version[p] < MaxVersion
    /\ file' = [file EXCEPT ![p] = "closed"]
    /\ version' = [version EXCEPT ![p] = @ + 1]
    /\ Report(p)
    /\ UNCHANGED <<dir, watch, thread, batch, loopVars>>

Delete(p) ==
    /\ file[p] = "closed"
    /\ file' = [file EXCEPT ![p] = "absent"]
    /\ UNCHANGED <<version, dir, watch, kernel, thread, batch, loopVars>>

\* The directory is removed with all that is in it, and the watch with it.
RemoveDir ==
    /\ dir
    /\ dir' = FALSE
    /\ file' = [p \in Paths |-> "absent"]
    /\ Report(Ignored)
    /\ watch' = IF watch = "on" THEN "gone" ELSE watch
    /\ UNCHANGED <<version, thread, batch, loopVars>>

\* Somebody makes the directory again: nothing watches the new one.
MakeDir ==
    /\ ~ dir
    /\ dir' = TRUE
    /\ UNCHANGED <<file, version, watch, kernel, thread, batch, loopVars>>

(***************************************************************************)
(* INotifyEvents.listen.                                                   *)
(***************************************************************************)

\* The blocking read: it returns all that is queued, and waits while there
\* is nothing.
ThreadRead ==
    /\ thread = "reading"
    /\ kernel # <<>>
    /\ batch' = kernel
    /\ kernel' = <<>>
    /\ thread' = "returned"
    /\ UNCHANGED <<fileVars, watch, loopVars>>

\* Faulty form of rescanned: the overflow marker is skipped like an unknown event.
not_rescanned == {}

\* The answer to an overflow marker: watch_path.iterdir().
rescanned == {p \in Paths : file[p] # "absent"}

\* The paths listen yields for a batch.
yielded == {p \in Paths : p \in Range(batch) \/ (Overflow \in Range(batch) /\ p \in rescanned)}

\* Faulty form of debounced: the first event of a burst sets the timer.
debounced_once == [p \in Paths |-> IF p \in yielded /\ timer[p] = None THEN Debounce ELSE timer[p]]

\* Faulty form of debounced: the sleep is a tick too long.
debounced_longer == [p \in Paths |-> IF p \in yielded THEN Debounce + 1 ELSE timer[p]]

\* _debounce on each of them: the pending task is cancelled, also when its
\* sleep has just ended, and a new one sleeps from the start.
debounced == [p \in Paths |-> IF p \in yielded THEN Debounce ELSE timer[p]]

\* The consumer takes a batch and reads again.  iterdir raises when the
\* directory is gone.
Consume ==
    /\ consumer = "running"
    /\ thread = "returned"
    /\ dir \/ Overflow \notin Range(batch)
    /\ timer' = debounced
    /\ quiet' = [p \in Paths |-> IF p \in yielded THEN 0 ELSE quiet[p]]
    /\ batch' = <<>>
    /\ thread' = "reading"
    /\ UNCHANGED <<fileVars, watch, kernel, consumer, stable, pipe, job, closed, good>>

ConsumerFails ==
    /\ consumer = "running"
    /\ thread = "returned"
    /\ ~ dir /\ Overflow \in Range(batch)
    /\ consumer' = "failed"
    /\ UNCHANGED <<fileVars, watch, kernel, thread, batch, timer, stable, pipe, job, closed,
                   good, quiet>>

(***************************************************************************)
(* DirectoryWatcher and the pipeline.                                      *)
(***************************************************************************)

\* _emit_when_stable after its sleep.
Emit(p) ==
    /\ timer[p] = 0
    /\ timer' = [timer EXCEPT ![p] = None]
    /\ stable' = Append(stable, p)
    /\ quiet' = [quiet EXCEPT ![p] = None]
    /\ UNCHANGED <<fileVars, watch, kernel, thread, batch, consumer, pipe, job, closed, good>>

\* asyncio.wait returns with a path, and the consumer has not ended.
NextPath == pipe = "listening" /\ consumer # "failed" /\ stable # <<>>

\* dispatch begins: stat takes the size, the hash is begun.
Stat ==
    /\ NextPath
    /\ file[Head(stable)] # "absent"
    /\ stable' = Tail(stable)
    /\ job' = [path |-> Head(stable), version |-> version[Head(stable)]]
    /\ pipe' = "hashing"
    /\ UNCHANGED <<fileVars, watch, kernel, thread, batch, consumer, timer, closed, good, quiet>>

\* Faulty form of StopListening: close only closes the descriptor, which does
\* not wake the thread.
StopWithoutWaking ==
    /\ consumer' = IF consumer = "running" THEN "cancelled" ELSE consumer
    /\ timer' = [p \in Paths |-> None]
    /\ closed' = TRUE
    /\ job' = Idle
    /\ UNCHANGED <<fileVars, watch, kernel, thread, batch, stable, good, quiet>>

\* The finally block of _listen and INotifyEvents.close: rm_watch puts an
\* event into the queue; without a watch it raises an OSError, which is ignored.
StopListening ==
    /\ consumer' = IF consumer = "running" THEN "cancelled" ELSE consumer
    /\ timer' = [p \in Paths |-> None]
    /\ closed' = TRUE
    /\ job' = Idle
    /\ Report(Ignored)
    /\ watch' = IF watch = "on" THEN "removed" ELSE watch
    /\ UNCHANGED <<fileVars, thread, batch, stable, good, quiet>>

\* Faulty form of StatFails: the error leaves the pipeline.
StatRaises ==
    /\ NextPath
    /\ file[Head(stable)] = "absent"
    /\ pipe' = "failed"
    /\ StopListening

\* The file is gone: the error is logged and the next path is awaited.
StatFails ==
    /\ NextPath
    /\ file[Head(stable)] = "absent"
    /\ stable' = Tail(stable)
    /\ UNCHANGED <<fileVars, watch, kernel, thread, batch, consumer, timer, pipe, job, closed,
                   good, quiet>>

\* The hash is there.  Size and hash belong together if the file has not changed
\* since stat.  What dispatch then does with them, a session, nothing if there is
\* no active sender, or a logged error, is in SessionDispatcher.
HashDone ==
    /\ pipe = "hashing"
    /\ good' = IF version[job.path] = job.version
               THEN [good EXCEPT ![job.path] = job.version] ELSE good
    /\ pipe' = "listening"
    /\ job' = Idle
    /\ UNCHANGED <<fileVars, watch, kernel, thread, batch, consumer, timer, stable, closed, quiet>>

\* The hasher finds no file to open: logged, as above.
HashFails ==
    /\ pipe = "hashing"
    /\ file[job.path] = "absent"
    /\ pipe' = "listening"
    /\ job' = Idle
    /\ UNCHANGED <<fileVars, watch, kernel, thread, batch, consumer, timer, stable, closed, good, quiet>>

\* The consumer's error ends the pipeline task.
ListenFails ==
    /\ pipe = "listening"
    /\ consumer = "failed"
    /\ pipe' = "failed"
    /\ StopListening

\* main.py cancels the pipeline task while it waits in _listen ...
Cancelled ==
    /\ pipe = "listening"
    /\ pipe' = "stopped"
    /\ StopListening

\* ... or in dispatch, and then the event loop finalises the generator later.
CancelledInDispatch ==
    /\ pipe = "hashing"
    /\ pipe' = "left"
    /\ job' = Idle
    /\ UNCHANGED <<fileVars, watch, kernel, thread, batch, consumer, timer, stable, closed, good, quiet>>

Finalise ==
    /\ pipe = "left"
    /\ pipe' = "stopped"
    /\ StopListening

\* A tick of the clock for every sleeping task.
Tick ==
    /\ \E p \in Paths : timer[p] > 0
    /\ timer' = [p \in Paths |-> IF timer[p] > 0 THEN timer[p] - 1 ELSE timer[p]]
    /\ quiet' = [p \in Paths |-> IF quiet[p] \in 0 .. Debounce - 1 THEN quiet[p] + 1 ELSE quiet[p]]
    /\ UNCHANGED <<fileVars, watch, kernel, thread, batch, consumer, stable, pipe, job, closed, good>>

Next ==
    \/ \E p \in Paths : Write(p) \/ Close(p) \/ MoveIn(p) \/ Delete(p) \/ Emit(p)
    \/ RemoveDir \/ MakeDir
    \/ ThreadRead \/ Consume \/ ConsumerFails
    \/ Stat \/ StatFails \/ HashDone \/ HashFails
    \/ ListenFails \/ Cancelled \/ CancelledInDispatch \/ Finalise
    \/ Tick

Spec == Init /\ [][Next]_vars

(***************************************************************************)
(* Fairness.  The event loop resumes what can go on, a sleep and a hash    *)
(* end, a read with something to return returns.  Nobody has to write,     *)
(* close or remove a file or to stop the service.                          *)
(***************************************************************************)
Fairness ==
    /\ WF_vars(ThreadRead) /\ WF_vars(Consume) /\ WF_vars(ConsumerFails)
    /\ WF_vars(Stat \/ StatFails) /\ WF_vars(HashDone \/ HashFails)
    /\ WF_vars(ListenFails) /\ WF_vars(Finalise) /\ WF_vars(Tick)
    /\ \A p \in Paths : WF_vars(Emit(p))

FairSpec == Spec /\ Fairness

(***************************************************************************)
(* Properties.                                                             *)
(***************************************************************************)

\* Types.  The queue of the kernel outgrows its limit by the overflow marker
\* alone, and no sleep is longer than debounce_seconds.
TypeOK ==
    /\ file \in [Paths -> {"absent", "open", "closed"}]
    /\ version \in [Paths -> 0 .. MaxVersion]
    /\ dir \in BOOLEAN
    /\ watch \in {"on", "gone", "removed"}
    /\ kernel \in Seq(Events)
    /\ Len(kernel) <= KernelMax \/ (Len(kernel) = KernelMax + 1 /\ Overflow \in Range(kernel))
    /\ thread \in {"reading", "returned"}
    /\ batch \in Seq(Events)
    /\ consumer \in {"running", "failed", "cancelled"}
    /\ timer \in [Paths -> {None} \cup 0 .. Debounce]
    /\ stable \in Seq(Paths)
    /\ pipe \in {"listening", "hashing", "left", "stopped", "failed"}
    /\ job \in [path : Paths, version : 0 .. MaxVersion] \cup {Idle}
    /\ closed \in BOOLEAN
    /\ good \in [Paths -> 0 .. MaxVersion]
    /\ quiet \in [Paths -> {None} \cup 0 .. Debounce]

\* Nobody has asked the pipeline to stop, and the directory is the watched one.
Watching == watch # "gone" /\ pipe \notin {"left", "stopped"}

\* A path is somewhere on its way from the kernel to the dispatcher.
Underway(p) ==
    \/ p \in Range(kernel) \/ Overflow \in Range(kernel)
    \/ p \in Range(batch) \/ Overflow \in Range(batch)
    \/ timer[p] # None
    \/ p \in Range(stable)
    \/ job = [path |-> p, version |-> version[p]]

(***************************************************************************)
(* No finished change is forgotten: while the service watches, a closed    *)
(* file whose present contents the dispatcher has not got, with a size and *)
(* a hash of their own, is on its way to it.  This covers events lost to   *)
(* an overflow, events that arrive as the timer of an earlier one fires,   *)
(* and a file that changes between stat and hash in dispatch.              *)
(***************************************************************************)
ChangeNeverForgotten ==
    Watching => \A p \in Paths : file[p] = "closed" /\ good[p] # version[p] => Underway(p)

(***************************************************************************)
(* A path is emitted once for each burst of events, when debounce_seconds  *)
(* have passed without one.                                                *)
(***************************************************************************)
SettledBeforeEmitted ==
    [][Len(stable') > Len(stable) => quiet[stable'[Len(stable')]] = Debounce]_vars

(***************************************************************************)
(* The contents a file is left with reach the dispatcher, unless the file  *)
(* is opened again or removed, or the service stops watching.  A file that *)
(* has vanished does not keep the others back.                             *)
(***************************************************************************)
FinalVersionReachesDispatch ==
    \A p \in Paths : []<>(file[p] # "closed" \/ good[p] = version[p] \/ ~ Watching)

(***************************************************************************)
(* While the directory is there, the thread blocked in inotify.read is     *)
(* released when the pipeline is stopped, in whichever of its awaits the   *)
(* cancellation meets it (comments in _listen and in INotifyEvents.close): *)
(* asyncio.run waits for that thread.                                      *)
(***************************************************************************)
CloseWakesReader ==
    pipe \in {"left", "stopped", "failed"} /\ watch # "gone" ~> thread = "returned" \/ watch = "gone"

(***************************************************************************)
(* The same without the proviso, as the comment in _listen has it.         *)
(***************************************************************************)
StopWakesReader == pipe \in {"left", "stopped", "failed"} ~> thread = "returned"
=============================================================================
