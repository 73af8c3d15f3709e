-------------------------- MODULE ProcessSupervisor --------------------------
(***************************************************************************)
(* The supervisor of the sender processes, class ProcessSupervisor in      *)
(* src/src/file_monitor/supervision/supervisor.py, with the processes and  *)
(* the way main.py ends it.                                                *)
(*                                                                         *)
(* run starts one task per child (_supervise_child); shutdown is called    *)
(* once, by another task (a second call returns at once: a stuttering      *)
(* step).  The code between two awaits that suspend is one action.  A task *)
(* starts a process only when it has seen the last one exit, so a process  *)
(* is identified with its child.                                           *)
(*                                                                         *)
(* task[c]   "created"    not run yet                                      *)
(*           "spawning"   in spawner.spawn                                 *)
(*           "waiting"    in spawner.wait                                  *)
(*           "backoff"    in _wait_for_backoff_or_stop                     *)
(*           "returned"   ended, "cancelled" ended by a CancelledError     *)
(* proc[c]   "none"       no process, or one whose exit the task has seen  *)
(*           "alive", "termed", "killed"  running; got SIGTERM; got SIGKILL*)
(*           "dead"       exited, the task has not seen it yet             *)
(* shut      "no"         shutdown not called                              *)
(*           "grace"      in asyncio.wait on the processes and the timeout *)
(*           "yield"      in asyncio.sleep(0)                              *)
(*           "reaping"    waiting for the killed processes                 *)
(*           "done"       shutdown has returned                            *)
(***************************************************************************)
EXTENDS Integers, Sequences

CONSTANTS
    Children,       \* names of the ChildSpecs
    Backoff,        \* backoff_schedule, a sequence of delays
    MaxRestarts,    \* crash_loop_max_restarts
    Window,         \* crash_loop_window_seconds
    Grace,          \* shutdown_timeout_seconds
    Alongside,      \* FALSE: run is cancelled and has ended before shutdown is
                    \* called, as in main.py; TRUE: shutdown may be called
                    \* while run goes on, too, as in the unit tests of the class
    MaxTime         \* bound: the clock stops here unless shutdown waits for it

ASSUME SupervisorAssumption ==
    /\ Backoff \in Seq(Nat) /\ Backoff # <<>>
    /\ MaxRestarts \in Nat \ {0}
    /\ Window \in Nat
    /\ Grace \in Nat
    /\ Alongside \in BOOLEAN
    /\ MaxTime \in Nat

VARIABLES
    now,            \* clock.now(), in seconds
    task,
    failures,       \* failures[c]: consecutive_failures, up to Len(Backoff)
    exits,          \* exits[c]: exit_timestamps
    started,        \* started[c]: started_at
    wake,           \* wake[c]: when the backoff sleep ends
    proc,
    table,          \* the keys of _processes
    degraded,       \* _degraded
    cancelling,     \* the TaskGroup of run has cancelled its tasks
    stopping,       \* _stopping; _stop_event is set
    shut,
    awaited,        \* processes in shutdown: those it sent SIGTERM
    graceEnd,       \* when shutdown's timeout_task ends
    spawns          \* history, spawns[c]: times of the last MaxRestarts + 1 spawns

childVars == <<failures, exits, started, wake, degraded, spawns>>
shutVars  == <<stopping, shut, awaited, graceEnd>>
vars == <<now, task, failures, exits, started, wake, proc, table, degraded,
          cancelling, stopping, shut, awaited, graceEnd, spawns>>

Running == {"alive", "termed", "killed"}
Ended == {"returned", "cancelled"}

Init ==
    /\ now = 0
    /\ task = [c \in Children |-> "created"]
    /\ failures = [c \in Children |-> 0]
    /\ exits = [c \in Children |-> <<>>]
    /\ started = [c \in Children |-> 0]
    /\ wake = [c \in Children |-> 0]
    /\ proc = [c \in Children |-> "none"]
    /\ table = {}
    /\ degraded = {}
    /\ cancelling = FALSE
    /\ stopping = FALSE
    /\ shut = "no"
    /\ awaited = {}
    /\ graceEnd = 0
    /\ spawns = [c \in Children |-> <<>>]

(***************************************************************************)
(* _supervise_child.                                                       *)
(***************************************************************************)

\* A sequence of at most max items: the oldest is dropped (deque(maxlen)).
append_bounded(s, x, max) ==
    LET t == Append(s, x) IN IF Len(t) > max THEN Tail(t) ELSE t

\* Faulty form of remember_exit: a deque without maxlen.
remember_every_exit(ts) == Append(ts, now)

remember_exit(ts) == append_bounded(ts, now, MaxRestarts)

\* Faulty form of in_crash_loop: the deque never has more than its maxlen.
in_longer_crash_loop(ts) == Len(ts) > MaxRestarts /\ now - ts[1] < Window

\* Faulty form of in_crash_loop: a cumulative counter.
died_often(ts) == Len(ts) = MaxRestarts

in_crash_loop(ts) == Len(ts) = MaxRestarts /\ now - ts[1] < Window

\* consecutive_failures as it is when a child has exited.
failures_at_exit(c) ==
    IF now - started[c] > Backoff[Len(Backoff)] THEN 0 ELSE failures[c]

capped(n, max) == IF n < max THEN n ELSE max

delay_after(n) == Backoff[capped(n, Len(Backoff) - 1) + 1]

\* What follows the exit of the child or a failed spawn: give up or back off.
AfterExit(c) ==
    LET ts == remember_exit(exits[c])
        n  == failures_at_exit(c)
    IN  \/ /\ stopping
           /\ task' = [task EXCEPT ![c] = "returned"]
           /\ UNCHANGED childVars
        \/ /\ ~ stopping
           /\ exits' = [exits EXCEPT ![c] = ts]
           /\ in_crash_loop(ts)
           /\ failures' = [failures EXCEPT ![c] = n]
           /\ degraded' = degraded \cup {c}
           /\ task' = [task EXCEPT ![c] = "returned"]
           /\ UNCHANGED <<started, wake, spawns>>
        \/ /\ ~ stopping
           /\ exits' = [exits EXCEPT ![c] = ts]
           /\ ~ in_crash_loop(ts)
           /\ failures' = [failures EXCEPT ![c] = capped(n + 1, Len(Backoff))]
           /\ wake' = [wake EXCEPT ![c] = now + delay_after(n)]
           /\ task' = [task EXCEPT ![c] = "backoff"]
           /\ UNCHANGED <<started, degraded, spawns>>

\* Faulty form of MayRestart: the loop is `while True`.
AlwaysRestart == TRUE

\* while not self._stopping
MayRestart == ~ stopping

\* The head of the loop: the task ends or begins to spawn.
LoopHead(c) ==
    IF MayRestart
    THEN /\ task' = [task EXCEPT ![c] = "spawning"]
         /\ started' = [started EXCEPT ![c] = now]
         /\ spawns' = [spawns EXCEPT ![c] = append_bounded(@, now, MaxRestarts + 1)]
    ELSE /\ task' = [task EXCEPT ![c] = "returned"]
         /\ UNCHANGED <<started, spawns>>

\* A cancelled task takes no step but the one that ends it.
Runs(c, state) == task[c] = state /\ ~ cancelling

Start(c) ==
    /\ Runs(c, "created")
    /\ LoopHead(c)
    /\ UNCHANGED <<now, failures, exits, wake, proc, table, degraded, cancelling, shutVars>>

SpawnOk(c) ==
    /\ Runs(c, "spawning")
    /\ proc' = [proc EXCEPT ![c] = "alive"]
    /\ table' = table \cup {c}
    /\ task' = [task EXCEPT ![c] = "waiting"]
    /\ UNCHANGED <<now, childVars, cancelling, shutVars>>

SpawnFails(c) ==
    /\ Runs(c, "spawning")
    /\ AfterExit(c)
    /\ UNCHANGED <<now, proc, table, cancelling, shutVars>>

Reap(c) ==
    /\ Runs(c, "waiting")
    /\ proc[c] = "dead"
    /\ proc' = [proc EXCEPT ![c] = "none"]
    /\ table' = table \ {c}
    /\ AfterExit(c)
    /\ UNCHANGED <<now, cancelling, shutVars>>

\* Faulty form of BackoffEnds: the sleep does not race _stop_event.
SleptOut(c) == now >= wake[c]

\* The sleep or _stop_event, whichever is first.
BackoffEnds(c) == now >= wake[c] \/ stopping

BackoffOver(c) ==
    /\ Runs(c, "backoff")
    /\ BackoffEnds(c)
    /\ LoopHead(c)
    /\ UNCHANGED <<now, failures, exits, wake, proc, table, degraded, cancelling, shutVars>>

(***************************************************************************)
(* Cancellation by main.py: the task group of run cancels the children's   *)
(* tasks together, and each ends at its next step.  A CancelledError       *)
(* leaves _supervise_child without passing the pop, so that the process    *)
(* stays in _processes.  Cancelled in spawn, asyncio kills and reaps the   *)
(* process that it may have started.                                       *)
(***************************************************************************)
CancelRun ==
    /\ ~ cancelling
    /\ ~ stopping
    /\ cancelling' = TRUE
    /\ UNCHANGED <<now, task, childVars, proc, table, shutVars>>

\* Faulty form of ForgetCancelled: the pop is in a finally block.
PopCancelled(c) == table \ {c}

ForgetCancelled(c) == table

TaskCancelled(c) ==
    /\ cancelling
    /\ task[c] \notin Ended
    /\ task' = [task EXCEPT ![c] = "cancelled"]
    /\ table' = ForgetCancelled(c)
    /\ UNCHANGED <<now, childVars, proc, cancelling, shutVars>>

(***************************************************************************)
(* shutdown.                                                               *)
(***************************************************************************)

\* The processes of ps get a signal; one that has exited does not notice it
\* (ProcessLookupError is ignored).
signalled(ps, signal) ==
    [c \in Children |-> IF c \in ps /\ proc[c] \in Running THEN signal ELSE proc[c]]

Exited(c) == proc[c] \notin Running

\* The first call of shutdown, up to its first await; with nothing to wait
\* for it returns without suspending.
BeginShutdown ==
    /\ ~ stopping
    /\ stopping' = TRUE
    /\ awaited' = table
    /\ proc' = signalled(table, "termed")
    /\ IF table = {}
       THEN shut' = "done" /\ UNCHANGED graceEnd
       ELSE shut' = "grace" /\ graceEnd' = now + Grace
    /\ UNCHANGED <<now, task, childVars, table, cancelling>>

\* Its caller: after run has ended, or alongside it.
Shutdown ==
    /\ \/ cancelling /\ \A c \in Children : task[c] \in Ended
       \/ Alongside /\ ~ cancelling
    /\ BeginShutdown

\* Faulty form of GraceIsOver: the first exit ends the wait, not the last.
FirstExitOrTimeout == (\E c \in awaited : Exited(c)) \/ now >= graceEnd

GraceIsOver == (\A c \in awaited : Exited(c)) \/ now >= graceEnd

GraceOver ==
    /\ shut = "grace"
    /\ GraceIsOver
    /\ shut' = "yield"
    /\ UNCHANGED <<now, task, childVars, proc, table, cancelling, stopping, awaited, graceEnd>>

\* Faulty form of Escalated: the survivors get a second SIGTERM.
TermedAgain == signalled(table, "termed")

Escalated == signalled(table, "killed")

Escalate ==
    /\ shut = "yield"
    /\ proc' = Escalated
    /\ awaited' = table
    /\ shut' = IF table = {} THEN "done" ELSE "reaping"
    /\ UNCHANGED <<now, task, childVars, table, cancelling, stopping, graceEnd>>

ShutdownReturns ==
    /\ shut = "reaping"
    /\ \A c \in awaited : Exited(c)
    /\ shut' = "done"
    /\ UNCHANGED <<now, task, childVars, proc, table, cancelling, stopping, awaited, graceEnd>>

(***************************************************************************)
(* The processes and the clock.                                            *)
(***************************************************************************)

\* A process may exit at any time; it may ignore SIGTERM for ever.
Exit(c) ==
    /\ proc[c] \in Running
    /\ proc' = [proc EXCEPT ![c] = "dead"]
    /\ UNCHANGED <<now, task, childVars, table, cancelling, shutVars>>

Tick ==
    /\ now < MaxTime \/ (shut = "grace" /\ now < graceEnd)
    /\ now' = now + 1
    /\ UNCHANGED <<task, childVars, proc, table, cancelling, shutVars>>

Next ==
    \/ \E c \in Children :
          \/ Start(c) \/ SpawnOk(c) \/ SpawnFails(c) \/ Reap(c) \/ BackoffOver(c)
          \/ TaskCancelled(c) \/ Exit(c)
    \/ CancelRun
    \/ Shutdown \/ GraceOver \/ Escalate \/ ShutdownReturns
    \/ Tick

Spec == Init /\ [][Next]_vars

(***************************************************************************)
(* Fairness.  The event loop resumes every task that can go on, a sleep    *)
(* ends, and no process survives SIGKILL.  A process need not exit         *)
(* otherwise, spawn need not end, and nobody need call shutdown.           *)
(***************************************************************************)
Fairness ==
    /\ WF_vars(GraceOver) /\ WF_vars(Escalate) /\ WF_vars(ShutdownReturns)
    /\ WF_vars(Tick)
    /\ \A c \in Children :
          /\ WF_vars(BackoffOver(c))
          /\ WF_vars(Exit(c) /\ proc[c] = "killed")

FairSpec == Spec /\ Fairness

(***************************************************************************)
(* Properties.                                                             *)
(***************************************************************************)

\* Types and bounds: exit_timestamps never outgrows crash_loop_max_restarts
\* (the maxlen of the deque), on which in_crash_loop relies.
TypeOK ==
    /\ now \in Nat
    /\ task \in [Children -> {"created", "spawning", "waiting", "backoff"} \cup Ended]
    /\ failures \in [Children -> 0 .. Len(Backoff)]
    /\ exits \in [Children -> Seq(Nat)]
    /\ \A c \in Children : Len(exits[c]) <= MaxRestarts
    /\ started \in [Children -> Nat]
    /\ wake \in [Children -> Nat]
    /\ proc \in [Children -> Running \cup {"none", "dead"}]
    /\ table \subseteq Children
    /\ degraded \subseteq Children
    /\ cancelling \in BOOLEAN
    /\ stopping \in BOOLEAN
    /\ shut \in {"no", "grace", "yield", "reaping", "done"}
    /\ awaited \subseteq Children
    /\ graceEnd \in Nat
    /\ spawns \in [Children -> Seq(Nat)]

(***************************************************************************)
(* The crash-loop detector, which counts exits, bounds the spawns: after   *)
(* MaxRestarts restarts in a row the whole window and one backoff delay    *)
(* have passed since the spawn before them, however spawns fail and        *)
(* children exit.                                                          *)
(***************************************************************************)
SpawnRateBounded ==
    \A c \in Children :
        Len(spawns[c]) = MaxRestarts + 1 =>
            \E i \in DOMAIN Backoff :
                spawns[c][MaxRestarts + 1] - spawns[c][1] >= Window + Backoff[i]

(***************************************************************************)
(* Only a crash loop degrades a child: the MaxRestarts - 1 restarts before *)
(* it was given up lie within one window.  A child that dies as often over *)
(* a longer time is restarted (src/docs/GUIDE.md, "sliding window").       *)
(***************************************************************************)
OnlyCrashLoopDegrades ==
    \A c \in degraded :
        LET n == Len(spawns[c])
        IN  /\ n >= MaxRestarts
            /\ MaxRestarts >= 2 => spawns[c][n] - spawns[c][n - MaxRestarts + 2] < Window

(***************************************************************************)
(* When shutdown has returned no process that the supervisor started is    *)
(* alive, whatever its tasks were doing when they were cancelled (not so   *)
(* if shutdown is called alongside run: a task in spawn starts its process *)
(* after shutdown has looked at _processes).                               *)
(***************************************************************************)
NothingLeftAlive == shut = "done" => \A c \in Children : Exited(c)

(***************************************************************************)
(* SIGKILL is the last resort: a running process gets it only after a      *)
(* SIGTERM and the whole of the shutdown timeout.                          *)
(***************************************************************************)
KilledOnlyAfterGrace ==
    [][\A c \in Children :
          proc'[c] = "killed" /\ proc[c] # "killed" => proc[c] = "termed" /\ now >= graceEnd]_vars

\* Once shutdown has been called no task begins to spawn a process, the ones
\* that were in backoff and are woken by _stop_event included.
NoSpawnAfterStop ==
    [][stopping => \A c \in Children : task'[c] = "spawning" => task[c] = "spawning"]_vars

\* shutdown returns, even if a process ignores SIGTERM or exits while it is
\* being killed.
ShutdownCompletes == stopping ~> shut = "done"

\* A backoff does not hold up shutdown, however long its delay (src/docs/
\* GUIDE.md, "Backoff sleep is interruptible").
BackoffInterrupted == stopping ~> \A c \in Children : task[c] # "backoff"
=============================================================================
