------------------------------- MODULE Service -------------------------------
(***************************************************************************)
(* The life of the service, src/src/file_monitor/main.py: main loads the   *)
(* configuration; run starts the four workers and the task that waits for  *)
(* a signal in one asyncio.TaskGroup, and when the group has ended it      *)
(* shuts the supervisor down and removes the socket.                       *)
(*                                                                         *)
(* The supervisor is ProcessSupervisor, action by action; this module says *)
(* when main.py lets it run, cancels it and calls shutdown.  Of the other  *)
(* workers (UdsServer, the loop over the incoming messages and the         *)
(* detection pipeline of DirectoryWatcher) it keeps whether they run and   *)
(* how they end.                                                           *)
(*                                                                         *)
(* phase     "load"       main has not read the configuration yet          *)
(*           "start"      in run, before the task group                    *)
(*           "up"         the task group is open, nothing is cancelled     *)
(*           "ending"     the workers are cancelled, by the waiting task   *)
(*                        or by the group itself                           *)
(*           "shutdown"   in supervisor.shutdown                           *)
(*           "exited"     run has returned                                 *)
(*           "refused"    ended before the task group was opened           *)
(* worker[w] "created", "running", "ended"; "broken": serve has caught an  *)
(*           error in its finally block and waits for its connections      *)
(* exit      how the process ends: a code, or a traceback (and code 1)     *)
(***************************************************************************)
EXTENDS ProcessSupervisor, Config, FiniteSets

CONSTANTS
    ConfigFiles,    \* configuration files, see Config
    Environments,   \* what the environment variables hold
    SocketPaths     \* what may be at socket_path before the start

Workers == {"serve", "incoming", "pipeline"}

ASSUME ServiceAssumption ==
    /\ ~ Alongside
    /\ SocketPaths \subseteq {"free", "socket", "directory", "denied"}
    /\ \A f \in ConfigFiles : IsFile(f)
    /\ \A e \in Environments : IsEnvironment(e)
    /\ \A f \in ConfigFiles, e \in Environments :
          accepted(f, e) => Cardinality(Children) = app_config(f, e).sender_count

VARIABLES
    phase,
    loaded,         \* history: what load_config has come to
    worker,
    stop_requested,     \* shutdown_event
    failed,         \* the workers that ended with an exception
    socket,         \* what is at socket_path: "free" (nothing), "socket",
                    \* "directory", "denied" (a socket one may not remove)
    exit

mainVars == <<phase, loaded, worker, stop_requested, failed, socket, exit>>
serviceVars == <<vars, mainVars>>

ServiceInit ==
    /\ Init
    /\ phase = "load"
    /\ loaded = "none"
    /\ worker = [w \in Workers |-> "created"]
    /\ stop_requested = FALSE
    /\ failed = {}
    /\ socket \in SocketPaths
    /\ exit = "none"

(***************************************************************************)
(* main, and run up to the task group.                                     *)
(***************************************************************************)
Ends(status) ==
    /\ phase' = "refused"
    /\ exit' = status

LoadConfig ==
    /\ phase = "load"
    /\ \E f \in ConfigFiles, e \in Environments : loaded' = load_config(f, e)
    /\ CASE loaded' = "ok" -> phase' = "start" /\ UNCHANGED exit
         [] loaded' \in {"ValueError", "OSError"} -> Ends("78")
         [] OTHER -> Ends("traceback")
    /\ UNCHANGED <<vars, worker, stop_requested, failed, socket>>

\* proto_dir is no directory.
ProtoMissing ==
    /\ phase = "start"
    /\ Ends("1")
    /\ UNCHANGED <<vars, loaded, worker, stop_requested, failed, socket>>

\* compute_proto_hash or INotifyEvents raises, outside the try block.
StartRaises ==
    /\ phase = "start"
    /\ Ends("traceback")
    /\ UNCHANGED <<vars, loaded, worker, stop_requested, failed, socket>>

Undeletable == {"directory", "denied"}     \* unlink raises an OSError

(***************************************************************************)
(* The tasks take their first steps in the order of their creation, before *)
(* a cancellation reaches any: serve unlinks a stale socket and binds a    *)
(* new one, the others come to their first await.                          *)
(***************************************************************************)
OpenGroup ==
    /\ phase = "start"
    /\ socket \notin Undeletable
    /\ socket' = "socket"
    /\ phase' = "up"
    /\ worker' = [w \in Workers |-> "running"]
    /\ UNCHANGED <<vars, loaded, stop_requested, failed, exit>>

\* mkdir, unlink or bind raises.
OpenGroupServeFails ==
    /\ phase = "start"
    /\ phase' = "ending"
    /\ worker' = [w \in Workers |-> IF w = "serve" THEN "ended" ELSE "running"]
    /\ failed' = {"serve"}
    /\ UNCHANGED <<vars, loaded, stop_requested, socket, exit>>

(***************************************************************************)
(* The workers.                                                            *)
(***************************************************************************)

\* accept raises: the finally block waits for the connections to end.
ServeBreaks ==
    /\ phase = "up"
    /\ worker["serve"] = "running"
    /\ worker' = [worker EXCEPT !["serve"] = "broken"]
    /\ UNCHANGED <<vars, phase, loaded, stop_requested, failed, socket, exit>>

\* When a worker may raise: serve after its finally block, the
\* incoming loop on a message that codec.decode refuses, the pipeline
\* when the watcher's consumer has failed.
MayFail(w) ==
    IF w = "serve" THEN worker[w] = "broken" ELSE worker[w] = "running"

\* The group cancels all its tasks when one has ended with an exception.
WorkerFails(w) ==
    /\ phase = "up"
    /\ MayFail(w)
    /\ worker' = [worker EXCEPT ![w] = "ended"]
    /\ failed' = failed \cup {w}
    /\ phase' = "ending"
    /\ UNCHANGED <<vars, loaded, stop_requested, socket, exit>>

\* SIGTERM or SIGINT, once its handler is installed: trigger_shutdown.
Signal ==
    /\ phase \in {"up", "ending", "shutdown"}
    /\ ~ stop_requested
    /\ stop_requested' = TRUE
    /\ UNCHANGED <<vars, phase, loaded, worker, failed, socket, exit>>

\* _cancel_workers_on_shutdown.
CancelWorkers ==
    /\ phase = "up"
    /\ stop_requested
    /\ phase' = "ending"
    /\ UNCHANGED <<vars, loaded, worker, stop_requested, failed, socket, exit>>

\* A cancelled worker ends; a CancelledError replaces the error of a broken one.
WorkerCancelled(w) ==
    /\ phase = "ending"
    /\ worker[w] # "ended"
    /\ worker' = [worker EXCEPT ![w] = "ended"]
    /\ UNCHANGED <<vars, phase, loaded, stop_requested, failed, socket, exit>>

(***************************************************************************)
(* The end of run.                                                         *)
(***************************************************************************)

\* Faulty form of GroupEnded: run goes on before the supervisor's tasks have ended.
WorkersEnded == \A w \in Workers : worker[w] = "ended"

\* The task group ends when its last task has.
GroupEnded ==
    /\ \A w \in Workers : worker[w] = "ended"
    /\ cancelling /\ \A c \in Children : task[c] \in Ended

\* await supervisor.shutdown()
CallShutdown ==
    /\ phase = "ending"
    /\ GroupEnded
    /\ BeginShutdown
    /\ phase' = "shutdown"
    /\ UNCHANGED <<loaded, worker, stop_requested, failed, socket, exit>>

\* Faulty form of exit_code: a signal makes every end a normal one.
exit_code_if_unasked == IF failed = {} \/ stop_requested THEN "0" ELSE "1"

exit_code == IF failed = {} THEN "0" ELSE "1"

\* Faulty form of socket_unlinked: the socket is left to the next start.
socket_left == socket

\* socket_path.unlink(missing_ok=True)
socket_unlinked == IF socket = "socket" THEN "free" ELSE socket

\* unlink raises, after the cause that stopped serve; otherwise run returns exit_code.
Return ==
    /\ phase = "shutdown"
    /\ shut = "done"
    /\ socket' = socket_unlinked
    /\ exit' = IF socket \in Undeletable THEN "traceback" ELSE exit_code
    /\ phase' = "exited"
    /\ UNCHANGED <<vars, loaded, worker, stop_requested, failed>>

(***************************************************************************)
(* The steps of the supervisor and its processes.  Its tasks start once    *)
(* the group is open, and run is cancelled with the other workers.         *)
(***************************************************************************)
ChildStep(c) ==
    /\ \/ phase \in {"up", "ending"} /\ Start(c)
       \/ SpawnOk(c) \/ SpawnFails(c) \/ Reap(c) \/ BackoffOver(c)
       \/ TaskCancelled(c) \/ Exit(c)
    /\ UNCHANGED mainVars

CancelSupervisor ==
    /\ phase = "ending"
    /\ CancelRun
    /\ UNCHANGED mainVars

ShutdownStep ==
    /\ GraceOver \/ Escalate \/ ShutdownReturns
    /\ UNCHANGED mainVars

ClockStep ==
    /\ phase \in {"up", "ending", "shutdown"}
    /\ Tick
    /\ UNCHANGED mainVars

ServiceNext ==
    \/ LoadConfig \/ ProtoMissing \/ StartRaises
    \/ OpenGroup \/ OpenGroupServeFails
    \/ ServeBreaks \/ \E w \in Workers : WorkerFails(w) \/ WorkerCancelled(w)
    \/ Signal \/ CancelWorkers
    \/ CallShutdown \/ Return
    \/ \E c \in Children : ChildStep(c)
    \/ CancelSupervisor \/ ShutdownStep \/ ClockStep

ServiceSpec == ServiceInit /\ [][ServiceNext]_serviceVars

(***************************************************************************)
(* Fairness.  The event loop resumes every task that can go on, time       *)
(* passes, and no process survives SIGKILL.  Nobody has to send a signal,  *)
(* no worker has to fail, and a child that is not killed may run for ever. *)
(***************************************************************************)
ServiceFairness ==
    /\ WF_serviceVars(CancelWorkers) /\ WF_serviceVars(CancelSupervisor)
    /\ \A w \in Workers : WF_serviceVars(WorkerCancelled(w))
    /\ \A c \in Children :
          /\ WF_serviceVars(TaskCancelled(c) /\ UNCHANGED mainVars)
          /\ WF_serviceVars(Exit(c) /\ proc[c] = "killed" /\ UNCHANGED mainVars)
    /\ WF_serviceVars(CallShutdown) /\ WF_serviceVars(ShutdownStep)
    /\ WF_serviceVars(Return) /\ WF_serviceVars(ClockStep)

FairServiceSpec == ServiceSpec /\ ServiceFairness

(***************************************************************************)
(* Properties.                                                             *)
(***************************************************************************)

(***************************************************************************)
(* main.py uses the supervisor as it must be used: seen from the           *)
(* supervisor, the service is one of its behaviours, in which shutdown is  *)
(* called only when run has ended with all its tasks (otherwise a sender   *)
(* may be started behind shutdown's back).                                 *)
(***************************************************************************)
UsesSupervisor == Spec

(***************************************************************************)
(* However run ends, by a signal or by the failure of a worker and         *)
(* whatever the supervisor was doing then, it leaves no sender process and *)
(* no socket of its own behind.                                            *)
(***************************************************************************)
CleanExit ==
    phase = "exited" => (\A c \in Children : Exited(c)) /\ socket # "socket"

(***************************************************************************)
(* The exit code tells a service that was asked to stop from one that      *)
(* broke, also when the signal and the failure meet: 0 exactly if no       *)
(* worker ended with an exception, and then there was a signal.            *)
(***************************************************************************)
ExitTellsFailure ==
    phase = "exited" => (exit = "0" <=> failed = {}) /\ (exit = "0" => stop_requested)

(***************************************************************************)
(* A signal or the failure of one worker (a malformed message, for         *)
(* instance, main.py line 93) ends the whole service, even if a sender     *)
(* process ignores SIGTERM.                                                *)
(***************************************************************************)
ServiceEnds == stop_requested \/ failed # {} ~> phase = "exited"

(***************************************************************************)
(* src/docs/GUIDE.md line 662: a bad configuration exits with 78, not with *)
(* a traceback.                                                            *)
(***************************************************************************)
BadConfigExits78 ==
    phase = "refused" /\ loaded \notin {"none", "ok"} => exit = "78"
=============================================================================
