-------------------------- MODULE SessionDispatcher --------------------------
(***************************************************************************)
(* The sessions of file-monitor: SessionDispatcher                         *)
(* (src/src/file_monitor/services/dispatcher.py) driven by the detection   *)
(* pipeline, and the incoming dispatch loop of src/src/file_monitor/main.py*)
(* with its handlers, composed with the SenderRegistry both share and with *)
(* the IpcPort both use.                                                   *)
(*                                                                         *)
(* All of it runs in one asyncio loop.  dispatch suspends in two places:   *)
(* while the file is hashed (pc = "hashing") and in the sleep before a     *)
(* retry (pc = "retry").  ipc.send never suspends, so from the end of the  *)
(* hash or the sleep to the next suspension nothing else moves: while      *)
(* pc = "sending" only the dispatcher's own actions are enabled.           *)
(* The pipeline dispatches one file at a time.                             *)
(***************************************************************************)
EXTENDS IpcPort, SenderRegistry, Planning

CONSTANTS
    MAX_DISPATCH_ATTEMPTS,
    TotalBlocks,    \* blocks of every file
    BasePort,
    MaxSessions,    \* bound: sessions started
    MaxFeeds        \* bound: connections of one sender at a time

ASSUME DispatchAssumption ==
    /\ Senders \subseteq Nat
    /\ \A m \in Incoming : m.type # "session_complete"    \* SenderCompletes sends those
    /\ MAX_DISPATCH_ATTEMPTS \in Nat \ {0}
    /\ TotalBlocks \in Nat
    /\ BasePort \in Nat \ {0}
    /\ MaxSessions \in Nat
    /\ MaxFeeds \in Nat

Sessions == 1 .. MaxSessions

SenderHello == [type |-> "sender_hello"]
Heartbeat == [type |-> "heartbeat"]
Progress == [type |-> "sender_progress"]     \* and LocalCongestion: logged only
SessionComplete(x) == [type |-> "session_complete", session_id |-> x]

VARIABLES
    registry,       \* SenderRegistry._last_seen, as silences
    pc,             \* "idle", "hashing", "sending", "retry"
    job,            \* local variables of the running dispatch
    dispatched,     \* _dispatched_sessions: session -> senders
    sessions,       \* session ids drawn so far
    sent,           \* history: AssignSessions accepted by send
    lost,           \* history: shards in dispatch_partially_failed log lines
    completed,      \* history: sessions whose SessionComplete was handled
    quiet,          \* history, quiet[s]: seconds since s was heard, up to the timeout
    losses          \* history, losses[s]: shards lost to s, unreachable, since it was last heard

jobVars  == <<pc, job, dispatched, sessions>>
history  == <<sent, lost, completed, quiet, losses>>
vars == <<queue, limbo, delivered, feeds, incoming, registry, pc, job, dispatched,
          sessions, sent, lost, completed, quiet, losses>>

NoJob == [session_id |-> 0, assignments |-> <<>>, index |-> 1, attempt |-> 0,
          succeeded |-> <<>>, lost_assignments |-> <<>>]

Init ==
    /\ PortInit
    /\ registry = empty_registry
    /\ pc = "idle"
    /\ job = NoJob
    /\ dispatched = [x \in {} |-> <<>>]
    /\ sessions = 0
    /\ sent = <<>>
    /\ lost = <<>>
    /\ completed = {}
    /\ quiet = [s \in Senders |-> timeout_seconds]
    /\ losses = [s \in Senders |-> 0]

\* The event loop is free to run another task.
Yielded == pc # "sending"

(***************************************************************************)
(* dispatch.                                                               *)
(***************************************************************************)

\* The pipeline takes the next file; stat, and the hash starts in a thread.
Detect ==
    /\ pc = "idle"
    /\ sessions < MaxSessions
    /\ pc' = "hashing"
    /\ UNCHANGED <<portVars, registry, job, dispatched, sessions, history>>

\* stat or the hash raised or, after the purge of the registry and before
\* the first send, build_manifest did: the pipeline logs it and goes on.
DispatchRaises ==
    /\ pc = "hashing"
    /\ registry' \in {registry, purge_expired(registry)}
    /\ pc' = "idle"
    /\ UNCHANGED <<portVars, job, dispatched, sessions, history>>

\* The hash is there, but no sender is active: the file is skipped.
SkipNoSenders ==
    /\ pc = "hashing"
    /\ registry' = purge_expired(registry)
    /\ DOMAIN registry' = {}
    /\ pc' = "idle"
    /\ UNCHANGED <<portVars, job, dispatched, sessions, history>>

\* The hash is there: active_senders, a session id, the shard assignments.
StartSession ==
    /\ pc = "hashing"
    /\ registry' = purge_expired(registry)
    /\ DOMAIN registry' # {}
    /\ \E active_senders \in sorted(DOMAIN registry') :
          job' = [NoJob EXCEPT
                    !.session_id  = sessions + 1,
                    !.assignments = derive_shard_assignments(TotalBlocks, active_senders, BasePort)]
    /\ sessions' = sessions + 1
    /\ pc' = "sending"
    /\ UNCHANGED <<portVars, dispatched, history>>

(***************************************************************************)
(* _send_to_senders and _deliver.                                          *)
(***************************************************************************)

Assignment == job.assignments[job.index]

\* The AssignSession for the current assignment, as far as it differs from
\* those of other sessions and senders.
AssignSession ==
    [session_id |-> job.session_id, sender_id |-> Assignment.sender_id,
     total_senders |-> Assignment.shard_modulus, residue |-> Assignment.shard_residue]

Sending == pc = "sending" /\ job.index <= Len(job.assignments)

\* Faulty form of NextAssignment: a success does not leave the retry loop.
TryAgainAnyway(j) ==
    IF j.attempt < MAX_DISPATCH_ATTEMPTS - 1
    THEN [j EXCEPT !.attempt = @ + 1]
    ELSE [j EXCEPT !.index = @ + 1, !.attempt = 0]

NextAssignment(j) == [j EXCEPT !.index = @ + 1, !.attempt = 0]

SendAccepted ==
    /\ Sending
    /\ Send(Assignment.sender_id, AssignSession)
    /\ job' = NextAssignment([job EXCEPT !.succeeded = Append(@, Assignment.sender_id)])
    /\ sent' = Append(sent, AssignSession)
    /\ UNCHANGED <<registry, pc, dispatched, sessions, lost, completed, quiet, losses>>

\* Faulty form of Lose: the failed shard is not remembered.
LoseSilently(j) == NextAssignment(j)

Lose(j) ==
    NextAssignment([j EXCEPT !.lost_assignments = Append(@, j.assignments[j.index])])

\* UnknownSenderError: the sender is removed from the registry.
SendUnknown ==
    /\ Sending
    /\ LET s == Assignment.sender_id
       IN  /\ SendOutcome(s) = "unknown"
           /\ registry' = remove(registry, s)
           /\ losses' = [losses EXCEPT ![s] = @ + 1]
    /\ job' = Lose(job)
    /\ UNCHANGED <<portVars, pc, dispatched, sessions, sent, lost, completed, quiet>>

\* Faulty form of AttemptsLeft: off by one.
OneAttemptMore(j) == j.attempt < MAX_DISPATCH_ATTEMPTS

AttemptsLeft(j) == j.attempt < MAX_DISPATCH_ATTEMPTS - 1

\* SendQueueFullError with an attempt left: sleep.
SendFullRetry ==
    /\ Sending
    /\ SendOutcome(Assignment.sender_id) = "full"
    /\ AttemptsLeft(job)
    /\ pc' = "retry"
    /\ UNCHANGED <<portVars, registry, job, dispatched, sessions, history>>

\* Faulty form of NextAttempt: the attempts are not counted.
SameAttempt(j) == j

NextAttempt(j) == [j EXCEPT !.attempt = @ + 1]

RetryWakes ==
    /\ pc = "retry"
    /\ pc' = "sending"
    /\ job' = NextAttempt(job)
    /\ UNCHANGED <<portVars, registry, dispatched, sessions, history>>

\* SendQueueFullError on the last attempt.
SendFullLost ==
    /\ Sending
    /\ SendOutcome(Assignment.sender_id) = "full"
    /\ ~ AttemptsLeft(job)
    /\ job' = Lose(job)
    /\ UNCHANGED <<portVars, registry, pc, dispatched, sessions, history>>

\* What _log_partial_failure writes of a lost assignment.
LogLine(j, i) ==
    LET a == j.lost_assignments[i]
    IN  [session_id |-> j.session_id, sender_id |-> a.sender_id,
         total_senders |-> a.shard_modulus, residue |-> a.shard_residue]

\* Faulty form of Record: a session with a lost shard is not tracked.
RecordIfWhole(j) ==
    IF j.lost_assignments = <<>>
    THEN [x \in DOMAIN dispatched \cup {j.session_id} |->
             IF x = j.session_id THEN j.succeeded ELSE dispatched[x]]
    ELSE dispatched

\* _dispatched_sessions[session_id] = succeeded, unless nothing succeeded.
Record(j) ==
    IF j.succeeded # <<>>
    THEN [x \in DOMAIN dispatched \cup {j.session_id} |->
             IF x = j.session_id THEN j.succeeded ELSE dispatched[x]]
    ELSE dispatched

\* The loop is over: the lost shards are logged and the session recorded.
Finish ==
    /\ pc = "sending"
    /\ job.index > Len(job.assignments)
    /\ lost' = lost \o [i \in DOMAIN job.lost_assignments |-> LogLine(job, i)]
    /\ dispatched' = Record(job)
    /\ pc' = "idle"
    /\ job' = NoJob
    /\ UNCHANGED <<portVars, registry, sessions, sent, completed, quiet, losses>>

DispatchStep ==
    \/ DispatchRaises
    \/ SkipNoSenders
    \/ StartSession
    \/ SendAccepted
    \/ SendUnknown
    \/ SendFullRetry
    \/ RetryWakes
    \/ SendFullLost
    \/ Finish

(***************************************************************************)
(* _run_incoming_dispatch_loop and the handlers.                           *)
(***************************************************************************)

\* complete_session: pop, whether or not the session is there.
complete_session(x) == [y \in DOMAIN dispatched \ {x} |-> dispatched[y]]

\* SenderHello registers, Heartbeat refreshes: refresh is register.
HandleAlive ==
    /\ Yielded
    /\ incoming # <<>>
    /\ Head(incoming).msg.type \in {"sender_hello", "heartbeat"}
    /\ registry' = register(registry, Head(incoming).from)
    /\ quiet' = [quiet EXCEPT ![Head(incoming).from] = 0]
    /\ losses' = [losses EXCEPT ![Head(incoming).from] = 0]
    /\ TakeIncoming
    /\ UNCHANGED <<jobVars, sent, lost, completed>>

HandleSessionComplete ==
    /\ Yielded
    /\ incoming # <<>>
    /\ Head(incoming).msg.type = "session_complete"
    /\ dispatched' = complete_session(Head(incoming).msg.session_id)
    /\ completed' = completed \cup {Head(incoming).msg.session_id}
    /\ TakeIncoming
    /\ UNCHANGED <<registry, pc, job, sessions, sent, lost, quiet, losses>>

\* SenderProgress, LocalCongestion and unknown types are logged.
HandleIgnored ==
    /\ Yielded
    /\ incoming # <<>>
    /\ Head(incoming).msg.type = "sender_progress"
    /\ TakeIncoming
    /\ UNCHANGED <<registry, jobVars, history>>

(***************************************************************************)
(* The senders, the port and time.                                         *)
(***************************************************************************)

SenderAttaches(s) ==
    /\ Yielded
    /\ feeds[s] < MaxFeeds
    /\ Attach(s, SenderHello)
    /\ UNCHANGED <<registry, jobVars, history>>

SenderSays(s) ==
    /\ Yielded
    /\ \E m \in Incoming : Post(s, m)
    /\ UNCHANGED <<registry, jobVars, history>>

\* A sender completes a session it was assigned.
SenderCompletes(s) ==
    /\ Yielded
    /\ \E p \in delivered[s] :
          Post(s, SessionComplete(p.session_id))
    /\ UNCHANGED <<registry, jobVars, history>>

LinkStep(s) ==
    /\ Yielded
    /\ \/ \E ended \in {0, 1} : Detach(s, ended)
       \/ BeginWrite(s)
       \/ Deliver(s)
    /\ UNCHANGED <<registry, jobVars, history>>

\* A second goes by.
Tick ==
    /\ Yielded
    /\ registry' = Elapse(registry)
    /\ quiet' = [s \in Senders |-> minimum(quiet[s] + 1, timeout_seconds)]
    /\ UNCHANGED <<portVars, jobVars, sent, lost, completed, losses>>

Next ==
    \/ Detect
    \/ DispatchStep
    \/ HandleAlive
    \/ HandleSessionComplete
    \/ HandleIgnored
    \/ \E s \in Senders :
          \/ SenderAttaches(s)
          \/ SenderSays(s)
          \/ SenderCompletes(s)
          \/ LinkStep(s)
    \/ Tick

Spec == Init /\ [][Next]_vars

\* The hash ends, a sleep ends, and the loop runs a task that can go on.
FairSpec == Spec /\ WF_vars(DispatchStep)

(***************************************************************************)
(* Properties.                                                             *)
(***************************************************************************)

Shards == [session_id : Sessions, sender_id : Senders, total_senders : Nat, residue : Nat]

TypeOK ==
    /\ \A s \in Senders : Linked(s) => Len(queue[s]) <= SendQueueMax
    /\ \A s \in Senders : Pending(s) \cup delivered[s] \subseteq Shards
    /\ feeds \in [Senders -> 0 .. MaxFeeds]
    /\ Len(incoming) <= IncomingMax
    /\ \A i \in DOMAIN incoming : incoming[i].from \in Senders
    /\ DOMAIN registry \subseteq Senders
    /\ \A s \in DOMAIN registry : registry[s] \in 0 .. timeout_seconds + 1
    /\ pc \in {"idle", "hashing", "sending", "retry"}
    /\ pc \in {"idle", "hashing"} => job = NoJob
    /\ job.attempt \in 0 .. MAX_DISPATCH_ATTEMPTS - 1
    /\ job.index \in 1 .. Len(job.assignments) + 1
    /\ sessions \in 0 .. MaxSessions
    /\ DOMAIN dispatched \subseteq 1 .. sessions
    /\ Elements(sent) \cup Elements(lost) \subseteq Shards
    /\ completed \subseteq 1 .. sessions

\* The sessions whose dispatch has ended.
Ended == 1 .. (IF pc \in {"sending", "retry"} THEN sessions - 1 ELSE sessions)

(***************************************************************************)
(* A sender is given at most one AssignSession per session (comment in     *)
(* _send_to_senders): not two by a retry after a success, and none after   *)
(* its shard was logged as lost.                                           *)
(***************************************************************************)
OneAssignmentPerSender ==
    LET log == sent \o lost
    IN  \A i, j \in DOMAIN log :
            log[i].session_id = log[j].session_id /\ log[i].sender_id = log[j].sender_id => i = j

(***************************************************************************)
(* Every block of a dispatched file is accounted for exactly once: in the  *)
(* shard of one AssignSession that was accepted or in one logged as lost,  *)
(* however the registry, the links and the queues changed in between.      *)
(***************************************************************************)
BlocksAccountedFor ==
    LET log == sent \o lost
    IN  \A x \in Ended : \A b \in 0 .. TotalBlocks - 1 :
            Cardinality({i \in DOMAIN log :
                /\ log[i].session_id = x
                /\ b \in blocks_for_shard(TotalBlocks, log[i].total_senders, log[i].residue)}) = 1

\* The shards that sender s has been given or may still be given.
Underway(s) == Pending(s) \cup delivered[s]

\* Two shards of one session with a block in common.
Overlap(p, q) ==
    /\ p.session_id = q.session_id
    /\ \E b \in blocks_for_shard(TotalBlocks, p.total_senders, p.residue) :
          b \in blocks_for_shard(TotalBlocks, q.total_senders, q.residue)

(***************************************************************************)
(* No block reaches the senders twice: of the shard it is in there is one  *)
(* copy, in the queue of one sender, in the hands of one of its writers or *)
(* delivered, through every retry and every reconnection.  And a block     *)
(* logged as lost reaches no sender.                                       *)
(***************************************************************************)
BlocksReachSendersOnce ==
    \A s \in Senders :
        /\ \A t \in Senders : \A p \in Underway(s), q \in Underway(t) :
              s # t \/ p # q => ~ Overlap(p, q)
        /\ \A p \in Underway(s), e \in Elements(lost) : ~ Overlap(p, e)
        /\ delivered[s] \cap Pending(s) = {}
        /\ Linked(s) => no_duplicates(queue[s]) /\ limbo[s] \cap Elements(queue[s]) = {}

(***************************************************************************)
(* _dispatched_sessions holds a session that has been dispatched, in part  *)
(* or as a whole, until a SessionComplete for it is handled, and lists     *)
(* the senders that were given a shard of it.                              *)
(***************************************************************************)
TrackedUntilComplete ==
    \A x \in Ended :
        LET assigned == {sent[i].sender_id : i \in {j \in DOMAIN sent : sent[j].session_id = x}}
        IN  /\ x \in DOMAIN dispatched => Elements(dispatched[x]) = assigned
            /\ assigned # {} /\ x \notin completed => x \in DOMAIN dispatched

(***************************************************************************)
(* A sender that cannot be reached costs at most one shard, over all       *)
(* sessions, for each hello or heartbeat of it that is handled: the failed *)
(* send takes it off the registry, no plan names it twice, and only a      *)
(* message of its own puts it back.  One that has left costs no more than  *)
(* what it had left in the incoming queue allows (main.py line 56).        *)
(***************************************************************************)
OneLossPerMessage == \A s \in Senders : losses[s] <= 1

(***************************************************************************)
(* A session is planned for senders heard within the timeout only: one     *)
(* silent for HEARTBEAT_INTERVAL_SECONDS * MISSED_HEARTBEAT_LIMIT seconds  *)
(* is not given a shard, and its silence shifts the residues of the rest.  *)
(***************************************************************************)
OnlyHeardSendersPlanned ==
    [][StartSession => \A i \in DOMAIN job'.assignments :
          quiet[job'.assignments[i].sender_id] < timeout_seconds]_vars

(***************************************************************************)
(* A dispatch comes to an end, even if every send queue stays full: the    *)
(* retries are bounded, so one stuck sender does not stop the pipeline.    *)
(***************************************************************************)
DispatchEnds == pc # "idle" ~> pc = "idle"

(***************************************************************************)
(* Stated by the documents, and not so.                                    *)
(***************************************************************************)

\* SENDER_CONTRACT.md, SessionComplete: "file-monitor drops the session from
\* its tracking."
CompletedSessionDropped == completed \cap DOMAIN dispatched = {}

\* SENDER_CONTRACT.md, property 4: a shard whose sender disconnected is
\* "logged as lost and dropped".  So a shard that was accepted is still on
\* its way, was delivered, or is logged.
UndeliveredShardLogged ==
    \A i \in DOMAIN sent :
        LET s == sent[i].sender_id
        IN  sent[i] \in Pending(s) \cup delivered[s] \cup Elements(lost)
=============================================================================
