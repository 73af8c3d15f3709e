----------------------- MODULE SessionDispatcherProofs -----------------------
(***************************************************************************)
(* Proofs about SessionDispatcher, for every set of senders, every file    *)
(* size, every queue size, every timeout and every number of retries.      *)
(***************************************************************************)
EXTENDS SessionDispatcher, PlanningProofs, FiniteSetTheorems

(***************************************************************************)
(* The inductive invariant, in parts.                                      *)
(***************************************************************************)

\* A dispatch has drawn its session id and is not over.
Active == pc \in {"sending", "retry"}

\* Shards of the first n sessions.
ShardsUpTo(n) ==
    [session_id : 1 .. n, sender_id : Senders, total_senders : Nat, residue : Nat]

Assignments ==
    [sender_id : Senders, shard_modulus : Nat, shard_residue : Nat,
     assigned_blocks : SUBSET Nat, target_port : Nat]

\* What senders say in the first n sessions.
Said(n) == {SenderHello} \cup Incoming \cup {SessionComplete(x) : x \in 1 .. n}

PortTyped ==
    /\ DOMAIN queue = Senders
    /\ \A s \in Senders :
          Linked(s) => queue[s] \in Seq(ShardsUpTo(sessions)) /\ Len(queue[s]) <= SendQueueMax
    /\ limbo \in [Senders -> SUBSET ShardsUpTo(sessions)]
    /\ delivered \in [Senders -> SUBSET ShardsUpTo(sessions)]
    /\ feeds \in [Senders -> 0 .. MaxFeeds]
    /\ incoming \in Seq([from : Senders, msg : Said(sessions)])
    /\ Len(incoming) <= IncomingMax

RegistryTyped ==
    /\ registry \in [DOMAIN registry -> 0 .. timeout_seconds + 1]
    /\ DOMAIN registry \subseteq Senders
    /\ IsFiniteSet(DOMAIN registry)
    /\ quiet \in [Senders -> 0 .. timeout_seconds]

Jobs ==
    [session_id : Nat, assignments : Seq(Assignments), index : Nat, attempt : Nat,
     succeeded : Seq(Senders), lost_assignments : Seq(Assignments)]

JobTyped ==
    /\ pc \in {"idle", "hashing", "sending", "retry"}
    /\ sessions \in 0 .. MaxSessions
    /\ job \in Jobs
    /\ job.attempt < MAX_DISPATCH_ATTEMPTS
    /\ job.index \in 1 .. Len(job.assignments) + 1
    /\ pc = "retry" => job.attempt + 1 < MAX_DISPATCH_ATTEMPTS
    /\ pc = "hashing" => sessions < MaxSessions
    /\ ~ Active => job = NoJob
    /\ Active => job.session_id = sessions /\ sessions > 0

LogTyped ==
    /\ sent \in Seq(ShardsUpTo(sessions))
    /\ lost \in Seq(ShardsUpTo(sessions))
    /\ DOMAIN dispatched \subseteq 1 .. sessions
    /\ completed \subseteq 1 .. sessions
    /\ losses \in [Senders -> Nat]

TypeInv == PortTyped /\ RegistryTyped /\ JobTyped /\ LogTyped

\* The running dispatch follows a plan: one assignment per sender and per residue.
PlanInv ==
    Active =>
        /\ Len(job.assignments) > 0
        /\ \A k \in DOMAIN job.assignments :
              /\ job.assignments[k].shard_modulus = Len(job.assignments)
              /\ job.assignments[k].shard_residue = k - 1
        /\ \A k, l \in DOMAIN job.assignments :
              job.assignments[k].sender_id = job.assignments[l].sender_id => k = l

\* The message, and the log line, for assignment a of session x.
Shard(x, a) ==
    [session_id |-> x, sender_id |-> a.sender_id,
     total_senders |-> a.shard_modulus, residue |-> a.shard_residue]

\* Two shards of one session with the same sender or the same blocks.
Clash(e, f) ==
    e.session_id = f.session_id /\ (e.sender_id = f.sender_id \/ e.residue = f.residue)

Unique(p) == \A i, j \in DOMAIN p : Clash(p[i], p[j]) => i = j

Apart(p, q) == \A i \in DOMAIN p, j \in DOMAIN q : ~ Clash(p[i], q[j])

\* The log lines of the shards that the running dispatch has lost so far.
LossLines == [i \in DOMAIN job.lost_assignments |-> LogLine(job, i)]

\* No two entries of the history clash, the lines still to be written included.
NoClash ==
    /\ Unique(sent)
    /\ Unique(lost)
    /\ Unique(LossLines)
    /\ Apart(sent, lost)
    /\ Apart(sent, LossLines)

\* Of the running session the history holds the first index - 1 assignments.
Progressed ==
    Active =>
        /\ \A i \in DOMAIN lost : lost[i].session_id # sessions
        /\ \A i \in DOMAIN sent : sent[i].session_id = sessions =>
              \E k \in 1 .. job.index - 1 : sent[i] = Shard(sessions, job.assignments[k])
        /\ \A i \in DOMAIN job.lost_assignments :
              \E k \in 1 .. job.index - 1 : job.lost_assignments[i] = job.assignments[k]
        /\ \A k \in 1 .. job.index - 1 :
              \/ Shard(sessions, job.assignments[k]) \in Elements(sent)
              \/ job.assignments[k] \in Elements(job.lost_assignments)

\* Of a session that has ended the history holds every residue of one modulus.
WholeSession(x) ==
    \E m \in Nat \ {0} :
        /\ \A e \in Elements(sent) \cup Elements(lost) :
              e.session_id = x => e.total_senders = m /\ e.residue < m
        /\ \A r \in 0 .. m - 1 : \E e \in Elements(sent) \cup Elements(lost) :
              e.session_id = x /\ e.residue = r

LogInv == NoClash /\ Progressed /\ \A x \in Ended : WholeSession(x)

\* The senders of the accepted shards of session x.
Assigned(x) == {sent[i].sender_id : i \in {j \in DOMAIN sent : sent[j].session_id = x}}

TrackInv ==
    /\ TrackedUntilComplete
    /\ Active => sessions \notin DOMAIN dispatched /\ Elements(job.succeeded) = Assigned(sessions)

\* A sender that has cost a shard is registered no more, and is not ahead in the plan.
LossInv ==
    \A s \in Senders : losses[s] > 0 =>
        /\ losses[s] = 1
        /\ s \notin DOMAIN registry
        /\ Active => \A k \in job.index .. Len(job.assignments) : job.assignments[k].sender_id # s

\* A sender that the registry takes for silent for less than the timeout has
\* been silent no longer than the registry has it.
SilenceInv ==
    \A s \in DOMAIN registry : registry[s] < timeout_seconds => quiet[s] <= registry[s]

(***************************************************************************)
(* Types.                                                                  *)
(***************************************************************************)

LEMMA TimeoutPositive == timeout_seconds \in Nat /\ timeout_seconds > 0
BY RegistryAssumption DEF timeout_seconds

LEMMA SeqMonotone ==
    ASSUME NEW S, NEW T, S \subseteq T
    PROVE  Seq(S) \subseteq Seq(T)
OBVIOUS

LEMMA SequenceFunction ==
    ASSUME NEW S, NEW q \in Seq(S)
    PROVE  q = [i \in 1 .. Len(q) |-> q[i]]
OBVIOUS

\* A sequence has its elements in the set it is over, wherever they are.
LEMMA TailAndHead ==
    ASSUME NEW S, NEW q \in Seq(S), q # <<>>
    PROVE  Head(q) \in S /\ Head(q) \in Elements(q) /\ Tail(q) \in Seq(S)
           /\ Len(Tail(q)) <= Len(q) /\ Elements(Tail(q)) \subseteq Elements(q)
<1>1. Len(q) \in Nat /\ Len(q) > 0 /\ DOMAIN q = 1 .. Len(q)
  OBVIOUS
<1>2. /\ Head(q) = q[1]
      /\ Tail(q) \in Seq(S)
      /\ Len(Tail(q)) = Len(q) - 1
      /\ \A i \in 1 .. Len(q) - 1 : Tail(q)[i] = q[i + 1]
  BY <1>1
<1>3. \A i \in DOMAIN Tail(q) : i \in 1 .. Len(q) - 1
  BY <1>1, <1>2
<1> QED
  BY <1>1, <1>2, <1>3 DEF Elements

LEMMA ShardsMonotone ==
    ASSUME NEW n \in Nat
    PROVE  /\ ShardsUpTo(n) \subseteq ShardsUpTo(n + 1)
           /\ Said(n) \subseteq Said(n + 1)
BY DEF ShardsUpTo, Said

\* A session is completed by a SessionComplete for it, and by nothing else.
LEMMA CompletesKnownSession ==
    ASSUME NEW n \in Nat, NEW m \in Said(n), m.type = "session_complete"
    PROVE  m.session_id \in 1 .. n
BY DispatchAssumption DEF Said, SenderHello, SessionComplete

LEMMA PortTypedInit == Init => PortTyped
<1> SUFFICES ASSUME Init PROVE PortTyped
  OBVIOUS
<1> USE DEF Init, PortInit
<1>1. \A s \in Senders : ~ Linked(s)
  BY DEF Linked
<1>2. Len(incoming) <= IncomingMax /\ incoming \in Seq([from : Senders, msg : Said(sessions)])
  BY PortAssumption
<1>3. feeds \in [Senders -> 0 .. MaxFeeds]
  BY DispatchAssumption
<1>4. limbo \in [Senders -> SUBSET ShardsUpTo(sessions)] /\ delivered \in [Senders -> SUBSET ShardsUpTo(sessions)]
  OBVIOUS
<1> QED
  BY <1>1, <1>2, <1>3, <1>4 DEF PortTyped

LEMMA PortUnchanged ==
    PortTyped /\ UNCHANGED <<portVars, sessions>> => PortTyped'
BY DEF PortTyped, portVars, Linked

LEMMA PortStartSession == JobTyped /\ PortTyped /\ StartSession => PortTyped'
<1> SUFFICES ASSUME JobTyped, PortTyped, StartSession PROVE PortTyped'
  OBVIOUS
<1>1. sessions \in Nat /\ sessions' = sessions + 1 /\ UNCHANGED portVars
  BY DispatchAssumption DEF JobTyped, StartSession
<1>2. ShardsUpTo(sessions) \subseteq ShardsUpTo(sessions') /\ Said(sessions) \subseteq Said(sessions')
  BY <1>1, ShardsMonotone
<1>3. Seq(ShardsUpTo(sessions)) \subseteq Seq(ShardsUpTo(sessions'))
  BY <1>2, SeqMonotone
<1>4. Seq([from : Senders, msg : Said(sessions)]) \subseteq Seq([from : Senders, msg : Said(sessions')])
  <2>1. [from : Senders, msg : Said(sessions)] \subseteq [from : Senders, msg : Said(sessions')]
    BY <1>2
  <2> QED
    BY <2>1, SeqMonotone
<1>5. SUBSET ShardsUpTo(sessions) \subseteq SUBSET ShardsUpTo(sessions')
  BY <1>2
<1> QED
  BY <1>1, <1>3, <1>4, <1>5 DEF PortTyped, portVars, Linked

LEMMA CurrentAssignment ==
    ASSUME JobTyped, Sending
    PROVE  /\ job.index \in DOMAIN job.assignments
           /\ Assignment \in Assignments
           /\ AssignSession = Shard(sessions, Assignment)
           /\ AssignSession \in ShardsUpTo(sessions)
<1>1. job.index \in 1 .. Len(job.assignments) /\ job.assignments \in Seq(Assignments)
  BY DEF JobTyped, Jobs, Sending
<1>2. Assignment \in Assignments
  BY <1>1 DEF Assignment
<1>3. job.session_id = sessions /\ sessions \in 1 .. sessions
  BY DispatchAssumption DEF JobTyped, Sending, Active
<1>4. AssignSession = Shard(sessions, Assignment)
  BY <1>3 DEF AssignSession, Shard
<1>5. Shard(sessions, Assignment) \in ShardsUpTo(sessions)
  BY <1>2, <1>3 DEF Shard, ShardsUpTo, Assignments
<1> QED
  BY <1>1, <1>2, <1>4, <1>5

LEMMA SendOk ==
    ASSUME PortTyped, NEW s \in Senders, SendOutcome(s) = "ok"
    PROVE  Linked(s) /\ queue[s] \in Seq(ShardsUpTo(sessions)) /\ Len(queue[s]) < SendQueueMax
<1>1. Linked(s) /\ ~ (Len(queue[s]) >= SendQueueMax)
  BY DEF SendOutcome
<1> QED
  BY <1>1, PortAssumption DEF PortTyped

LEMMA PortSendAccepted == JobTyped /\ PortTyped /\ SendAccepted => PortTyped'
<1> SUFFICES ASSUME JobTyped, PortTyped, SendAccepted PROVE PortTyped'
  OBVIOUS
<1> DEFINE s == Assignment.sender_id
<1>1. s \in Senders /\ AssignSession \in ShardsUpTo(sessions)
  BY CurrentAssignment DEF SendAccepted, Assignments
<1>2. /\ SendOutcome(s) = "ok"
      /\ queue' = [queue EXCEPT ![s] = Append(@, AssignSession)]
      /\ UNCHANGED <<limbo, delivered, feeds, incoming, sessions>>
  BY DEF SendAccepted, Send
<1>3. Linked(s) /\ queue[s] \in Seq(ShardsUpTo(sessions)) /\ Len(queue[s]) < SendQueueMax
  BY <1>1, <1>2, SendOk
<1>4. /\ queue'[s] \in Seq(ShardsUpTo(sessions)) /\ Len(queue'[s]) <= SendQueueMax
      /\ DOMAIN queue' = Senders
      /\ \A t \in Senders : t # s => queue'[t] = queue[t]
  BY <1>1, <1>2, <1>3, PortAssumption DEF PortTyped
<1> HIDE DEF s
<1> QED
  BY <1>2, <1>4 DEF PortTyped, Linked

LEMMA PortTakeIncoming ==
    PortTyped /\ TakeIncoming /\ UNCHANGED sessions => PortTyped'
<1> SUFFICES ASSUME PortTyped, TakeIncoming, UNCHANGED sessions PROVE PortTyped'
  OBVIOUS
<1>1. /\ incoming' \in Seq([from : Senders, msg : Said(sessions)])
      /\ Len(incoming') <= IncomingMax
  BY TailAndHead, PortAssumption DEF PortTyped, TakeIncoming
<1> QED
  BY <1>1 DEF PortTyped, TakeIncoming, Linked

\* The set of payloads that may still go either way.
LEMMA PendingShards ==
    ASSUME PortTyped, NEW s \in Senders
    PROVE  Pending(s) \subseteq ShardsUpTo(sessions)
BY DEF PortTyped, Pending, Elements

LEMMA EnqueueTyped ==
    ASSUME PortTyped, NEW s \in Senders, NEW m \in Said(sessions), Enqueue(s, m)
    PROVE  /\ incoming' \in Seq([from : Senders, msg : Said(sessions)])
           /\ Len(incoming') <= IncomingMax
<1>1. [from |-> s, msg |-> m] \in [from : Senders, msg : Said(sessions)]
  OBVIOUS
<1> QED
  BY <1>1, PortAssumption DEF PortTyped, Enqueue

LEMMA PortAttach ==
    ASSUME PortTyped, NEW s \in Senders, feeds[s] < MaxFeeds, Attach(s, SenderHello),
           UNCHANGED sessions
    PROVE  PortTyped'
<1>1. incoming' \in Seq([from : Senders, msg : Said(sessions)]) /\ Len(incoming') <= IncomingMax
  <2>1. SenderHello \in Said(sessions)
    BY DEF Said
  <2>2. CASE UNCHANGED incoming
    BY <2>2 DEF PortTyped
  <2>3. CASE Enqueue(s, SenderHello)
    BY <2>1, <2>3, EnqueueTyped
  <2> QED
    BY <2>2, <2>3 DEF Attach
<1>2. limbo' \in [Senders -> SUBSET ShardsUpTo(sessions)]
  BY PendingShards DEF PortTyped, Attach
<1>3. feeds' \in [Senders -> 0 .. MaxFeeds]
  BY DispatchAssumption DEF PortTyped, Attach
<1>4. /\ DOMAIN queue' = Senders
      /\ queue'[s] \in Seq(ShardsUpTo(sessions)) /\ Len(queue'[s]) <= SendQueueMax
      /\ \A t \in Senders : t # s => queue'[t] = queue[t]
  BY PortAssumption DEF PortTyped, Attach
<1> QED
  BY <1>1, <1>2, <1>3, <1>4 DEF PortTyped, Attach, Linked

LEMMA PortPost ==
    ASSUME PortTyped, NEW s \in Senders, NEW m \in Said(sessions), Post(s, m), UNCHANGED sessions
    PROVE  PortTyped'
<1>1. incoming' \in Seq([from : Senders, msg : Said(sessions)]) /\ Len(incoming') <= IncomingMax
  BY EnqueueTyped DEF Post
<1> QED
  BY <1>1 DEF PortTyped, Post, Linked

LEMMA PortDetach ==
    ASSUME PortTyped, NEW s \in Senders, NEW ended \in {0, 1}, Detach(s, ended), UNCHANGED sessions
    PROVE  PortTyped'
<1>1. feeds' \in [Senders -> 0 .. MaxFeeds]
  BY DispatchAssumption DEF PortTyped, Detach
<1>2. limbo' \in [Senders -> SUBSET ShardsUpTo(sessions)]
  <2>1. limbo[s] \subseteq Pending(s)
    BY DEF Pending
  <2>2. PICK rest \in SUBSET Pending(s) : limbo' = [limbo EXCEPT ![s] = rest]
    BY <2>1 DEF Detach
  <2> QED
    BY <2>2, PendingShards DEF PortTyped
<1>3. DOMAIN queue' = Senders /\ \A t \in Senders : queue'[t] \in {queue[t], Unlinked}
  BY DEF PortTyped, Detach
<1> QED
  BY <1>1, <1>2, <1>3 DEF PortTyped, Detach, Linked

LEMMA PortBeginWrite ==
    ASSUME PortTyped, NEW s \in Senders, BeginWrite(s), UNCHANGED sessions
    PROVE  PortTyped'
<1>1. /\ queue[s] \in Seq(ShardsUpTo(sessions)) /\ queue[s] # <<>>
      /\ Len(queue[s]) <= SendQueueMax
  BY DEF PortTyped, BeginWrite
<1>2. /\ Head(queue[s]) \in ShardsUpTo(sessions)
      /\ Tail(queue[s]) \in Seq(ShardsUpTo(sessions))
      /\ Len(Tail(queue[s])) <= SendQueueMax
  <2>1. Len(Tail(queue[s])) \in Nat /\ Len(queue[s]) \in Nat
    BY <1>1
  <2> QED
    BY <1>1, <2>1, TailAndHead, PortAssumption
<1>3. limbo' \in [Senders -> SUBSET ShardsUpTo(sessions)]
  BY <1>2 DEF PortTyped, BeginWrite
<1>4. /\ DOMAIN queue' = Senders
      /\ queue'[s] = Tail(queue[s])
      /\ \A t \in Senders : t # s => queue'[t] = queue[t]
  BY DEF PortTyped, BeginWrite
<1> QED
  BY <1>2, <1>3, <1>4 DEF PortTyped, BeginWrite, Linked

LEMMA PortDeliver ==
    ASSUME PortTyped, NEW s \in Senders, Deliver(s), UNCHANGED sessions
    PROVE  PortTyped'
<1>1. limbo' \in [Senders -> SUBSET ShardsUpTo(sessions)]
  BY DEF PortTyped, Deliver
<1>2. delivered' \in [Senders -> SUBSET ShardsUpTo(sessions)]
  BY DEF PortTyped, Deliver
<1> QED
  BY <1>1, <1>2 DEF PortTyped, Deliver, Linked

\* What the registry's operations leave of it.
LEMMA RegistryOperations ==
    ASSUME RegistryTyped, NEW s \in Senders
    PROVE  /\ DOMAIN purge_expired(registry) = {t \in DOMAIN registry : registry[t] < timeout_seconds}
           /\ \A t \in DOMAIN purge_expired(registry) : purge_expired(registry)[t] = registry[t]
           /\ DOMAIN remove(registry, s) = DOMAIN registry \ {s}
           /\ \A t \in DOMAIN remove(registry, s) : remove(registry, s)[t] = registry[t]
           /\ DOMAIN register(registry, s) = DOMAIN registry \cup {s}
           /\ register(registry, s)[s] = 0
           /\ \A t \in DOMAIN registry : t # s => register(registry, s)[t] = registry[t]
           /\ DOMAIN Elapse(registry) = DOMAIN registry
           /\ \A t \in DOMAIN registry : Elapse(registry)[t] =
                  IF registry[t] <= timeout_seconds THEN registry[t] + 1 ELSE registry[t]
<1>1. \A t \in DOMAIN registry : registry[t] \in Int
  BY TimeoutPositive DEF RegistryTyped
<1>2. \A t \in DOMAIN registry : (~ expired(registry, t)) <=> registry[t] < timeout_seconds
  BY <1>1, TimeoutPositive DEF expired
<1>3. DOMAIN purge_expired(registry) = {t \in DOMAIN registry : registry[t] < timeout_seconds}
  BY <1>2 DEF purge_expired
<1>4. \A t \in DOMAIN purge_expired(registry) : purge_expired(registry)[t] = registry[t]
  BY DEF purge_expired
<1> QED
  BY <1>3, <1>4 DEF remove, register, Elapse

LEMMA RegistryTypedInit == Init => RegistryTyped
<1> SUFFICES ASSUME Init PROVE RegistryTyped
  OBVIOUS
<1>1. registry = [s \in {} |-> 0] /\ quiet = [s \in Senders |-> timeout_seconds]
  BY DEF Init, empty_registry
<1>2. IsFiniteSet(DOMAIN registry)
  BY <1>1, FS_EmptySet
<1> QED
  BY <1>1, <1>2, TimeoutPositive DEF RegistryTyped

\* Fewer senders, with the silences they had.
LEMMA RegistryShrinks ==
    ASSUME RegistryTyped, UNCHANGED quiet, registry' = [t \in DOMAIN registry' |-> registry'[t]],
           DOMAIN registry' \subseteq DOMAIN registry,
           \A t \in DOMAIN registry' : registry'[t] = registry[t]
    PROVE  RegistryTyped'
<1>1. IsFiniteSet(DOMAIN registry')
  BY FS_Subset DEF RegistryTyped
<1> QED
  BY <1>1 DEF RegistryTyped

LEMMA RegistryPurge ==
    ASSUME RegistryTyped, UNCHANGED quiet, registry' = purge_expired(registry)
    PROVE  RegistryTyped'
<1>1. registry' = [t \in DOMAIN registry' |-> registry'[t]]
  BY DEF purge_expired
<1>2. DOMAIN registry' \subseteq DOMAIN registry /\ \A t \in DOMAIN registry' : registry'[t] = registry[t]
  BY DEF purge_expired
<1> QED
  BY <1>1, <1>2, RegistryShrinks

LEMMA RegistryRemove ==
    ASSUME RegistryTyped, UNCHANGED quiet, NEW s, registry' = remove(registry, s)
    PROVE  RegistryTyped'
<1>1. registry' = [t \in DOMAIN registry' |-> registry'[t]]
  BY DEF remove
<1>2. DOMAIN registry' \subseteq DOMAIN registry /\ \A t \in DOMAIN registry' : registry'[t] = registry[t]
  BY DEF remove
<1> QED
  BY <1>1, <1>2, RegistryShrinks

\* The next message is one that a sender sent.
LEMMA NextIncoming ==
    ASSUME PortTyped, incoming # <<>>
    PROVE  Head(incoming).from \in Senders /\ Head(incoming).msg \in Said(sessions)
<1>1. Head(incoming) \in [from : Senders, msg : Said(sessions)]
  BY TailAndHead DEF PortTyped
<1> QED
  BY <1>1

LEMMA RegistryAlive == PortTyped /\ RegistryTyped /\ HandleAlive => RegistryTyped'
<1> SUFFICES ASSUME PortTyped, RegistryTyped, HandleAlive PROVE RegistryTyped'
  OBVIOUS
<1>1. PICK s \in Senders : registry' = register(registry, s) /\ quiet' = [quiet EXCEPT ![s] = 0]
  BY NextIncoming DEF HandleAlive
<1>2. IsFiniteSet(DOMAIN registry \cup {s})
  BY FS_AddElement DEF RegistryTyped
<1>3. registry' \in [DOMAIN registry \cup {s} -> 0 .. timeout_seconds + 1]
  BY <1>1, TimeoutPositive DEF RegistryTyped, register
<1>4. quiet' \in [Senders -> 0 .. timeout_seconds]
  BY <1>1, TimeoutPositive DEF RegistryTyped
<1>5. DOMAIN registry' = DOMAIN registry \cup {s}
  BY <1>3
<1> QED
  BY <1>2, <1>3, <1>4, <1>5 DEF RegistryTyped

LEMMA RegistryTick == RegistryTyped /\ Tick => RegistryTyped'
<1> SUFFICES ASSUME RegistryTyped, Tick PROVE RegistryTyped'
  OBVIOUS
<1>1. DOMAIN registry' = DOMAIN registry
  BY DEF Tick, Elapse
<1>2. registry' \in [DOMAIN registry -> 0 .. timeout_seconds + 1]
  BY TimeoutPositive DEF RegistryTyped, Tick, Elapse
<1>3. quiet' \in [Senders -> 0 .. timeout_seconds]
  <2>1. \A s \in Senders : minimum(quiet[s] + 1, timeout_seconds) \in 0 .. timeout_seconds
    BY TimeoutPositive DEF RegistryTyped, minimum
  <2> QED
    BY <2>1 DEF Tick
<1> QED
  BY <1>1, <1>2, <1>3 DEF RegistryTyped

LEMMA JobTypedInit == Init => JobTyped
BY DispatchAssumption DEF Init, JobTyped, Jobs, NoJob, Active

LEMMA NoJobTyped == NoJob \in Jobs
BY DEF NoJob, Jobs

LEMMA JobIdle ==
    ASSUME JobTyped, pc \in {"idle", "hashing"}, UNCHANGED <<job, sessions>>,
           pc' = "idle" \/ (pc' = "hashing" /\ sessions < MaxSessions)
    PROVE  JobTyped'
BY DEF JobTyped, Active

\* The senders of a plan in increasing order, as derive_shard_assignments takes them.
LEMMA SortedSequence ==
    ASSUME NEW ids, ids \subseteq Senders, IsFiniteSet(ids), ids # {}, NEW q \in sorted(ids)
    PROVE  /\ q \in Seq(Senders)
           /\ Len(q) \in Nat /\ Len(q) > 0
           /\ DOMAIN q = 1 .. Len(q)
           /\ \A i \in DOMAIN q : q[i] \in ids
           /\ \A i, j \in DOMAIN q : q[i] = q[j] => i = j
<1> DEFINE n == Cardinality(ids)
<1>1. n \in Nat /\ n # 0
  BY FS_CardinalityType, FS_EmptySet
<1>2. q \in [1 .. n -> ids] /\ \A i, j \in 1 .. n : i < j => q[i] < q[j]
  BY DEF sorted
<1> HIDE DEF n
<1>3. q \in Seq(ids) /\ Len(q) = n /\ DOMAIN q = 1 .. n
  BY <1>1, <1>2
<1>4. q \in Seq(Senders)
  BY <1>3, SeqMonotone
<1>5. \A i \in 1 .. n : q[i] \in Int
  <2>1. ids \subseteq Int
    BY DispatchAssumption
  <2> QED
    BY <1>2, <2>1
<1>6. \A i, j \in 1 .. n : q[i] = q[j] => i = j
  BY <1>1, <1>2, <1>5
<1> QED
  BY <1>1, <1>2, <1>3, <1>4, <1>6

LEMMA Planned ==
    ASSUME NEW q \in Seq(Senders), Len(q) > 0
    PROVE  LET plan == derive_shard_assignments(TotalBlocks, q, BasePort)
           IN  /\ plan \in Seq(Assignments)
               /\ Len(plan) = Len(q)
               /\ \A k \in 1 .. Len(q) :
                     /\ plan[k].sender_id = q[k]
                     /\ plan[k].shard_modulus = Len(q)
                     /\ plan[k].shard_residue = k - 1
<1> DEFINE plan == derive_shard_assignments(TotalBlocks, q, BasePort)
<1>1. Len(q) \in Nat /\ DOMAIN q = 1 .. Len(q)
  OBVIOUS
<1>2. DOMAIN plan = 1 .. Len(q) /\ plan = [k \in 1 .. Len(q) |-> plan[k]]
  BY <1>1 DEF derive_shard_assignments
<1>3. ASSUME NEW k \in 1 .. Len(q)
      PROVE  /\ plan[k] \in Assignments
             /\ plan[k].sender_id = q[k]
             /\ plan[k].shard_modulus = Len(q)
             /\ plan[k].shard_residue = k - 1
  <2> DEFINE blocks == blocks_for_shard(TotalBlocks, Len(q), k - 1)
  <2>1. plan[k] = [sender_id |-> q[k], shard_modulus |-> Len(q), shard_residue |-> k - 1,
                   assigned_blocks |-> blocks, target_port |-> BasePort + (k - 1)]
    BY <1>1 DEF derive_shard_assignments, residue_at
  <2>2. blocks \in SUBSET Nat
    BY DispatchAssumption DEF blocks_for_shard
  <2>3. q[k] \in Senders /\ Len(q) \in Nat /\ k - 1 \in Nat /\ BasePort + (k - 1) \in Nat
    BY <1>1, DispatchAssumption
  <2> HIDE DEF plan, blocks
  <2> QED
    BY <2>1, <2>2, <2>3 DEF Assignments
<1> HIDE DEF plan
<1>4. plan \in [1 .. Len(q) -> Assignments]
  BY <1>2, <1>3
<1>5. plan \in Seq(Assignments) /\ Len(plan) = Len(q)
  BY <1>1, <1>4
<1> QED
  BY <1>3, <1>5 DEF plan

\* A session starts with the active senders in increasing order.
LEMMA Starts ==
    ASSUME RegistryTyped, JobTyped, StartSession
    PROVE  \E q \in Seq(Senders) :
              /\ Len(q) \in Nat /\ Len(q) > 0
              /\ \A i \in 1 .. Len(q) : q[i] \in DOMAIN purge_expired(registry)
              /\ \A i, j \in 1 .. Len(q) : q[i] = q[j] => i = j
              /\ job' = [session_id |-> sessions + 1,
                         assignments |-> derive_shard_assignments(TotalBlocks, q, BasePort),
                         index |-> 1, attempt |-> 0, succeeded |-> <<>>, lost_assignments |-> <<>>]
<1>1. RegistryTyped'
  BY RegistryPurge DEF StartSession, history
<1>2. PICK q \in sorted(DOMAIN registry') :
        job' = [NoJob EXCEPT
                  !.session_id  = sessions + 1,
                  !.assignments = derive_shard_assignments(TotalBlocks, q, BasePort)]
  BY DEF StartSession
<1>3. /\ q \in Seq(Senders)
      /\ Len(q) \in Nat /\ Len(q) > 0
      /\ DOMAIN q = 1 .. Len(q)
      /\ \A i \in DOMAIN q : q[i] \in DOMAIN registry'
      /\ \A i, j \in DOMAIN q : q[i] = q[j] => i = j
  BY <1>1, SortedSequence DEF RegistryTyped, StartSession
<1>4. job' = [session_id |-> sessions + 1,
              assignments |-> derive_shard_assignments(TotalBlocks, q, BasePort),
              index |-> 1, attempt |-> 0, succeeded |-> <<>>, lost_assignments |-> <<>>]
  BY <1>2 DEF NoJob
<1>5. registry' = purge_expired(registry)
  BY DEF StartSession
<1> QED
  BY <1>3, <1>4, <1>5

LEMMA JobStart == RegistryTyped /\ JobTyped /\ StartSession => JobTyped'
<1> SUFFICES ASSUME RegistryTyped, JobTyped, StartSession PROVE JobTyped'
  OBVIOUS
<1> DEFINE plan(q) == derive_shard_assignments(TotalBlocks, q, BasePort)
<1>1. PICK q \in Seq(Senders) :
        /\ Len(q) \in Nat /\ Len(q) > 0
        /\ job' = [session_id |-> sessions + 1, assignments |-> plan(q),
                   index |-> 1, attempt |-> 0, succeeded |-> <<>>, lost_assignments |-> <<>>]
  BY Starts
<1>2. plan(q) \in Seq(Assignments) /\ Len(plan(q)) = Len(q)
  BY <1>1, Planned
<1> HIDE DEF plan
<1>3. job' \in Jobs
  BY <1>1, <1>2, DispatchAssumption DEF JobTyped, Jobs
<1>4. sessions' = sessions + 1 /\ pc' = "sending" /\ sessions' \in 1 .. MaxSessions
  <2>1. pc = "hashing" /\ sessions' = sessions + 1 /\ pc' = "sending"
    BY DEF StartSession
  <2> QED
    BY <2>1, DispatchAssumption DEF JobTyped
<1> QED
  BY <1>1, <1>2, <1>3, <1>4, DispatchAssumption DEF JobTyped, Active

\* What each assignment to a field of the job leaves of it.
LEMMA WithSucceeded ==
    ASSUME NEW j \in Jobs, NEW q \in Seq(Senders)
    PROVE  /\ [j EXCEPT !.succeeded = q] \in Jobs
           /\ [j EXCEPT !.succeeded = q].session_id = j.session_id
           /\ [j EXCEPT !.succeeded = q].assignments = j.assignments
           /\ [j EXCEPT !.succeeded = q].index = j.index
           /\ [j EXCEPT !.succeeded = q].attempt = j.attempt
           /\ [j EXCEPT !.succeeded = q].succeeded = q
           /\ [j EXCEPT !.succeeded = q].lost_assignments = j.lost_assignments
<1>1. [j EXCEPT !.succeeded = q] \in Jobs
  BY DEF Jobs
<1>2. [j EXCEPT !.succeeded = q].session_id = j.session_id
  BY DEF Jobs
<1>3. [j EXCEPT !.succeeded = q].assignments = j.assignments
  BY DEF Jobs
<1>4. [j EXCEPT !.succeeded = q].index = j.index
  BY DEF Jobs
<1>5. [j EXCEPT !.succeeded = q].attempt = j.attempt
  BY DEF Jobs
<1>6. [j EXCEPT !.succeeded = q].succeeded = q
  BY DEF Jobs
<1>7. [j EXCEPT !.succeeded = q].lost_assignments = j.lost_assignments
  BY DEF Jobs
<1> QED
  BY <1>1, <1>2, <1>3, <1>4, <1>5, <1>6, <1>7

LEMMA WithLost ==
    ASSUME NEW j \in Jobs, NEW q \in Seq(Assignments)
    PROVE  /\ [j EXCEPT !.lost_assignments = q] \in Jobs
           /\ [j EXCEPT !.lost_assignments = q].session_id = j.session_id
           /\ [j EXCEPT !.lost_assignments = q].assignments = j.assignments
           /\ [j EXCEPT !.lost_assignments = q].index = j.index
           /\ [j EXCEPT !.lost_assignments = q].attempt = j.attempt
           /\ [j EXCEPT !.lost_assignments = q].succeeded = j.succeeded
           /\ [j EXCEPT !.lost_assignments = q].lost_assignments = q
<1>1. [j EXCEPT !.lost_assignments = q] \in Jobs
  BY DEF Jobs
<1>2. [j EXCEPT !.lost_assignments = q].session_id = j.session_id
  BY DEF Jobs
<1>3. [j EXCEPT !.lost_assignments = q].assignments = j.assignments
  BY DEF Jobs
<1>4. [j EXCEPT !.lost_assignments = q].index = j.index
  BY DEF Jobs
<1>5. [j EXCEPT !.lost_assignments = q].attempt = j.attempt
  BY DEF Jobs
<1>6. [j EXCEPT !.lost_assignments = q].succeeded = j.succeeded
  BY DEF Jobs
<1>7. [j EXCEPT !.lost_assignments = q].lost_assignments = q
  BY DEF Jobs
<1> QED
  BY <1>1, <1>2, <1>3, <1>4, <1>5, <1>6, <1>7

LEMMA NextAssignmentJob ==
    ASSUME NEW j \in Jobs
    PROVE  /\ NextAssignment(j) \in Jobs
           /\ NextAssignment(j).session_id = j.session_id
           /\ NextAssignment(j).assignments = j.assignments
           /\ NextAssignment(j).index = j.index + 1
           /\ NextAssignment(j).attempt = 0
           /\ NextAssignment(j).succeeded = j.succeeded
           /\ NextAssignment(j).lost_assignments = j.lost_assignments
<1>1. NextAssignment(j) \in Jobs
  <2> DEFINE n == j.index + 1
  <2>1. n \in Nat
    BY DEF Jobs
  <2>2. NextAssignment(j) = [j EXCEPT !.index = n, !.attempt = 0]
    BY DEF NextAssignment
  <2> HIDE DEF n
  <2>3. [j EXCEPT !.index = n, !.attempt = 0] \in Jobs
    BY <2>1 DEF Jobs
  <2> QED
    BY <2>2, <2>3
<1>2. NextAssignment(j).session_id = j.session_id
  BY DEF Jobs, NextAssignment
<1>3. NextAssignment(j).assignments = j.assignments
  BY DEF Jobs, NextAssignment
<1>4. NextAssignment(j).index = j.index + 1
  BY DEF Jobs, NextAssignment
<1>5. NextAssignment(j).attempt = 0
  BY DEF Jobs, NextAssignment
<1>6. NextAssignment(j).succeeded = j.succeeded
  BY DEF Jobs, NextAssignment
<1>7. NextAssignment(j).lost_assignments = j.lost_assignments
  BY DEF Jobs, NextAssignment
<1> QED
  BY <1>1, <1>2, <1>3, <1>4, <1>5, <1>6, <1>7

LEMMA NextAttemptJob ==
    ASSUME NEW j \in Jobs
    PROVE  /\ NextAttempt(j) \in Jobs
           /\ NextAttempt(j).session_id = j.session_id
           /\ NextAttempt(j).assignments = j.assignments
           /\ NextAttempt(j).index = j.index
           /\ NextAttempt(j).attempt = j.attempt + 1
           /\ NextAttempt(j).succeeded = j.succeeded
           /\ NextAttempt(j).lost_assignments = j.lost_assignments
<1>1. NextAttempt(j) \in Jobs
  <2> DEFINE n == j.attempt + 1
  <2>1. n \in Nat
    BY DEF Jobs
  <2>2. NextAttempt(j) = [j EXCEPT !.attempt = n]
    BY DEF NextAttempt
  <2> HIDE DEF n
  <2> QED
    BY <2>1, <2>2 DEF Jobs
<1>2. NextAttempt(j).session_id = j.session_id
  BY DEF Jobs, NextAttempt
<1>3. NextAttempt(j).assignments = j.assignments
  BY DEF Jobs, NextAttempt
<1>4. NextAttempt(j).index = j.index
  BY DEF Jobs, NextAttempt
<1>5. NextAttempt(j).attempt = j.attempt + 1
  BY DEF Jobs, NextAttempt
<1>6. NextAttempt(j).succeeded = j.succeeded
  BY DEF Jobs, NextAttempt
<1>7. NextAttempt(j).lost_assignments = j.lost_assignments
  BY DEF Jobs, NextAttempt
<1> QED
  BY <1>1, <1>2, <1>3, <1>4, <1>5, <1>6, <1>7

\* The job after an accepted send.
LEMMA AcceptedJob ==
    ASSUME JobTyped, SendAccepted
    PROVE  /\ job' \in Jobs
           /\ job'.session_id = job.session_id
           /\ job'.assignments = job.assignments
           /\ job'.index = job.index + 1
           /\ job'.attempt = 0
           /\ job'.succeeded = Append(job.succeeded, Assignment.sender_id)
           /\ job'.lost_assignments = job.lost_assignments
<1> DEFINE q == Append(job.succeeded, Assignment.sender_id)
           tried == [job EXCEPT !.succeeded = q]
<1>1. job \in Jobs /\ job' = NextAssignment(tried)
  BY DEF JobTyped, SendAccepted
<1>2. q \in Seq(Senders)
  <2>1. Assignment.sender_id \in Senders
    BY CurrentAssignment DEF SendAccepted, Assignments
  <2>2. job.succeeded \in Seq(Senders)
    BY <1>1 DEF Jobs
  <2> QED
    BY <2>1, <2>2
<1> HIDE DEF q
<1>3. tried \in Jobs /\ tried.succeeded = q
      /\ tried.session_id = job.session_id /\ tried.assignments = job.assignments
      /\ tried.index = job.index /\ tried.lost_assignments = job.lost_assignments
  BY <1>1, <1>2, WithSucceeded
<1> HIDE DEF tried
<1> QED
  BY <1>1, <1>3, NextAssignmentJob DEF q

\* The job after a shard is lost.
LEMMA LostJob ==
    ASSUME JobTyped, Sending, job' = Lose(job)
    PROVE  /\ job' \in Jobs
           /\ job'.session_id = job.session_id
           /\ job'.assignments = job.assignments
           /\ job'.index = job.index + 1
           /\ job'.attempt = 0
           /\ job'.succeeded = job.succeeded
           /\ job'.lost_assignments = Append(job.lost_assignments, Assignment)
<1> DEFINE q == Append(job.lost_assignments, Assignment)
           tried == [job EXCEPT !.lost_assignments = q]
<1>1. job \in Jobs /\ job' = NextAssignment(tried)
  BY DEF JobTyped, Lose, Assignment
<1>2. q \in Seq(Assignments)
  <2>1. Assignment \in Assignments
    BY CurrentAssignment
  <2>2. job.lost_assignments \in Seq(Assignments)
    BY <1>1 DEF Jobs
  <2> QED
    BY <2>1, <2>2
<1> HIDE DEF q
<1>3. tried \in Jobs /\ tried.succeeded = job.succeeded
      /\ tried.session_id = job.session_id /\ tried.assignments = job.assignments
      /\ tried.index = job.index /\ tried.lost_assignments = q
  BY <1>1, <1>2, WithLost
<1> HIDE DEF tried
<1> QED
  BY <1>1, <1>3, NextAssignmentJob DEF q

\* The dispatch goes on to the next assignment.
LEMMA JobAdvances ==
    ASSUME JobTyped, Sending, UNCHANGED <<pc, sessions>>, job' \in Jobs,
           job'.session_id = job.session_id, job'.assignments = job.assignments,
           job'.index = job.index + 1, job'.attempt = 0
    PROVE  JobTyped'
<1>1. Len(job.assignments) \in Nat
  BY DEF JobTyped, Jobs
<1>2. pc = "sending" /\ job.index <= Len(job.assignments)
  BY DEF Sending
<1> QED
  BY <1>1, <1>2, DispatchAssumption DEF JobTyped, Active

LEMMA JobTypedStep ==
    ASSUME RegistryTyped, JobTyped, [Next]_vars
    PROVE  JobTyped'
<1>1. CASE UNCHANGED <<pc, job, sessions>>
  BY <1>1 DEF JobTyped, Active
<1>2. CASE Detect
  BY <1>2, JobIdle DEF Detect
<1>3. CASE DispatchRaises \/ SkipNoSenders
  BY <1>3, JobIdle DEF DispatchRaises, SkipNoSenders
<1>4. CASE StartSession
  BY <1>4, JobStart
<1>5. CASE SendAccepted
  <2>1. Sending /\ UNCHANGED <<pc, sessions>>
    BY <1>5 DEF SendAccepted
  <2> QED
    BY <1>5, <2>1, AcceptedJob, JobAdvances
<1>6. CASE SendUnknown \/ SendFullLost
  <2>1. Sending /\ UNCHANGED <<pc, sessions>> /\ job' = Lose(job)
    BY <1>6 DEF SendUnknown, SendFullLost
  <2> QED
    BY <2>1, LostJob, JobAdvances
<1>7. CASE SendFullRetry
  <2>1. pc = "sending" /\ pc' = "retry" /\ UNCHANGED <<job, sessions>> /\ job.attempt < MAX_DISPATCH_ATTEMPTS - 1
    BY <1>7 DEF SendFullRetry, Sending, AttemptsLeft
  <2>2. job.attempt \in Nat
    BY DEF JobTyped, Jobs
  <2> QED
    BY <2>1, <2>2, DispatchAssumption DEF JobTyped, Active
<1>8. CASE RetryWakes
  <2>1. pc = "retry" /\ pc' = "sending" /\ UNCHANGED sessions /\ job' = NextAttempt(job) /\ job \in Jobs
    BY <1>8 DEF RetryWakes, JobTyped
  <2>2. /\ job' \in Jobs /\ job'.attempt = job.attempt + 1 /\ job'.session_id = job.session_id
        /\ job'.assignments = job.assignments /\ job'.index = job.index
    BY <2>1, NextAttemptJob
  <2> QED
    BY <2>1, <2>2, DispatchAssumption DEF JobTyped, Active
<1>9. CASE Finish
  <2>1. pc' = "idle" /\ job' = NoJob /\ UNCHANGED sessions
    BY <1>9 DEF Finish
  <2>2. job'.attempt = 0 /\ job'.index = 1 /\ job'.assignments = <<>>
    BY <2>1 DEF NoJob
  <2> QED
    BY <2>1, <2>2, NoJobTyped, DispatchAssumption DEF JobTyped, Active
<1> QED
  BY <1>1, <1>2, <1>3, <1>4, <1>5, <1>6, <1>7, <1>8, <1>9
  DEF Next, vars, jobVars, DispatchStep, HandleAlive, HandleSessionComplete, HandleIgnored,
      SenderAttaches, SenderSays, SenderCompletes, LinkStep, Tick

LEMMA PortTypedStep ==
    ASSUME PortTyped, JobTyped, [Next]_vars
    PROVE  PortTyped'
<1>1. CASE UNCHANGED <<portVars, sessions>>
  BY <1>1, PortUnchanged
<1>2. CASE StartSession
  BY <1>2, PortStartSession
<1>3. CASE SendAccepted
  BY <1>3, PortSendAccepted
<1>4. CASE HandleAlive \/ HandleSessionComplete \/ HandleIgnored
  BY <1>4, PortTakeIncoming DEF HandleAlive, HandleSessionComplete, HandleIgnored, jobVars
<1>5. ASSUME NEW s \in Senders, SenderAttaches(s)
      PROVE  PortTyped'
  BY <1>5, PortAttach DEF SenderAttaches, jobVars
<1>6. ASSUME NEW s \in Senders, SenderSays(s)
      PROVE  PortTyped'
  <2>1. PICK m \in Incoming : Post(s, m)
    BY <1>6 DEF SenderSays
  <2>2. m \in Said(sessions) /\ UNCHANGED sessions
    BY <1>6 DEF Said, SenderSays, jobVars
  <2> QED
    BY <2>1, <2>2, PortPost
<1>7. ASSUME NEW s \in Senders, SenderCompletes(s)
      PROVE  PortTyped'
  <2>1. PICK p \in delivered[s] : Post(s, SessionComplete(p.session_id))
    BY <1>7 DEF SenderCompletes
  <2>2. p \in ShardsUpTo(sessions)
    BY DEF PortTyped
  <2>3. p.session_id \in 1 .. sessions
    BY <2>2 DEF ShardsUpTo
  <2>4. SessionComplete(p.session_id) \in Said(sessions) /\ UNCHANGED sessions
    BY <1>7, <2>3 DEF Said, SenderCompletes, jobVars
  <2> QED
    BY <2>1, <2>4, PortPost
<1>8. ASSUME NEW s \in Senders, LinkStep(s)
      PROVE  PortTyped'
  BY <1>8, PortDetach, PortBeginWrite, PortDeliver DEF LinkStep, jobVars
<1> QED
  BY <1>1, <1>2, <1>3, <1>4, <1>5, <1>6, <1>7, <1>8
  DEF Next, vars, portVars, jobVars, Detect, DispatchStep, DispatchRaises, SkipNoSenders, SendUnknown,
      SendFullRetry, RetryWakes, SendFullLost, Finish, Tick

LEMMA RegistryTypedStep ==
    ASSUME PortTyped, RegistryTyped, [Next]_vars
    PROVE  RegistryTyped'
<1>1. CASE UNCHANGED <<registry, quiet>>
  BY <1>1 DEF RegistryTyped
<1>2. CASE DispatchRaises \/ SkipNoSenders \/ StartSession
  <2>1. UNCHANGED quiet /\ registry' \in {registry, purge_expired(registry)}
    BY <1>2 DEF DispatchRaises, SkipNoSenders, StartSession, history
  <2> QED
    BY <1>1, <2>1, RegistryPurge
<1>3. CASE SendUnknown
  BY <1>3, RegistryRemove DEF SendUnknown
<1>4. CASE HandleAlive
  BY <1>4, RegistryAlive
<1>5. CASE Tick
  BY <1>5, RegistryTick
<1> QED
  BY <1>1, <1>2, <1>3, <1>4, <1>5
  DEF Next, vars, history, Detect, DispatchStep, SendAccepted, SendFullRetry, RetryWakes,
      SendFullLost, Finish, HandleSessionComplete, HandleIgnored, SenderAttaches, SenderSays,
      SenderCompletes, LinkStep

LEMMA LossLinesTyped ==
    ASSUME JobTyped, Active
    PROVE  /\ LossLines \in Seq(ShardsUpTo(sessions))
           /\ job.lost_assignments \in Seq(Assignments)
           /\ Len(LossLines) = Len(job.lost_assignments)
           /\ \A i \in DOMAIN job.lost_assignments :
                 LossLines[i] = Shard(sessions, job.lost_assignments[i])
<1> DEFINE la == job.lost_assignments
<1>1. la \in Seq(Assignments) /\ job.session_id = sessions /\ sessions \in 1 .. sessions
  BY DispatchAssumption DEF JobTyped, Jobs
<1> HIDE DEF la
<1>2. DOMAIN la = 1 .. Len(la) /\ Len(la) \in Nat
  BY <1>1
<1>3. LossLines = [i \in 1 .. Len(la) |-> LogLine(job, i)]
  BY <1>2 DEF LossLines, la
<1>4. ASSUME NEW i \in 1 .. Len(la)
      PROVE  LogLine(job, i) = Shard(sessions, la[i]) /\ LogLine(job, i) \in ShardsUpTo(sessions)
  <2>1. LogLine(job, i) = Shard(sessions, la[i])
    BY <1>1 DEF LogLine, Shard, la
  <2>2. la[i] \in Assignments
    BY <1>1, <1>2
  <2> QED
    BY <1>1, <2>1, <2>2 DEF Shard, ShardsUpTo, Assignments
<1>5. LossLines \in [1 .. Len(la) -> ShardsUpTo(sessions)]
  BY <1>3, <1>4
<1>6. LossLines \in Seq(ShardsUpTo(sessions)) /\ Len(LossLines) = Len(la)
  BY <1>2, <1>5
<1> QED
  BY <1>1, <1>2, <1>3, <1>4, <1>6 DEF la

LEMMA RecordDomain ==
    DOMAIN Record(job) = IF job.succeeded # <<>> THEN DOMAIN dispatched \cup {job.session_id} ELSE DOMAIN dispatched
BY DEF Record

LEMMA LogTypedStep ==
    ASSUME PortTyped, RegistryTyped, JobTyped, LogTyped, [Next]_vars
    PROVE  LogTyped'
<1>1. CASE UNCHANGED <<sessions, dispatched, sent, lost, completed, losses>>
  BY <1>1 DEF LogTyped
<1>2. CASE StartSession
  <2>1. sessions \in Nat /\ sessions' = sessions + 1
        /\ UNCHANGED <<dispatched, sent, lost, completed, losses>>
    BY <1>2, DispatchAssumption DEF StartSession, JobTyped, history
  <2>2. Seq(ShardsUpTo(sessions)) \subseteq Seq(ShardsUpTo(sessions')) /\ 1 .. sessions \subseteq 1 .. sessions'
    BY <2>1, ShardsMonotone, SeqMonotone
  <2> QED
    BY <2>1, <2>2 DEF LogTyped
<1>3. CASE SendAccepted
  <2>1. sent' = Append(sent, AssignSession) /\ UNCHANGED <<sessions, dispatched, lost, completed, losses>>
    BY <1>3 DEF SendAccepted
  <2>2. AssignSession \in ShardsUpTo(sessions)
    BY <1>3, CurrentAssignment DEF SendAccepted
  <2> QED
    BY <2>1, <2>2 DEF LogTyped
<1>4. CASE SendUnknown
  <2>1. Assignment.sender_id \in Senders
    BY <1>4, CurrentAssignment DEF SendUnknown, Assignments
  <2>2. losses' \in [Senders -> Nat]
    BY <1>4, <2>1 DEF SendUnknown, LogTyped
  <2> QED
    BY <1>4, <2>2 DEF SendUnknown, LogTyped
<1>5. CASE Finish
  <2>1. /\ Active
        /\ lost' = lost \o LossLines
        /\ dispatched' = Record(job)
        /\ UNCHANGED <<sessions, sent, completed, losses>>
    BY <1>5 DEF Finish, Active, LossLines
  <2>2. lost' \in Seq(ShardsUpTo(sessions))
    BY <2>1, LossLinesTyped DEF LogTyped
  <2>3. DOMAIN dispatched' \subseteq 1 .. sessions
    BY <2>1, RecordDomain, DispatchAssumption DEF JobTyped, LogTyped
  <2> QED
    BY <2>1, <2>2, <2>3 DEF LogTyped
<1>6. CASE HandleSessionComplete
  <2>1. Head(incoming).msg.session_id \in 1 .. sessions
    BY <1>6, NextIncoming, CompletesKnownSession, DispatchAssumption DEF HandleSessionComplete, JobTyped
  <2>2. DOMAIN dispatched' \subseteq DOMAIN dispatched
    BY <1>6 DEF HandleSessionComplete, complete_session
  <2> QED
    BY <1>6, <2>1, <2>2 DEF HandleSessionComplete, LogTyped
<1>7. CASE HandleAlive
  <2>1. Head(incoming).from \in Senders
    BY <1>7, NextIncoming DEF HandleAlive
  <2>2. losses' \in [Senders -> Nat]
    BY <1>7, <2>1 DEF HandleAlive, LogTyped
  <2> QED
    BY <1>7, <2>2 DEF HandleAlive, jobVars, LogTyped
<1> QED
  BY <1>1, <1>2, <1>3, <1>4, <1>5, <1>6, <1>7
  DEF Next, vars, jobVars, history, Detect, DispatchStep, DispatchRaises, SkipNoSenders, SendFullRetry,
      RetryWakes, SendFullLost, HandleIgnored, SenderAttaches, SenderSays, SenderCompletes, LinkStep, Tick

LEMMA TypeInvInit == Init => TypeInv
<1>1. Init => LogTyped
  BY DEF Init, LogTyped
<1> QED
  BY <1>1, PortTypedInit, RegistryTypedInit, JobTypedInit DEF TypeInv

LEMMA TypeInvStep == TypeInv /\ [Next]_vars => TypeInv'
BY PortTypedStep, RegistryTypedStep, JobTypedStep, LogTypedStep DEF TypeInv

LEMMA TypeInvImpliesTypeOK == TypeInv => TypeOK
<1> SUFFICES ASSUME TypeInv PROVE TypeOK
  OBVIOUS
<1> USE DEF TypeInv
<1>1. sessions \in Nat /\ sessions <= MaxSessions
  BY DispatchAssumption DEF JobTyped
<1>2. ShardsUpTo(sessions) \subseteq Shards
  BY <1>1, DispatchAssumption DEF ShardsUpTo, Shards, Sessions
<1>3. \A s \in Senders : Pending(s) \cup delivered[s] \subseteq Shards
  BY <1>2, PendingShards DEF PortTyped
<1>4. \A i \in DOMAIN incoming : incoming[i].from \in Senders
  <2> SUFFICES ASSUME NEW i \in DOMAIN incoming PROVE incoming[i].from \in Senders
    OBVIOUS
  <2> DEFINE Messages == [from : Senders, msg : Said(sessions)]
  <2>1. incoming \in Seq(Messages)
    BY DEF PortTyped
  <2> HIDE DEF Messages
  <2>2. incoming[i] \in Messages
    BY <2>1
  <2> QED
    BY <2>2 DEF Messages
<1>5. Elements(sent) \cup Elements(lost) \subseteq Shards
  BY <1>2 DEF LogTyped, Elements
<1>6. /\ \A s \in Senders : Linked(s) => Len(queue[s]) <= SendQueueMax
      /\ feeds \in [Senders -> 0 .. MaxFeeds]
      /\ Len(incoming) <= IncomingMax
  BY DEF PortTyped
<1>7. /\ DOMAIN registry \subseteq Senders
      /\ \A s \in DOMAIN registry : registry[s] \in 0 .. timeout_seconds + 1
  BY DEF RegistryTyped
<1>8. job.attempt \in 0 .. MAX_DISPATCH_ATTEMPTS - 1
  <2>1. job.attempt \in Nat /\ job.attempt < MAX_DISPATCH_ATTEMPTS
    BY DEF JobTyped, Jobs
  <2> QED
    BY <2>1, DispatchAssumption
<1>9. /\ pc \in {"idle", "hashing", "sending", "retry"}
      /\ pc \in {"idle", "hashing"} => job = NoJob
      /\ job.index \in 1 .. Len(job.assignments) + 1
      /\ sessions \in 0 .. MaxSessions
  BY DEF JobTyped, Active
<1>10. DOMAIN dispatched \subseteq 1 .. sessions /\ completed \subseteq 1 .. sessions
  BY DEF LogTyped
<1> QED
  BY <1>3, <1>4, <1>5, <1>6, <1>7, <1>8, <1>9, <1>10 DEF TypeOK

LEMMA TypeInvariant == Spec => []TypeInv
<1> QED
  BY TypeInvInit, TypeInvStep, PTL DEF Spec

(***************************************************************************)
(* Every queue, counter and record of the dispatcher stays within its      *)
(* type and its bound: a dispatch makes at most MAX_DISPATCH_ATTEMPTS      *)
(* attempts, and only sessions that exist are tracked or completed.        *)
(***************************************************************************)
THEOREM DispatcherTypeCorrect == Spec => []TypeOK
<1> QED
  BY TypeInvariant, TypeInvImpliesTypeOK, PTL

(***************************************************************************)
(* The steps, as the plan and the history see them.                        *)
(***************************************************************************)

SameJob ==
    /\ job'.session_id = job.session_id
    /\ job'.assignments = job.assignments
    /\ job'.index = job.index
    /\ job'.succeeded = job.succeeded
    /\ job'.lost_assignments = job.lost_assignments

\* Neither the job nor the history moves.
Aside ==
    /\ SameJob
    /\ UNCHANGED <<sessions, sent, lost>>
    /\ Active' = Active

\* A shard is lost.
Loses ==
    /\ Sending
    /\ job' = Lose(job)
    /\ UNCHANGED <<pc, dispatched, sessions, sent, lost, completed>>

LEMMA StepKinds ==
    ASSUME TypeInv, [Next]_vars
    PROVE  \/ Aside /\ (UNCHANGED <<dispatched, completed>> \/ HandleSessionComplete)
           \/ StartSession \/ SendAccepted \/ Loses \/ Finish
<1>1. CASE UNCHANGED <<pc, job, sessions, sent, lost>> /\ (UNCHANGED <<dispatched, completed>> \/ HandleSessionComplete)
  BY <1>1 DEF Aside, SameJob, Active
<1>2. CASE Detect \/ DispatchRaises \/ SkipNoSenders
  <2>1. UNCHANGED <<job, sessions, sent, lost, dispatched, completed>> /\ pc \in {"idle", "hashing"} /\ pc' \in {"idle", "hashing"}
    BY <1>2 DEF Detect, DispatchRaises, SkipNoSenders, history
  <2> QED
    BY <2>1 DEF Aside, SameJob, Active
<1>3. CASE SendUnknown \/ SendFullLost
  BY <1>3 DEF SendUnknown, SendFullLost, Loses, history
<1>4. CASE SendFullRetry
  <2>1. UNCHANGED <<job, sessions, sent, lost, dispatched, completed>> /\ pc = "sending" /\ pc' = "retry"
    BY <1>4 DEF SendFullRetry, Sending, history
  <2> QED
    BY <2>1 DEF Aside, SameJob, Active
<1>5. CASE RetryWakes
  <2>1. /\ UNCHANGED <<sessions, sent, lost, dispatched, completed>> /\ pc = "retry" /\ pc' = "sending"
        /\ job' = NextAttempt(job) /\ job \in Jobs
    BY <1>5 DEF RetryWakes, history, TypeInv, JobTyped
  <2>2. SameJob
    BY <2>1, NextAttemptJob DEF SameJob
  <2> QED
    BY <2>1, <2>2 DEF Aside, Active
<1> QED
  BY <1>1, <1>2, <1>3, <1>4, <1>5
  DEF Next, vars, jobVars, history, DispatchStep, HandleAlive, HandleSessionComplete, HandleIgnored,
      SenderAttaches, SenderSays, SenderCompletes, LinkStep, Tick

LEMMA PlanInvInit == Init => PlanInv
BY DEF Init, PlanInv, Active

LEMMA PlanInvStep == TypeInv /\ PlanInv /\ [Next]_vars => PlanInv'
<1> SUFFICES ASSUME TypeInv, PlanInv, [Next]_vars PROVE PlanInv'
  OBVIOUS
<1>1. CASE Aside
  BY <1>1 DEF Aside, SameJob, PlanInv
<1>2. CASE StartSession
  <2> DEFINE plan(q) == derive_shard_assignments(TotalBlocks, q, BasePort)
  <2>1. PICK q \in Seq(Senders) :
          /\ Len(q) \in Nat /\ Len(q) > 0
          /\ \A i, j \in 1 .. Len(q) : q[i] = q[j] => i = j
          /\ job'.assignments = plan(q)
    BY <1>2, Starts DEF TypeInv
  <2>2. /\ plan(q) \in Seq(Assignments) /\ Len(plan(q)) = Len(q)
        /\ \A k \in 1 .. Len(q) :
              /\ plan(q)[k].sender_id = q[k]
              /\ plan(q)[k].shard_modulus = Len(q)
              /\ plan(q)[k].shard_residue = k - 1
    BY <2>1, Planned
  <2> HIDE DEF plan
  <2>3. DOMAIN job'.assignments = 1 .. Len(q)
    BY <2>1, <2>2
  <2> QED
    BY <2>1, <2>2, <2>3 DEF PlanInv
<1>3. CASE SendAccepted
  <2>1. job'.assignments = job.assignments /\ UNCHANGED pc
    BY <1>3, AcceptedJob DEF SendAccepted, TypeInv
  <2> QED
    BY <2>1 DEF PlanInv, Active
<1>4. CASE Loses
  <2>1. job'.assignments = job.assignments /\ UNCHANGED pc
    BY <1>4, LostJob DEF Loses, TypeInv
  <2> QED
    BY <2>1 DEF PlanInv, Active
<1>5. CASE Finish
  BY <1>5 DEF Finish, PlanInv, Active
<1> QED
  BY <1>1, <1>2, <1>3, <1>4, <1>5, StepKinds

(***************************************************************************)
(* Sequences of shards.                                                    *)
(***************************************************************************)

LEMMA ElementsAppend ==
    ASSUME NEW S, NEW p \in Seq(S), NEW e \in S
    PROVE  Elements(Append(p, e)) = Elements(p) \cup {e}
<1>1. Len(p) \in Nat /\ DOMAIN p = 1 .. Len(p) /\ DOMAIN Append(p, e) = 1 .. Len(p) + 1
  OBVIOUS
<1>2. Append(p, e)[Len(p) + 1] = e /\ \A i \in 1 .. Len(p) : Append(p, e)[i] = p[i]
  OBVIOUS
<1>3. Elements(Append(p, e)) \subseteq Elements(p) \cup {e}
  BY <1>1, <1>2 DEF Elements
<1>4. Elements(p) \cup {e} \subseteq Elements(Append(p, e))
  <2>1. Len(p) + 1 \in DOMAIN Append(p, e) /\ \A i \in DOMAIN p : i \in DOMAIN Append(p, e)
    BY <1>1
  <2> QED
    BY <1>1, <1>2, <2>1 DEF Elements
<1> QED
  BY <1>3, <1>4

LEMMA ConcatIndex ==
    ASSUME NEW S, NEW p \in Seq(S), NEW q \in Seq(S), NEW i \in DOMAIN (p \o q)
    PROVE  \/ i \in DOMAIN p /\ (p \o q)[i] = p[i]
           \/ i - Len(p) \in DOMAIN q /\ (p \o q)[i] = q[i - Len(p)]
OBVIOUS

LEMMA ConcatOffset ==
    ASSUME NEW S, NEW p \in Seq(S), NEW q \in Seq(S)
    PROVE  /\ \A i \in DOMAIN p : i \in DOMAIN (p \o q) /\ (p \o q)[i] = p[i]
           /\ \A i \in DOMAIN q : i + Len(p) \in DOMAIN (p \o q) /\ (p \o q)[i + Len(p)] = q[i]
OBVIOUS

LEMMA ElementsConcat ==
    ASSUME NEW S, NEW p \in Seq(S), NEW q \in Seq(S)
    PROVE  Elements(p \o q) = Elements(p) \cup Elements(q)
<1>1. Elements(p \o q) \subseteq Elements(p) \cup Elements(q)
  BY ConcatIndex DEF Elements
<1>2. ASSUME NEW i \in DOMAIN p PROVE p[i] \in Elements(p \o q)
  BY ConcatOffset DEF Elements
<1>3. ASSUME NEW i \in DOMAIN q PROVE q[i] \in Elements(p \o q)
  <2>1. i + Len(p) \in DOMAIN (p \o q) /\ (p \o q)[i + Len(p)] = q[i]
    BY ConcatOffset
  <2> QED
    BY <2>1 DEF Elements
<1>4. Elements(p) \cup Elements(q) \subseteq Elements(p \o q)
  BY <1>2, <1>3 DEF Elements
<1> QED
  BY <1>1, <1>4

LEMMA ClashSymmetric == \A e, f : Clash(e, f) <=> Clash(f, e)
BY DEF Clash

LEMMA UniqueAppend ==
    ASSUME NEW S, NEW p \in Seq(S), NEW e \in S, Unique(p), \A f \in Elements(p) : ~ Clash(f, e)
    PROVE  Unique(Append(p, e))
<1>1. Len(p) \in Nat /\ DOMAIN p = 1 .. Len(p) /\ DOMAIN Append(p, e) = 1 .. Len(p) + 1
  OBVIOUS
<1>2. Append(p, e)[Len(p) + 1] = e /\ \A i \in 1 .. Len(p) : Append(p, e)[i] = p[i]
  OBVIOUS
<1>3. \A i \in 1 .. Len(p) : ~ Clash(p[i], e) /\ ~ Clash(e, p[i])
  BY <1>1, ClashSymmetric DEF Elements
<1> SUFFICES ASSUME NEW i \in 1 .. Len(p) + 1, NEW j \in 1 .. Len(p) + 1,
                    Clash(Append(p, e)[i], Append(p, e)[j])
             PROVE  i = j
  BY <1>1 DEF Unique
<1>4. CASE i \in 1 .. Len(p) /\ j \in 1 .. Len(p)
  BY <1>1, <1>2, <1>4 DEF Unique
<1>5. CASE i = Len(p) + 1 /\ j \in 1 .. Len(p)
  BY <1>2, <1>3, <1>5
<1>6. CASE i \in 1 .. Len(p) /\ j = Len(p) + 1
  BY <1>2, <1>3, <1>6
<1> QED
  BY <1>1, <1>4, <1>5, <1>6

\* Apart is about the elements only.
LEMMA ApartElements ==
    ASSUME NEW p, NEW q
    PROVE  Apart(p, q) <=> \A e \in Elements(p), f \in Elements(q) : ~ Clash(e, f)
BY DEF Apart, Elements

LEMMA UniqueConcat ==
    ASSUME NEW S, NEW p \in Seq(S), NEW q \in Seq(S), Unique(p), Unique(q), Apart(p, q)
    PROVE  Unique(p \o q)
<1> SUFFICES ASSUME NEW i \in DOMAIN (p \o q), NEW j \in DOMAIN (p \o q),
                    Clash((p \o q)[i], (p \o q)[j])
             PROVE  i = j
  BY DEF Unique
<1>1. Len(p) \in Int /\ i \in Int /\ j \in Int
  OBVIOUS
<1>2. \/ i \in DOMAIN p /\ (p \o q)[i] = p[i]
      \/ i - Len(p) \in DOMAIN q /\ (p \o q)[i] = q[i - Len(p)]
  BY ConcatIndex
<1>3. \/ j \in DOMAIN p /\ (p \o q)[j] = p[j]
      \/ j - Len(p) \in DOMAIN q /\ (p \o q)[j] = q[j - Len(p)]
  BY ConcatIndex
<1>4. \A k \in DOMAIN p, l \in DOMAIN q : ~ Clash(p[k], q[l]) /\ ~ Clash(q[l], p[k])
  BY ClashSymmetric DEF Apart
<1>5. i - Len(p) = j - Len(p) => i = j
  BY <1>1
<1> QED
  BY <1>2, <1>3, <1>4, <1>5 DEF Unique

(***************************************************************************)
(* The history.                                                            *)
(***************************************************************************)

LEMMA NoLossLines ==
    ASSUME job.lost_assignments = <<>>
    PROVE  DOMAIN LossLines = {} /\ Elements(LossLines) = {}
BY DEF LossLines, Elements

LEMMA LogInvInit == Init => LogInv
<1> SUFFICES ASSUME Init PROVE LogInv
  OBVIOUS
<1>1. sent = <<>> /\ lost = <<>> /\ job.lost_assignments = <<>> /\ ~ Active /\ sessions = 0
  BY DEF Init, NoJob, Active
<1>2. DOMAIN LossLines = {}
  BY <1>1, NoLossLines
<1>3. Ended = {}
  BY <1>1 DEF Ended, Active
<1>4. NoClash
  BY <1>1, <1>2 DEF NoClash, Unique, Apart
<1> QED
  BY <1>1, <1>3, <1>4 DEF LogInv, Progressed

\* The shard that is next clashes with nothing in the history.
LEMMA FreshShard ==
    ASSUME TypeInv, PlanInv, Progressed, Sending
    PROVE  \A f \in Elements(sent) \cup Elements(lost) \cup Elements(LossLines) :
              ~ Clash(f, AssignSession)
<1>1. Active /\ JobTyped
  BY DEF TypeInv, Sending, Active
<1>2. /\ job.index \in DOMAIN job.assignments
      /\ AssignSession = Shard(sessions, job.assignments[job.index])
  BY <1>1, CurrentAssignment DEF Assignment
<1>3. job.index \in Int /\ job.assignments \in Seq(Assignments)
  BY <1>1 DEF JobTyped, Jobs
<1>4. ASSUME NEW k \in 1 .. job.index - 1
      PROVE  ~ Clash(Shard(sessions, job.assignments[k]), AssignSession)
  <2>1. k \in DOMAIN job.assignments /\ k # job.index
    BY <1>2, <1>3
  <2>2. job.assignments[k].sender_id # job.assignments[job.index].sender_id
    BY <1>1, <1>2, <2>1 DEF PlanInv
  <2>3. job.assignments[k].shard_residue # job.assignments[job.index].shard_residue
    BY <1>1, <1>2, <1>3, <2>1 DEF PlanInv
  <2> QED
    BY <1>2, <2>2, <2>3 DEF Clash, Shard
<1>5. ASSUME NEW f \in Elements(sent) PROVE ~ Clash(f, AssignSession)
  <2>1. CASE f.session_id = sessions
    <3>1. \E k \in 1 .. job.index - 1 : f = Shard(sessions, job.assignments[k])
      BY <1>1, <1>5, <2>1 DEF Progressed, Elements
    <3> QED
      BY <1>4, <3>1
  <2>2. CASE f.session_id # sessions
    BY <1>2, <2>2 DEF Clash, Shard
  <2> QED
    BY <2>1, <2>2
<1>6. ASSUME NEW f \in Elements(lost) PROVE ~ Clash(f, AssignSession)
  <2>1. f.session_id # sessions
    BY <1>1, <1>6 DEF Progressed, Elements
  <2> QED
    BY <1>2, <2>1 DEF Clash, Shard
<1>7. ASSUME NEW f \in Elements(LossLines) PROVE ~ Clash(f, AssignSession)
  <2>1. PICK i \in DOMAIN job.lost_assignments : f = Shard(sessions, job.lost_assignments[i])
    <3>1. DOMAIN LossLines = DOMAIN job.lost_assignments
      BY DEF LossLines
    <3> QED
      BY <1>1, <1>7, <3>1, LossLinesTyped DEF Elements
  <2>2. \E k \in 1 .. job.index - 1 : f = Shard(sessions, job.assignments[k])
    BY <1>1, <2>1 DEF Progressed
  <2> QED
    BY <1>4, <2>2
<1> QED
  BY <1>5, <1>6, <1>7

\* The lines of a lost shard.
LEMMA LosesLine ==
    ASSUME TypeInv, Loses
    PROVE  LossLines' = Append(LossLines, AssignSession)
<1>1. JobTyped /\ Sending /\ Active
  BY DEF TypeInv, Loses, Sending, Active
<1>2. /\ job'.session_id = job.session_id
      /\ job'.lost_assignments = Append(job.lost_assignments, Assignment)
  BY <1>1, LostJob DEF Loses
<1> DEFINE la == job.lost_assignments
<1>3. la \in Seq(Assignments) /\ Assignment \in Assignments
  BY <1>1, LossLinesTyped, CurrentAssignment
<1>4. PICK n \in Nat : n = Len(la)
  BY <1>3
<1>5. /\ LossLines \in Seq(ShardsUpTo(sessions)) /\ Len(LossLines) = n
      /\ AssignSession \in ShardsUpTo(sessions)
  BY <1>1, <1>4, LossLinesTyped, CurrentAssignment
<1>6. LossLines = [i \in 1 .. n |-> LogLine(job, i)]
  BY <1>3, <1>4 DEF LossLines
<1>7. LossLines' = [i \in 1 .. n + 1 |-> LogLine(job, i)']
  <2>1. DOMAIN job'.lost_assignments = 1 .. n + 1
    BY <1>2, <1>3, <1>4
  <2> QED
    BY <2>1 DEF LossLines
<1>8. \A i \in 1 .. n : LogLine(job, i)' = LogLine(job, i)
  <2>1. \A i \in 1 .. n : job'.lost_assignments[i] = la[i]
    BY <1>2, <1>3, <1>4
  <2> QED
    BY <1>2, <2>1 DEF LogLine
<1>9. LogLine(job, n + 1)' = AssignSession
  <2>1. job'.lost_assignments[n + 1] = Assignment
    BY <1>2, <1>3, <1>4
  <2> QED
    BY <1>2, <2>1 DEF LogLine, AssignSession
<1>10. /\ Len(Append(LossLines, AssignSession)) = n + 1
       /\ \A i \in 1 .. n : Append(LossLines, AssignSession)[i] = LossLines[i]
       /\ Append(LossLines, AssignSession)[n + 1] = AssignSession
       /\ Append(LossLines, AssignSession) \in Seq(ShardsUpTo(sessions))
  BY <1>5, <1>4
<1>11. Append(LossLines, AssignSession) = [i \in 1 .. n + 1 |-> Append(LossLines, AssignSession)[i]]
  BY <1>10, SequenceFunction
<1>12. \A i \in 1 .. n + 1 : Append(LossLines, AssignSession)[i] = LogLine(job, i)'
  <2> SUFFICES ASSUME NEW i \in 1 .. n + 1
               PROVE  Append(LossLines, AssignSession)[i] = LogLine(job, i)'
    OBVIOUS
  <2>1. CASE i \in 1 .. n
    BY <1>6, <1>8, <1>10, <2>1
  <2>2. CASE i = n + 1
    BY <1>9, <1>10, <2>2
  <2>3. i \in 1 .. n \/ i = n + 1
    OBVIOUS
  <2> QED
    BY <2>1, <2>2, <2>3
<1> QED
  BY <1>7, <1>11, <1>12

LEMMA NoClashStep == TypeInv /\ PlanInv /\ LogInv /\ [Next]_vars => NoClash'
<1> SUFFICES ASSUME TypeInv, PlanInv, LogInv, [Next]_vars PROVE NoClash'
  OBVIOUS
<1> DEFINE S == ShardsUpTo(sessions)
<1>a. sent \in Seq(S) /\ lost \in Seq(S) /\ JobTyped
  BY DEF TypeInv, LogTyped
<1>b. NoClash /\ Progressed
  BY DEF LogInv
<1> HIDE DEF S
<1>1. CASE Aside
  <2>1. LossLines' = LossLines
    BY <1>1 DEF Aside, SameJob, LossLines, LogLine
  <2> QED
    BY <1>b, <1>1, <2>1 DEF NoClash, Aside, Unique, Apart
<1>2. CASE StartSession
  <2>1. DOMAIN LossLines' = {}
    <3>1. job'.lost_assignments = <<>>
      BY <1>2, Starts DEF TypeInv
    <3> QED
      BY <3>1 DEF LossLines
  <2>2. UNCHANGED <<sent, lost>>
    BY <1>2 DEF StartSession, history
  <2> QED
    BY <1>b, <2>1, <2>2 DEF NoClash, Unique, Apart
<1>3. CASE SendAccepted
  <2>1. Sending /\ sent' = Append(sent, AssignSession) /\ UNCHANGED lost
    BY <1>3 DEF SendAccepted
  <2>2. AssignSession \in S
    BY <1>a, <2>1, CurrentAssignment DEF S
  <2>3. LossLines' = LossLines
    BY <1>a, <1>3, AcceptedJob DEF LossLines, LogLine
  <2>4. \A f \in Elements(sent) \cup Elements(lost) \cup Elements(LossLines) :
          ~ Clash(f, AssignSession) /\ ~ Clash(AssignSession, f)
    BY <1>b, <2>1, FreshShard, ClashSymmetric
  <2>5. Unique(sent')
    BY <1>a, <1>b, <2>1, <2>2, <2>4, UniqueAppend DEF NoClash
  <2>6. Elements(sent') = Elements(sent) \cup {AssignSession}
    BY <1>a, <2>1, <2>2, ElementsAppend
  <2>7. Apart(sent', lost) /\ Apart(sent', LossLines)
    BY <1>b, <2>4, <2>6, ApartElements DEF NoClash
  <2> QED
    BY <1>b, <2>1, <2>3, <2>5, <2>7 DEF NoClash
<1>4. CASE Loses
  <2>1. Sending /\ Active /\ UNCHANGED <<sent, lost>>
    BY <1>4 DEF Loses, Sending, Active
  <2>2. LossLines' = Append(LossLines, AssignSession)
    BY <1>4, LosesLine
  <2>3. LossLines \in Seq(S) /\ AssignSession \in S
    BY <1>a, <2>1, CurrentAssignment, LossLinesTyped DEF S
  <2>4. \A f \in Elements(sent) \cup Elements(LossLines) : ~ Clash(f, AssignSession)
    BY <1>b, <2>1, FreshShard
  <2>5. Unique(LossLines')
    BY <1>b, <2>2, <2>3, <2>4, UniqueAppend DEF NoClash
  <2>6. Elements(LossLines') = Elements(LossLines) \cup {AssignSession}
    BY <2>2, <2>3, ElementsAppend
  <2>7. Apart(sent, LossLines')
    BY <1>b, <2>4, <2>6, ApartElements DEF NoClash
  <2> QED
    BY <1>b, <2>1, <2>5, <2>7 DEF NoClash
<1>5. CASE Finish
  <2>1. lost' = lost \o LossLines /\ UNCHANGED sent /\ Active /\ job' = NoJob
    BY <1>5 DEF Finish, LossLines, Active
  <2>2. DOMAIN LossLines' = {}
    BY <2>1 DEF LossLines, NoJob
  <2>3. LossLines \in Seq(S) /\ \A i \in DOMAIN LossLines : LossLines[i].session_id = sessions
    <3>1. DOMAIN LossLines = DOMAIN job.lost_assignments
      BY DEF LossLines
    <3>2. \A i \in DOMAIN LossLines : LossLines[i] = Shard(sessions, job.lost_assignments[i])
      BY <1>a, <2>1, <3>1, LossLinesTyped
    <3>3. \A a : Shard(sessions, a).session_id = sessions
      BY DEF Shard
    <3>4. LossLines \in Seq(S)
      BY <1>a, <2>1, LossLinesTyped DEF S
    <3> QED
      BY <3>2, <3>3, <3>4
  <2>4. Apart(lost, LossLines)
    BY <1>b, <2>1, <2>3 DEF Apart, Progressed, Clash
  <2>5. Unique(lost')
    BY <1>a, <1>b, <2>1, <2>3, <2>4, UniqueConcat DEF NoClash
  <2>6. Elements(lost') = Elements(lost) \cup Elements(LossLines)
    BY <1>a, <2>1, <2>3, ElementsConcat
  <2>7. Apart(sent, lost')
    BY <1>b, <2>6, ApartElements DEF NoClash
  <2> QED
    BY <1>b, <2>1, <2>2, <2>5, <2>7 DEF NoClash, Unique, Apart
<1> QED
  BY <1>1, <1>2, <1>3, <1>4, <1>5, StepKinds

\* The entries of the history.
Entries == Elements(sent) \cup Elements(lost)

LEMMA HistorySessions ==
    ASSUME TypeInv, NEW e \in Entries
    PROVE  e \in ShardsUpTo(sessions) /\ e.session_id \in 1 .. sessions
<1>1. e \in ShardsUpTo(sessions)
  BY DEF TypeInv, LogTyped, Entries, Elements
<1> QED
  BY <1>1 DEF ShardsUpTo

LEMMA ProgressedStep == TypeInv /\ PlanInv /\ LogInv /\ [Next]_vars => Progressed'
<1> SUFFICES ASSUME TypeInv, PlanInv, LogInv, [Next]_vars PROVE Progressed'
  OBVIOUS
<1> DEFINE S == ShardsUpTo(sessions)
<1>a. sent \in Seq(S) /\ lost \in Seq(S) /\ JobTyped /\ Progressed
  BY DEF TypeInv, LogTyped, LogInv
<1>b. job.index \in Nat \ {0} /\ sessions \in Nat /\ job.lost_assignments \in Seq(Assignments)
  BY <1>a, DispatchAssumption DEF JobTyped, Jobs
<1> HIDE DEF S
<1>1. CASE Aside
  BY <1>a, <1>1 DEF Aside, SameJob, Progressed
<1>2. CASE StartSession
  <2>1. job'.index = 1 /\ job'.lost_assignments = <<>>
    BY <1>2, Starts DEF TypeInv
  <2>2. UNCHANGED <<sent, lost>> /\ sessions' = sessions + 1
    BY <1>2 DEF StartSession, history
  <2>3. \A i \in DOMAIN sent : sent[i].session_id \in 1 .. sessions
    BY HistorySessions DEF Entries, Elements
  <2>4. \A i \in DOMAIN lost : lost[i].session_id \in 1 .. sessions
    BY HistorySessions DEF Entries, Elements
  <2>5. sessions' \notin 1 .. sessions
    BY <1>b, <2>2
  <2>6. DOMAIN job'.lost_assignments = {} /\ 1 .. job'.index - 1 = {}
    BY <2>1
  <2> QED
    BY <2>2, <2>3, <2>4, <2>5, <2>6 DEF Progressed
<1>3. CASE SendAccepted
  <2>1. Sending /\ Active /\ sent' = Append(sent, AssignSession) /\ UNCHANGED <<lost, sessions>>
    BY <1>3 DEF SendAccepted, Sending, Active
  <2>2. /\ job'.index = job.index + 1
        /\ job'.assignments = job.assignments
        /\ job'.lost_assignments = job.lost_assignments
    BY <1>a, <1>3, AcceptedJob
  <2>3. AssignSession \in S /\ AssignSession = Shard(sessions, job.assignments[job.index])
    BY <1>a, <2>1, CurrentAssignment DEF S, Assignment
  <2>4. Elements(sent') = Elements(sent) \cup {AssignSession}
    BY <1>a, <2>1, <2>3, ElementsAppend
  <2>5. 1 .. job'.index - 1 = (1 .. job.index - 1) \cup {job.index}
    BY <1>b, <2>2
  <2>6. \A e \in Elements(sent') : e.session_id = sessions =>
          \E k \in 1 .. job'.index - 1 : e = Shard(sessions, job.assignments[k])
    <3>1. ASSUME NEW i \in DOMAIN sent, sent[i].session_id = sessions
          PROVE  \E k \in 1 .. job'.index - 1 : sent[i] = Shard(sessions, job.assignments[k])
      BY <1>a, <2>1, <2>5, <3>1 DEF Progressed
    <3>2. \A e \in Elements(sent) : \E i \in DOMAIN sent : e = sent[i]
      BY DEF Elements
    <3> QED
      BY <2>3, <2>4, <2>5, <3>1, <3>2
  <2>7. \A k \in 1 .. job'.index - 1 :
          \/ Shard(sessions, job.assignments[k]) \in Elements(sent')
          \/ job.assignments[k] \in Elements(job.lost_assignments)
    BY <1>a, <2>1, <2>3, <2>4, <2>5 DEF Progressed
  <2>8. \A i \in DOMAIN lost : lost[i].session_id # sessions
    BY <1>a, <2>1 DEF Progressed
  <2>9. \A i \in DOMAIN job.lost_assignments :
          \E k \in 1 .. job'.index - 1 : job.lost_assignments[i] = job.assignments[k]
    BY <1>a, <2>1, <2>5 DEF Progressed
  <2>10. \A i \in DOMAIN sent' : sent'[i] \in Elements(sent')
    BY DEF Elements
  <2> QED
    BY <2>1, <2>2, <2>6, <2>7, <2>8, <2>9, <2>10 DEF Progressed
<1>4. CASE Loses
  <2>1. Sending /\ Active /\ UNCHANGED <<sent, lost, sessions>>
    BY <1>4 DEF Loses, Sending, Active
  <2>2. /\ job'.index = job.index + 1
        /\ job'.assignments = job.assignments
        /\ job'.lost_assignments = Append(job.lost_assignments, Assignment)
    BY <1>a, <1>4, LostJob DEF Loses
  <2>3. Assignment \in Assignments /\ Assignment = job.assignments[job.index]
    BY <1>a, <2>1, CurrentAssignment DEF Assignment
  <2>4. Elements(job'.lost_assignments) = Elements(job.lost_assignments) \cup {job.assignments[job.index]}
    BY <1>b, <2>2, <2>3, ElementsAppend
  <2>5. 1 .. job'.index - 1 = (1 .. job.index - 1) \cup {job.index}
    BY <1>b, <2>2
  <2>6. \A i \in DOMAIN sent : sent[i].session_id = sessions =>
          \E k \in 1 .. job'.index - 1 : sent[i] = Shard(sessions, job.assignments[k])
    BY <1>a, <2>1, <2>5 DEF Progressed
  <2>7. \A k \in 1 .. job'.index - 1 :
          \/ Shard(sessions, job.assignments[k]) \in Elements(sent)
          \/ job.assignments[k] \in Elements(job'.lost_assignments)
    BY <1>a, <2>1, <2>4, <2>5 DEF Progressed
  <2>8. \A i \in DOMAIN lost : lost[i].session_id # sessions
    BY <1>a, <2>1 DEF Progressed
  <2>9. \A e \in Elements(job'.lost_assignments) : \E k \in 1 .. job'.index - 1 : e = job.assignments[k]
    <3>1. ASSUME NEW i \in DOMAIN job.lost_assignments
          PROVE  \E k \in 1 .. job'.index - 1 : job.lost_assignments[i] = job.assignments[k]
      BY <1>a, <2>1, <2>5 DEF Progressed
    <3>2. \A e \in Elements(job.lost_assignments) :
            \E i \in DOMAIN job.lost_assignments : e = job.lost_assignments[i]
      BY DEF Elements
    <3> QED
      BY <2>4, <2>5, <3>1, <3>2
  <2>10. \A i \in DOMAIN job'.lost_assignments : job'.lost_assignments[i] \in Elements(job'.lost_assignments)
    BY DEF Elements
  <2> QED
    BY <2>1, <2>2, <2>6, <2>7, <2>8, <2>9, <2>10 DEF Progressed
<1>5. CASE Finish
  BY <1>5 DEF Finish, Progressed, Active
<1> QED
  BY <1>1, <1>2, <1>3, <1>4, <1>5, StepKinds

\* A session stays whole when entries of other sessions are added.
LEMMA WholeSessionKept ==
    ASSUME NEW x, WholeSession(x), Entries \subseteq Entries',
           \A e \in Entries' : e \in Entries \/ e.session_id # x
    PROVE  WholeSession(x)'
<1>1. PICK m \in Nat \ {0} :
        /\ \A e \in Entries : e.session_id = x => e.total_senders = m /\ e.residue < m
        /\ \A r \in 0 .. m - 1 : \E e \in Entries : e.session_id = x /\ e.residue = r
  BY DEF WholeSession, Entries
<1>2. \A e \in Entries' : e.session_id = x => e.total_senders = m /\ e.residue < m
  BY <1>1
<1>3. \A r \in 0 .. m - 1 : \E e \in Entries' : e.session_id = x /\ e.residue = r
  BY <1>1
<1> QED
  BY <1>2, <1>3 DEF WholeSession, Entries

\* The dispatch that ends has dealt with every assignment of its plan.
LEMMA FinishedWhole ==
    ASSUME TypeInv, PlanInv, Progressed, Finish
    PROVE  WholeSession(sessions)'
<1> DEFINE m == Len(job.assignments)
<1>1. Active /\ JobTyped /\ lost' = lost \o LossLines /\ UNCHANGED <<sent, sessions>>
  BY DEF TypeInv, Finish, Active, LossLines
<1>2. LossLines \in Seq(ShardsUpTo(sessions)) /\ lost \in Seq(ShardsUpTo(sessions))
  BY <1>1, LossLinesTyped DEF TypeInv, LogTyped
<1>3. Elements(lost') = Elements(lost) \cup Elements(LossLines)
  BY <1>1, <1>2, ElementsConcat
<1>4. job.assignments \in Seq(Assignments) /\ job.index = m + 1
  BY <1>1 DEF JobTyped, Jobs, Finish
<1>5. PICK n \in Nat \ {0} : n = m /\ DOMAIN job.assignments = 1 .. n /\ 1 .. job.index - 1 = 1 .. n
  BY <1>1, <1>4 DEF PlanInv
<1>6. \A e \in Elements(LossLines) : \E i \in DOMAIN job.lost_assignments : e = Shard(sessions, job.lost_assignments[i])
  <2>1. DOMAIN LossLines = DOMAIN job.lost_assignments
    BY DEF LossLines
  <2> QED
    BY <1>1, <2>1, LossLinesTyped DEF Elements
<1>7. ASSUME NEW e \in Elements(sent) \cup Elements(lost'), e.session_id = sessions
      PROVE  \E k \in 1 .. n : e = Shard(sessions, job.assignments[k])
  <2>1. CASE e \in Elements(sent)
    <3>1. PICK i \in DOMAIN sent : e = sent[i]
      BY <2>1 DEF Elements
    <3> QED
      BY <1>1, <1>5, <1>7, <3>1 DEF Progressed
  <2>2. CASE e \in Elements(lost)
    BY <1>1, <1>7, <2>2 DEF Progressed, Elements
  <2>3. CASE e \in Elements(LossLines)
    <3>1. PICK i \in DOMAIN job.lost_assignments : e = Shard(sessions, job.lost_assignments[i])
      BY <1>6, <2>3
    <3>2. \E k \in 1 .. n : job.lost_assignments[i] = job.assignments[k]
      BY <1>1, <1>5 DEF Progressed
    <3> QED
      BY <3>1, <3>2
  <2> QED
    BY <1>3, <1>7, <2>1, <2>2, <2>3
<1>8. ASSUME NEW k \in 1 .. n
      PROVE  /\ Shard(sessions, job.assignments[k]).session_id = sessions
             /\ Shard(sessions, job.assignments[k]).total_senders = n
             /\ Shard(sessions, job.assignments[k]).residue = k - 1
  BY <1>1, <1>5 DEF PlanInv, Shard
<1>9. ASSUME NEW k \in 1 .. n
      PROVE  Shard(sessions, job.assignments[k]) \in Elements(sent) \cup Elements(lost')
  <2>1. CASE Shard(sessions, job.assignments[k]) \in Elements(sent)
    BY <2>1
  <2>2. CASE job.assignments[k] \in Elements(job.lost_assignments)
    <3>1. PICK i \in DOMAIN job.lost_assignments : job.assignments[k] = job.lost_assignments[i]
      BY <2>2 DEF Elements
    <3>2. DOMAIN LossLines = DOMAIN job.lost_assignments
      BY DEF LossLines
    <3>3. LossLines[i] = Shard(sessions, job.assignments[k])
      BY <1>1, <3>1, LossLinesTyped
    <3> QED
      BY <1>3, <3>2, <3>3 DEF Elements
  <2> QED
    BY <1>1, <1>5, <2>1, <2>2 DEF Progressed
<1>10. \A e \in Elements(sent) \cup Elements(lost') :
         e.session_id = sessions => e.total_senders = n /\ e.residue < n
  <2> SUFFICES ASSUME NEW e \in Elements(sent) \cup Elements(lost'), e.session_id = sessions
               PROVE  e.total_senders = n /\ e.residue < n
    OBVIOUS
  <2>1. PICK k \in 1 .. n : e = Shard(sessions, job.assignments[k])
    BY <1>7
  <2>2. e.total_senders = n /\ e.residue = k - 1
    BY <1>8, <2>1
  <2> QED
    BY <2>2
<1>11. \A r \in 0 .. n - 1 : \E e \in Elements(sent) \cup Elements(lost') :
         e.session_id = sessions /\ e.residue = r
  <2> SUFFICES ASSUME NEW r \in 0 .. n - 1
               PROVE  \E e \in Elements(sent) \cup Elements(lost') : e.session_id = sessions /\ e.residue = r
    OBVIOUS
  <2>1. r + 1 \in 1 .. n /\ (r + 1) - 1 = r
    OBVIOUS
  <2>2. Shard(sessions, job.assignments[r + 1]) \in Elements(sent) \cup Elements(lost')
    BY <1>9, <2>1
  <2>3. /\ Shard(sessions, job.assignments[r + 1]).session_id = sessions
        /\ Shard(sessions, job.assignments[r + 1]).residue = r
    BY <1>8, <2>1
  <2> QED
    BY <2>2, <2>3
<1>12. sent' = sent /\ sessions' = sessions
  BY <1>1
<1> QED
  BY <1>10, <1>11, <1>12 DEF WholeSession

LEMMA EndedSessions ==
    ASSUME TypeInv
    PROVE  /\ Active => Ended = 1 .. sessions - 1
           /\ ~ Active => Ended = 1 .. sessions
BY DEF Ended, Active

\* Between two steps only Finish ends a session.
LEMMA EndedStep ==
    ASSUME TypeInv, TypeInv', [Next]_vars
    PROVE  /\ Finish => Ended' = Ended \cup {sessions}
           /\ Aside \/ StartSession \/ SendAccepted \/ Loses => Ended' = Ended
           /\ SendAccepted \/ Loses \/ Finish => sessions \notin Ended
<1>1. sessions \in Nat
  BY DispatchAssumption DEF TypeInv, JobTyped
<1>2. /\ Active => Ended = 1 .. sessions - 1
      /\ ~ Active => Ended = 1 .. sessions
  BY EndedSessions
<1>3. /\ Active' => Ended' = 1 .. sessions' - 1
      /\ ~ Active' => Ended' = 1 .. sessions'
  BY DEF Ended, Active
<1>4. CASE Finish
  <2>1. Active /\ ~ Active' /\ sessions' = sessions /\ sessions > 0
    BY <1>4 DEF Finish, Active, TypeInv, JobTyped
  <2> QED
    BY <1>1, <1>2, <1>3, <1>4, <2>1 DEF Finish, Aside, StartSession, SendAccepted, Loses, Sending, Active
<1>5. CASE StartSession
  <2>1. ~ Active /\ Active' /\ sessions' = sessions + 1
    BY <1>5 DEF StartSession, Active
  <2> QED
    BY <1>1, <1>2, <1>3, <1>5, <2>1 DEF Finish, SendAccepted, Loses, Sending, Active
<1>6. CASE Aside
  <2>1. Active' = Active /\ sessions' = sessions
    BY <1>6 DEF Aside
  <2>2. Ended' = Ended
    BY <2>1 DEF Ended, Active
  <2>3. ~ Finish
    BY <2>1 DEF Finish, Active
  <2> QED
    BY <1>1, <1>2, <1>4, <2>2, <2>3 DEF SendAccepted, Loses, Sending, Active
<1>7. CASE SendAccepted \/ Loses
  <2>1. Active /\ UNCHANGED <<pc, sessions>>
    BY <1>7 DEF SendAccepted, Loses, Sending, Active
  <2>2. Ended' = Ended /\ ~ Finish
    BY <2>1 DEF Ended, Finish, Active
  <2> QED
    BY <1>1, <1>2, <2>1, <2>2
<1> QED
  BY <1>4, <1>5, <1>6, <1>7

LEMMA WholeStep ==
    ASSUME TypeInv, TypeInv', PlanInv, LogInv, [Next]_vars, NEW x \in Ended'
    PROVE  WholeSession(x)'
<1>a. Progressed /\ \A y \in Ended : WholeSession(y)
  BY DEF LogInv
<1>1. CASE UNCHANGED <<sent, lost>> /\ Ended' = Ended
  BY <1>a, <1>1 DEF WholeSession
<1>2. CASE Aside
  BY <1>1, <1>2, EndedStep DEF Aside
<1>3. CASE StartSession
  BY <1>1, <1>3, EndedStep DEF StartSession, history
<1>4. CASE Loses
  BY <1>1, <1>4, EndedStep DEF Loses
<1>5. CASE SendAccepted
  <2>1. x \in Ended /\ x # sessions
    BY <1>5, EndedStep
  <2>2. sent' = Append(sent, AssignSession) /\ UNCHANGED lost /\ Sending
    BY <1>5 DEF SendAccepted
  <2>3. AssignSession \in ShardsUpTo(sessions) /\ AssignSession = Shard(sessions, Assignment)
    BY <2>2, CurrentAssignment DEF TypeInv
  <2>4. Entries' = Entries \cup {AssignSession}
    BY <2>2, <2>3, ElementsAppend DEF Entries, TypeInv, LogTyped
  <2>5. AssignSession.session_id = sessions
    BY <2>3 DEF Shard
  <2> QED
    BY <1>a, <2>1, <2>4, <2>5, WholeSessionKept
<1>6. CASE Finish
  <2>1. CASE x = sessions
    <3>1. WholeSession(sessions)' /\ sessions' = sessions
      BY <1>a, <1>6, FinishedWhole DEF Finish
    <3> QED
      BY <2>1, <3>1
  <2>2. CASE x # sessions
    <3>1. x \in Ended
      BY <1>6, <2>2, EndedStep
    <3>2. Active /\ lost' = lost \o LossLines /\ UNCHANGED sent
      BY <1>6 DEF Finish, Active, LossLines
    <3>3. LossLines \in Seq(ShardsUpTo(sessions)) /\ lost \in Seq(ShardsUpTo(sessions))
      BY <3>2, LossLinesTyped DEF TypeInv, LogTyped
    <3>4. Entries' = Entries \cup Elements(LossLines)
      BY <3>2, <3>3, ElementsConcat DEF Entries
    <3>5. \A e \in Elements(LossLines) : e.session_id = sessions
      <4>1. DOMAIN LossLines = DOMAIN job.lost_assignments
        BY DEF LossLines
      <4>2. \A i \in DOMAIN LossLines : LossLines[i] = Shard(sessions, job.lost_assignments[i])
        BY <3>2, <4>1, LossLinesTyped DEF TypeInv
      <4>3. \A a : Shard(sessions, a).session_id = sessions
        BY DEF Shard
      <4> QED
        BY <4>2, <4>3 DEF Elements
    <3> QED
      BY <1>a, <2>2, <3>1, <3>4, <3>5, WholeSessionKept
  <2> QED
    BY <2>1, <2>2
<1> QED
  BY <1>2, <1>3, <1>4, <1>5, <1>6, StepKinds

LEMMA LogInvStep == TypeInv /\ TypeInv' /\ PlanInv /\ LogInv /\ [Next]_vars => LogInv'
<1> SUFFICES ASSUME TypeInv, TypeInv', PlanInv, LogInv, [Next]_vars PROVE LogInv'
  OBVIOUS
<1>1. \A x \in Ended' : WholeSession(x)'
  BY WholeStep
<1>2. NoClash' /\ Progressed'
  BY NoClashStep, ProgressedStep
<1> QED
  BY <1>1, <1>2 DEF LogInv

LEMMA HistoryInvariant == Spec => [](TypeInv /\ PlanInv /\ LogInv)
<1>1. Init => TypeInv /\ PlanInv /\ LogInv
  BY TypeInvInit, PlanInvInit, LogInvInit
<1>2. (TypeInv /\ PlanInv /\ LogInv) /\ [Next]_vars => (TypeInv /\ PlanInv /\ LogInv)'
  BY TypeInvStep, PlanInvStep, LogInvStep
<1> QED
  BY <1>1, <1>2, PTL DEF Spec

\* Nothing clashes in the whole history.
LEMMA HistoryUnique ==
    ASSUME TypeInv, LogInv
    PROVE  /\ sent \o lost \in Seq(ShardsUpTo(sessions))
           /\ Unique(sent \o lost)
           /\ Elements(sent \o lost) = Entries
<1>1. sent \in Seq(ShardsUpTo(sessions)) /\ lost \in Seq(ShardsUpTo(sessions))
  BY DEF TypeInv, LogTyped
<1>2. Unique(sent \o lost)
  BY <1>1, UniqueConcat DEF LogInv, NoClash
<1> QED
  BY <1>1, <1>2, ElementsConcat DEF Entries

(***************************************************************************)
(* A sender is given at most one AssignSession per session, however often  *)
(* send is retried, and none after its shard was logged as lost: the loop  *)
(* of _send_to_senders meets every sender of the plan once.                *)
(***************************************************************************)
THEOREM OneAssignment == Spec => []OneAssignmentPerSender
<1>1. TypeInv /\ LogInv => OneAssignmentPerSender
  <2> SUFFICES ASSUME TypeInv, LogInv PROVE OneAssignmentPerSender
    OBVIOUS
  <2>1. Unique(sent \o lost)
    BY HistoryUnique
  <2> QED
    BY <2>1 DEF OneAssignmentPerSender, Unique, Clash
<1> QED
  BY <1>1, HistoryInvariant, PTL

LEMMA OneEntryPerBlock ==
    ASSUME TypeInv, LogInv, NEW x \in Ended, NEW b \in 0 .. TotalBlocks - 1
    PROVE  \E i \in DOMAIN (sent \o lost) :
              {j \in DOMAIN (sent \o lost) :
                  /\ (sent \o lost)[j].session_id = x
                  /\ b \in blocks_for_shard(TotalBlocks, (sent \o lost)[j].total_senders, (sent \o lost)[j].residue)}
              = {i}
<1> DEFINE log == sent \o lost
<1>1. Unique(log) /\ Elements(log) = Entries /\ log \in Seq(ShardsUpTo(sessions))
  BY HistoryUnique
<1> HIDE DEF log
<1>2. PICK m \in Nat \ {0} :
        /\ \A e \in Entries : e.session_id = x => e.total_senders = m /\ e.residue < m
        /\ \A r \in 0 .. m - 1 : \E e \in Entries : e.session_id = x /\ e.residue = r
  BY DEF LogInv, WholeSession, Entries
<1>3. b % m \in 0 .. m - 1
  BY DispatchAssumption, DivisionLaw
<1>4. PICK i \in DOMAIN log : log[i].session_id = x /\ log[i].residue = b % m
  BY <1>1, <1>2, <1>3 DEF Elements
<1>5. \A j \in DOMAIN log : log[j].session_id = x => log[j].total_senders = m
  BY <1>1, <1>2 DEF Elements
<1>6. \A r : b \in blocks_for_shard(TotalBlocks, m, r) <=> b % m = r
  BY DEF blocks_for_shard
<1>7. \A j \in DOMAIN log :
        (/\ log[j].session_id = x
         /\ b \in blocks_for_shard(TotalBlocks, log[j].total_senders, log[j].residue)) <=> j = i
  <2> SUFFICES ASSUME NEW j \in DOMAIN log
               PROVE  (/\ log[j].session_id = x
                       /\ b \in blocks_for_shard(TotalBlocks, log[j].total_senders, log[j].residue)) <=> j = i
    OBVIOUS
  <2>1. log[i].total_senders = m /\ b \in blocks_for_shard(TotalBlocks, log[i].total_senders, log[i].residue)
    BY <1>4, <1>5, <1>6
  <2>2. ASSUME log[j].session_id = x,
               b \in blocks_for_shard(TotalBlocks, log[j].total_senders, log[j].residue)
        PROVE  j = i
    <3>1. log[j].residue = b % m
      BY <1>5, <1>6, <2>2
    <3>2. Clash(log[j], log[i])
      BY <1>4, <2>2, <3>1 DEF Clash
    <3> QED
      BY <1>1, <3>2 DEF Unique
  <2> QED
    BY <1>4, <2>1, <2>2
<1>8. {j \in DOMAIN log :
          /\ log[j].session_id = x
          /\ b \in blocks_for_shard(TotalBlocks, log[j].total_senders, log[j].residue)} = {i}
  BY <1>7
<1> QED
  BY <1>8 DEF log

(***************************************************************************)
(* Every block of a dispatched file is accounted for exactly once, in one  *)
(* accepted AssignSession or in one dispatch_partially_failed log line,    *)
(* for every file size and every number of senders: the residues of the    *)
(* plan are dealt out once each, and every one of them is sent or lost.    *)
(***************************************************************************)
THEOREM EveryBlockAccountedFor == Spec => []BlocksAccountedFor
<1>1. TypeInv /\ LogInv => BlocksAccountedFor
  <2> SUFFICES ASSUME TypeInv, LogInv, NEW x \in Ended, NEW b \in 0 .. TotalBlocks - 1
               PROVE  Cardinality({i \in DOMAIN (sent \o lost) :
                         /\ (sent \o lost)[i].session_id = x
                         /\ b \in blocks_for_shard(TotalBlocks, (sent \o lost)[i].total_senders,
                                                   (sent \o lost)[i].residue)}) = 1
    BY DEF BlocksAccountedFor
  <2> DEFINE holders == {i \in DOMAIN (sent \o lost) :
                            /\ (sent \o lost)[i].session_id = x
                            /\ b \in blocks_for_shard(TotalBlocks, (sent \o lost)[i].total_senders,
                                                      (sent \o lost)[i].residue)}
  <2>1. PICK i \in DOMAIN (sent \o lost) : holders = {i}
    BY OneEntryPerBlock
  <2>2. Cardinality({i}) = 1
    BY FS_Singleton
  <2> HIDE DEF holders
  <2>3. Cardinality(holders) = 1
    BY <2>1, <2>2
  <2> QED
    BY <2>3 DEF holders
<1> QED
  BY <1>1, HistoryInvariant, PTL

\* The bytes of a file of that size in block b.
BlockBytes(b, size, fec) == b * block_size(fec) .. minimum((b + 1) * block_size(fec), size) - 1

\* Entry e of the history is for session x and a block with the byte at offset o.
CoversByte(e, x, o, size, fec) ==
    /\ e.session_id = x
    /\ \E b \in blocks_for_shard(TotalBlocks, e.total_senders, e.residue) : o \in BlockBytes(b, size, fec)

(***************************************************************************)
(* From the byte to the log: for every file of every size, cut by any FEC  *)
(* parameters, each of its bytes is in exactly one AssignSession that was  *)
(* accepted or in exactly one log line, once the dispatch has ended.  The  *)
(* blocks tile the file (ByteInOneBlock), and the shards the blocks.       *)
(***************************************************************************)
THEOREM EveryByteAccountedFor ==
    ASSUME NEW fec, IsFec(fec), NEW size \in Nat, calculate_block_count(size, fec) = TotalBlocks
    PROVE  Spec => [](\A x \in Ended : \A o \in 0 .. size - 1 : \E i \in DOMAIN (sent \o lost) :
                        {j \in DOMAIN (sent \o lost) : CoversByte((sent \o lost)[j], x, o, size, fec)} = {i})
<1>1. TypeInv /\ LogInv =>
        \A x \in Ended : \A o \in 0 .. size - 1 : \E i \in DOMAIN (sent \o lost) :
            {j \in DOMAIN (sent \o lost) : CoversByte((sent \o lost)[j], x, o, size, fec)} = {i}
  <2> SUFFICES ASSUME TypeInv, LogInv, NEW x \in Ended, NEW o \in 0 .. size - 1
               PROVE  \E i \in DOMAIN (sent \o lost) :
                        {j \in DOMAIN (sent \o lost) : CoversByte((sent \o lost)[j], x, o, size, fec)} = {i}
    OBVIOUS
  <2>1. PICK log : log = sent \o lost
    OBVIOUS
  <2>2. PICK b \in 0 .. TotalBlocks - 1 :
          /\ o \in BlockBytes(b, size, fec)
          /\ \A c \in 0 .. TotalBlocks - 1 : o \in BlockBytes(c, size, fec) => c = b
    BY ByteInOneBlock DEF BlockBytes
  <2>3. PICK i \in DOMAIN log :
          {j \in DOMAIN log :
              /\ log[j].session_id = x
              /\ b \in blocks_for_shard(TotalBlocks, log[j].total_senders, log[j].residue)} = {i}
    BY <2>1, OneEntryPerBlock
  <2>4. ASSUME NEW e
        PROVE  CoversByte(e, x, o, size, fec) <=>
                  e.session_id = x /\ b \in blocks_for_shard(TotalBlocks, e.total_senders, e.residue)
    <3>1. blocks_for_shard(TotalBlocks, e.total_senders, e.residue) \subseteq 0 .. TotalBlocks - 1
      BY DEF blocks_for_shard
    <3> QED
      BY <2>2, <3>1 DEF CoversByte
  <2>5. {j \in DOMAIN log : CoversByte(log[j], x, o, size, fec)} = {i}
    BY <2>3, <2>4
  <2> QED
    BY <2>1, <2>5
<1> QED
  BY <1>1, HistoryInvariant, PTL

(***************************************************************************)
(* What is underway to the senders.                                        *)
(***************************************************************************)

\* What is underway to s was accepted for s, and there is one copy of it.
Single(s) ==
    /\ \A p \in Underway(s) : p.sender_id = s /\ p \in Elements(sent)
    /\ delivered[s] \cap Pending(s) = {}
    /\ Linked(s) => no_duplicates(queue[s]) /\ limbo[s] \cap Elements(queue[s]) = {}

WireInv == \A s \in Senders : Single(s)

LEMMA WireInvInit == Init => WireInv
BY DEF Init, PortInit, WireInv, Single, Underway, Pending, Linked

LEMMA SingleKept ==
    ASSUME NEW t, Single(t), Elements(sent) \subseteq Elements(sent)',
           queue'[t] = queue[t], limbo'[t] = limbo[t], delivered'[t] = delivered[t]
    PROVE  Single(t)'
<1>1. Pending(t)' = Pending(t) /\ Linked(t)' = Linked(t)
  BY DEF Pending, Linked
<1>2. Underway(t)' = Underway(t)
  BY <1>1 DEF Underway
<1> QED
  BY <1>1, <1>2 DEF Single

LEMMA WireUnchanged ==
    ASSUME WireInv, Elements(sent) \subseteq Elements(sent)', UNCHANGED <<queue, limbo, delivered>>
    PROVE  WireInv'
BY SingleKept DEF WireInv

\* A step in which no queue changes but that of s, which becomes q.
QueueBecomes(s, q) == queue'[s] = q /\ \A t \in Senders \ {s} : queue'[t] = queue[t]

\* A step that moves the payloads of s alone keeps WireInv if it does for s.
LEMMA WireLocal ==
    ASSUME WireInv, PortTyped, NEW s \in Senders, Elements(sent) \subseteq Elements(sent)',
           NEW q, NEW l, NEW d, QueueBecomes(s, q),
           limbo' = [limbo EXCEPT ![s] = l], delivered' = [delivered EXCEPT ![s] = d],
           Single(s)'
    PROVE  WireInv'
<1> SUFFICES ASSUME NEW t \in Senders, t # s PROVE Single(t)'
  BY DEF WireInv
<1>1. Single(t) /\ queue'[t] = queue[t] /\ limbo'[t] = limbo[t] /\ delivered'[t] = delivered[t]
  BY DEF WireInv, PortTyped, QueueBecomes
<1> QED
  BY <1>1, SingleKept

\* The payloads of s after a step.
LEMMA PendingAfter ==
    ASSUME PortTyped, NEW s \in Senders, NEW q, NEW l, NEW d,
           QueueBecomes(s, q), limbo' = [limbo EXCEPT ![s] = l],
           delivered' = [delivered EXCEPT ![s] = d]
    PROVE  /\ queue'[s] = q /\ limbo'[s] = l /\ delivered'[s] = d
           /\ Linked(s)' <=> q # Unlinked
           /\ Pending(s)' = l \cup (IF q # Unlinked THEN Elements(q) ELSE {})
<1>1. queue'[s] = q /\ limbo'[s] = l /\ delivered'[s] = d
  BY DEF PortTyped, QueueBecomes
<1> QED
  BY <1>1 DEF Linked, Pending

\* The step of a port operation on s that creates no payload.
LEMMA WireMoves ==
    ASSUME WireInv, PortTyped, NEW s \in Senders, UNCHANGED sent,
           NEW q, NEW l, NEW d,
           QueueBecomes(s, q), limbo' = [limbo EXCEPT ![s] = l],
           delivered' = [delivered EXCEPT ![s] = d],
           l \cup (IF q # Unlinked THEN Elements(q) ELSE {}) \cup d \subseteq Underway(s),
           d \cap l = {},
           q # Unlinked => d \cap Elements(q) = {} /\ no_duplicates(q) /\ l \cap Elements(q) = {}
    PROVE  WireInv'
<1>1. /\ queue'[s] = q /\ limbo'[s] = l /\ delivered'[s] = d
      /\ Linked(s)' <=> q # Unlinked
      /\ Pending(s)' = l \cup (IF q # Unlinked THEN Elements(q) ELSE {})
  BY PendingAfter
<1>2. Underway(s)' \subseteq Underway(s)
  BY <1>1 DEF Underway
<1>3. \A p \in Underway(s)' : p.sender_id = s /\ p \in Elements(sent)
  BY <1>2 DEF WireInv, Single
<1>4. delivered'[s] \cap Pending(s)' = {}
  BY <1>1
<1>5. Linked(s)' => no_duplicates(queue'[s]) /\ limbo'[s] \cap Elements(queue'[s]) = {}
  BY <1>1
<1>6. Elements(sent)' = Elements(sent)
  BY DEF Elements
<1>7. Single(s)'
  BY <1>3, <1>4, <1>5, <1>6 DEF Single
<1> QED
  BY <1>6, <1>7, WireLocal

LEMMA WireAttach ==
    ASSUME WireInv, PortTyped, NEW s \in Senders, NEW m, Attach(s, m), UNCHANGED sent
    PROVE  WireInv'
<1> DEFINE q == <<>>
           l == Pending(s)
           d == delivered[s]
<1>1. /\ QueueBecomes(s, q) /\ limbo' = [limbo EXCEPT ![s] = l]
      /\ delivered' = [delivered EXCEPT ![s] = d]
  BY DEF Attach, PortTyped, QueueBecomes
<1>2. Elements(q) = {} /\ no_duplicates(q)
  BY DEF Elements, no_duplicates
<1>3. l \cup d = Underway(s) /\ d \cap l = {}
  BY DEF Underway, WireInv, Single
<1> HIDE DEF q, l, d
<1> QED
  BY <1>1, <1>2, <1>3, WireMoves

LEMMA WireDetach ==
    ASSUME WireInv, PortTyped, NEW s \in Senders, NEW ended, Detach(s, ended), UNCHANGED sent
    PROVE  WireInv'
<1>1. Single(s)
  BY DEF WireInv
<1>2. CASE /\ UNCHANGED queue
           /\ \E rest \in SUBSET limbo[s] : limbo' = [limbo EXCEPT ![s] = rest]
  <2>1. PICK rest \in SUBSET limbo[s] : limbo' = [limbo EXCEPT ![s] = rest]
    BY <1>2
  <2>2. PICK q, d : q = queue[s] /\ d = delivered[s]
    OBVIOUS
  <2>3. QueueBecomes(s, q) /\ delivered' = [delivered EXCEPT ![s] = d]
    BY <1>2, <2>2 DEF Detach, PortTyped, QueueBecomes
  <2>4. rest \cup (IF q # Unlinked THEN Elements(q) ELSE {}) \cup d \subseteq Underway(s)
    BY <2>2 DEF Underway, Pending, Linked
  <2>5. d \cap rest = {}
    BY <1>1, <2>2 DEF Single, Pending
  <2>6. q # Unlinked => d \cap Elements(q) = {} /\ no_duplicates(q) /\ rest \cap Elements(q) = {}
    BY <1>1, <2>2 DEF Single, Pending, Linked
  <2> QED
    BY <2>1, <2>3, <2>4, <2>5, <2>6, WireMoves
<1>3. CASE /\ Linked(s)
           /\ queue' = [queue EXCEPT ![s] = Unlinked]
           /\ \E rest \in SUBSET Pending(s) : limbo' = [limbo EXCEPT ![s] = rest]
  <2>1. PICK rest \in SUBSET Pending(s) : limbo' = [limbo EXCEPT ![s] = rest]
    BY <1>3
  <2>2. PICK d : d = delivered[s]
    OBVIOUS
  <2>3. delivered' = [delivered EXCEPT ![s] = d]
    BY <2>2 DEF Detach, PortTyped, QueueBecomes
  <2>4. rest \cup d \subseteq Underway(s) /\ d \cap rest = {}
    BY <1>1, <2>2 DEF Underway, Single
  <2>5. QueueBecomes(s, Unlinked)
    BY <1>3 DEF PortTyped, QueueBecomes
  <2> QED
    BY <2>1, <2>3, <2>4, <2>5, WireMoves
<1> QED
  BY <1>2, <1>3 DEF Detach

LEMMA WireBeginWrite ==
    ASSUME WireInv, PortTyped, NEW s \in Senders, BeginWrite(s), UNCHANGED sent
    PROVE  WireInv'
<1>1. Single(s) /\ Linked(s) /\ queue[s] \in Seq(ShardsUpTo(sessions)) /\ queue[s] # <<>>
  BY DEF WireInv, BeginWrite, PortTyped
<1>2. PICK whole, h, q, l, d :
        /\ whole = queue[s] /\ h = Head(whole) /\ q = Tail(whole)
        /\ l = limbo[s] \cup {h} /\ d = delivered[s]
  OBVIOUS
<1>3. /\ QueueBecomes(s, q) /\ limbo' = [limbo EXCEPT ![s] = l]
      /\ delivered' = [delivered EXCEPT ![s] = d]
  BY <1>2 DEF BeginWrite, PortTyped, QueueBecomes
<1>4. /\ whole \in Seq(ShardsUpTo(sessions)) /\ whole # <<>> /\ no_duplicates(whole)
      /\ limbo[s] \cap Elements(whole) = {}
      /\ d \cap (limbo[s] \cup Elements(whole)) = {}
      /\ Underway(s) = limbo[s] \cup Elements(whole) \cup d
  BY <1>1, <1>2 DEF Single, Pending, Underway
<1>5. h \in Elements(whole) /\ Elements(q) \subseteq Elements(whole)
  BY <1>2, <1>4, TailAndHead
<1>6. h \notin Elements(q) /\ no_duplicates(q)
  <2>1. Len(whole) \in Nat /\ Len(whole) > 0 /\ DOMAIN whole = 1 .. Len(whole) /\ h = whole[1]
    BY <1>2, <1>4
  <2>2. /\ DOMAIN q = 1 .. Len(whole) - 1
        /\ \A i \in 1 .. Len(whole) - 1 : q[i] = whole[i + 1]
    BY <1>2, <1>4, <2>1
  <2>3. ASSUME NEW i \in DOMAIN q, NEW j \in DOMAIN q, q[i] = q[j] PROVE i = j
    <3>1. whole[i + 1] = whole[j + 1] /\ i + 1 \in DOMAIN whole /\ j + 1 \in DOMAIN whole
      BY <2>1, <2>2, <2>3
    <3>2. i + 1 = j + 1
      BY <1>4, <3>1 DEF no_duplicates
    <3> QED
      BY <2>1, <2>2, <3>2
  <2>4. ASSUME NEW i \in DOMAIN q, q[i] = h PROVE FALSE
    <3>1. whole[i + 1] = whole[1] /\ i + 1 \in DOMAIN whole /\ 1 \in DOMAIN whole /\ i + 1 # 1
      BY <2>1, <2>2, <2>4
    <3> QED
      BY <1>4, <3>1 DEF no_duplicates
  <2> QED
    BY <2>3, <2>4 DEF no_duplicates, Elements
<1>7. l \cup Elements(q) \cup d \subseteq Underway(s)
  BY <1>2, <1>4, <1>5
<1>8. d \cap l = {} /\ d \cap Elements(q) = {} /\ l \cap Elements(q) = {}
  BY <1>2, <1>4, <1>5, <1>6
<1> QED
  BY <1>3, <1>6, <1>7, <1>8, WireMoves

LEMMA WireDeliver ==
    ASSUME WireInv, PortTyped, NEW s \in Senders, Deliver(s), UNCHANGED sent
    PROVE  WireInv'
<1>1. PICK p \in limbo[s] :
        /\ limbo' = [limbo EXCEPT ![s] = limbo[s] \ {p}]
        /\ delivered' = [delivered EXCEPT ![s] = delivered[s] \cup {p}]
  BY DEF Deliver, PortTyped
<1>2. PICK q, l, d : q = queue[s] /\ l = limbo[s] \ {p} /\ d = delivered[s] \cup {p}
  OBVIOUS
<1>3. /\ QueueBecomes(s, q) /\ limbo' = [limbo EXCEPT ![s] = l]
      /\ delivered' = [delivered EXCEPT ![s] = d]
  BY <1>1, <1>2 DEF Deliver, PortTyped, QueueBecomes
<1>4. Single(s)
  BY DEF WireInv
<1>5. l \cup (IF q # Unlinked THEN Elements(q) ELSE {}) \cup d \subseteq Underway(s)
  BY <1>2 DEF Underway, Pending, Linked
<1>6. d \cap l = {}
  BY <1>2, <1>4 DEF Single, Pending
<1>7. q # Unlinked => d \cap Elements(q) = {} /\ no_duplicates(q) /\ l \cap Elements(q) = {}
  BY <1>2, <1>4 DEF Single, Pending, Linked
<1> QED
  BY <1>3, <1>5, <1>6, <1>7, WireMoves

LEMMA WireSend ==
    ASSUME WireInv, TypeInv, PlanInv, LogInv, SendAccepted
    PROVE  WireInv'
<1>1. PICK s \in Senders : s = Assignment.sender_id
  BY CurrentAssignment DEF SendAccepted, Assignments, TypeInv
<1>2. PICK e \in ShardsUpTo(sessions) : e = AssignSession /\ e.sender_id = s
  BY <1>1, CurrentAssignment DEF SendAccepted, TypeInv, AssignSession
<1>3. Linked(s) /\ queue[s] \in Seq(ShardsUpTo(sessions)) /\ Single(s)
  BY <1>1, SendOk DEF SendAccepted, Send, TypeInv, WireInv
<1>4. PICK old, q, l, d : /\ old = queue[s] /\ q = Append(old, e)
                          /\ l = limbo[s] /\ d = delivered[s]
  OBVIOUS
<1>5. /\ QueueBecomes(s, q) /\ limbo' = [limbo EXCEPT ![s] = l]
      /\ delivered' = [delivered EXCEPT ![s] = d]
  BY <1>1, <1>2, <1>4 DEF SendAccepted, Send, TypeInv, PortTyped, QueueBecomes
<1>6. Elements(sent)' = Elements(sent) \cup {e}
  <2>1. sent \in Seq(ShardsUpTo(sessions)) /\ sent' = Append(sent, e)
    BY <1>2 DEF SendAccepted, TypeInv, LogTyped
  <2>2. Elements(sent') = Elements(sent) \cup {e}
    BY <2>1, ElementsAppend
  <2> QED
    BY <2>2 DEF Elements
<1>7. e \notin Elements(sent)
  <2>1. \A f \in Elements(sent) : ~ Clash(f, e)
    BY <1>2, FreshShard DEF SendAccepted, LogInv
  <2> QED
    BY <2>1 DEF Clash
<1>8. e \notin Underway(s)
  BY <1>3, <1>7 DEF Single
<1>9. /\ Underway(s) = l \cup Elements(old) \cup d
      /\ d \cap (l \cup Elements(old)) = {}
      /\ no_duplicates(old) /\ l \cap Elements(old) = {}
  BY <1>3, <1>4 DEF Underway, Pending, Single
<1>10. Elements(q) = Elements(old) \cup {e}
  BY <1>3, <1>4, ElementsAppend
<1>11. no_duplicates(q)
  <2>1. /\ Len(old) \in Nat /\ DOMAIN old = 1 .. Len(old) /\ DOMAIN q = 1 .. Len(old) + 1
        /\ q[Len(old) + 1] = e /\ \A i \in 1 .. Len(old) : q[i] = old[i]
    BY <1>3, <1>4
  <2>2. \A i \in 1 .. Len(old) : q[i] # e
    BY <1>8, <1>9, <2>1 DEF Elements
  <2>3. ASSUME NEW i \in DOMAIN q, NEW j \in DOMAIN q, q[i] = q[j] PROVE i = j
    <3>1. CASE i \in DOMAIN old /\ j \in DOMAIN old
      BY <1>9, <2>1, <2>3, <3>1 DEF no_duplicates
    <3>2. CASE i = Len(old) + 1 \/ j = Len(old) + 1
      BY <2>1, <2>2, <2>3, <3>2
    <3> QED
      BY <2>1, <3>1, <3>2
  <2> QED
    BY <2>3 DEF no_duplicates
<1>12. /\ queue'[s] = q /\ limbo'[s] = l /\ delivered'[s] = d
       /\ Pending(s)' \subseteq l \cup Elements(q)
  <2>1. /\ queue'[s] = q /\ limbo'[s] = l /\ delivered'[s] = d
        /\ Pending(s)' = l \cup (IF q # Unlinked THEN Elements(q) ELSE {})
    BY <1>5, PendingAfter DEF TypeInv
  <2> QED
    BY <2>1
<1>13. Underway(s)' \subseteq Underway(s) \cup {e}
  BY <1>9, <1>10, <1>12 DEF Underway
<1>14. \A p \in Underway(s)' : p.sender_id = s /\ p \in Elements(sent)'
  BY <1>2, <1>3, <1>6, <1>13 DEF Single
<1>15. delivered'[s] \cap Pending(s)' = {} /\ limbo'[s] \cap Elements(queue'[s]) = {}
  BY <1>8, <1>9, <1>10, <1>12
<1>16. Single(s)'
  <2>1. no_duplicates(queue'[s])
    BY <1>11, <1>12
  <2> QED
    BY <1>14, <1>15, <2>1 DEF Single
<1> QED
  BY <1>5, <1>6, <1>16, WireLocal DEF TypeInv

LEMMA WireInvStep == TypeInv /\ PlanInv /\ LogInv /\ WireInv /\ [Next]_vars => WireInv'
<1> SUFFICES ASSUME TypeInv, PlanInv, LogInv, WireInv, [Next]_vars PROVE WireInv'
  OBVIOUS
<1>1. CASE UNCHANGED <<queue, limbo, delivered, sent>>
  <2>1. Elements(sent) \subseteq Elements(sent)'
    BY <1>1 DEF Elements
  <2> QED
    BY <1>1, <2>1, WireUnchanged
<1>2. CASE SendAccepted
  BY <1>2, WireSend
<1>3. ASSUME NEW s \in Senders, SenderAttaches(s) PROVE WireInv'
  BY <1>3, WireAttach DEF SenderAttaches, TypeInv, history
<1>4. ASSUME NEW s \in Senders, LinkStep(s) PROVE WireInv'
  <2>1. UNCHANGED sent /\ PortTyped
    BY <1>4 DEF LinkStep, history, TypeInv
  <2> QED
    BY <1>4, <2>1, WireDetach, WireBeginWrite, WireDeliver DEF LinkStep
<1> QED
  BY <1>1, <1>2, <1>3, <1>4
  DEF Next, vars, history, portVars, jobVars, Detect, DispatchStep, DispatchRaises, SkipNoSenders,
      StartSession, SendUnknown, SendFullRetry, RetryWakes, SendFullLost, Finish, HandleAlive,
      HandleSessionComplete, HandleIgnored, TakeIncoming, SenderSays, SenderCompletes, Post, Tick

\* The shards of a session, sent or logged as lost, are residues of one modulus.
LEMMA OneModulus ==
    ASSUME TypeInv, PlanInv, LogInv, NEW e \in Entries, NEW f \in Entries,
           e.session_id = f.session_id
    PROVE  e.total_senders = f.total_senders
<1>1. e.session_id \in 1 .. sessions /\ sessions \in Nat
  <2>1. sent \in Seq(ShardsUpTo(sessions)) /\ lost \in Seq(ShardsUpTo(sessions))
    BY DEF TypeInv, LogTyped
  <2>2. e \in ShardsUpTo(sessions)
    BY <2>1 DEF Entries, Elements
  <2> QED
    BY <2>2, DispatchAssumption DEF ShardsUpTo, TypeInv, JobTyped
<1>2. CASE e.session_id \in Ended
  BY <1>2 DEF LogInv, WholeSession, Entries
<1>3. CASE e.session_id \notin Ended
  <2>1. Active /\ e.session_id = sessions
    BY <1>1, <1>3 DEF Ended, Active
  <2>2. ASSUME NEW g \in Entries, g.session_id = sessions
        PROVE  g.total_senders = Len(job.assignments)
    <3>1. g \in Elements(sent)
      BY <2>1, <2>2 DEF LogInv, Progressed, Entries, Elements
    <3>2. PICK k \in 1 .. job.index - 1 : g = Shard(sessions, job.assignments[k])
      BY <2>1, <2>2, <3>1 DEF LogInv, Progressed, Elements
    <3>3. k \in DOMAIN job.assignments
      BY <3>2 DEF TypeInv, JobTyped, Jobs
    <3> QED
      BY <2>1, <3>2, <3>3 DEF PlanInv, Shard
  <2> QED
    BY <2>1, <2>2
<1> QED
  BY <1>2, <1>3

\* Shards with a block in common have the same residue.
LEMMA OverlapClashes ==
    ASSUME TypeInv, PlanInv, LogInv, NEW e \in Entries, NEW f \in Entries, Overlap(e, f)
    PROVE  Clash(e, f)
<1>1. e.session_id = f.session_id /\ e.total_senders = f.total_senders
  BY OneModulus DEF Overlap
<1>2. PICK b : /\ b \in blocks_for_shard(TotalBlocks, e.total_senders, e.residue)
               /\ b \in blocks_for_shard(TotalBlocks, f.total_senders, f.residue)
  BY DEF Overlap
<1>3. e.residue = f.residue
  BY <1>1, <1>2 DEF blocks_for_shard
<1> QED
  BY <1>1, <1>3 DEF Clash

(***************************************************************************)
(* No block reaches the senders twice, and none that was logged as lost    *)
(* reaches one, for every number of senders, every queue size and every    *)
(* number of retries, sessions and reconnections: a payload is accepted    *)
(* once (OneAssignment), its shard shares no block with another of the     *)
(* session, and the port moves its one copy and makes no other.            *)
(***************************************************************************)
THEOREM EachBlockReachesOnce == Spec => []BlocksReachSendersOnce
<1>1. TypeInv /\ PlanInv /\ LogInv /\ WireInv => BlocksReachSendersOnce
  <2> SUFFICES ASSUME TypeInv, PlanInv, LogInv, WireInv, NEW s \in Senders
               PROVE  /\ \A t \in Senders : \A p \in Underway(s), q \in Underway(t) :
                            s # t \/ p # q => ~ Overlap(p, q)
                      /\ \A p \in Underway(s), e \in Elements(lost) : ~ Overlap(p, e)
                      /\ delivered[s] \cap Pending(s) = {}
                      /\ Linked(s) => no_duplicates(queue[s]) /\ limbo[s] \cap Elements(queue[s]) = {}
    BY DEF BlocksReachSendersOnce
  <2>1. Single(s)
    BY DEF WireInv
  <2>2. ASSUME NEW t \in Senders, NEW p \in Underway(s), NEW q \in Underway(t), Overlap(p, q)
        PROVE  s = t /\ p = q
    <3>1. Single(t)
      BY DEF WireInv
    <3>2. p \in Elements(sent) /\ q \in Elements(sent) /\ p.sender_id = s /\ q.sender_id = t
      BY <2>1, <3>1 DEF Single
    <3>3. Clash(p, q)
      BY <2>2, <3>2, OverlapClashes DEF Entries
    <3>4. p = q
      BY <3>2, <3>3 DEF LogInv, NoClash, Unique, Elements
    <3> QED
      BY <3>2, <3>4
  <2>3. ASSUME NEW p \in Underway(s), NEW e \in Elements(lost), Overlap(p, e) PROVE FALSE
    <3>1. p \in Elements(sent)
      BY <2>1 DEF Single
    <3>2. Clash(p, e)
      BY <2>3, <3>1, OverlapClashes DEF Entries
    <3> QED
      BY <3>1, <3>2, ApartElements DEF LogInv, NoClash
  <2> QED
    BY <2>1, <2>2, <2>3 DEF Single
<1>2. Init => WireInv
  BY WireInvInit
<1>3. TypeInv /\ PlanInv /\ LogInv /\ WireInv /\ [Next]_vars => WireInv'
  BY WireInvStep
<1> QED
  BY <1>1, <1>2, <1>3, HistoryInvariant, PTL DEF Spec

(***************************************************************************)
(* Tracking.                                                               *)
(***************************************************************************)

\* TrackedUntilComplete, for one session.
Tracked(x) ==
    /\ x \in DOMAIN dispatched => Elements(dispatched[x]) = Assigned(x)
    /\ Assigned(x) # {} /\ x \notin completed => x \in DOMAIN dispatched

LEMMA TrackedMeans == TrackedUntilComplete <=> \A x \in Ended : Tracked(x)
BY DEF TrackedUntilComplete, Tracked, Assigned

\* An accepted send adds its sender to those of its session.
LEMMA AssignedStep ==
    ASSUME TypeInv, SendAccepted, NEW x
    PROVE  Assigned(x)' = IF x = sessions THEN Assigned(x) \cup {Assignment.sender_id} ELSE Assigned(x)
<1>1. sent' = Append(sent, AssignSession) /\ Sending /\ JobTyped /\ sent \in Seq(ShardsUpTo(sessions))
  BY DEF SendAccepted, TypeInv, LogTyped
<1>2. AssignSession = Shard(sessions, Assignment) /\ AssignSession \in ShardsUpTo(sessions)
  BY <1>1, CurrentAssignment
<1>3. AssignSession.session_id = sessions /\ AssignSession.sender_id = Assignment.sender_id
  BY <1>2 DEF Shard
<1>4. Elements(sent') = Elements(sent) \cup {AssignSession}
  BY <1>1, <1>2, ElementsAppend
<1>5. Assigned(x) = {e.sender_id : e \in {f \in Elements(sent) : f.session_id = x}}
  BY DEF Assigned, Elements
<1>6. Assigned(x)' = {e.sender_id : e \in {f \in Elements(sent') : f.session_id = x}}
  BY DEF Assigned, Elements
<1> QED
  BY <1>3, <1>4, <1>5, <1>6

LEMMA TrackInvInit == Init => TrackInv
<1> SUFFICES ASSUME Init PROVE TrackInv
  OBVIOUS
<1>1. ~ Active /\ Ended = {}
  BY DEF Init, Active, Ended
<1> QED
  BY <1>1, TrackedMeans DEF TrackInv

LEMMA TrackInvStep == TypeInv /\ TypeInv' /\ TrackInv /\ [Next]_vars => TrackInv'
<1> SUFFICES ASSUME TypeInv, TypeInv', TrackInv, [Next]_vars PROVE TrackInv'
  OBVIOUS
<1>a. \A x \in Ended : Tracked(x)
  BY TrackedMeans DEF TrackInv
<1>b. (\A x \in Ended' : Tracked(x)') => TrackedUntilComplete'
  BY DEF TrackedUntilComplete, Tracked, Assigned
<1>c. JobTyped /\ sessions \in Nat /\ DOMAIN dispatched \subseteq 1 .. sessions
  BY DispatchAssumption DEF TypeInv, JobTyped, LogTyped
<1>1. CASE Aside /\ UNCHANGED <<dispatched, completed>>
  <2>1. Ended' = Ended
    BY <1>1, EndedStep
  <2>2. \A x : Assigned(x)' = Assigned(x)
    BY <1>1 DEF Aside, Assigned
  <2>3. \A x \in Ended' : Tracked(x)'
    BY <1>a, <1>1, <2>1, <2>2 DEF Tracked
  <2> QED
    BY <1>b, <1>1, <2>2, <2>3 DEF TrackInv, Aside, SameJob
<1>2. CASE Aside /\ HandleSessionComplete
  <2>1. Ended' = Ended
    BY <1>2, EndedStep
  <2>2. \A x : Assigned(x)' = Assigned(x)
    BY <1>2 DEF Aside, Assigned
  <2>3. PICK y : dispatched' = complete_session(y) /\ completed' = completed \cup {y}
    BY <1>2 DEF HandleSessionComplete
  <2>4. DOMAIN dispatched' = DOMAIN dispatched \ {y} /\ \A x \in DOMAIN dispatched' : dispatched'[x] = dispatched[x]
    BY <2>3 DEF complete_session
  <2>5. \A x \in Ended' : Tracked(x)'
    BY <1>a, <2>1, <2>2, <2>3, <2>4 DEF Tracked
  <2> QED
    BY <1>b, <1>2, <2>2, <2>4, <2>5 DEF TrackInv, Aside, SameJob
<1>3. CASE StartSession
  <2>1. Ended' = Ended /\ UNCHANGED <<dispatched, completed, sent>> /\ sessions' = sessions + 1
    BY <1>3, EndedStep DEF StartSession, history
  <2>2. \A x : Assigned(x)' = Assigned(x)
    BY <2>1 DEF Assigned
  <2>3. \A x \in Ended' : Tracked(x)'
    BY <1>a, <2>1, <2>2 DEF Tracked
  <2>4. Elements(job'.succeeded) = {}
    <3>1. job'.succeeded = <<>>
      BY <1>3, Starts DEF TypeInv
    <3> QED
      BY <3>1 DEF Elements
  <2>5. Assigned(sessions') = {}
    <3>1. \A i \in DOMAIN sent : sent[i].session_id # sessions'
      BY <1>c, <2>1, HistorySessions DEF Entries, Elements
    <3> QED
      BY <3>1 DEF Assigned
  <2>6. Assigned(sessions)' = {}
    BY <2>1, <2>5 DEF Assigned
  <2>7. sessions' \notin DOMAIN dispatched'
    BY <1>c, <2>1
  <2> QED
    BY <1>b, <2>3, <2>4, <2>6, <2>7 DEF TrackInv
<1>4. CASE SendAccepted
  <2>1. Ended' = Ended /\ sessions \notin Ended
    BY <1>4, EndedStep
  <2>2. UNCHANGED <<dispatched, completed, sessions>> /\ Active
    BY <1>4 DEF SendAccepted, Sending, Active
  <2>3. \A x \in Ended' : Tracked(x)'
    <3> SUFFICES ASSUME NEW x \in Ended' PROVE Tracked(x)'
      OBVIOUS
    <3>1. Assigned(x)' = Assigned(x)
      BY <1>4, <2>1, AssignedStep
    <3> QED
      BY <1>a, <2>1, <2>2, <3>1 DEF Tracked
  <2>4. job'.succeeded = Append(job.succeeded, Assignment.sender_id)
        /\ job.succeeded \in Seq(Senders) /\ Assignment.sender_id \in Senders
    BY <1>c, <1>4, AcceptedJob, CurrentAssignment DEF JobTyped, Jobs, SendAccepted, Assignments
  <2>5. Elements(job'.succeeded) = Elements(job.succeeded) \cup {Assignment.sender_id}
    BY <2>4, ElementsAppend
  <2>6. Assigned(sessions)' = Assigned(sessions) \cup {Assignment.sender_id}
    <3>1. PICK x : x = sessions
      OBVIOUS
    <3>2. Assigned(x)' = Assigned(x) \cup {Assignment.sender_id}
      BY <1>4, <3>1, AssignedStep
    <3> QED
      BY <2>2, <3>1, <3>2 DEF Assigned
  <2> QED
    BY <1>b, <2>2, <2>3, <2>5, <2>6 DEF TrackInv
<1>5. CASE Loses
  <2>1. Ended' = Ended /\ UNCHANGED <<pc, dispatched, completed, sessions, sent>>
    BY <1>5, EndedStep DEF Loses
  <2>2. \A x : Assigned(x)' = Assigned(x)
    BY <2>1 DEF Assigned
  <2>3. \A x \in Ended' : Tracked(x)'
    BY <1>a, <2>1, <2>2 DEF Tracked
  <2>4. job'.succeeded = job.succeeded
    BY <1>c, <1>5, LostJob DEF Loses
  <2>5. Assigned(sessions)' = Assigned(sessions)
    BY <2>1 DEF Assigned
  <2> QED
    BY <1>b, <2>1, <2>3, <2>4, <2>5 DEF TrackInv, Active
<1>6. CASE Finish
  <2>1. /\ Ended' = Ended \cup {sessions} /\ ~ Active' /\ Active
        /\ UNCHANGED <<completed, sessions, sent>> /\ dispatched' = Record(job)
    BY <1>6, EndedStep DEF Finish, Active
  <2>2. \A x : Assigned(x)' = Assigned(x)
    BY <2>1 DEF Assigned
  <2>3. job.session_id = sessions /\ sessions \notin DOMAIN dispatched /\ Elements(job.succeeded) = Assigned(sessions)
    BY <1>c, <2>1 DEF TrackInv, JobTyped
  <2>4. sessions \notin Ended
    BY <1>6, EndedStep
  <2>5. ASSUME NEW x \in Ended PROVE Tracked(x)'
    <3>1. x # sessions
      BY <2>4
    <3>2. (x \in DOMAIN dispatched' <=> x \in DOMAIN dispatched) /\ (x \in DOMAIN dispatched => dispatched'[x] = dispatched[x])
      BY <2>1, <2>3, <3>1 DEF Record
    <3> QED
      BY <1>a, <2>1, <2>2, <3>2 DEF Tracked
  <2>6. ASSUME NEW x, x = sessions PROVE Tracked(x)'
    <3>1. CASE job.succeeded # <<>>
      <4>1. x \in DOMAIN dispatched' /\ dispatched'[x] = job.succeeded
        BY <2>1, <2>3, <2>6, <3>1 DEF Record
      <4> QED
        BY <2>2, <2>3, <2>6, <4>1 DEF Tracked
    <3>2. CASE job.succeeded = <<>>
      <4>1. x \notin DOMAIN dispatched'
        BY <2>1, <2>3, <2>6, <3>2 DEF Record
      <4>2. Assigned(x) = {}
        BY <2>3, <2>6, <3>2 DEF Elements
      <4> QED
        BY <2>2, <4>1, <4>2 DEF Tracked
    <3> QED
      BY <3>1, <3>2
  <2>7. \A x \in Ended' : Tracked(x)'
    BY <2>1, <2>5, <2>6
  <2> QED
    BY <1>b, <2>1, <2>7 DEF TrackInv
<1> QED
  BY <1>1, <1>2, <1>3, <1>4, <1>5, <1>6, StepKinds

(***************************************************************************)
(* _dispatched_sessions holds every session of which a shard was accepted  *)
(* from the end of its dispatch until its SessionComplete is handled, with *)
(* exactly the senders whose send succeeded.                               *)
(***************************************************************************)
THEOREM SessionsTracked == Spec => []TrackedUntilComplete
<1>1. Init => TypeInv /\ TrackInv
  BY TypeInvInit, TrackInvInit
<1>2. (TypeInv /\ TrackInv) /\ [Next]_vars => (TypeInv /\ TrackInv)'
  BY TypeInvStep, TrackInvStep
<1>3. TrackInv => TrackedUntilComplete
  BY DEF TrackInv
<1> QED
  BY <1>1, <1>2, <1>3, PTL DEF Spec

(***************************************************************************)
(* Losses.                                                                 *)
(***************************************************************************)

\* s is not among the assignments the running dispatch has still to send.
NotAhead(s) ==
    Active => \A k \in job.index .. Len(job.assignments) : job.assignments[k].sender_id # s

Forgotten(s) == s \notin DOMAIN registry /\ NotAhead(s)

LEMMA LossInvMeans ==
    LossInv <=> \A s \in Senders : losses[s] > 0 => losses[s] = 1 /\ Forgotten(s)
BY DEF LossInv, Forgotten, NotAhead

LEMMA LossInvInit == Init => LossInv
BY DEF Init, LossInv

LEMMA NotAheadKept ==
    ASSUME NEW s, NotAhead(s), UNCHANGED <<pc, job>>
    PROVE  NotAhead(s)'
BY DEF NotAhead, Active

\* The plan ahead gets shorter.
LEMMA NotAheadLater ==
    ASSUME JobTyped, NEW s, NotAhead(s), Active, job'.index \in {job.index, job.index + 1},
           job'.assignments = job.assignments
    PROVE  NotAhead(s)'
<1>1. job.index \in Nat /\ Len(job.assignments) \in Nat
  BY DEF JobTyped, Jobs
<1> QED
  BY <1>1 DEF NotAhead

\* The dispatcher leaves a forgotten sender alone, and so does every handler
\* but that of its own hello or heartbeat.
LEMMA StaysForgotten ==
    ASSUME TypeInv, PlanInv, NEW s \in Senders, Forgotten(s),
           \/ Detect \/ DispatchStep \/ HandleSessionComplete \/ HandleIgnored \/ Tick
           \/ HandleAlive /\ Head(incoming).from # s
    PROVE  Forgotten(s)'
<1>a. RegistryTyped /\ JobTyped /\ s \notin DOMAIN registry /\ NotAhead(s)
  BY DEF TypeInv, Forgotten
<1>1. CASE Detect \/ DispatchRaises \/ SkipNoSenders
  <2>1. registry' \in {registry, purge_expired(registry)} /\ pc' \in {"idle", "hashing"}
    BY <1>1 DEF Detect, DispatchRaises, SkipNoSenders
  <2>2. s \notin DOMAIN registry'
    BY <1>a, <2>1, RegistryOperations
  <2> QED
    BY <2>1, <2>2 DEF Forgotten, NotAhead, Active
<1>2. CASE StartSession
  <2>1. registry' = purge_expired(registry)
    BY <1>2 DEF StartSession
  <2>2. s \notin DOMAIN purge_expired(registry)
    BY <1>a, RegistryOperations
  <2> DEFINE plan(q) == derive_shard_assignments(TotalBlocks, q, BasePort)
  <2>3. PICK q \in Seq(Senders) :
          /\ Len(q) \in Nat /\ Len(q) > 0
          /\ \A i \in 1 .. Len(q) : q[i] \in DOMAIN purge_expired(registry)
          /\ job'.assignments = plan(q) /\ job'.index = 1
    BY <1>a, <1>2, Starts
  <2>4. Len(plan(q)) = Len(q) /\ \A k \in 1 .. Len(q) : plan(q)[k].sender_id = q[k]
    BY <2>3, Planned
  <2> HIDE DEF plan
  <2>5. NotAhead(s)'
    BY <2>2, <2>3, <2>4 DEF NotAhead
  <2> QED
    BY <2>1, <2>2, <2>5 DEF Forgotten
<1>3. CASE SendAccepted
  <2>1. Active /\ registry' = registry
    BY <1>3 DEF SendAccepted, Sending, Active
  <2>2. NotAhead(s)'
    BY <1>a, <1>3, <2>1, AcceptedJob, NotAheadLater
  <2> QED
    BY <1>a, <2>1, <2>2 DEF Forgotten
<1>4. CASE SendUnknown \/ SendFullLost
  <2>1. /\ Sending /\ Active /\ job' = Lose(job)
        /\ registry' \in {registry, remove(registry, Assignment.sender_id)}
    BY <1>4 DEF SendUnknown, SendFullLost, Sending, Active
  <2>2. s \notin DOMAIN registry'
    BY <1>a, <2>1 DEF remove
  <2>3. NotAhead(s)'
    BY <1>a, <2>1, LostJob, NotAheadLater
  <2> QED
    BY <2>2, <2>3 DEF Forgotten
<1>5. CASE SendFullRetry \/ RetryWakes
  <2>1. /\ Active /\ UNCHANGED registry /\ job' \in {job, NextAttempt(job)} /\ job \in Jobs
    BY <1>a, <1>5 DEF SendFullRetry, RetryWakes, Sending, Active, JobTyped
  <2>2. job'.index = job.index /\ job'.assignments = job.assignments
    BY <2>1, NextAttemptJob
  <2>3. NotAhead(s)'
    BY <1>a, <2>1, <2>2, NotAheadLater
  <2> QED
    BY <1>a, <2>1, <2>3 DEF Forgotten
<1>6. CASE Finish
  BY <1>a, <1>6 DEF Finish, Forgotten, NotAhead, Active
<1>7. CASE HandleAlive /\ Head(incoming).from # s
  <2>1. registry' = register(registry, Head(incoming).from) /\ UNCHANGED <<pc, job>>
    BY <1>7 DEF HandleAlive, jobVars
  <2>2. s \notin DOMAIN registry'
    BY <1>a, <1>7, <2>1 DEF register
  <2> QED
    BY <1>a, <2>1, <2>2, NotAheadKept DEF Forgotten
<1>8. CASE HandleSessionComplete \/ HandleIgnored \/ Tick
  <2>1. UNCHANGED <<pc, job>> /\ DOMAIN registry' = DOMAIN registry
    BY <1>8 DEF HandleSessionComplete, HandleIgnored, Tick, jobVars, Elapse
  <2> QED
    BY <1>a, <2>1, NotAheadKept DEF Forgotten
<1> QED
  BY <1>1, <1>2, <1>3, <1>4, <1>5, <1>6, <1>7, <1>8 DEF DispatchStep

\* A failed send takes the sender off the registry, and the plan names it once.
LEMMA LostIsForgotten ==
    ASSUME TypeInv, PlanInv, SendUnknown, NEW s \in Senders, s = Assignment.sender_id
    PROVE  Forgotten(s)'
<1>1. JobTyped /\ Sending /\ Active /\ job' = Lose(job) /\ UNCHANGED pc /\ registry' = remove(registry, s)
  BY DEF TypeInv, SendUnknown, Sending, Active
<1>2. /\ job.index \in DOMAIN job.assignments /\ job.assignments[job.index].sender_id = s
      /\ job.assignments \in Seq(Assignments)
      /\ job'.index = job.index + 1 /\ job'.assignments = job.assignments
  BY <1>1, CurrentAssignment, LostJob DEF Assignment, JobTyped, Jobs
<1>3. NotAhead(s)'
  <2> SUFFICES ASSUME NEW k \in job'.index .. Len(job'.assignments)
               PROVE  job'.assignments[k].sender_id # s
    BY DEF NotAhead
  <2>1. k \in DOMAIN job.assignments /\ k # job.index
    BY <1>2
  <2> QED
    BY <1>1, <1>2, <2>1 DEF PlanInv
<1>4. s \notin DOMAIN registry'
  BY <1>1 DEF remove
<1> QED
  BY <1>3, <1>4 DEF Forgotten

LEMMA LossInvStep == TypeInv /\ PlanInv /\ LossInv /\ [Next]_vars => LossInv'
<1> SUFFICES ASSUME TypeInv, PlanInv, LossInv, [Next]_vars, NEW s \in Senders, losses'[s] > 0
             PROVE  losses'[s] = 1 /\ Forgotten(s)'
  BY DEF LossInv, Forgotten, NotAhead
<1>1. losses[s] > 0 => losses[s] = 1 /\ Forgotten(s)
  BY LossInvMeans
<1>2. losses \in [Senders -> Nat]
  BY DEF TypeInv, LogTyped
<1>3. CASE UNCHANGED vars
  BY <1>1, <1>3 DEF vars, Forgotten, NotAhead, Active
<1>4. CASE SendUnknown
  <2> DEFINE t == Assignment.sender_id
  <2>1. Sending /\ Active /\ JobTyped /\ losses' = [losses EXCEPT ![t] = @ + 1]
    BY <1>4 DEF SendUnknown, TypeInv, Sending, Active
  <2>2. t \in Senders /\ ~ NotAhead(t)
    <3>1. Assignment \in Assignments /\ job.index \in DOMAIN job.assignments /\ job.assignments \in Seq(Assignments)
      BY <2>1, CurrentAssignment DEF JobTyped, Jobs
    <3>2. job.index \in job.index .. Len(job.assignments)
      BY <3>1
    <3> QED
      BY <2>1, <3>1, <3>2 DEF NotAhead, Assignment, Assignments
  <2>3. CASE s = t
    <3>1. ~ (losses[s] > 0)
      BY <1>1, <2>2, <2>3 DEF Forgotten
    <3>2. losses[s] = 0
      BY <1>2, <3>1
    <3>3. losses'[s] = 1
      BY <1>2, <2>1, <2>2, <2>3, <3>2
    <3>4. Forgotten(s)'
      BY <1>4, <2>3, LostIsForgotten
    <3> QED
      BY <3>3, <3>4
  <2>4. CASE s # t
    <3>1. losses'[s] = losses[s]
      BY <1>2, <2>1, <2>4
    <3> QED
      BY <1>1, <1>4, <3>1, StaysForgotten DEF DispatchStep
  <2> QED
    BY <2>3, <2>4
<1>5. CASE HandleAlive
  <2>1. losses' = [losses EXCEPT ![Head(incoming).from] = 0]
    BY <1>5 DEF HandleAlive
  <2>2. Head(incoming).from # s /\ losses'[s] = losses[s]
    BY <1>2, <2>1
  <2> QED
    BY <1>1, <1>5, <2>2, StaysForgotten
<1>6. CASE Detect \/ HandleSessionComplete \/ HandleIgnored \/ Tick \/ (DispatchStep /\ ~ SendUnknown)
  <2>1. losses' = losses
    BY <1>6 DEF Detect, HandleSessionComplete, HandleIgnored, Tick, DispatchStep,
                DispatchRaises, SkipNoSenders, StartSession, SendAccepted, SendFullRetry, RetryWakes,
                SendFullLost, Finish, history
  <2> QED
    BY <1>1, <1>6, <2>1, StaysForgotten
<1>7. ASSUME NEW t \in Senders,
             SenderAttaches(t) \/ SenderSays(t) \/ SenderCompletes(t) \/ LinkStep(t)
      PROVE  losses'[s] = 1 /\ Forgotten(s)'
  <2>1. UNCHANGED <<losses, registry, pc, job>>
    BY <1>7 DEF SenderAttaches, SenderSays, SenderCompletes, LinkStep, history, jobVars
  <2> QED
    BY <1>1, <2>1, NotAheadKept DEF Forgotten
<1> QED
  BY <1>3, <1>4, <1>5, <1>6, <1>7 DEF Next

(***************************************************************************)
(* A sender that cannot be reached costs at most one shard for each of its *)
(* messages that is handled: the UnknownSender error takes it off the      *)
(* registry, the plan names it once, and only its own hello or heartbeat,  *)
(* a late one included, registers it again.                                *)
(***************************************************************************)
THEOREM LossesNeedMessages == Spec => []OneLossPerMessage
<1>1. Init => TypeInv /\ PlanInv /\ LossInv
  BY TypeInvInit, PlanInvInit, LossInvInit
<1>2. (TypeInv /\ PlanInv /\ LossInv) /\ [Next]_vars => (TypeInv /\ PlanInv /\ LossInv)'
  BY TypeInvStep, PlanInvStep, LossInvStep
<1>3. TypeInv /\ LossInv => OneLossPerMessage
  <2> SUFFICES ASSUME TypeInv, LossInv, NEW s \in Senders PROVE losses[s] <= 1
    BY DEF OneLossPerMessage
  <2>1. losses[s] \in Nat
    BY DEF TypeInv, LogTyped
  <2> QED
    BY <2>1 DEF LossInv
<1> QED
  BY <1>1, <1>2, <1>3, PTL DEF Spec

(***************************************************************************)
(* Silence.                                                                *)
(***************************************************************************)

LEMMA SilenceInvInit == Init => SilenceInv
BY DEF Init, SilenceInv, empty_registry

LEMMA SilenceInvStep == TypeInv /\ SilenceInv /\ [Next]_vars => SilenceInv'
<1> SUFFICES ASSUME TypeInv, SilenceInv, [Next]_vars PROVE SilenceInv'
  OBVIOUS
<1>a. RegistryTyped /\ PortTyped
  BY DEF TypeInv
<1>1. CASE /\ UNCHANGED quiet
           /\ DOMAIN registry' \subseteq DOMAIN registry
           /\ \A s \in DOMAIN registry' : registry'[s] = registry[s]
  BY <1>1 DEF SilenceInv
<1>2. CASE DispatchRaises \/ SkipNoSenders \/ StartSession
  <2>1. UNCHANGED quiet /\ registry' \in {registry, purge_expired(registry)}
    BY <1>2 DEF DispatchRaises, SkipNoSenders, StartSession, history
  <2> QED
    BY <1>1, <2>1 DEF purge_expired
<1>3. CASE SendUnknown
  <2>1. UNCHANGED quiet /\ registry' = remove(registry, Assignment.sender_id)
    BY <1>3 DEF SendUnknown
  <2> QED
    BY <1>1, <2>1 DEF remove
<1>4. CASE HandleAlive
  <2>1. PICK t \in Senders : registry' = register(registry, t) /\ quiet' = [quiet EXCEPT ![t] = 0]
    BY <1>a, <1>4, NextIncoming DEF HandleAlive
  <2>2. /\ DOMAIN registry' = DOMAIN registry \cup {t} /\ registry'[t] = 0
        /\ \A s \in DOMAIN registry : s # t => registry'[s] = registry[s]
    BY <1>a, <2>1, RegistryOperations
  <2>3. quiet'[t] = 0 /\ \A s \in Senders : s # t => quiet'[s] = quiet[s]
    BY <1>a, <2>1 DEF RegistryTyped
  <2> QED
    BY <1>a, <2>2, <2>3 DEF SilenceInv, RegistryTyped
<1>5. CASE Tick
  <2> SUFFICES ASSUME NEW s \in DOMAIN registry', registry'[s] < timeout_seconds
               PROVE  quiet'[s] <= registry'[s]
    BY DEF SilenceInv
  <2>1. s \in DOMAIN registry /\ s \in Senders
    BY <1>a, <1>5 DEF Tick, Elapse, RegistryTyped
  <2>2. registry'[s] = IF registry[s] <= timeout_seconds THEN registry[s] + 1 ELSE registry[s]
    BY <1>5, <2>1 DEF Tick, Elapse
  <2>3. registry[s] \in 0 .. timeout_seconds + 1 /\ quiet[s] \in 0 .. timeout_seconds /\ timeout_seconds \in Nat
    BY <1>a, <2>1, TimeoutPositive DEF RegistryTyped
  <2>4. quiet'[s] = minimum(quiet[s] + 1, timeout_seconds)
    BY <1>5, <2>1 DEF Tick
  <2>5. registry[s] < timeout_seconds /\ registry'[s] = registry[s] + 1
    BY <2>2, <2>3
  <2>6. quiet[s] <= registry[s]
    BY <2>1, <2>5 DEF SilenceInv
  <2> QED
    BY <2>3, <2>4, <2>5, <2>6 DEF minimum
<1> QED
  BY <1>1, <1>2, <1>3, <1>4, <1>5
  DEF Next, vars, history, Detect, DispatchStep, SendAccepted, SendFullRetry, RetryWakes,
      SendFullLost, Finish, HandleSessionComplete, HandleIgnored, SenderAttaches, SenderSays,
      SenderCompletes, LinkStep

(***************************************************************************)
(* A session is planned only for senders heard within the timeout: the     *)
(* silence the registry computes is never shorter than the true one, and   *)
(* get_active_senders purges before it lists.                              *)
(***************************************************************************)
THEOREM HeardSendersPlanned == Spec => OnlyHeardSendersPlanned
<1>1. Init => TypeInv /\ SilenceInv
  BY TypeInvInit, SilenceInvInit
<1>2. (TypeInv /\ SilenceInv) /\ [Next]_vars => (TypeInv /\ SilenceInv)'
  BY TypeInvStep, SilenceInvStep
<1>3. TypeInv /\ SilenceInv /\ StartSession =>
        \A i \in DOMAIN job'.assignments : quiet[job'.assignments[i].sender_id] < timeout_seconds
  <2> SUFFICES ASSUME TypeInv, SilenceInv, StartSession, NEW i \in DOMAIN job'.assignments
               PROVE  quiet[job'.assignments[i].sender_id] < timeout_seconds
    OBVIOUS
  <2> DEFINE plan(q) == derive_shard_assignments(TotalBlocks, q, BasePort)
  <2>1. PICK q \in Seq(Senders) :
          /\ Len(q) \in Nat /\ Len(q) > 0
          /\ \A k \in 1 .. Len(q) : q[k] \in DOMAIN purge_expired(registry)
          /\ job'.assignments = plan(q)
    BY Starts DEF TypeInv
  <2>2. /\ plan(q) \in Seq(Assignments) /\ Len(plan(q)) = Len(q)
        /\ \A k \in 1 .. Len(q) : plan(q)[k].sender_id = q[k]
    BY <2>1, Planned
  <2> HIDE DEF plan
  <2>3. i \in 1 .. Len(q) /\ job'.assignments[i].sender_id = q[i]
    BY <2>1, <2>2
  <2>4. q[i] \in DOMAIN registry /\ registry[q[i]] < timeout_seconds /\ q[i] \in Senders
    <3>1. q[i] \in Senders /\ q[i] \in DOMAIN purge_expired(registry)
      BY <2>1, <2>3
    <3>2. DOMAIN purge_expired(registry) = {t \in DOMAIN registry : registry[t] < timeout_seconds}
      BY <3>1, RegistryOperations DEF TypeInv
    <3> QED
      BY <3>1, <3>2
  <2>5. quiet[q[i]] <= registry[q[i]]
    BY <2>4 DEF SilenceInv
  <2>6. quiet[q[i]] \in Int /\ registry[q[i]] \in Int /\ timeout_seconds \in Int
    BY <2>4, TimeoutPositive DEF TypeInv, RegistryTyped
  <2> QED
    BY <2>3, <2>4, <2>5, <2>6
<1>4. (TypeInv /\ SilenceInv) /\ [Next]_vars =>
        [StartSession => \A i \in DOMAIN job'.assignments :
            quiet[job'.assignments[i].sender_id] < timeout_seconds]_vars
  BY <1>3
<1> QED
  BY <1>1, <1>2, <1>4, PTL DEF Spec, OnlyHeardSendersPlanned

(***************************************************************************)
(* Progress.                                                               *)
(***************************************************************************)

\* A retry belongs to an assignment: none is under way once the loop is over.
RetryInv == Active /\ (job.attempt > 0 \/ pc = "retry") => job.index <= Len(job.assignments)

LEMMA RetryInvStep == TypeInv /\ PlanInv' /\ RetryInv /\ [Next]_vars => RetryInv'
<1> SUFFICES ASSUME TypeInv, PlanInv', RetryInv, [Next]_vars PROVE RetryInv'
  OBVIOUS
<1>a. JobTyped /\ job \in Jobs
  BY DEF TypeInv, JobTyped
<1>1. CASE UNCHANGED <<pc, job>>
  BY <1>1 DEF RetryInv, Active
<1>2. CASE Detect \/ DispatchRaises \/ SkipNoSenders \/ Finish
  BY <1>2 DEF Detect, DispatchRaises, SkipNoSenders, Finish, RetryInv, Active
<1>3. CASE StartSession
  <2>1. job'.attempt = 0 /\ pc' = "sending"
    BY <1>3 DEF StartSession, NoJob
  <2> QED
    BY <2>1 DEF RetryInv
<1>4. CASE SendAccepted
  <2>1. job'.attempt = 0 /\ pc' = "sending"
    BY <1>4, <1>a, AcceptedJob DEF SendAccepted, Sending
  <2> QED
    BY <2>1 DEF RetryInv
<1>5. CASE SendUnknown \/ SendFullLost
  <2>1. Sending /\ job' = Lose(job) /\ pc' = "sending"
    BY <1>5 DEF SendUnknown, SendFullLost, Sending
  <2>2. job'.attempt = 0
    BY <1>a, <2>1, LostJob
  <2> QED
    BY <2>1, <2>2 DEF RetryInv
<1>6. CASE SendFullRetry
  BY <1>6 DEF SendFullRetry, Sending, RetryInv
<1>7. CASE RetryWakes
  <2>1. job'.index = job.index /\ job'.assignments = job.assignments
    BY <1>7, <1>a, NextAttemptJob DEF RetryWakes
  <2> QED
    BY <1>7, <2>1 DEF RetryWakes, RetryInv, Active
<1> QED
  BY <1>1, <1>2, <1>3, <1>4, <1>5, <1>6, <1>7
  DEF Next, vars, jobVars, DispatchStep, HandleAlive, HandleSessionComplete, HandleIgnored,
      SenderAttaches, SenderSays, SenderCompletes, LinkStep, Tick

\* A bound on the steps, sends and sleeps, that the running dispatch still takes.
Left(assignments, attempt, asleep) ==
    1 + 2 * (MAX_DISPATCH_ATTEMPTS * assignments) - 2 * attempt - asleep

StepsLeft ==
    IF Active
    THEN Left(Len(job.assignments) + 1 - job.index, job.attempt, IF pc = "retry" THEN 1 ELSE 0)
    ELSE 0

LEMMA JobNumbers ==
    ASSUME TypeInv
    PROVE  /\ MAX_DISPATCH_ATTEMPTS \in Nat \ {0}
           /\ Len(job.assignments) \in Nat /\ job.index \in Nat
           /\ Len(job.assignments) + 1 - job.index \in Nat
           /\ job.attempt \in Nat /\ job.attempt < MAX_DISPATCH_ATTEMPTS
<1>1. /\ job.assignments \in Seq(Assignments) /\ job.index \in Nat /\ job.attempt \in Nat
      /\ job.index \in 1 .. Len(job.assignments) + 1 /\ job.attempt < MAX_DISPATCH_ATTEMPTS
  BY DEF TypeInv, JobTyped, Jobs
<1>2. Len(job.assignments) \in Nat
  BY <1>1
<1> QED
  BY <1>1, <1>2, DispatchAssumption

\* One assignment more is worth all its attempts.
LEMMA StepsOfAssignments ==
    ASSUME NEW n \in Nat, n > 0, NEW m \in Nat \ {0}
    PROVE  m * n \in Nat /\ m * (n - 1) \in Nat /\ m * n = m * (n - 1) + m
OBVIOUS

LEMMA StepsLeftPositive == TypeInv /\ RetryInv /\ Active => StepsLeft \in Nat /\ StepsLeft > 0
<1> SUFFICES ASSUME TypeInv, RetryInv, Active PROVE StepsLeft \in Nat /\ StepsLeft > 0
  OBVIOUS
<1>1. PICK m \in Nat \ {0}, n \in Nat, a \in Nat, r \in {0, 1} :
        /\ m = MAX_DISPATCH_ATTEMPTS /\ n = Len(job.assignments) + 1 - job.index
        /\ a = job.attempt /\ r = IF pc = "retry" THEN 1 ELSE 0
  BY JobNumbers
<1>2. a < m /\ (r = 1 => a + 1 < m)
  BY <1>1 DEF TypeInv, JobTyped
<1>3. a > 0 \/ r = 1 => n > 0
  BY <1>1, JobNumbers DEF RetryInv
<1>4. StepsLeft = 1 + 2 * (m * n) - 2 * a - r
  BY <1>1 DEF StepsLeft, Left
<1>5. CASE n = 0
  <2>1. m * n = 0
    BY <1>5
  <2> QED
    BY <1>3, <1>4, <1>5, <2>1
<1>6. CASE n > 0
  <2>1. PICK p \in Nat : p = m * n /\ p >= m
    BY <1>6, StepsOfAssignments
  <2> QED
    BY <1>2, <1>4, <2>1
<1> QED
  BY <1>5, <1>6

\* The dispatch goes on to the next assignment.
LEMMA NextAssignmentCloser ==
    ASSUME TypeInv, Sending, pc' = "sending", job'.assignments = job.assignments,
           job'.index = job.index + 1, job'.attempt = 0
    PROVE  StepsLeft' < StepsLeft
<1>1. PICK m \in Nat \ {0}, n \in Nat, a \in Nat :
        /\ m = MAX_DISPATCH_ATTEMPTS /\ n = Len(job.assignments) + 1 - job.index
        /\ a = job.attempt /\ a < m /\ n > 0
  BY JobNumbers DEF Sending
<1>2. Len(job'.assignments) + 1 - job'.index = n - 1
  <2>1. PICK len \in Nat, i \in Nat : len = Len(job.assignments) /\ i = job.index
    BY JobNumbers
  <2>2. n = len + 1 - i /\ Len(job'.assignments) = len /\ job'.index = i + 1
    BY <1>1, <2>1
  <2> QED
    BY <2>2
<1>3. StepsLeft = Left(n, a, 0) /\ StepsLeft' = Left(n - 1, 0, 0)
  BY <1>1, <1>2 DEF StepsLeft, Active, Sending
<1>4. StepsLeft = 1 + 2 * (m * n) - 2 * a - 0 /\ StepsLeft' = 1 + 2 * (m * (n - 1)) - 2 * 0 - 0
  BY <1>1, <1>3 DEF Left
<1>5. PICK p \in Nat, q \in Nat : p = m * n /\ q = m * (n - 1) /\ p = q + m
  BY <1>1, StepsOfAssignments
<1>6. StepsLeft = 1 + 2 * p - 2 * a - 0 /\ StepsLeft' = 1 + 2 * q - 2 * 0 - 0
  BY <1>4, <1>5
<1>7. p = q + m /\ a < m
  BY <1>1, <1>5
<1> QED
  BY <1>6, <1>7

(***************************************************************************)
(* A dispatch cannot go on for ever, for any number of senders, any number *)
(* of attempts and any behaviour of the queues: each of its steps brings   *)
(* the number of steps it may still take down, and nobody else's brings it *)
(* up.  (The safety half of DispatchEnds; the rest is that the loop runs.) *)
(***************************************************************************)
THEOREM DispatchRunsDown ==
    Spec => /\ [](StepsLeft \in Nat /\ (StepsLeft = 0 <=> ~ Active))
            /\ [][Active => IF DispatchStep THEN StepsLeft' < StepsLeft ELSE StepsLeft' = StepsLeft]_vars
<1>1. Init => RetryInv
  BY DEF Init, RetryInv, Active
<1>2. TypeInv /\ RetryInv => StepsLeft \in Nat /\ (StepsLeft = 0 <=> ~ Active)
  <2>1. ~ Active => StepsLeft = 0
    BY DEF StepsLeft
  <2> QED
    BY <2>1, StepsLeftPositive
<1>3. ASSUME TypeInv, RetryInv, Next, Active
      PROVE  IF DispatchStep THEN StepsLeft' < StepsLeft ELSE StepsLeft' = StepsLeft
  <2>a. JobTyped /\ job \in Jobs
    BY <1>3 DEF TypeInv, JobTyped
  <2>1. CASE DispatchStep
    <3>1. CASE DispatchRaises \/ SkipNoSenders \/ StartSession
      BY <1>3, <3>1 DEF DispatchRaises, SkipNoSenders, StartSession, Active
    <3>2. CASE SendAccepted
      <4>1. Sending /\ pc' = "sending"
        BY <3>2 DEF SendAccepted, Sending
      <4> QED
        BY <1>3, <2>1, <2>a, <3>2, <4>1, AcceptedJob, NextAssignmentCloser
    <3>3. CASE SendUnknown \/ SendFullLost
      <4>1. Sending /\ pc' = "sending" /\ job' = Lose(job)
        BY <3>3 DEF SendUnknown, SendFullLost, Sending
      <4> QED
        BY <1>3, <2>1, <2>a, <4>1, LostJob, NextAssignmentCloser
    <3>4. CASE SendFullRetry
      <4>1. pc = "sending" /\ pc' = "retry" /\ UNCHANGED job
        BY <3>4 DEF SendFullRetry, Sending
      <4>2. PICK n \in Nat, a \in Nat : n = Len(job.assignments) + 1 - job.index /\ a = job.attempt
        BY <1>3, JobNumbers
      <4>3. StepsLeft = Left(n, a, 0) /\ StepsLeft' = Left(n, a, 1)
        BY <4>1, <4>2 DEF StepsLeft, Active
      <4>4. PICK p \in Int : p = MAX_DISPATCH_ATTEMPTS * n
        BY DispatchAssumption
      <4>5. StepsLeft = 1 + 2 * p - 2 * a - 0 /\ StepsLeft' = 1 + 2 * p - 2 * a - 1
        BY <4>3, <4>4 DEF Left
      <4> QED
        BY <2>1, <4>5
    <3>5. CASE RetryWakes
      <4>1. /\ pc = "retry" /\ pc' = "sending" /\ job'.assignments = job.assignments
            /\ job'.index = job.index /\ job'.attempt = job.attempt + 1
        BY <2>a, <3>5, NextAttemptJob DEF RetryWakes
      <4>2. PICK n \in Nat, a \in Nat : n = Len(job.assignments) + 1 - job.index /\ a = job.attempt
        BY <1>3, JobNumbers
      <4>3. StepsLeft = Left(n, a, 1) /\ StepsLeft' = Left(n, a + 1, 0)
        BY <4>1, <4>2 DEF StepsLeft, Active
      <4>4. PICK p \in Int : p = MAX_DISPATCH_ATTEMPTS * n
        BY DispatchAssumption
      <4>5. StepsLeft = 1 + 2 * p - 2 * a - 1 /\ StepsLeft' = 1 + 2 * p - 2 * (a + 1) - 0
        BY <4>3, <4>4 DEF Left
      <4> QED
        BY <2>1, <4>5
    <3>6. CASE Finish
      <4>1. StepsLeft' = 0
        BY <3>6 DEF Finish, StepsLeft, Active
      <4>2. StepsLeft \in Nat /\ StepsLeft > 0
        BY <1>3, StepsLeftPositive
      <4> QED
        BY <2>1, <4>1, <4>2
    <3> QED
      BY <2>1, <3>1, <3>2, <3>3, <3>4, <3>5, <3>6 DEF DispatchStep
  <2>2. CASE ~ DispatchStep
    <3>1. UNCHANGED <<pc, job>>
      BY <1>3, <2>2 DEF Next, Active, Detect, jobVars, HandleAlive, HandleSessionComplete,
        HandleIgnored, SenderAttaches, SenderSays, SenderCompletes, LinkStep, Tick
    <3> QED
      BY <2>2, <3>1 DEF StepsLeft, Active
  <2> QED
    BY <2>1, <2>2
<1>4. TypeInv /\ RetryInv /\ [Next]_vars =>
        [Active => IF DispatchStep THEN StepsLeft' < StepsLeft ELSE StepsLeft' = StepsLeft]_vars
  BY <1>3
<1> QED
  BY <1>1, <1>2, <1>4, RetryInvStep, HistoryInvariant, PTL DEF Spec

(***************************************************************************)
(* Why a completed session can stay in _dispatched_sessions (the run       *)
(* dispatch_completed): the sleep before a retry is the only place where a *)
(* SessionComplete overtakes the record of its session.  With one attempt  *)
(* per sender, so without a sleep, no completed session is tracked.        *)
(***************************************************************************)
THEOREM DroppedWithoutRetries ==
    ASSUME MAX_DISPATCH_ATTEMPTS = 1
    PROVE  Spec => []CompletedSessionDropped
<1> DEFINE DropInv == CompletedSessionDropped /\ (Active => sessions \notin completed)
<1>1. Init => DropInv
  BY DEF Init, CompletedSessionDropped, Active
<1>2. TypeInv /\ DropInv /\ [Next]_vars => DropInv'
  <2> SUFFICES ASSUME TypeInv, DropInv, [Next]_vars PROVE DropInv'
    OBVIOUS
  <2>a. JobTyped /\ sessions \in Nat /\ completed \subseteq 1 .. sessions
    BY DispatchAssumption DEF TypeInv, JobTyped, LogTyped
  <2>b. Active => pc = "sending"
    BY <2>a DEF JobTyped, Jobs, Active
  <2>1. CASE Aside /\ UNCHANGED <<dispatched, completed>>
    BY <2>1 DEF Aside, CompletedSessionDropped
  <2>2. CASE HandleSessionComplete
    <3>1. ~ Active /\ UNCHANGED pc
      BY <2>2, <2>b DEF HandleSessionComplete, Yielded
    <3>2. PICK x : /\ DOMAIN dispatched' = DOMAIN dispatched \ {x}
                   /\ completed' = completed \cup {x}
      BY <2>2 DEF HandleSessionComplete, complete_session
    <3> QED
      BY <3>1, <3>2 DEF CompletedSessionDropped, Active
  <2>3. CASE StartSession
    <3>1. sessions' = sessions + 1 /\ UNCHANGED <<dispatched, completed>>
      BY <2>3 DEF StartSession, history
    <3>2. sessions + 1 \notin completed
      BY <2>a
    <3> QED
      BY <3>1, <3>2 DEF CompletedSessionDropped
  <2>4. CASE SendAccepted
    BY <2>4 DEF SendAccepted, CompletedSessionDropped, Active
  <2>5. CASE Loses
    BY <2>5 DEF Loses, CompletedSessionDropped, Active
  <2>6. CASE Finish
    <3>1. Active /\ ~ Active' /\ UNCHANGED completed /\ dispatched' = Record(job)
      BY <2>6 DEF Finish, Active
    <3>2. job.session_id = sessions
      BY <2>a, <3>1 DEF JobTyped
    <3>3. DOMAIN dispatched' \subseteq DOMAIN dispatched \cup {sessions}
      BY <3>1, <3>2 DEF Record
    <3> QED
      BY <3>1, <3>3 DEF CompletedSessionDropped
  <2> QED
    BY <2>1, <2>2, <2>3, <2>4, <2>5, <2>6, StepKinds
<1>3. DropInv => CompletedSessionDropped
  OBVIOUS
<1> HIDE DEF DropInv
<1> QED
  BY <1>1, <1>2, <1>3, TypeInvariant, PTL DEF Spec
=============================================================================
