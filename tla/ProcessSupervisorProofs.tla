----------------------- MODULE ProcessSupervisorProofs -----------------------
(***************************************************************************)
(* For any number of children, any backoff schedule and any limits: the    *)
(* types, and, when run is cancelled before shutdown as main.py does, that *)
(* shutdown leaves no process alive and kills none before its time.        *)
(***************************************************************************)
EXTENDS ProcessSupervisor, TLAPS

LEMMA AppendBounded ==
    ASSUME NEW s \in Seq(Nat), NEW x \in Nat, NEW max \in Nat \ {0}, Len(s) <= max
    PROVE  /\ append_bounded(s, x, max) \in Seq(Nat)
           /\ Len(append_bounded(s, x, max)) <= max
<1>1. Append(s, x) \in Seq(Nat) /\ Len(Append(s, x)) = Len(s) + 1
  OBVIOUS
<1>2. Append(s, x) # <<>>
  OBVIOUS
<1>3. Tail(Append(s, x)) \in Seq(Nat) /\ Len(Tail(Append(s, x))) = Len(s)
  BY <1>1, <1>2
<1> QED
  BY <1>1, <1>3 DEF append_bounded

\* A spawn history is never longer than it has to be.
SpawnsBounded == \A c \in Children : Len(spawns[c]) <= MaxRestarts + 1

TypeInv == TypeOK /\ SpawnsBounded

LEMMA AfterExitTypes ==
    ASSUME TypeInv, NEW c \in Children, AfterExit(c)
    PROVE  /\ failures' \in [Children -> 0 .. Len(Backoff)]
           /\ exits' \in [Children -> Seq(Nat)]
           /\ \A d \in Children : Len(exits'[d]) <= MaxRestarts
           /\ wake' \in [Children -> Nat]
           /\ degraded' \subseteq Children
           /\ UNCHANGED <<started, spawns>>
           /\ task' = [task EXCEPT ![c] = "returned"] \/ task' = [task EXCEPT ![c] = "backoff"]
<1> DEFINE ts == remember_exit(exits[c])
           n == failures_at_exit(c)
<1>1. ts \in Seq(Nat) /\ Len(ts) <= MaxRestarts
  BY AppendBounded, SupervisorAssumption DEF TypeInv, TypeOK, remember_exit
<1>2. Len(Backoff) \in Nat \ {0} /\ \A i \in 1 .. Len(Backoff) : Backoff[i] \in Nat
  BY SupervisorAssumption
<1>3. n \in 0 .. Len(Backoff)
  BY <1>2 DEF TypeInv, TypeOK, failures_at_exit
<1>4. delay_after(n) \in Nat
  BY <1>2, <1>3 DEF delay_after, capped
<1>5. capped(n + 1, Len(Backoff)) \in 0 .. Len(Backoff)
  BY <1>2, <1>3 DEF capped
<1> HIDE DEF ts, n
<1>6. CASE stopping
  BY <1>6 DEF AfterExit, childVars, TypeInv, TypeOK
<1>7. CASE ~ stopping /\ in_crash_loop(ts)
  <2>1. /\ exits' = [exits EXCEPT ![c] = ts]
        /\ failures' = [failures EXCEPT ![c] = n]
        /\ degraded' = degraded \cup {c}
        /\ task' = [task EXCEPT ![c] = "returned"]
        /\ UNCHANGED <<started, wake, spawns>>
    BY <1>7 DEF AfterExit, ts, n
  <2> HIDE DEF ts, n
  <2>2. exits' \in [Children -> Seq(Nat)] /\ \A d \in Children : Len(exits'[d]) <= MaxRestarts
    BY <1>1, <2>1 DEF TypeInv, TypeOK
  <2> QED
    BY <1>3, <2>1, <2>2 DEF TypeInv, TypeOK
<1>8. CASE ~ stopping /\ ~ in_crash_loop(ts)
  <2>1. /\ exits' = [exits EXCEPT ![c] = ts]
        /\ failures' = [failures EXCEPT ![c] = capped(n + 1, Len(Backoff))]
        /\ wake' = [wake EXCEPT ![c] = now + delay_after(n)]
        /\ task' = [task EXCEPT ![c] = "backoff"]
        /\ UNCHANGED <<started, degraded, spawns>>
    BY <1>8 DEF AfterExit, ts, n
  <2>2. now + delay_after(n) \in Nat
    BY <1>4 DEF TypeInv, TypeOK
  <2> HIDE DEF ts, n
  <2> QED
    BY <1>1, <1>5, <2>1, <2>2 DEF TypeInv, TypeOK
<1> QED
  BY <1>6, <1>7, <1>8

LEMMA LoopHeadTypes ==
    ASSUME TypeInv, NEW c \in Children, LoopHead(c)
    PROVE  /\ task' \in [Children -> {"created", "spawning", "waiting", "backoff"} \cup Ended]
           /\ started' \in [Children -> Nat]
           /\ spawns' \in [Children -> Seq(Nat)]
           /\ \A d \in Children : Len(spawns'[d]) <= MaxRestarts + 1
<1>1. /\ append_bounded(spawns[c], now, MaxRestarts + 1) \in Seq(Nat)
      /\ Len(append_bounded(spawns[c], now, MaxRestarts + 1)) <= MaxRestarts + 1
  BY AppendBounded, SupervisorAssumption DEF TypeInv, TypeOK, SpawnsBounded
<1> QED
  BY <1>1 DEF LoopHead, TypeInv, TypeOK, SpawnsBounded, Ended

LEMMA TypeInvInit == Init => TypeInv
<1> SUFFICES ASSUME Init PROVE TypeInv
  OBVIOUS
<1> DEFINE e == <<>>
<1>1. e \in Seq(Nat) /\ Len(e) = 0
  OBVIOUS
<1>2. exits = [c \in Children |-> e] /\ spawns = [c \in Children |-> e]
  BY DEF Init
<1> HIDE DEF e
<1>3. /\ exits \in [Children -> Seq(Nat)] /\ spawns \in [Children -> Seq(Nat)]
      /\ \A c \in Children : Len(exits[c]) = 0 /\ Len(spawns[c]) = 0
  BY <1>1, <1>2
<1>4. Len(Backoff) \in Nat
  BY SupervisorAssumption
<1>5. failures \in [Children -> 0 .. Len(Backoff)] /\ started \in [Children -> Nat] /\ wake \in [Children -> Nat]
  BY <1>4 DEF Init
<1>6. MaxRestarts \in Nat
  BY SupervisorAssumption
<1>7. /\ now \in Nat /\ graceEnd \in Nat
      /\ task \in [Children -> {"created", "spawning", "waiting", "backoff"} \cup Ended]
      /\ proc \in [Children -> Running \cup {"none", "dead"}]
  BY DEF Init
<1>8. /\ table \subseteq Children /\ degraded \subseteq Children /\ awaited \subseteq Children
      /\ cancelling \in BOOLEAN /\ stopping \in BOOLEAN
      /\ shut \in {"no", "grace", "yield", "reaping", "done"}
  BY DEF Init
<1>9. (\A c \in Children : Len(exits[c]) <= MaxRestarts) /\ SpawnsBounded
  BY <1>3, <1>6 DEF SpawnsBounded
<1> QED
  BY <1>3, <1>5, <1>7, <1>8, <1>9 DEF TypeInv, TypeOK

LEMMA TypeInvStep == TypeInv /\ [Next]_vars => TypeInv'
<1> SUFFICES ASSUME TypeInv, [Next]_vars PROVE TypeInv'
  OBVIOUS
<1> USE DEF TypeInv, TypeOK, SpawnsBounded
<1>1. ASSUME NEW c \in Children, Start(c) \/ BackoffOver(c) PROVE TypeInv'
  BY <1>1, LoopHeadTypes DEF Start, BackoffOver, shutVars
<1>2. ASSUME NEW c \in Children, SpawnFails(c) \/ Reap(c) PROVE TypeInv'
  <2>1. AfterExit(c)
    BY <1>2 DEF SpawnFails, Reap
  <2>2. proc' \in [Children -> Running \cup {"none", "dead"}] /\ table' \subseteq Children
    BY <1>2 DEF SpawnFails, Reap
  <2>3. UNCHANGED <<now, cancelling, stopping, shut, awaited, graceEnd>>
    BY <1>2 DEF SpawnFails, Reap, shutVars
  <2>4. task' \in [Children -> {"created", "spawning", "waiting", "backoff"} \cup Ended]
    BY <2>1, AfterExitTypes DEF Ended
  <2> QED
    BY <2>1, <2>2, <2>3, <2>4, AfterExitTypes
<1>3. ASSUME NEW c \in Children, SpawnOk(c) \/ TaskCancelled(c) \/ Exit(c) PROVE TypeInv'
  BY <1>3 DEF SpawnOk, TaskCancelled, Exit, ForgetCancelled, childVars, shutVars, Running, Ended
<1>4. CASE CancelRun
  BY <1>4 DEF CancelRun, childVars, shutVars
<1>5. ASSUME NEW ps, NEW sig \in Running
      PROVE  signalled(ps, sig) \in [Children -> Running \cup {"none", "dead"}]
  BY <1>5 DEF signalled
<1>6. CASE Shutdown
  <2>1. proc' \in [Children -> Running \cup {"none", "dead"}]
    BY <1>5, <1>6 DEF Shutdown, BeginShutdown, Running
  <2> QED
    BY <1>6, <2>1, SupervisorAssumption DEF Shutdown, BeginShutdown, childVars
<1>7. CASE GraceOver \/ ShutdownReturns
  BY <1>7 DEF GraceOver, ShutdownReturns, childVars
<1>8. CASE Escalate
  <2>1. proc' \in [Children -> Running \cup {"none", "dead"}]
    BY <1>5, <1>8 DEF Escalate, Escalated, Running
  <2> QED
    BY <1>8, <2>1 DEF Escalate, childVars
<1>9. CASE Tick
  BY <1>9 DEF Tick, childVars, shutVars
<1>10. CASE UNCHANGED vars
  BY <1>10 DEF vars
<1> QED
  BY <1>1, <1>2, <1>3, <1>4, <1>6, <1>7, <1>8, <1>9, <1>10 DEF Next

\* Every variable keeps its type and exit_timestamps its maxlen.
THEOREM SupervisorTypeCorrect == Spec => []TypeOK
<1>1. TypeInv => TypeOK
  BY DEF TypeInv
<1> QED
  BY <1>1, TypeInvInit, TypeInvStep, PTL DEF Spec

(***************************************************************************)
(* The argument for shutdown.  _processes knows every process that may be  *)
(* running, because a cancelled task does not pop its entry; and when run  *)
(* has ended nothing changes _processes any more, so that the processes    *)
(* shutdown terminates, waits for and kills are all there are.             *)
(***************************************************************************)
AllInTable == \A c \in Children : proc[c] \in Running => c \in table

StoppedAfterRun == stopping => cancelling /\ \A c \in Children : task[c] \in Ended

PhaseOfStop == stopping <=> shut # "no"

\* In the grace period, and until the kill, a running process has its SIGTERM.
TermedFirst ==
    shut \in {"grace", "yield"} => \A c \in Children : proc[c] \in Running => proc[c] = "termed"

AwaitsAll == shut \in {"grace", "yield", "reaping"} => awaited = table

GracePassed == shut = "yield" => (\A c \in Children : Exited(c)) \/ now >= graceEnd

\* Before shutdown no process has been sent a signal.
NoSignalYet == ~ stopping => \A c \in Children : proc[c] \notin {"termed", "killed"}

ShutInv ==
    /\ TypeInv
    /\ AllInTable
    /\ StoppedAfterRun
    /\ PhaseOfStop
    /\ TermedFirst
    /\ AwaitsAll
    /\ GracePassed
    /\ NoSignalYet
    /\ NothingLeftAlive

LEMMA ShutInvInit == Init => ShutInv
BY TypeInvInit DEF Init, ShutInv, AllInTable, StoppedAfterRun, PhaseOfStop, TermedFirst,
    AwaitsAll, GracePassed, NoSignalYet, NothingLeftAlive, Running

LEMMA ShutInvStep ==
    ASSUME ~ Alongside
    PROVE  ShutInv /\ [Next]_vars => ShutInv'
<1> SUFFICES ASSUME ShutInv, [Next]_vars PROVE ShutInv'
  OBVIOUS
<1>0. TypeInv'
  BY TypeInvStep DEF ShutInv
<1>a. TypeOK
  BY DEF ShutInv, TypeInv
<1> USE DEF ShutInv, AllInTable, StoppedAfterRun, PhaseOfStop, TermedFirst, AwaitsAll,
            GracePassed, NoSignalYet, NothingLeftAlive, Exited, Running
\* The steps of a task: run has not ended, so shutdown has not begun.
<1>1. ASSUME NEW c \in Children, Start(c) \/ SpawnOk(c) \/ SpawnFails(c) \/ Reap(c) \/ BackoffOver(c)
      PROVE  ShutInv'
  <2>1. ~ stopping /\ shut = "no"
    BY <1>1 DEF Start, SpawnOk, SpawnFails, Reap, BackoffOver, Runs
  <2>2. UNCHANGED <<stopping, shut>>
    BY <1>1 DEF Start, SpawnOk, SpawnFails, Reap, BackoffOver, shutVars
  <2>3. \/ UNCHANGED <<proc, table>>
        \/ proc' = [proc EXCEPT ![c] = "alive"] /\ table' = table \cup {c}
        \/ proc' = [proc EXCEPT ![c] = "none"] /\ table' = table \ {c}
    BY <1>1 DEF Start, SpawnOk, SpawnFails, Reap, BackoffOver
  <2>4. AllInTable' /\ NoSignalYet'
    BY <1>a, <2>1, <2>3 DEF TypeOK
  <2> QED
    BY <1>0, <2>1, <2>2, <2>4
<1>2. ASSUME NEW c \in Children, TaskCancelled(c) PROVE ShutInv'
  <2>1. ~ stopping /\ shut = "no" /\ UNCHANGED <<proc, table, stopping, shut>>
    BY <1>2 DEF TaskCancelled, ForgetCancelled, shutVars
  <2> QED
    BY <1>0, <2>1
<1>3. ASSUME NEW c \in Children, Exit(c) PROVE ShutInv'
  BY <1>0, <1>3, <1>a DEF Exit, shutVars, TypeOK
<1>4. CASE CancelRun
  BY <1>0, <1>4 DEF CancelRun, shutVars
<1>5. CASE Shutdown
  <2>1. \A c \in Children : proc'[c] = IF proc[c] \in Running THEN "termed" ELSE proc[c]
    BY <1>5 DEF Shutdown, BeginShutdown, signalled
  <2>2. table = {} => \A c \in Children : proc[c] \notin Running
    OBVIOUS
  <2> QED
    BY <1>0, <1>5, <2>1, <2>2 DEF Shutdown, BeginShutdown
<1>6. CASE GraceOver
  BY <1>0, <1>6 DEF GraceOver, GraceIsOver
<1>7. CASE Escalate
  <2>1. \A c \in Children : proc'[c] = IF proc[c] \in Running THEN "killed" ELSE proc[c]
    BY <1>7 DEF Escalate, Escalated, signalled
  <2>2. table = {} => \A c \in Children : proc[c] \notin Running
    OBVIOUS
  <2> QED
    BY <1>0, <1>7, <2>1, <2>2 DEF Escalate
<1>8. CASE ShutdownReturns
  BY <1>0, <1>8 DEF ShutdownReturns
<1>9. CASE Tick
  BY <1>0, <1>9, <1>a DEF Tick, shutVars, TypeOK
<1>10. CASE UNCHANGED vars
  BY <1>0, <1>10 DEF vars
<1> QED
  BY <1>1, <1>2, <1>3, <1>4, <1>5, <1>6, <1>7, <1>8, <1>9, <1>10 DEF Next

\* When main.py's shutdown has returned, no sender process is alive.
THEOREM ShutdownLeavesNothingAlive ==
    ASSUME ~ Alongside
    PROVE  Spec => []NothingLeftAlive
<1>1. ShutInv => NothingLeftAlive
  BY DEF ShutInv
<1> QED
  BY <1>1, ShutInvInit, ShutInvStep, PTL DEF Spec

LEMMA KillStep ==
    ASSUME ShutInv, [Next]_vars, NEW c \in Children, proc'[c] = "killed", proc[c] # "killed"
    PROVE  proc[c] = "termed" /\ now >= graceEnd
<1>a. TypeOK
  BY DEF ShutInv, TypeInv
<1>1. CASE Escalate
  <2>1. proc[c] \in Running /\ shut = "yield"
    BY <1>1 DEF Escalate, Escalated, signalled
  <2> QED
    BY <2>1 DEF ShutInv, TermedFirst, GracePassed, Exited
<1>2. CASE Shutdown
  BY <1>2 DEF Shutdown, BeginShutdown, signalled
<1>3. ASSUME NEW d \in Children,
             Start(d) \/ SpawnOk(d) \/ SpawnFails(d) \/ Reap(d) \/ BackoffOver(d)
                \/ TaskCancelled(d) \/ Exit(d)
      PROVE  FALSE
  BY <1>3, <1>a DEF Start, SpawnOk, SpawnFails, Reap, BackoffOver, TaskCancelled, Exit, TypeOK
<1>4. CASE CancelRun \/ GraceOver \/ ShutdownReturns \/ Tick
  BY <1>4 DEF CancelRun, GraceOver, ShutdownReturns, Tick
<1>5. CASE UNCHANGED vars
  BY <1>5 DEF vars
<1> QED
  BY <1>1, <1>2, <1>3, <1>4, <1>5 DEF Next

\* main.py's shutdown kills no process that had not its SIGTERM and its time.
THEOREM KillsOnlyAfterGrace ==
    ASSUME ~ Alongside
    PROVE  Spec => KilledOnlyAfterGrace
<1>1. ShutInv /\ [Next]_vars =>
        [\A c \in Children :
            proc'[c] = "killed" /\ proc[c] # "killed" => proc[c] = "termed" /\ now >= graceEnd]_vars
  BY KillStep
<1> QED
  BY <1>1, ShutInvInit, ShutInvStep, PTL DEF Spec, KilledOnlyAfterGrace

(***************************************************************************)
(* Nothing is spawned once shutdown has been called, in whichever state    *)
(* the tasks are then.                                                     *)
(***************************************************************************)
LEMMA StopStep ==
    ASSUME TypeInv, [Next]_vars, stopping, NEW c \in Children, task'[c] = "spawning"
    PROVE  task[c] = "spawning"
<1>a. TypeOK
  BY DEF TypeInv
<1>1. ASSUME NEW d \in Children, Start(d) \/ BackoffOver(d) PROVE task[c] = "spawning"
  BY <1>1, <1>a DEF Start, BackoffOver, LoopHead, MayRestart, TypeOK
<1>2. ASSUME NEW d \in Children, SpawnFails(d) \/ Reap(d) PROVE task[c] = "spawning"
  <2>1. task' = [task EXCEPT ![d] = "returned"] \/ task' = [task EXCEPT ![d] = "backoff"]
    BY <1>2, AfterExitTypes DEF SpawnFails, Reap
  <2> QED
    BY <1>a, <2>1 DEF TypeOK
<1>3. ASSUME NEW d \in Children, SpawnOk(d) \/ TaskCancelled(d) PROVE task[c] = "spawning"
  BY <1>3, <1>a DEF SpawnOk, TaskCancelled, TypeOK
<1>4. CASE UNCHANGED task
  BY <1>4
<1> QED
  BY <1>1, <1>2, <1>3, <1>4 DEF Next, vars, Exit, CancelRun, Shutdown, BeginShutdown, GraceOver,
     Escalate, ShutdownReturns, Tick

\* After shutdown is called no task begins to spawn, those woken from their
\* backoff by _stop_event included.
THEOREM StopEndsSpawning == Spec => NoSpawnAfterStop
<1>1. TypeInv /\ [Next]_vars =>
        [stopping => \A c \in Children : task'[c] = "spawning" => task[c] = "spawning"]_vars
  BY StopStep
<1> QED
  BY <1>1, TypeInvInit, TypeInvStep, PTL DEF Spec, NoSpawnAfterStop

(***************************************************************************)
(* The crash-loop detector.  It looks at exits only; what it bounds are    *)
(* spawns.  The link is that exits and spawns alternate: while the child   *)
(* is up the remembered exits fall between the remembered spawns, and when *)
(* it is down one more exit has been remembered, which pushes the oldest   *)
(* one out if the deque is full.  k is by how much the two histories are   *)
(* then out of step.                                                       *)
(***************************************************************************)
Past(c) ==
    /\ \A i \in DOMAIN spawns[c] : spawns[c][i] <= now
    /\ \A i \in DOMAIN exits[c] : exits[c][i] <= now

Paired(c, k) ==
    \A i \in DOMAIN exits[c] :
        /\ spawns[c][i + k] <= exits[c][i]
        /\ i + k < Len(spawns[c]) => exits[c][i] <= spawns[c][i + k + 1]

WhileUp(c) ==
    task[c] \in {"spawning", "waiting"} =>
        Len(spawns[c]) = Len(exits[c]) + 1 /\ Paired(c, 0)

WhileDown(c) ==
    task[c] \in {"created", "backoff"} =>
        /\ \/ Len(spawns[c]) = Len(exits[c])
           \/ Len(spawns[c]) = Len(exits[c]) + 1 /\ Len(exits[c]) = MaxRestarts
        /\ Paired(c, Len(spawns[c]) - Len(exits[c]))
        /\ task[c] = "created" => Len(exits[c]) = 0
        /\ Len(exits[c]) = MaxRestarts =>
              /\ exits[c][MaxRestarts] - exits[c][1] >= Window
              /\ \E i \in DOMAIN Backoff : wake[c] >= exits[c][MaxRestarts] + Backoff[i]

RateBounded(c) ==
    Len(spawns[c]) = MaxRestarts + 1 =>
        \E i \in DOMAIN Backoff :
            spawns[c][MaxRestarts + 1] - spawns[c][1] >= Window + Backoff[i]

LoopSeen(c) ==
    LET n == Len(spawns[c])
    IN  /\ n >= MaxRestarts
        /\ MaxRestarts >= 2 => spawns[c][n] - spawns[c][n - MaxRestarts + 2] < Window

GivenUp(c) == c \in degraded => task[c] \in Ended /\ LoopSeen(c)

Alternates(c) == Past(c) /\ WhileUp(c) /\ WhileDown(c) /\ RateBounded(c) /\ GivenUp(c)

RateInv == TypeInv /\ \A c \in Children : Alternates(c)

\* What a bounded append does to the elements.
LEMMA AppendWithRoom ==
    ASSUME NEW s \in Seq(Nat), NEW x \in Nat, NEW max \in Nat, NEW n \in Nat, n = Len(s), n < max
    PROVE  /\ Len(append_bounded(s, x, max)) = n + 1
           /\ append_bounded(s, x, max)[n + 1] = x
           /\ \A i \in 1 .. n : append_bounded(s, x, max)[i] = s[i]
<1>1. Len(Append(s, x)) = n + 1 /\ Append(s, x)[n + 1] = x /\ \A i \in 1 .. n : Append(s, x)[i] = s[i]
  OBVIOUS
<1>2. ~ (n + 1 > max)
  OBVIOUS
<1>3. append_bounded(s, x, max) = Append(s, x)
  BY <1>1, <1>2 DEF append_bounded
<1> QED
  BY <1>1, <1>3

LEMMA AppendWhenFull ==
    ASSUME NEW s \in Seq(Nat), NEW x \in Nat, NEW n \in Nat \ {0}, n = Len(s)
    PROVE  /\ Len(append_bounded(s, x, n)) = n
           /\ append_bounded(s, x, n)[n] = x
           /\ \A i \in 1 .. n - 1 : append_bounded(s, x, n)[i] = s[i + 1]
<1>0. Append(s, x) \in Seq(Nat)
  OBVIOUS
<1>1. PICK t \in Seq(Nat) : t = Append(s, x)
  BY <1>0
<1>2. Len(t) = n + 1 /\ t[n + 1] = x /\ \A i \in 1 .. n : t[i] = s[i]
  BY <1>1
<1>3. t # <<>> /\ Len(Tail(t)) = n /\ \A i \in 1 .. n : Tail(t)[i] = t[i + 1]
  BY <1>2
<1>4. append_bounded(s, x, n) = Tail(t)
  BY <1>1, <1>2 DEF append_bounded
<1>5. Tail(t)[n] = x
  BY <1>2, <1>3
<1>6. ASSUME NEW i \in 1 .. n - 1 PROVE Tail(t)[i] = s[i + 1]
  BY <1>2, <1>3
<1> QED
  BY <1>3, <1>4, <1>5, <1>6

\* The types of one child's histories, by name.
LEMMA ChildTypes ==
    ASSUME TypeInv, NEW c \in Children
    PROVE  /\ spawns[c] \in Seq(Nat) /\ exits[c] \in Seq(Nat)
           /\ Len(exits[c]) <= MaxRestarts /\ Len(spawns[c]) <= MaxRestarts + 1
           /\ now \in Nat /\ wake[c] \in Nat
BY DEF TypeInv, TypeOK, SpawnsBounded

LEMMA RateInvInit == Init => RateInv
<1> SUFFICES ASSUME Init, NEW c \in Children PROVE Alternates(c)
  BY TypeInvInit DEF RateInv
<1> DEFINE e == <<>>
<1>1. spawns[c] = e /\ exits[c] = e /\ task[c] = "created" /\ degraded = {}
  BY DEF Init
<1>2. Len(e) = 0 /\ DOMAIN e = {}
  OBVIOUS
<1>3. MaxRestarts \in Nat /\ MaxRestarts # 0
  BY SupervisorAssumption
<1> HIDE DEF e
<1>4. Past(c) /\ WhileUp(c) /\ GivenUp(c)
  BY <1>1, <1>2 DEF Past, WhileUp, GivenUp
<1>5. WhileDown(c)
  BY <1>1, <1>2, <1>3 DEF WhileDown, Paired
<1>6. RateBounded(c)
  BY <1>1, <1>2, <1>3 DEF RateBounded
<1> QED
  BY <1>4, <1>5, <1>6 DEF Alternates

\* A step that spawns and remembers nothing for c, and does not start it.
LEMMA RateUntouched ==
    ASSUME TypeInv, NEW c \in Children, Alternates(c), now' \in Nat, now' >= now,
           spawns'[c] = spawns[c], exits'[c] = exits[c], wake'[c] = wake[c],
           c \in degraded' <=> c \in degraded,
           \/ task'[c] = task[c]
           \/ task'[c] \in Ended
           \/ task[c] = "spawning" /\ task'[c] = "waiting"
    PROVE  Alternates(c)'
<1>a. spawns[c] \in Seq(Nat) /\ exits[c] \in Seq(Nat) /\ now \in Nat
  BY ChildTypes
<1>1. Past(c)'
  <2>1. /\ \A i \in DOMAIN spawns[c] : spawns[c][i] \in Nat /\ spawns[c][i] <= now
        /\ \A i \in DOMAIN exits[c] : exits[c][i] \in Nat /\ exits[c][i] <= now
    BY <1>a DEF Alternates, Past
  <2>2. /\ \A i \in DOMAIN spawns[c] : spawns[c][i] <= now'
        /\ \A i \in DOMAIN exits[c] : exits[c][i] <= now'
    BY <1>a, <2>1
  <2> QED
    BY <2>2 DEF Past
<1>2. WhileUp(c)'
  BY DEF Alternates, WhileUp, Paired, Ended
<1>3. WhileDown(c)'
  BY DEF Alternates, WhileDown, Paired, Ended
<1>4. RateBounded(c)'
  BY DEF Alternates, RateBounded
<1>5. GivenUp(c)'
  BY DEF Alternates, GivenUp, LoopSeen, Ended
<1> QED
  BY <1>1, <1>2, <1>3, <1>4, <1>5 DEF Alternates

\* A child is spawned, at first or when its backoff is over.
LEMMA SpawnAlternates ==
    ASSUME TypeInv, NEW c \in Children, Alternates(c), now' = now,
           task[c] \in {"created", "backoff"}, task'[c] = "spawning",
           task[c] = "backoff" => now >= wake[c],
           spawns'[c] = append_bounded(spawns[c], now, MaxRestarts + 1),
           exits'[c] = exits[c], degraded' = degraded
    PROVE  Alternates(c)'
<1>a. PICK s \in Seq(Nat), x \in Seq(Nat), n \in Nat, e \in Nat, r \in Nat \ {0}, t \in Nat :
        /\ s = spawns[c] /\ x = exits[c] /\ n = Len(s) /\ e = Len(x) /\ r = MaxRestarts
        /\ t = now /\ e <= r /\ n <= r + 1
  <2>1. /\ spawns[c] \in Seq(Nat) /\ exits[c] \in Seq(Nat) /\ MaxRestarts \in Nat \ {0} /\ now \in Nat
        /\ Len(exits[c]) <= MaxRestarts /\ Len(spawns[c]) <= MaxRestarts + 1
    BY ChildTypes, SupervisorAssumption
  <2>2. Len(spawns[c]) \in Nat /\ Len(exits[c]) \in Nat
    BY <2>1
  <2> QED
    BY <2>1, <2>2
<1>b. PICK k \in {0, 1} : n = e + k /\ (k = 1 => e = r)
  <2>1. n = e \/ (n = e + 1 /\ e = r)
    BY <1>a DEF Alternates, WhileDown
  <2>2. CASE n = e
    BY <2>2
  <2>3. CASE n = e + 1 /\ e = r
    BY <2>3
  <2> QED
    BY <2>1, <2>2, <2>3
<1>1. \A i \in 1 .. e : s[i + k] <= x[i] /\ (i + k < n => x[i] <= s[i + k + 1])
  <2>1. Paired(c, Len(spawns[c]) - Len(exits[c]))
    BY DEF Alternates, WhileDown
  <2>2. Len(spawns[c]) - Len(exits[c]) = k
    BY <1>a, <1>b
  <2>3. Paired(c, k) /\ DOMAIN x = 1 .. e
    <3>1. DOMAIN x = 1 .. e
      BY <1>a
    <3> QED
      BY <2>1, <2>2, <3>1 DEF Paired
  <2> QED
    BY <1>a, <2>3 DEF Paired
<1>2. /\ \A i \in 1 .. n : s[i] \in Nat /\ s[i] <= t
      /\ \A i \in 1 .. e : x[i] \in Nat /\ x[i] <= t
  <2>1. DOMAIN s = 1 .. n /\ DOMAIN x = 1 .. e
    BY <1>a
  <2>2. \A i \in 1 .. n : s[i] \in Nat
    BY <2>1
  <2>3. \A i \in 1 .. e : x[i] \in Nat
    BY <2>1
  <2> QED
    BY <1>a, <2>1, <2>2, <2>3 DEF Alternates, Past
<1>3. PICK z, q : q = r + 1 /\ q \in Nat \ {0} /\ z = append_bounded(s, t, q)
  <2>1. r + 1 \in Nat \ {0}
    OBVIOUS
  <2> QED
    BY <2>1
<1>4. Len(z) = e + 1 /\ z[e + 1] = t /\ \A i \in 1 .. e : z[i] = s[i + k]
  <2>1. CASE k = 0
    <3>1. n < q
      BY <1>a, <1>b, <1>3, <2>1
    <3>2. Len(z) = n + 1 /\ z[n + 1] = t /\ \A i \in 1 .. n : z[i] = s[i]
      BY SMTT(30), <1>a, <1>3, <3>1, AppendWithRoom
    <3>3. n = e /\ \A i \in 1 .. e : i + k = i
      BY <1>b, <2>1
    <3> QED
      BY <3>2, <3>3
  <2>2. CASE k = 1
    <3>1. n = q
      BY <1>a, <1>b, <1>3, <2>2
    <3>2. Len(z) = n /\ z[n] = t /\ \A i \in 1 .. n - 1 : z[i] = s[i + 1]
      <4>1. n \in Nat \ {0} /\ n = Len(s) /\ z = append_bounded(s, t, n)
        BY <1>a, <1>3, <3>1
      <4>2. /\ Len(append_bounded(s, t, n)) = n /\ append_bounded(s, t, n)[n] = t
            /\ \A i \in 1 .. n - 1 : append_bounded(s, t, n)[i] = s[i + 1]
        BY <4>1, AppendWhenFull
      <4> QED
        BY <4>1, <4>2
    <3> QED
      BY <1>b, <2>2, <3>2
  <2> QED
    BY <2>1, <2>2
<1>5. spawns'[c] = z /\ exits'[c] = x /\ z \in Seq(Nat)
  <2>1. z \in Seq(Nat)
    BY <1>a, <1>3, AppendBounded
  <2> QED
    BY <1>a, <1>3, <2>1
<1>6. Past(c)'
  <2>1. ASSUME NEW i \in 1 .. e + 1 PROVE z[i] <= t
    <3>1. CASE i = e + 1
      BY <1>4, <3>1
    <3>2. CASE i # e + 1
      <4>1. i \in 1 .. e /\ i + k \in 1 .. n
        BY <1>b, <3>2
      <4> QED
        BY <1>2, <1>4, <4>1
    <3> QED
      BY <3>1, <3>2
  <2>2. DOMAIN z = 1 .. e + 1
    BY <1>4, <1>5
  <2>3. DOMAIN x = 1 .. e /\ \A i \in 1 .. e : x[i] <= t
    BY <1>a, <1>2
  <2> QED
    BY <1>5, <1>a, <2>1, <2>2, <2>3 DEF Past
<1>7. WhileUp(c)'
  <2>1. ASSUME NEW i \in 1 .. e PROVE z[i] <= x[i] /\ x[i] <= z[i + 1]
    <3>1. z[i] <= x[i]
      BY <1>1, <1>4
    <3>2. CASE i + 1 \in 1 .. e
      <4>1. z[i + 1] = s[i + 1 + k] /\ i + k < n
        BY <1>4, <1>b, <3>2
      <4>2. i + 1 + k = i + k + 1
        BY <1>b
      <4> QED
        BY <1>1, <3>1, <4>1, <4>2
    <3>3. CASE i = e
      BY <1>2, <1>4, <3>1, <3>3
    <3> QED
      BY <3>2, <3>3
  <2>2. DOMAIN x = 1 .. e
    BY <1>a
  <2>3. \A i \in 1 .. e : z[i + 0] <= x[i] /\ (i + 0 < Len(z) => x[i] <= z[i + 0 + 1])
    BY <2>1
  <2> QED
    BY <1>5, <1>4, <1>a, <2>2, <2>3 DEF WhileUp, Paired
<1>8. RateBounded(c)'
  <2>1. SUFFICES ASSUME e = r PROVE \E i \in DOMAIN Backoff : z[r + 1] - z[1] >= Window + Backoff[i]
    BY SMTT(30), <1>4, <1>5, <1>a DEF RateBounded
  <2>2. task[c] = "backoff" /\ wake[c] \in Nat /\ t >= wake[c]
    BY <1>a, <2>1, ChildTypes DEF Alternates, WhileDown
  <2>3. x[r] - x[1] >= Window
    BY <1>a, <2>1 DEF Alternates, WhileDown
  <2>4. PICK i \in DOMAIN Backoff : wake[c] >= x[r] + Backoff[i]
    BY <1>a, <2>1 DEF Alternates, WhileDown
  <2>5. Backoff[i] \in Nat /\ Window \in Nat
    BY SupervisorAssumption
  <2>6. 1 \in 1 .. e /\ r \in 1 .. e
    BY <2>1
  <2>7. z[1] \in Nat /\ z[1] <= x[1] /\ x[1] \in Nat /\ x[r] \in Nat /\ z[r + 1] = t
    <3>1. x[1] \in Nat /\ x[r] \in Nat
      BY <1>2, <2>6
    <3>2. z[r + 1] = t
      BY <1>4, <2>1
    <3>3. z[1] = s[1 + k]
      BY <1>4, <2>6
    <3>4. 1 + k \in 1 .. n
      BY <1>b, <2>6
    <3>5. s[1 + k] \in Nat /\ s[1 + k] <= x[1]
      BY <1>1, <1>2, <2>6, <3>4
    <3> QED
      BY <3>1, <3>2, <3>3, <3>5
  <2>8. t - z[1] >= Window + Backoff[i]
    <3>1. PICK z1 \in Nat, x1 \in Nat, xr \in Nat, b \in Nat, w \in Nat, k1 \in Nat :
            z1 = z[1] /\ x1 = x[1] /\ xr = x[r] /\ b = Backoff[i] /\ w = Window /\ k1 = wake[c]
      BY <2>2, <2>5, <2>7
    <3>2. xr - x1 >= w /\ k1 >= xr + b /\ t >= k1 /\ z1 <= x1
      BY <2>2, <2>3, <2>4, <2>7, <3>1
    <3>3. t - z1 >= w + b
      BY <3>2
    <3> QED
      BY <3>1, <3>3
  <2> QED
    BY <2>7, <2>8
<1>9. WhileDown(c)' /\ GivenUp(c)'
  BY DEF WhileDown, GivenUp, Alternates, Ended
<1> QED
  BY <1>6, <1>7, <1>8, <1>9 DEF Alternates

\* A child exits, or cannot be spawned, and is restarted after a backoff or
\* given up.
LEMMA ExitAlternates ==
    ASSUME TypeInv, NEW c \in Children, Alternates(c), now' = now,
           task[c] \in {"spawning", "waiting"}, spawns'[c] = spawns[c],
           exits'[c] = remember_exit(exits[c]),
           \/ /\ in_crash_loop(exits'[c])
              /\ task'[c] \in Ended
           \/ /\ ~ in_crash_loop(exits'[c])
              /\ task'[c] = "backoff" /\ c \notin degraded'
              /\ \E i \in DOMAIN Backoff : wake'[c] = now + Backoff[i]
    PROVE  Alternates(c)'
<1>a. PICK s \in Seq(Nat), x \in Seq(Nat), n \in Nat, e \in Nat, r \in Nat \ {0}, t \in Nat :
        /\ s = spawns[c] /\ x = exits[c] /\ n = Len(s) /\ e = Len(x) /\ r = MaxRestarts
        /\ t = now /\ e <= r /\ n <= r + 1
  <2>1. /\ spawns[c] \in Seq(Nat) /\ exits[c] \in Seq(Nat) /\ MaxRestarts \in Nat \ {0} /\ now \in Nat
        /\ Len(exits[c]) <= MaxRestarts /\ Len(spawns[c]) <= MaxRestarts + 1
    BY ChildTypes, SupervisorAssumption
  <2>2. Len(spawns[c]) \in Nat /\ Len(exits[c]) \in Nat
    BY <2>1
  <2> QED
    BY <2>1, <2>2
<1>1. n = e + 1 /\ \A i \in 1 .. e : s[i] <= x[i] /\ x[i] <= s[i + 1]
  <2>1. n = e + 1 /\ Paired(c, 0) /\ DOMAIN x = 1 .. e
    BY <1>a DEF Alternates, WhileUp
  <2>2. ASSUME NEW i \in 1 .. e PROVE s[i] <= x[i] /\ x[i] <= s[i + 1]
    <3>1. s[i + 0] <= x[i] /\ (i + 0 < n => x[i] <= s[i + 0 + 1])
      BY <1>a, <2>1 DEF Paired
    <3>2. i + 0 = i /\ i + 0 < n /\ i + 0 + 1 = i + 1
      BY <2>1
    <3> QED
      BY <3>1, <3>2
  <2> QED
    BY <2>1, <2>2
<1>2. /\ \A i \in 1 .. n : s[i] \in Nat /\ s[i] <= t
      /\ \A i \in 1 .. e : x[i] \in Nat /\ x[i] <= t
  <2>1. DOMAIN s = 1 .. n /\ DOMAIN x = 1 .. e
    BY <1>a
  <2>2. \A i \in 1 .. n : s[i] \in Nat
    BY <2>1
  <2>3. \A i \in 1 .. e : x[i] \in Nat
    BY <2>1
  <2> QED
    BY <1>a, <2>1, <2>2, <2>3 DEF Alternates, Past
<1>3. PICK y : y = append_bounded(x, t, r)
  OBVIOUS
\* The exit remembered in place i is that of the spawn in place i + k.
<1>4. PICK k \in {0, 1}, m \in 1 .. r :
        /\ n = m + k /\ (k = 1 => m = r) /\ Len(y) = m /\ y[m] = t
        /\ \A i \in 1 .. m - 1 : y[i] = x[i + k]
  <2>1. CASE e < r
    <3>1. Len(y) = e + 1 /\ y[e + 1] = t /\ \A i \in 1 .. e : y[i] = x[i]
      BY SMTT(30), <1>a, <1>3, <2>1, AppendWithRoom
    <3>2. e + 1 \in 1 .. r /\ n = e + 1 + 0
      BY <1>1, <2>1
    <3>3. \A i \in 1 .. e + 1 - 1 : y[i] = x[i + 0]
      BY <3>1
    <3> QED
      BY <3>1, <3>2, <3>3
  <2>2. CASE e = r
    <3>1. Len(y) = r /\ y[r] = t /\ \A i \in 1 .. r - 1 : y[i] = x[i + 1]
      <4>1. e \in Nat \ {0} /\ e = Len(x) /\ y = append_bounded(x, t, e)
        BY <1>a, <1>3, <2>2
      <4>2. /\ Len(append_bounded(x, t, e)) = e /\ append_bounded(x, t, e)[e] = t
            /\ \A i \in 1 .. e - 1 : append_bounded(x, t, e)[i] = x[i + 1]
        BY <4>1, AppendWhenFull
      <4> QED
        BY <2>2, <4>1, <4>2
    <3>2. r \in 1 .. r /\ n = r + 1
      BY <1>1, <2>2
    <3> QED
      BY <3>1, <3>2
  <2> QED
    BY <1>a, <2>1, <2>2
<1>5. spawns'[c] = s /\ exits'[c] = y /\ y \in Seq(Nat) /\ DOMAIN y = 1 .. m
  <2>1. y \in Seq(Nat)
    BY <1>a, <1>3, AppendBounded
  <2> QED
    BY <1>a, <1>3, <1>4, <2>1 DEF remember_exit
<1>6. ASSUME NEW i \in 1 .. m
      PROVE  s[i + k] <= y[i] /\ (i + k < n => y[i] <= s[i + k + 1]) /\ y[i] <= t
  <2>1. CASE i = m
    BY <1>2, <1>4, <2>1
  <2>2. CASE i # m
    <3>1. i \in 1 .. m - 1 /\ i + k \in 1 .. e
      BY <1>1, <1>4, <2>2
    <3> QED
      BY <1>1, <1>2, <1>4, <3>1
  <2> QED
    BY <2>1, <2>2
<1>7. Past(c)'
  <2>1. DOMAIN s = 1 .. n
    BY <1>a
  <2> QED
    BY <1>2, <1>5, <1>6, <1>a, <2>1 DEF Past
<1>8. in_crash_loop(exits'[c]) <=> m = r /\ t - y[1] < Window
  BY <1>4, <1>5, <1>a DEF in_crash_loop
<1>9. WhileDown(c)'
  <2>1. CASE task'[c] \in Ended
    BY <2>1 DEF WhileDown, Ended
  <2>2. CASE task'[c] = "backoff"
    <3>1. ~ in_crash_loop(exits'[c]) /\ \E i \in DOMAIN Backoff : wake'[c] = t + Backoff[i]
      BY <1>a, <2>2 DEF Ended
    <3>2. \A i \in DOMAIN Backoff : Backoff[i] \in Nat
      BY SupervisorAssumption
    <3>3. Paired(c, k)'
      BY <1>5, <1>6, <1>a DEF Paired
    <3>4. Len(s) = n /\ Len(y) = m /\ Len(s) - Len(y) = k
      BY <1>4, <1>a
    <3>5. Paired(c, Len(spawns[c]) - Len(exits[c]))'
      BY <1>5, <3>3, <3>4
    <3>6. m = r => y[r] - y[1] >= Window
      <4>1. y[1] \in Nat /\ Window \in Nat
        BY <1>5, SupervisorAssumption
      <4> QED
        BY <1>4, <1>8, <3>1, <4>1
    <3>7. m = r => \E i \in DOMAIN Backoff : wake'[c] >= y[r] + Backoff[i]
      <4>1. PICK i \in DOMAIN Backoff : wake'[c] = t + Backoff[i]
        BY <3>1
      <4>2. t + Backoff[i] >= t + Backoff[i]
        BY <3>2
      <4> QED
        BY <1>4, <4>1, <4>2
    <3>8. n = m \/ (n = m + 1 /\ m = r)
      BY <1>4
    <3> QED
      BY <1>5, <1>a, <2>2, <3>4, <3>5, <3>6, <3>7, <3>8 DEF WhileDown
  <2> QED
    BY <2>1, <2>2
<1>10. WhileUp(c)' /\ RateBounded(c)'
  <2>1. WhileUp(c)'
    BY DEF WhileUp, Ended
  <2>2. RateBounded(c)'
    BY DEF RateBounded, Alternates
  <2> QED
    BY <2>1, <2>2
<1>11. GivenUp(c)'
  <2>1. SUFFICES ASSUME c \in degraded' PROVE task'[c] \in Ended /\ LoopSeen(c)'
    BY DEF GivenUp
  <2>2. task'[c] \in Ended /\ m = r /\ t - y[1] < Window
    BY <1>8, <2>1
  <2>3. n >= r
    BY <1>4, <2>2
  <2>4. ASSUME r >= 2 PROVE s[n] - s[n - r + 2] < Window
    <3>1. 1 \in 1 .. m /\ 1 + k < n /\ 1 + k + 1 = n - r + 2
      BY <1>4, <2>2, <2>4
    <3>2. y[1] <= s[n - r + 2]
      BY <1>6, <3>1
    <3>3. n \in 1 .. n /\ n - r + 2 \in 1 .. n
      BY <3>1, <1>4, <2>2, <2>4
    <3>4. s[n] \in Nat /\ s[n] <= t /\ s[n - r + 2] \in Nat /\ y[1] \in Nat /\ Window \in Nat
      BY <1>2, <1>5, <3>1, <3>3, SupervisorAssumption
    <3> QED
      BY SMTT(30), <2>2, <3>2, <3>4
  <2> QED
    BY <1>5, <1>a, <2>2, <2>3, <2>4 DEF LoopSeen
<1> QED
  BY <1>7, <1>9, <1>10, <1>11 DEF Alternates

LEMMA RateInvStep == RateInv /\ [Next]_vars => RateInv'
<1> SUFFICES ASSUME RateInv, [Next]_vars, NEW c \in Children PROVE Alternates(c)'
  BY TypeInvStep DEF RateInv
<1>a. TypeInv /\ TypeOK /\ Alternates(c) /\ now \in Nat
  BY DEF RateInv, TypeInv, TypeOK
<1>1. CASE UNCHANGED <<task, childVars>> /\ (now' = now \/ now' = now + 1)
  <2>1. now' \in Nat /\ now' >= now
    BY <1>a, <1>1
  <2> QED
    BY <1>a, <1>1, <2>1, RateUntouched DEF childVars
<1>2. ASSUME NEW d \in Children, Start(d) \/ BackoffOver(d) PROVE Alternates(c)'
  <2>1. /\ LoopHead(d) /\ UNCHANGED <<now, exits, wake, degraded>>
        /\ task[d] \in {"created", "backoff"}
        /\ task[d] = "backoff" => now >= wake[d] \/ stopping
    BY <1>2 DEF Start, BackoffOver, Runs, BackoffEnds
  <2>2. CASE c = d /\ ~ stopping
    <3>1. /\ task'[c] = "spawning"
          /\ spawns'[c] = append_bounded(spawns[c], now, MaxRestarts + 1)
      BY <1>a, <2>1, <2>2 DEF LoopHead, MayRestart, TypeOK
    <3> QED
      BY <1>a, <2>1, <2>2, <3>1, SpawnAlternates
  <2>3. CASE ~ (c = d /\ ~ stopping)
    <3>1. spawns'[c] = spawns[c] /\ (task'[c] = task[c] \/ task'[c] \in Ended)
      BY <1>a, <2>1, <2>3 DEF LoopHead, MayRestart, TypeOK, Ended
    <3> QED
      BY <1>a, <2>1, <3>1, RateUntouched
  <2> QED
    BY <2>2, <2>3
<1>3. ASSUME NEW d \in Children, SpawnFails(d) \/ Reap(d) PROVE Alternates(c)'
  <2>1. AfterExit(d) /\ now' = now /\ task[d] \in {"spawning", "waiting"}
    BY <1>3 DEF SpawnFails, Reap, Runs
  <2>2. spawns' = spawns
    BY <1>a, <2>1, AfterExitTypes
  <2>3. CASE c = d /\ ~ stopping
    <3>1. exits'[c] = remember_exit(exits[c])
      BY <1>a, <2>1, <2>3 DEF AfterExit, TypeOK
    <3>2. CASE in_crash_loop(remember_exit(exits[c]))
      <4>1. task'[c] \in Ended
        BY <1>a, <2>1, <2>3, <3>2 DEF AfterExit, TypeOK, Ended
      <4>2. in_crash_loop(exits'[c])
        BY <3>1, <3>2
      <4> QED
        BY <1>a, <2>1, <2>2, <2>3, <3>1, <4>1, <4>2, ExitAlternates
    <3>3. CASE ~ in_crash_loop(remember_exit(exits[c]))
      <4>1. /\ task'[c] = "backoff" /\ degraded' = degraded
            /\ wake'[c] = now + delay_after(failures_at_exit(c))
        BY <1>a, <2>1, <2>3, <3>3 DEF AfterExit, TypeOK
      <4>2. c \notin degraded
        BY <1>a, <2>1, <2>3 DEF Alternates, GivenUp, Ended
      <4>3. \E i \in DOMAIN Backoff : delay_after(failures_at_exit(c)) = Backoff[i]
        <5>1. Len(Backoff) \in Nat \ {0} /\ DOMAIN Backoff = 1 .. Len(Backoff)
          BY SupervisorAssumption
        <5>2. failures_at_exit(c) \in 0 .. Len(Backoff)
          BY <1>a, <5>1 DEF TypeOK, failures_at_exit
        <5>3. capped(failures_at_exit(c), Len(Backoff) - 1) + 1 \in 1 .. Len(Backoff)
          BY <5>1, <5>2 DEF capped
        <5> QED
          BY <5>1, <5>3 DEF delay_after
      <4>4. ~ in_crash_loop(exits'[c])
        BY <3>1, <3>3
      <4>5. \E i \in DOMAIN Backoff : wake'[c] = now + Backoff[i]
        BY <4>1, <4>3
      <4> QED
        BY <1>a, <2>1, <2>2, <2>3, <3>1, <4>1, <4>2, <4>4, <4>5, ExitAlternates
    <3> QED
      BY <3>2, <3>3
  <2>4. CASE c = d /\ stopping
    <3>1. UNCHANGED <<exits, wake, degraded>> /\ task'[c] \in Ended
      BY <1>a, <2>1, <2>4 DEF AfterExit, childVars, TypeOK, Ended
    <3> QED
      BY <1>a, <2>1, <2>2, <3>1, RateUntouched
  <2>5. CASE c # d
    <3>1. /\ exits'[c] = exits[c] /\ wake'[c] = wake[c] /\ task'[c] = task[c]
          /\ c \in degraded' <=> c \in degraded
      BY <1>a, <2>1, <2>5 DEF AfterExit, childVars, TypeOK
    <3> QED
      BY <1>a, <2>1, <2>2, <3>1, RateUntouched
  <2> QED
    BY <2>3, <2>4, <2>5
<1>4. ASSUME NEW d \in Children, SpawnOk(d) \/ TaskCancelled(d) PROVE Alternates(c)'
  <2>1. UNCHANGED <<now, spawns, exits, wake, degraded>>
    BY <1>4 DEF SpawnOk, TaskCancelled, childVars
  <2>2. \/ task'[c] = task[c]
        \/ task'[c] \in Ended
        \/ task[c] = "spawning" /\ task'[c] = "waiting"
    BY <1>a, <1>4 DEF SpawnOk, TaskCancelled, Runs, TypeOK, Ended
  <2> QED
    BY <1>a, <2>1, <2>2, RateUntouched
<1> QED
  BY <1>1, <1>2, <1>3, <1>4 DEF Next, vars, childVars, Exit, CancelRun, Shutdown, BeginShutdown, GraceOver,
     Escalate, ShutdownReturns, Tick

LEMMA RateInvariant == Spec => []RateInv
BY RateInvInit, RateInvStep, PTL DEF Spec

(***************************************************************************)
(* Whatever the limits and however a child dies, MaxRestarts restarts in a *)
(* row take at least the crash-loop window and a backoff delay.            *)
(***************************************************************************)
THEOREM RestartsRationed == Spec => []SpawnRateBounded
<1>1. RateInv => SpawnRateBounded
  BY DEF RateInv, Alternates, RateBounded, SpawnRateBounded
<1> QED
  BY <1>1, RateInvariant, PTL

\* A child is given up only for restarts that lie within one window.
THEOREM DegradedForCrashLoop == Spec => []OnlyCrashLoopDegrades
<1>1. RateInv => OnlyCrashLoopDegrades
  BY DEF RateInv, TypeInv, TypeOK, Alternates, GivenUp, LoopSeen, OnlyCrashLoopDegrades
<1> QED
  BY <1>1, RateInvariant, PTL

=============================================================================
