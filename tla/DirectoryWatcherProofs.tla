----------------------- MODULE DirectoryWatcherProofs -----------------------
(***************************************************************************)
(* For any set of files, any debounce time and any size of the kernel's    *)
(* queue: no finished change is forgotten between the kernel and the       *)
(* dispatcher, and a path is emitted only when it has settled.             *)
(***************************************************************************)
EXTENDS DirectoryWatcher, TLAPS

(***************************************************************************)
(* What is in a sequence.                                                  *)
(***************************************************************************)
LEMMA RangeAppend ==
    ASSUME NEW S, NEW s \in Seq(S), NEW x \in S
    PROVE  Append(s, x) \in Seq(S) /\ Range(Append(s, x)) = Range(s) \cup {x}
<1>1. Append(s, x) \in Seq(S) /\ DOMAIN Append(s, x) = 1 .. Len(s) + 1
  OBVIOUS
<1>2. \A i \in 1 .. Len(s) + 1 : Append(s, x)[i] = IF i = Len(s) + 1 THEN x ELSE s[i]
  OBVIOUS
<1>3. DOMAIN s = 1 .. Len(s) /\ Len(s) \in Nat
  OBVIOUS
<1> QED
  BY <1>1, <1>2, <1>3 DEF Range

LEMMA RangeTail ==
    ASSUME NEW S, NEW s \in Seq(S), s # <<>>
    PROVE  /\ Head(s) \in S /\ Tail(s) \in Seq(S)
           /\ Range(s) \subseteq Range(Tail(s)) \cup {Head(s)}
<1>1. /\ Len(s) \in Nat \ {0} /\ DOMAIN s = 1 .. Len(s)
      /\ Head(s) = s[1] /\ Head(s) \in S
      /\ Tail(s) \in Seq(S) /\ DOMAIN Tail(s) = 1 .. Len(s) - 1
      /\ \A i \in 1 .. Len(s) - 1 : Tail(s)[i] = s[i + 1]
  OBVIOUS
<1>2. ASSUME NEW i \in 1 .. Len(s) PROVE s[i] \in Range(Tail(s)) \cup {Head(s)}
  <2>1. CASE i = 1
    BY <1>1, <2>1
  <2>2. CASE i # 1
    <3>1. i - 1 \in 1 .. Len(s) - 1 /\ Tail(s)[i - 1] = s[i]
      BY <1>1, <2>2
    <3> QED
      BY <1>1, <3>1 DEF Range
  <2> QED
    BY <2>1, <2>2
<1> QED
  BY <1>1, <1>2 DEF Range

\* An event that enters the queue is there or stands behind an overflow
\* marker, and nothing leaves the queue for it.
LEMMA QueuedKeeps ==
    ASSUME TypeOK, NEW event \in Events
    PROVE  /\ queued(event) \in Seq(Events)
           /\ \/ Len(queued(event)) <= KernelMax
              \/ Len(queued(event)) = KernelMax + 1 /\ Overflow \in Range(queued(event))
           /\ Range(kernel) \subseteq Range(queued(event))
           /\ {event, Overflow} \cap Range(queued(event)) # {}
<1>1. /\ kernel \in Seq(Events) /\ KernelMax \in Nat \ {0}
      /\ Len(kernel) <= KernelMax \/ (Len(kernel) = KernelMax + 1 /\ Overflow \in Range(kernel))
  BY WatcherAssumption DEF TypeOK
<1>2. Overflow \in Events
  BY DEF Events
<1>3. CASE Len(kernel) >= KernelMax /\ Overflow \in Range(kernel)
  BY <1>1, <1>3 DEF queued
<1>4. CASE Len(kernel) >= KernelMax /\ Overflow \notin Range(kernel)
  <2>1. queued(event) = Append(kernel, Overflow)
    BY <1>4 DEF queued
  <2>2. Len(kernel) = KernelMax
    BY <1>1, <1>4
  <2> QED
    BY <1>1, <1>2, <2>1, <2>2, RangeAppend
<1>5. CASE Len(kernel) < KernelMax
  <2>1. CASE kernel # <<>> /\ kernel[Len(kernel)] = event
    <3>1. queued(event) = kernel
      BY <1>1, <1>5, <2>1 DEF queued
    <3>2. Len(kernel) \in DOMAIN kernel
      BY <1>1, <2>1
    <3> QED
      BY <1>1, <2>1, <3>1, <3>2 DEF Range
  <2>2. CASE ~ (kernel # <<>> /\ kernel[Len(kernel)] = event)
    <3>1. queued(event) = Append(kernel, event)
      BY <1>1, <1>5, <2>2 DEF queued
    <3> QED
      BY <1>1, <1>5, <3>1, RangeAppend
  <2> QED
    BY <2>1, <2>2
<1> QED
  BY <1>1, <1>3, <1>4, <1>5

(***************************************************************************)
(* Type correctness.                                                       *)
(***************************************************************************)
LEMMA TypeInit == Init => TypeOK
<1> SUFFICES ASSUME Init PROVE TypeOK
  OBVIOUS
<1> DEFINE e == <<>>
<1>1. e \in Seq(Events) /\ e \in Seq(Paths) /\ Len(e) = 0
  OBVIOUS
<1>2. kernel = e /\ batch = e /\ stable = e
  BY DEF Init
<1> HIDE DEF e
<1>3. kernel \in Seq(Events) /\ batch \in Seq(Events) /\ stable \in Seq(Paths) /\ Len(kernel) <= KernelMax
  BY <1>1, <1>2, WatcherAssumption
<1>4. /\ file \in [Paths -> {"absent", "open", "closed"}]
      /\ version \in [Paths -> 0 .. MaxVersion]
      /\ good \in [Paths -> 0 .. MaxVersion]
      /\ timer \in [Paths -> {None} \cup 0 .. Debounce]
      /\ quiet \in [Paths -> {None} \cup 0 .. Debounce]
  BY WatcherAssumption DEF Init
<1>5. /\ dir \in BOOLEAN /\ watch \in {"on", "gone", "removed"}
      /\ thread \in {"reading", "returned"}
      /\ consumer \in {"running", "failed", "cancelled"}
      /\ pipe \in {"listening", "hashing", "left", "stopped", "failed"}
      /\ job = Idle /\ closed \in BOOLEAN
  BY DEF Init
<1> QED
  BY <1>3, <1>4, <1>5 DEF TypeOK

\* What Report and StopListening do to the types.
LEMMA ReportTypes ==
    ASSUME TypeOK, NEW event \in Events, Report(event)
    PROVE  /\ kernel' \in Seq(Events)
           /\ \/ Len(kernel') <= KernelMax
              \/ Len(kernel') = KernelMax + 1 /\ Overflow \in Range(kernel')
           /\ Range(kernel) \subseteq Range(kernel')
           /\ watch = "on" => {event, Overflow} \cap Range(kernel') # {}
<1>1. CASE watch = "on"
  BY <1>1, QueuedKeeps DEF Report
<1>2. CASE watch # "on"
  BY <1>2 DEF Report, TypeOK
<1> QED
  BY <1>1, <1>2

LEMMA StopListeningTypes ==
    ASSUME TypeOK, StopListening, pipe' \in {"stopped", "failed"}
    PROVE  TypeOK'
<1>1. Ignored \in Events
  BY DEF Events
<1>2. /\ kernel' \in Seq(Events)
      /\ \/ Len(kernel') <= KernelMax
         \/ Len(kernel') = KernelMax + 1 /\ Overflow \in Range(kernel')
  BY <1>1, ReportTypes DEF StopListening
<1>3. /\ consumer' \in {"running", "failed", "cancelled"} /\ watch' \in {"on", "gone", "removed"}
      /\ timer' \in [Paths -> {None} \cup 0 .. Debounce]
      /\ closed' \in BOOLEAN /\ job' = Idle
      /\ UNCHANGED <<file, version, dir, thread, batch, stable, good, quiet>>
  BY DEF StopListening, TypeOK, fileVars
<1> QED
  BY <1>2, <1>3 DEF TypeOK

LEMMA TypeStep == TypeOK /\ [Next]_vars => TypeOK'
<1> SUFFICES ASSUME TypeOK, [Next]_vars PROVE TypeOK'
  OBVIOUS
<1>a. Debounce \in Nat /\ MaxVersion \in Nat
  BY WatcherAssumption
<1>b. \A p \in Paths : version[p] < MaxVersion =>
          [version EXCEPT ![p] = @ + 1] \in [Paths -> 0 .. MaxVersion]
  <2> SUFFICES ASSUME NEW p \in Paths, version[p] < MaxVersion
               PROVE  [version EXCEPT ![p] = @ + 1] \in [Paths -> 0 .. MaxVersion]
    OBVIOUS
  <2>1. version[p] + 1 \in 0 .. MaxVersion
    BY <1>a DEF TypeOK
  <2> QED
    BY <2>1 DEF TypeOK
<1>c. \A p \in Paths, s \in {"absent", "open", "closed"} :
          [file EXCEPT ![p] = s] \in [Paths -> {"absent", "open", "closed"}]
  BY DEF TypeOK
<1>1. ASSUME NEW p \in Paths, Write(p) \/ Delete(p) PROVE TypeOK'
  <2>1. /\ file' \in [Paths -> {"absent", "open", "closed"}]
        /\ version' \in [Paths -> 0 .. MaxVersion]
    BY ZenonT(30), <1>1, <1>b, <1>c DEF Write, Delete, TypeOK
  <2>2. UNCHANGED <<dir, watch, kernel, thread, batch, consumer, timer, stable, pipe, job, closed, good, quiet>>
    BY <1>1 DEF Write, Delete, loopVars
  <2> QED
    BY <2>1, <2>2 DEF TypeOK
<1>2. ASSUME NEW p \in Paths, Close(p) \/ MoveIn(p) PROVE TypeOK'
  <2>1. p \in Events /\ Report(p)
    BY <1>2 DEF Close, MoveIn, Events
  <2>2. /\ file' \in [Paths -> {"absent", "open", "closed"}]
        /\ version' \in [Paths -> 0 .. MaxVersion]
    BY ZenonT(30), <1>2, <1>b, <1>c DEF Close, MoveIn, TypeOK
  <2>3. UNCHANGED <<dir, watch, thread, batch, consumer, timer, stable, pipe, job, closed, good, quiet>>
    BY <1>2 DEF Close, MoveIn, loopVars
  <2> QED
    BY <2>1, <2>2, <2>3, ReportTypes DEF TypeOK
<1>3. ASSUME NEW p \in Paths, Emit(p) PROVE TypeOK'
  <2>1. stable' \in Seq(Paths)
    BY <1>3 DEF Emit, TypeOK
  <2> QED
    BY <1>3, <2>1 DEF Emit, TypeOK, fileVars
<1>4. CASE RemoveDir
  <2>1. Ignored \in Events /\ Report(Ignored)
    BY <1>4 DEF RemoveDir, Events
  <2>2. /\ file' \in [Paths -> {"absent", "open", "closed"}]
        /\ dir' \in BOOLEAN /\ watch' \in {"on", "gone", "removed"}
        /\ UNCHANGED <<version, thread, batch, consumer, timer, stable, pipe, job, closed, good, quiet>>
    BY <1>4 DEF RemoveDir, TypeOK, loopVars
  <2> QED
    BY <2>1, <2>2, ReportTypes DEF TypeOK
<1>5. CASE MakeDir
  BY <1>5 DEF MakeDir, TypeOK, loopVars
<1>6. CASE ThreadRead
  <2> DEFINE e == <<>>
  <2>1. e \in Seq(Events) /\ Len(e) = 0 /\ kernel' = e
    BY <1>6 DEF ThreadRead
  <2> HIDE DEF e
  <2>2. kernel' \in Seq(Events) /\ Len(kernel') <= KernelMax
    BY <2>1, WatcherAssumption
  <2> QED
    BY <1>6, <2>2 DEF ThreadRead, TypeOK, fileVars, loopVars
<1>7. CASE Consume
  <2> DEFINE e == <<>>
  <2>1. e \in Seq(Events) /\ batch' = e
    BY <1>7 DEF Consume
  <2> HIDE DEF e
  <2>2. /\ timer' \in [Paths -> {None} \cup 0 .. Debounce]
        /\ quiet' \in [Paths -> {None} \cup 0 .. Debounce]
    BY <1>7, <1>a DEF Consume, debounced, TypeOK
  <2> QED
    BY <1>7, <2>1, <2>2 DEF Consume, TypeOK, fileVars
<1>8. CASE ConsumerFails
  BY <1>8 DEF ConsumerFails, TypeOK, fileVars
<1>9. CASE Stat \/ StatFails
  <2>1. Head(stable) \in Paths /\ stable' \in Seq(Paths)
    BY ZenonT(30), <1>9, RangeTail DEF Stat, StatFails, NextPath, TypeOK
  <2>2. job' \in [path : Paths, version : 0 .. MaxVersion] \cup {Idle}
    BY <1>9, <2>1 DEF Stat, StatFails, TypeOK
  <2> QED
    BY <1>9, <2>1, <2>2 DEF Stat, StatFails, TypeOK, fileVars
<1>10. CASE HashDone
  <2>1. good' \in [Paths -> 0 .. MaxVersion]
    <3>1. CASE job = Idle
      <4>1. NoPath \notin Paths
        BY EventsAssumption
      <4>2. [good EXCEPT ![NoPath] = None] = good
        BY <4>1 DEF TypeOK
      <4> QED
        BY <1>10, <3>1, <4>2 DEF HashDone, TypeOK, Idle
    <3>2. CASE job # Idle
      BY <1>10, <3>2 DEF HashDone, TypeOK
    <3> QED
      BY <3>1, <3>2
  <2> QED
    BY <1>10, <2>1 DEF HashDone, TypeOK, fileVars
<1>11. CASE HashFails \/ CancelledInDispatch
  BY <1>11 DEF HashFails, CancelledInDispatch, TypeOK, fileVars
<1>12. CASE ListenFails \/ Cancelled \/ Finalise
  BY <1>12, StopListeningTypes DEF ListenFails, Cancelled, Finalise
<1>13. CASE Tick
  <2>1. /\ timer' \in [Paths -> {None} \cup 0 .. Debounce]
        /\ quiet' \in [Paths -> {None} \cup 0 .. Debounce]
    BY SMTT(30), <1>13, <1>a DEF Tick, TypeOK, None
  <2> QED
    BY <1>13, <2>1 DEF Tick, TypeOK, fileVars
<1>14. CASE UNCHANGED vars
  BY <1>14 DEF vars, TypeOK
<1> QED
  BY <1>1, <1>2, <1>3, <1>4, <1>5, <1>6, <1>7, <1>8, <1>9, <1>10, <1>11, <1>12, <1>13, <1>14 DEF Next

(***************************************************************************)
(* Every variable keeps its type, the kernel's queue its limit and the     *)
(* timers theirs.                                                          *)
(***************************************************************************)
THEOREM WatcherTypeCorrect == Spec => []TypeOK
BY TypeInit, TypeStep, PTL DEF Spec

(***************************************************************************)
(* Nothing is forgotten.  The property is not inductive as it stands: it   *)
(* needs that the consumer lives as long as the watch does, that nothing   *)
(* is left in batch when the next read begins, and that dispatch is idle   *)
(* when it is given a path.                                                *)
(***************************************************************************)
ConsumerLives ==
    /\ watch = "on" => dir /\ consumer = "running" /\ pipe \notin {"stopped", "failed"}
    /\ watch = "removed" => pipe = "stopped"

BatchTaken == thread = "reading" => Range(batch) = {}

DispatchIdle == pipe # "hashing" => job = Idle

WatchInv == TypeOK /\ ConsumerLives /\ BatchTaken /\ DispatchIdle /\ ChangeNeverForgotten

LEMMA WatchInvInit == Init => WatchInv
<1> SUFFICES ASSUME Init PROVE WatchInv
  OBVIOUS
<1>1. Range(batch) = {}
  BY DEF Init, Range
<1> QED
  BY <1>1, TypeInit DEF Init, WatchInv, ConsumerLives, BatchTaken, DispatchIdle, ChangeNeverForgotten

\* A step that stops listening, or that is taken when nobody watches.
LEMMA NotWatching ==
    ASSUME ~ Watching' PROVE ChangeNeverForgotten'
BY DEF ChangeNeverForgotten

LEMMA WatchInvStep == WatchInv /\ [Next]_vars => WatchInv'
<1> SUFFICES ASSUME WatchInv, [Next]_vars PROVE WatchInv'
  OBVIOUS
<1>0. TypeOK /\ TypeOK'
  BY TypeStep DEF WatchInv
<1>a. ConsumerLives /\ BatchTaken /\ DispatchIdle /\ ChangeNeverForgotten
  BY DEF WatchInv
<1>b. Watching => watch = "on"
  BY <1>0, <1>a DEF Watching, ConsumerLives, TypeOK
<1>1. ASSUME NEW p \in Paths, Write(p) \/ Delete(p) PROVE WatchInv'
  <2>1. /\ \A q \in Paths \ {p} : file'[q] = file[q] /\ version'[q] = version[q]
        /\ file'[p] # "closed"
    BY <1>0, <1>1 DEF Write, Delete, TypeOK
  <2>2. UNCHANGED <<dir, watch, kernel, thread, batch, consumer, timer, stable, pipe, job, closed, good, quiet>>
    BY <1>1 DEF Write, Delete, loopVars
  <2>3. \A q \in Paths \ {p} : Underway(q) => Underway(q)'
    BY <2>1, <2>2 DEF Underway
  <2>4. ChangeNeverForgotten'
    BY <1>a, <2>1, <2>2, <2>3 DEF ChangeNeverForgotten, Watching
  <2> QED
    BY <1>0, <1>a, <2>2, <2>4 DEF WatchInv, ConsumerLives, BatchTaken, DispatchIdle
<1>2. ASSUME NEW p \in Paths, Close(p) \/ MoveIn(p) PROVE WatchInv'
  <2>1. p \in Events /\ Report(p)
    BY <1>2 DEF Close, MoveIn, Events
  <2>2. \A q \in Paths \ {p} : file'[q] = file[q] /\ version'[q] = version[q]
    BY <1>0, <1>2 DEF Close, MoveIn, TypeOK
  <2>3. UNCHANGED <<dir, watch, thread, batch, consumer, timer, stable, pipe, job, closed, good, quiet>>
    BY <1>2 DEF Close, MoveIn, loopVars
  <2>4. /\ Range(kernel) \subseteq Range(kernel')
        /\ watch = "on" => {p, Overflow} \cap Range(kernel') # {}
    BY <1>0, <2>1, ReportTypes
  <2>5. \A q \in Paths \ {p} : Underway(q) => Underway(q)'
    BY <2>2, <2>3, <2>4 DEF Underway
  <2>6. watch = "on" => Underway(p)'
    BY <2>4 DEF Underway
  <2>7. ChangeNeverForgotten'
    BY <1>a, <1>b, <2>2, <2>3, <2>5, <2>6 DEF ChangeNeverForgotten, Watching
  <2> QED
    BY <1>0, <1>a, <2>3, <2>7 DEF WatchInv, ConsumerLives, BatchTaken, DispatchIdle
<1>3. ASSUME NEW p \in Paths, Emit(p) PROVE WatchInv'
  <2>1. stable \in Seq(Paths) /\ stable' = Append(stable, p)
    BY <1>0, <1>3 DEF Emit, TypeOK
  <2>2. Range(stable') = Range(stable) \cup {p}
    BY <2>1, RangeAppend
  <2>3. \A q \in Paths \ {p} : timer'[q] = timer[q]
    BY <1>0, <1>3 DEF Emit, TypeOK
  <2>4. UNCHANGED <<file, version, dir, watch, kernel, thread, batch, consumer, pipe, job, closed, good>>
    BY <1>3 DEF Emit, fileVars
  <2>5. \A q \in Paths : Underway(q) => Underway(q)'
    BY <2>2, <2>3, <2>4 DEF Underway
  <2>6. ChangeNeverForgotten'
    BY <1>a, <2>4, <2>5 DEF ChangeNeverForgotten, Watching
  <2> QED
    BY <1>0, <1>a, <2>4, <2>6 DEF WatchInv, ConsumerLives, BatchTaken, DispatchIdle
<1>4. CASE RemoveDir
  <2>1. watch' # "on" /\ (watch = "on" => watch' = "gone") /\ (watch # "on" => watch' = watch)
        /\ UNCHANGED <<thread, batch, pipe, job>>
    BY <1>4 DEF RemoveDir, loopVars
  <2>2. ~ Watching'
    BY <1>0, <1>a, <2>1 DEF Watching, ConsumerLives, TypeOK
  <2> QED
    BY <1>0, <1>a, <2>1, <2>2, NotWatching DEF WatchInv, ConsumerLives, BatchTaken, DispatchIdle
<1>5. CASE MakeDir
  <2>1. UNCHANGED <<file, version, watch, kernel, thread, batch, consumer, timer, stable, pipe, job, closed, good, quiet>>
    BY <1>5 DEF MakeDir, loopVars
  <2>2. dir'
    BY <1>5 DEF MakeDir
  <2> QED
    BY <1>0, <1>a, <2>1, <2>2 DEF WatchInv, ConsumerLives, BatchTaken, DispatchIdle,
        ChangeNeverForgotten, Watching, Underway
<1>6. CASE ThreadRead
  <2>1. Range(batch) = {} /\ batch' = kernel /\ thread' = "returned"
    BY <1>6, <1>a DEF ThreadRead, BatchTaken
  <2>2. UNCHANGED <<file, version, dir, watch, consumer, timer, stable, pipe, job, closed, good, quiet>>
    BY <1>6 DEF ThreadRead, fileVars, loopVars
  <2>3. \A q \in Paths : Underway(q) => Underway(q)'
    BY <2>1, <2>2 DEF Underway
  <2>4. ChangeNeverForgotten'
    BY <1>a, <2>2, <2>3 DEF ChangeNeverForgotten, Watching
  <2> QED
    BY <1>0, <1>a, <2>1, <2>2, <2>4 DEF WatchInv, ConsumerLives, BatchTaken, DispatchIdle
<1>7. CASE Consume
  <2>1. Range(batch') = {}
    BY <1>7 DEF Consume, Range
  <2>2. UNCHANGED <<file, version, dir, watch, kernel, consumer, stable, pipe, job, closed, good>>
    BY <1>7 DEF Consume, fileVars
  <2>3. \A q \in Paths : timer'[q] = IF q \in yielded THEN Debounce ELSE timer[q]
    BY <1>7 DEF Consume, debounced
  <2>4. Debounce # None
    BY WatcherAssumption DEF None
  <2>5. ASSUME NEW q \in Paths, file[q] = "closed", Underway(q) PROVE Underway(q)'
    <3>1. CASE q \in yielded
      BY <2>3, <2>4, <3>1 DEF Underway
    <3>2. CASE q \notin yielded
      <4>1. q \notin Range(batch) /\ Overflow \notin Range(batch)
        BY <2>5, <3>2 DEF yielded, rescanned
      <4> QED
        BY <2>2, <2>3, <2>5, <3>2, <4>1 DEF Underway
    <3> QED
      BY <3>1, <3>2
  <2>6. ChangeNeverForgotten'
    BY <1>a, <2>2, <2>5 DEF ChangeNeverForgotten, Watching
  <2> QED
    BY <1>0, <1>a, <2>1, <2>2, <2>6 DEF WatchInv, ConsumerLives, BatchTaken, DispatchIdle
<1>8. CASE ConsumerFails
  <2>1. UNCHANGED <<file, version, dir, watch, kernel, thread, batch, timer, stable, pipe, job, closed, good, quiet>>
    BY <1>8 DEF ConsumerFails, fileVars
  <2>2. watch # "on"
    BY <1>8, <1>a DEF ConsumerFails, ConsumerLives
  <2> QED
    BY <1>0, <1>a, <2>1, <2>2 DEF WatchInv, ConsumerLives, BatchTaken, DispatchIdle,
        ChangeNeverForgotten, Watching, Underway
<1>9. CASE Stat \/ StatFails
  <2> DEFINE p == Head(stable)
  <2>1. pipe = "listening" /\ stable # <<>> /\ stable' = Tail(stable)
    BY <1>9 DEF Stat, StatFails, NextPath
  <2>2. p \in Paths /\ Range(stable) \subseteq Range(stable') \cup {p}
    BY <1>0, <2>1, RangeTail DEF TypeOK
  <2>3. UNCHANGED <<file, version, dir, watch, kernel, thread, batch, consumer, timer, closed, good, quiet>>
    BY <1>9 DEF Stat, StatFails, fileVars
  <2>4. job = Idle /\ pipe' \in {"listening", "hashing"}
    BY <1>9, <1>a, <2>1 DEF Stat, StatFails, DispatchIdle
  <2>5. \A q \in Paths : job # [path |-> q, version |-> version[q]]
    BY <2>4, EventsAssumption DEF Idle
  <2>6. file[p] = "closed" => job' = [path |-> p, version |-> version[p]]
    BY <1>9 DEF Stat, StatFails
  <2> HIDE DEF p
  <2>7. ASSUME NEW q \in Paths, file[q] = "closed", Underway(q) PROVE Underway(q)'
    <3>1. CASE q = p
      BY <2>3, <2>6, <2>7, <3>1 DEF Underway
    <3>2. CASE q # p
      BY <2>2, <2>3, <2>5, <2>7, <3>2 DEF Underway
    <3> QED
      BY <3>1, <3>2
  <2>8. ChangeNeverForgotten'
    BY <1>a, <2>1, <2>3, <2>4, <2>7 DEF ChangeNeverForgotten, Watching
  <2>9. DispatchIdle'
    BY <1>9, <2>1, <2>4 DEF Stat, StatFails, DispatchIdle
  <2> QED
    BY <1>0, <1>a, <2>1, <2>3, <2>4, <2>8, <2>9 DEF WatchInv, ConsumerLives, BatchTaken
<1>10. CASE HashDone
  <2>1. UNCHANGED <<file, version, dir, watch, kernel, thread, batch, consumer, timer, stable, closed, quiet>>
    BY <1>10 DEF HashDone, fileVars
  <2>2. pipe = "hashing" /\ pipe' = "listening" /\ job' = Idle
    BY <1>10 DEF HashDone
  <2>3. ASSUME NEW q \in Paths, good'[q] # version[q]
        PROVE  good[q] # version[q] /\ job # [path |-> q, version |-> version[q]]
    BY <1>0, <1>10, <2>3 DEF HashDone, TypeOK
  <2>4. ASSUME NEW q \in Paths, good'[q] # version[q], Underway(q) PROVE Underway(q)'
    BY <2>1, <2>3, <2>4 DEF Underway
  <2>5. ChangeNeverForgotten'
    BY <1>a, <2>1, <2>2, <2>3, <2>4 DEF ChangeNeverForgotten, Watching
  <2> QED
    BY <1>0, <1>a, <2>1, <2>2, <2>5 DEF WatchInv, ConsumerLives, BatchTaken, DispatchIdle
<1>11. CASE HashFails
  <2>1. UNCHANGED <<file, version, dir, watch, kernel, thread, batch, consumer, timer, stable, closed, good, quiet>>
    BY <1>11 DEF HashFails, fileVars
  <2>2. pipe = "hashing" /\ pipe' = "listening" /\ job' = Idle /\ file[job.path] = "absent"
    BY <1>11 DEF HashFails
  <2>3. ASSUME NEW q \in Paths, file[q] = "closed", Underway(q) PROVE Underway(q)'
    BY <2>1, <2>2, <2>3 DEF Underway
  <2>4. ChangeNeverForgotten'
    BY <1>a, <2>1, <2>2, <2>3 DEF ChangeNeverForgotten, Watching
  <2> QED
    BY <1>0, <1>a, <2>1, <2>2, <2>4 DEF WatchInv, ConsumerLives, BatchTaken, DispatchIdle
<1>12. CASE CancelledInDispatch
  <2>1. pipe = "hashing" /\ pipe' = "left" /\ job' = Idle /\ UNCHANGED <<dir, watch, consumer, thread, batch>>
    BY <1>12 DEF CancelledInDispatch, fileVars
  <2>2. ~ Watching'
    BY <2>1 DEF Watching
  <2> QED
    BY <1>0, <1>a, <2>1, <2>2, NotWatching DEF WatchInv, ConsumerLives, BatchTaken, DispatchIdle
<1>13. CASE ListenFails \/ Cancelled \/ Finalise
  <2>1. StopListening
    BY <1>13 DEF ListenFails, Cancelled, Finalise
  <2>2. /\ watch' # "on" /\ (watch = "on" => watch' = "removed") /\ (watch # "on" => watch' = watch)
        /\ job' = Idle /\ UNCHANGED <<thread, batch>>
    BY <2>1 DEF StopListening
  <2>3. pipe' = "stopped" \/ (pipe' = "failed" /\ watch = "gone")
    BY <1>0, <1>13, <1>a DEF ListenFails, Cancelled, Finalise, ConsumerLives, TypeOK
  <2>4. ~ Watching'
    BY <2>2, <2>3 DEF Watching
  <2>5. pipe # "stopped"
    BY <1>13 DEF ListenFails, Cancelled, Finalise
  <2> QED
    BY <1>0, <1>a, <2>2, <2>3, <2>4, <2>5, NotWatching DEF WatchInv, ConsumerLives, BatchTaken, DispatchIdle
<1>14. CASE Tick
  <2>1. UNCHANGED <<file, version, dir, watch, kernel, thread, batch, consumer, stable, pipe, job, closed, good>>
    BY <1>14 DEF Tick, fileVars
  <2>2. \A q \in Paths : timer[q] # None => timer'[q] # None
    BY <1>0, <1>14, WatcherAssumption DEF Tick, None, TypeOK
  <2>3. \A q \in Paths : Underway(q) => Underway(q)'
    BY <2>1, <2>2 DEF Underway
  <2>4. ChangeNeverForgotten'
    BY <1>a, <2>1, <2>3 DEF ChangeNeverForgotten, Watching
  <2> QED
    BY <1>0, <1>a, <2>1, <2>4 DEF WatchInv, ConsumerLives, BatchTaken, DispatchIdle
<1>15. CASE UNCHANGED vars
  BY <1>0, <1>15, <1>a DEF vars, WatchInv, ConsumerLives, BatchTaken, DispatchIdle,
      ChangeNeverForgotten, Watching, Underway
<1> QED
  BY <1>1, <1>2, <1>3, <1>4, <1>5, <1>6, <1>7, <1>8, <1>9, <1>10, <1>11, <1>12, <1>13, <1>14, <1>15 DEF Next

(***************************************************************************)
(* No finished change is forgotten between the kernel and the dispatcher.  *)
(***************************************************************************)
THEOREM NothingForgotten == Spec => []ChangeNeverForgotten
<1>1. WatchInv => ChangeNeverForgotten
  BY DEF WatchInv
<1> QED
  BY <1>1, WatchInvInit, WatchInvStep, PTL DEF Spec

(***************************************************************************)
(* A timer and the silence of its path add up to the debounce time.        *)
(***************************************************************************)
TimerMeasuresQuiet == \A p \in Paths : timer[p] # None => quiet[p] = Debounce - timer[p]

SettleInv == TypeOK /\ TimerMeasuresQuiet

LEMMA SettleStep == SettleInv /\ [Next]_vars => SettleInv'
<1> SUFFICES ASSUME SettleInv, [Next]_vars PROVE SettleInv'
  OBVIOUS
<1>0. TypeOK /\ TypeOK' /\ TimerMeasuresQuiet
  BY TypeStep DEF SettleInv
<1>a. Debounce \in Nat /\ Debounce # None
  BY WatcherAssumption DEF None
<1>1. CASE Consume
  <2>1. \A q \in Paths : /\ timer'[q] = IF q \in yielded THEN Debounce ELSE timer[q]
                         /\ quiet'[q] = IF q \in yielded THEN 0 ELSE quiet[q]
    BY <1>1 DEF Consume, debounced
  <2> QED
    BY <1>0, <1>a, <2>1 DEF SettleInv, TimerMeasuresQuiet
<1>2. ASSUME NEW p \in Paths, Emit(p) PROVE SettleInv'
  <2>1. \A q \in Paths : /\ timer'[q] = IF q = p THEN None ELSE timer[q]
                         /\ quiet'[q] = IF q = p THEN None ELSE quiet[q]
    BY <1>0, <1>2 DEF Emit, TypeOK
  <2> QED
    BY <1>0, <2>1 DEF SettleInv, TimerMeasuresQuiet
<1>3. CASE Tick
  <2>1. \A q \in Paths :
          /\ timer'[q] = IF timer[q] > 0 THEN timer[q] - 1 ELSE timer[q]
          /\ quiet'[q] = IF quiet[q] \in 0 .. Debounce - 1 THEN quiet[q] + 1 ELSE quiet[q]
    BY <1>3 DEF Tick
  <2>2. \A q \in Paths : timer[q] \in 0 .. Debounce \/ timer[q] = None
    BY <1>0 DEF TypeOK
  <2>3. ASSUME NEW q \in Paths, timer'[q] # None PROVE quiet'[q] = Debounce - timer'[q]
    <3>1. timer[q] # None /\ timer[q] \in 0 .. Debounce /\ quiet[q] = Debounce - timer[q]
      BY <1>0, <2>1, <2>2, <2>3 DEF TimerMeasuresQuiet, None
    <3> QED
      BY <1>a, <2>1, <3>1
  <2> QED
    BY <1>0, <2>3 DEF SettleInv, TimerMeasuresQuiet
<1>4. CASE ListenFails \/ Cancelled \/ Finalise
  <2>1. \A q \in Paths : timer'[q] = None
    BY <1>4 DEF ListenFails, Cancelled, Finalise, StopListening
  <2> QED
    BY <1>0, <2>1 DEF SettleInv, TimerMeasuresQuiet
<1>5. CASE UNCHANGED <<timer, quiet>>
  BY <1>0, <1>5 DEF SettleInv, TimerMeasuresQuiet
<1>6. ASSUME NEW p \in Paths, Write(p) \/ Close(p) \/ MoveIn(p) \/ Delete(p) PROVE UNCHANGED <<timer, quiet>>
  BY <1>6 DEF Write, Close, MoveIn, Delete, loopVars
<1>7. CASE RemoveDir \/ MakeDir \/ ThreadRead
  BY <1>5, <1>7 DEF RemoveDir, MakeDir, ThreadRead, loopVars
<1>8. CASE ConsumerFails \/ Stat \/ StatFails \/ HashDone \/ HashFails \/ CancelledInDispatch
  BY <1>5, <1>8 DEF ConsumerFails, Stat, StatFails, HashDone, HashFails, CancelledInDispatch
<1>9. CASE UNCHANGED vars
  BY <1>5, <1>9 DEF vars
<1> QED
  BY <1>1, <1>2, <1>3, <1>4, <1>5, <1>6, <1>7, <1>8, <1>9 DEF Next

LEMMA OnlyEmitAppends ==
    ASSUME SettleInv, [Next]_vars, Len(stable') > Len(stable)
    PROVE  quiet[stable'[Len(stable')]] = Debounce
<1>a. stable \in Seq(Paths) /\ Len(stable) \in Nat
  BY DEF SettleInv, TypeOK
<1>1. ASSUME NEW p \in Paths, Emit(p) PROVE quiet[stable'[Len(stable')]] = Debounce
  <2>1. stable' = Append(stable, p) /\ timer[p] = 0
    BY <1>1 DEF Emit
  <2>2. stable'[Len(stable')] = p
    BY <1>a, <2>1
  <2>3. quiet[p] = Debounce - 0
    BY <2>1 DEF SettleInv, TimerMeasuresQuiet, None
  <2> QED
    BY <2>2, <2>3, WatcherAssumption
<1>2. stable' # stable
  BY <1>a
<1>3. CASE Stat \/ StatFails
  <2>1. stable # <<>> /\ stable' = Tail(stable)
    BY <1>3 DEF Stat, StatFails, NextPath
  <2>2. Len(stable') = Len(stable) - 1
    BY <1>a, <2>1
  <2> QED
    BY <1>a, <2>2
<1>4. ASSUME NEW p \in Paths, Write(p) \/ Close(p) \/ MoveIn(p) \/ Delete(p) PROVE FALSE
  BY <1>2, <1>4 DEF Write, Close, MoveIn, Delete, loopVars
<1>5. CASE RemoveDir \/ MakeDir \/ ThreadRead \/ UNCHANGED vars
  BY <1>2, <1>5 DEF RemoveDir, MakeDir, ThreadRead, loopVars, vars
<1>6. CASE Consume \/ ConsumerFails \/ HashDone \/ HashFails \/ CancelledInDispatch \/ Tick
  BY <1>2, <1>6 DEF Consume, ConsumerFails, HashDone, HashFails, CancelledInDispatch, Tick
<1>7. CASE ListenFails \/ Cancelled \/ Finalise
  BY <1>2, <1>7 DEF ListenFails, Cancelled, Finalise, StopListening
<1> QED
  BY <1>1, <1>3, <1>4, <1>5, <1>6, <1>7 DEF Next

(***************************************************************************)
(* A path is emitted once for a burst of events, and only after the whole  *)
(* of the debounce time without one.                                       *)
(***************************************************************************)
THEOREM EmittedWhenSettled == Spec => SettledBeforeEmitted
<1>1. Init => SettleInv
  BY TypeInit DEF Init, SettleInv, TimerMeasuresQuiet
<1>2. SettleInv /\ [Next]_vars =>
          [Len(stable') > Len(stable) => quiet[stable'[Len(stable')]] = Debounce]_vars
  BY OnlyEmitAppends
<1> QED
  BY <1>1, <1>2, SettleStep, PTL DEF Spec, SettledBeforeEmitted
=============================================================================
