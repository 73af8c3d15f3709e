---------------------------- MODULE ServiceProofs ----------------------------
(***************************************************************************)
(* For any number of senders, any configurations and any limits: main.py   *)
(* uses the supervisor as ProcessSupervisor allows, and so the service     *)
(* leaves nothing behind and its exit code is true.                        *)
(***************************************************************************)
EXTENDS Service, ProcessSupervisorProofs, PlanningProofs

\* The steps of main.py that are no steps of the supervisor.
MainOnly ==
    \/ LoadConfig \/ ProtoMissing \/ StartRaises
    \/ OpenGroup \/ OpenGroupServeFails
    \/ ServeBreaks \/ \E w \in Workers : WorkerFails(w) \/ WorkerCancelled(w)
    \/ Signal \/ CancelWorkers
    \/ Return

LEMMA MainOnlyStutters == MainOnly => UNCHANGED vars
BY DEF MainOnly, LoadConfig, ProtoMissing, StartRaises, OpenGroup, OpenGroupServeFails,
    ServeBreaks, WorkerFails, WorkerCancelled, Signal, CancelWorkers, Return

\* The steps of the supervisor leave the state of main.py alone, but for the
\* call of shutdown.
SupervisorOnly ==
    (\E c \in Children : ChildStep(c)) \/ CancelSupervisor \/ ShutdownStep \/ ClockStep

LEMMA ServiceStep ==
    ASSUME [ServiceNext]_serviceVars
    PROVE  [Next]_vars
<1>1. CASE MainOnly
  BY <1>1, MainOnlyStutters
<1>2. CASE CallShutdown
  BY <1>2 DEF CallShutdown, GroupEnded, Shutdown, Next
<1>3. ASSUME NEW c \in Children, ChildStep(c) PROVE Next
  BY <1>3 DEF ChildStep, Next
<1>4. CASE CancelSupervisor \/ ShutdownStep \/ ClockStep
  BY <1>4 DEF CancelSupervisor, ShutdownStep, ClockStep, Next
<1>5. CASE UNCHANGED serviceVars
  BY <1>5 DEF serviceVars
<1> QED
  BY <1>1, <1>2, <1>3, <1>4, <1>5 DEF ServiceNext, MainOnly

(***************************************************************************)
(* Every behaviour of the service is one of the supervisor: main.py never  *)
(* calls shutdown before run has ended.                                    *)
(***************************************************************************)
THEOREM ServiceImplementsSupervisor == ServiceSpec => UsesSupervisor
<1>1. ServiceInit => Init
  BY DEF ServiceInit
<1> QED
  BY <1>1, ServiceStep, PTL DEF ServiceSpec, UsesSupervisor, Spec

(***************************************************************************)
(* What is known in each phase.  A group that ends without a failure has   *)
(* been asked to, and its serve has bound the socket.                      *)
(***************************************************************************)
PhaseInv ==
    /\ phase \in {"load", "start", "up", "ending", "shutdown", "exited", "refused"}
    /\ phase \in {"load", "start", "up"} => failed = {}
    /\ phase = "up" => socket = "socket"
    /\ phase \in {"ending", "shutdown"} => failed # {} \/ (stop_requested /\ socket = "socket")
    /\ phase = "exited" =>
          /\ shut = "done"
          /\ socket # "socket"
          /\ exit = "0" <=> failed = {}
          /\ exit = "0" => stop_requested

ServiceInv == ShutInv /\ PhaseInv

LEMMA ServiceInvInit == ServiceInit => ServiceInv
BY ShutInvInit DEF ServiceInit, ServiceInv, PhaseInv

LEMMA ServiceInvStep == ServiceInv /\ [ServiceNext]_serviceVars => ServiceInv'
<1> SUFFICES ASSUME ServiceInv, [ServiceNext]_serviceVars PROVE ServiceInv'
  OBVIOUS
<1>0. ShutInv'
  BY ServiceStep, ShutInvStep, ServiceAssumption DEF ServiceInv
<1> SUFFICES PhaseInv'
  BY <1>0 DEF ServiceInv
<1>a. PhaseInv
  BY DEF ServiceInv
<1>1. CASE LoadConfig \/ ProtoMissing \/ StartRaises
  BY <1>1, <1>a DEF LoadConfig, ProtoMissing, StartRaises, Ends, PhaseInv
<1>2. CASE OpenGroup \/ OpenGroupServeFails
  BY <1>2, <1>a DEF OpenGroup, OpenGroupServeFails, PhaseInv
<1>3. CASE ServeBreaks
  BY <1>3, <1>a DEF ServeBreaks, PhaseInv, vars
<1>4. ASSUME NEW w \in Workers, WorkerFails(w) PROVE PhaseInv'
  BY <1>4, <1>a DEF WorkerFails, PhaseInv
<1>5. ASSUME NEW w \in Workers, WorkerCancelled(w) PROVE PhaseInv'
  BY <1>5, <1>a DEF WorkerCancelled, PhaseInv
<1>6. CASE Signal
  BY <1>6, <1>a DEF Signal, PhaseInv
<1>7. CASE CancelWorkers
  BY <1>7, <1>a DEF CancelWorkers, PhaseInv
<1>8. CASE CallShutdown
  BY <1>8, <1>a DEF CallShutdown, PhaseInv
<1>9. CASE Return
  <2>1. phase' = "exited" /\ shut' = "done" /\ UNCHANGED <<failed, stop_requested>>
    BY <1>9 DEF Return, vars
  <2>2. socket' # "socket"
    BY <1>9 DEF Return, socket_unlinked
  <2>3. failed # {} \/ (stop_requested /\ socket = "socket")
    BY <1>9, <1>a DEF Return, PhaseInv
  <2>4. (exit' = "0" <=> failed = {}) /\ (exit' = "0" => stop_requested)
    BY <1>9, <2>3 DEF Return, exit_code, Undeletable
  <2> QED
    BY <2>1, <2>2, <2>4 DEF PhaseInv
<1>10. CASE SupervisorOnly
  <2>1. UNCHANGED <<phase, failed, socket, stop_requested, exit>>
    BY <1>10 DEF SupervisorOnly, ChildStep, CancelSupervisor, ShutdownStep, ClockStep, mainVars
  <2>2. shut = "done" => shut' = "done"
    <3>1. ASSUME NEW c \in Children, ChildStep(c) PROVE UNCHANGED shut
      BY <3>1 DEF ChildStep, Start, SpawnOk, SpawnFails, Reap, BackoffOver, TaskCancelled, Exit, shutVars
    <3>2. CASE CancelSupervisor \/ ClockStep
      BY <3>2 DEF CancelSupervisor, ClockStep, CancelRun, Tick, shutVars
    <3>3. CASE ShutdownStep
      BY <3>3 DEF ShutdownStep, GraceOver, Escalate, ShutdownReturns
    <3> QED
      BY <1>10, <3>1, <3>2, <3>3 DEF SupervisorOnly
  <2> QED
    BY <1>a, <2>1, <2>2 DEF PhaseInv
<1>11. CASE UNCHANGED serviceVars
  BY <1>11, <1>a DEF serviceVars, mainVars, vars, PhaseInv
<1> QED
  BY <1>1, <1>2, <1>3, <1>4, <1>5, <1>6, <1>7, <1>8, <1>9, <1>10, <1>11 DEF ServiceNext, SupervisorOnly

(***************************************************************************)
(* When run has returned, no sender process is alive and no socket is left. *)
(***************************************************************************)
THEOREM ServiceExitsClean == ServiceSpec => []CleanExit
<1>1. ServiceInv => CleanExit
  BY DEF ServiceInv, ShutInv, PhaseInv, NothingLeftAlive, CleanExit
<1> QED
  BY <1>1, ServiceInvInit, ServiceInvStep, PTL DEF ServiceSpec

(***************************************************************************)
(* The exit code is 0 exactly if no worker failed, and then only after a   *)
(* signal, in whatever order the signal, the failure and the               *)
(* cancellations come.                                                     *)
(***************************************************************************)
THEOREM ExitCodeIsTrue == ServiceSpec => []ExitTellsFailure
<1>1. ServiceInv => ExitTellsFailure
  BY DEF ServiceInv, PhaseInv, ExitTellsFailure
<1> QED
  BY <1>1, ServiceInvInit, ServiceInvStep, PTL DEF ServiceSpec

(***************************************************************************)
(* What the supervisor guarantees on its own it guarantees in the service: *)
(* the restarts are rationed and only a crash loop gives a sender up, no   *)
(* sender is started once shutdown has been called, none is killed before  *)
(* its time, and none outlives shutdown, whichever worker fails and        *)
(* whenever the signal comes.                                              *)
(***************************************************************************)
THEOREM SupervisorInService ==
    ServiceSpec => /\ [](SpawnRateBounded /\ OnlyCrashLoopDegrades /\ NothingLeftAlive)
                   /\ NoSpawnAfterStop
                   /\ KilledOnlyAfterGrace
<1>1. ServiceSpec => Spec
  BY ServiceImplementsSupervisor DEF UsesSupervisor
<1>2. ~ Alongside
  BY ServiceAssumption
<1>3. Spec => []SpawnRateBounded
  BY RestartsRationed
<1>4. Spec => []OnlyCrashLoopDegrades
  BY DegradedForCrashLoop
<1>5. Spec => []NothingLeftAlive
  BY <1>2, ShutdownLeavesNothingAlive
<1>6. Spec => NoSpawnAfterStop
  BY StopEndsSpawning
<1>7. Spec => KilledOnlyAfterGrace
  BY <1>2, KillsOnlyAfterGrace
<1> QED
  BY <1>1, <1>3, <1>4, <1>5, <1>6, <1>7, PTL

(***************************************************************************)
(* The configuration.                                                      *)
(***************************************************************************)

LEMMA StepsNatural == Steps \subseteq Nat
BY DEF Steps, ENV_OVERRIDES

\* first_failure is the outcome of a step, and "ok" only if every step is.
LEMMA FirstFailure ==
    ASSUME NEW outcome
    PROVE  \/ first_failure(outcome) = "ok" /\ \A i \in Steps : outcome[i] = "ok"
           \/ \E i \in Steps : outcome[i] # "ok" /\ first_failure(outcome) = outcome[i]
<1> DEFINE failing == {i \in Steps : outcome[i] # "ok"}
<1>1. CASE failing = {}
  BY <1>1 DEF first_failure
<1>2. CASE failing # {}
  <2>1. failing \in SUBSET Nat
    BY StepsNatural
  <2>2. \E i \in failing : \A j \in failing : i <= j
    <3> HIDE DEF failing
    <3> QED
      BY <1>2, <2>1, LeastNatural
  <2>3. PICK least : least = CHOOSE i \in failing : \A j \in failing : i <= j
    OBVIOUS
  <2>4. least \in failing
    BY <2>2, <2>3
  <2>5. first_failure(outcome) = outcome[least]
    BY <1>2, <2>3 DEF first_failure
  <2> QED
    BY <2>4, <2>5
<1> QED
  BY <1>1, <1>2

LEMMA FirstOverride ==
    ASSUME NEW f, NEW e
    PROVE  LET first == first_failure([i \in Steps |-> override(f, e, ENV_OVERRIDES[i])])
           IN  \/ first = "ok" /\ \A i \in Steps : override(f, e, ENV_OVERRIDES[i]) = "ok"
               \/ \E i \in Steps : /\ override(f, e, ENV_OVERRIDES[i]) # "ok"
                                  /\ first = override(f, e, ENV_OVERRIDES[i])
<1> DEFINE outcome == [i \in Steps |-> override(f, e, ENV_OVERRIDES[i])]
<1>1. \A i \in Steps : outcome[i] = override(f, e, ENV_OVERRIDES[i])
  OBVIOUS
<1> HIDE DEF outcome
<1>2. \/ first_failure(outcome) = "ok" /\ \A i \in Steps : outcome[i] = "ok"
      \/ \E i \in Steps : outcome[i] # "ok" /\ first_failure(outcome) = outcome[i]
  BY FirstFailure
<1>3. \/ first_failure(outcome) = "ok" /\ \A i \in Steps : override(f, e, ENV_OVERRIDES[i]) = "ok"
      \/ \E i \in Steps : /\ override(f, e, ENV_OVERRIDES[i]) # "ok"
                         /\ first_failure(outcome) = override(f, e, ENV_OVERRIDES[i])
  BY <1>1, <1>2
<1> QED
  BY <1>3 DEF outcome

LEMMA FirstConversion ==
    ASSUME NEW f, NEW e
    PROVE  LET first == first_failure([i \in Steps |-> convert(f, e, ENV_OVERRIDES[i])])
           IN  \/ first = "ok" /\ \A i \in Steps : convert(f, e, ENV_OVERRIDES[i]) = "ok"
               \/ \E i \in Steps : /\ convert(f, e, ENV_OVERRIDES[i]) # "ok"
                                  /\ first = convert(f, e, ENV_OVERRIDES[i])
<1> DEFINE outcome == [i \in Steps |-> convert(f, e, ENV_OVERRIDES[i])]
<1>1. \A i \in Steps : outcome[i] = convert(f, e, ENV_OVERRIDES[i])
  OBVIOUS
<1> HIDE DEF outcome
<1>2. \/ first_failure(outcome) = "ok" /\ \A i \in Steps : outcome[i] = "ok"
      \/ \E i \in Steps : outcome[i] # "ok" /\ first_failure(outcome) = outcome[i]
  BY FirstFailure
<1>3. \/ first_failure(outcome) = "ok" /\ \A i \in Steps : convert(f, e, ENV_OVERRIDES[i]) = "ok"
      \/ \E i \in Steps : /\ convert(f, e, ENV_OVERRIDES[i]) # "ok"
                         /\ first_failure(outcome) = convert(f, e, ENV_OVERRIDES[i])
  BY <1>1, <1>2
<1> QED
  BY <1>3 DEF outcome

\* What SessionPlan asks of a configuration is what load_config lets pass.
LEMMA LoadedMeansAccepted ==
    ASSUME NEW f, IsFile(f), NEW e
    PROVE  load_config(f, e) = "ok" <=> accepted(f, e)
<1> DEFINE overridden == first_failure([i \in Steps |-> override(f, e, ENV_OVERRIDES[i])])
           converted == first_failure([i \in Steps |-> convert(f, e, ENV_OVERRIDES[i])])
<1>1. CASE f.state # "toml"
  BY <1>1 DEF load_config, accepted, IsFile
<1>2. CASE f.state = "toml"
  <2>1. load_config(f, e) = IF overridden # "ok" THEN overridden
                            ELSE IF converted # "ok" THEN converted
                            ELSE validate_config(app_config(f, e))
    BY <1>2 DEF load_config
  <2>2. overridden = "ok" <=> \A i \in Steps : override(f, e, ENV_OVERRIDES[i]) = "ok"
    BY FirstOverride
  <2>3. converted = "ok" <=> \A i \in Steps : convert(f, e, ENV_OVERRIDES[i]) = "ok"
    BY FirstConversion
  <2> HIDE DEF overridden, converted
  <2> QED
    BY <1>2, <2>1, <2>2, <2>3 DEF accepted
<1> QED
  BY <1>1, <1>2

\* The exceptions of load_config that main catches.
Expected == {"ValueError", "OSError"}

\* The step meets a section that is no table, in an assignment or in dict.get ...
OnNoTable(f, e, step) ==
    step.section \notin f.tables /\ (step.key \in DOMAIN e \/ ~ step.required)

\* ... or int meets an array, a table, a date or inf that no variable overrides.
OnNoInteger(f, e, step) ==
    /\ step.cast = "int"
    /\ step.key \in DOMAIN f.values \ DOMAIN e
    /\ f.values[step.key].int \in {"TypeError", "OverflowError"}

Unexpected(f, e) ==
    \/ f.state = "nested"
    \/ \E i \in Steps : OnNoTable(f, e, ENV_OVERRIDES[i]) \/ OnNoInteger(f, e, ENV_OVERRIDES[i])

NoValueError(f, e) ==
    \A i \in Steps : /\ override(f, e, ENV_OVERRIDES[i]) # "ValueError"
                     /\ convert(f, e, ENV_OVERRIDES[i]) # "ValueError"

\* What a raw value of the file, of the environment or of the defaults yields.
LEMMA RawOutcome ==
    ASSUME NEW f, IsFile(f), NEW e, IsEnvironment(e), NEW i \in Steps,
           NEW step, step = ENV_OVERRIDES[i]
    PROVE  /\ step.cast \in {"int", "str"}
           /\ step.key \in DOMAIN e => e[step.key][step.cast] \in {"ok", "ValueError"}
           /\ step.key \in DOMAIN f.values =>
                 /\ f.values[step.key].int \in {"ok", "ValueError", "TypeError", "OverflowError"}
                 /\ f.values[step.key].str \in {"ok", "ValueError"}
           /\ ~ step.required => DEFAULTS[step.key][step.cast] = "ok"
<1>1. /\ step.cast \in {"int", "str"}
      /\ ~ step.required => DEFAULTS[step.key][step.cast] = "ok"
  BY DEF Steps, ENV_OVERRIDES, DEFAULTS, Number, Text
<1>2. ASSUME step.key \in DOMAIN e PROVE e[step.key][step.cast] \in {"ok", "ValueError"}
  <2>1. e[step.key].int \in {"ok", "ValueError"} /\ e[step.key].str = "ok"
    BY <1>2 DEF IsEnvironment
  <2> QED
    BY <1>1, <2>1
<1>3. step.key \in DOMAIN f.values => f.values[step.key] \in RawValue
  BY DEF IsFile, IsSource
<1> QED
  BY <1>1, <1>2, <1>3 DEF RawValue

\* An override fails unexpectedly on a section that is no table only.
LEMMA OverrideOutcome ==
    ASSUME NEW f, IsFile(f), NEW e, IsEnvironment(e), NEW i \in Steps
    PROVE  /\ override(f, e, ENV_OVERRIDES[i]) \in {"ok", "ValueError", "TypeError"}
           /\ override(f, e, ENV_OVERRIDES[i]) = "TypeError" => OnNoTable(f, e, ENV_OVERRIDES[i])
<1>1. PICK step : step = ENV_OVERRIDES[i]
  OBVIOUS
<1>2. step.key \in DOMAIN e => e[step.key][step.cast] \in {"ok", "ValueError"}
  BY <1>1, RawOutcome
<1> QED
  BY <1>1, <1>2 DEF override, OnNoTable

\* A conversion fails unexpectedly for one of the two causes, and if either is
\* there, the override or the conversion fails.
LEMMA ConvertOutcome ==
    ASSUME NEW f, IsFile(f), NEW e, IsEnvironment(e), NEW i \in Steps
    PROVE  /\ convert(f, e, ENV_OVERRIDES[i]) \in
                 {"ok", "ValueError", "TypeError", "OverflowError", "AttributeError"}
           /\ convert(f, e, ENV_OVERRIDES[i]) \notin {"ok", "ValueError"} =>
                 OnNoTable(f, e, ENV_OVERRIDES[i]) \/ OnNoInteger(f, e, ENV_OVERRIDES[i])
           /\ OnNoTable(f, e, ENV_OVERRIDES[i]) \/ OnNoInteger(f, e, ENV_OVERRIDES[i]) =>
                 convert(f, e, ENV_OVERRIDES[i]) # "ok"
<1>1. PICK step : step = ENV_OVERRIDES[i]
  OBVIOUS
<1>2. /\ step.cast \in {"int", "str"}
      /\ step.key \in DOMAIN e => e[step.key][step.cast] \in {"ok", "ValueError"}
      /\ step.key \in DOMAIN f.values =>
            /\ f.values[step.key].int \in {"ok", "ValueError", "TypeError", "OverflowError"}
            /\ f.values[step.key].str \in {"ok", "ValueError"}
      /\ ~ step.required => DEFAULTS[step.key][step.cast] = "ok"
  BY <1>1, RawOutcome
<1>3. CASE step.required /\ (step.section \notin f.tables \/ ~ given(f, e, step.key))
  <2>1. convert(f, e, step) = "ValueError"
    BY <1>3 DEF convert
  <2> QED
    BY <1>1, <2>1
<1>4. CASE ~ step.required /\ step.section \notin f.tables
  <2>1. convert(f, e, step) = "AttributeError"
    BY <1>4 DEF convert
  <2> QED
    BY <1>1, <1>4, <2>1 DEF OnNoTable
<1>5. CASE step.section \in f.tables /\ (step.required => given(f, e, step.key))
  <2>1. convert(f, e, step) = raw(f, e, step.key)[step.cast] /\ ~ OnNoTable(f, e, step)
    BY <1>5 DEF convert, OnNoTable
  <2>2. CASE step.key \in DOMAIN e
    BY <1>1, <1>2, <2>1, <2>2 DEF raw, OnNoInteger
  <2>3. CASE step.key \in DOMAIN f.values \ DOMAIN e
    <3>1. convert(f, e, step) = f.values[step.key][step.cast]
      BY <2>1, <2>3 DEF raw
    <3> QED
      BY <1>1, <1>2, <2>1, <2>3, <3>1 DEF OnNoInteger
  <2>4. CASE step.key \notin DOMAIN e \cup DOMAIN f.values
    <3>1. ~ step.required
      BY <1>5, <2>4 DEF given
    <3> QED
      BY <1>1, <1>2, <2>1, <2>4, <3>1 DEF raw, OnNoInteger
  <2> QED
    BY <2>2, <2>3, <2>4
<1> QED
  BY <1>3, <1>4, <1>5

(***************************************************************************)
(* What makes load_config raise something that main does not catch: a file *)
(* nested too deeply for the parser, a section that is no table and is     *)
(* assigned to or read with a default, and an array, a table, a date or    *)
(* inf where an integer is due, unless the environment replaces it.        *)
(* Without one of these the outcome is expected; with one, it is not,      *)
(* unless another step fails first with an exception that main catches.    *)
(***************************************************************************)
THEOREM TracebackCauses ==
    ASSUME NEW f, IsFile(f), NEW e, IsEnvironment(e)
    PROVE  /\ load_config(f, e) \notin {"ok"} \cup Expected => Unexpected(f, e)
           /\ Unexpected(f, e) /\ f.state \in {"nested", "toml"} /\ NoValueError(f, e) =>
                 load_config(f, e) \notin {"ok"} \cup Expected
<1> DEFINE overridden == first_failure([i \in Steps |-> override(f, e, ENV_OVERRIDES[i])])
           converted == first_failure([i \in Steps |-> convert(f, e, ENV_OVERRIDES[i])])
<1>1. CASE f.state # "toml"
  BY <1>1 DEF load_config, IsFile, Expected, Unexpected
<1>2. CASE f.state = "toml"
  <2>1. load_config(f, e) = IF overridden # "ok" THEN overridden
                            ELSE IF converted # "ok" THEN converted
                            ELSE validate_config(app_config(f, e))
    BY <1>2 DEF load_config
  <2>2. \/ overridden = "ok" /\ \A i \in Steps : override(f, e, ENV_OVERRIDES[i]) = "ok"
        \/ \E i \in Steps : /\ override(f, e, ENV_OVERRIDES[i]) # "ok"
                           /\ overridden = override(f, e, ENV_OVERRIDES[i])
    BY FirstOverride
  <2>3. \/ converted = "ok" /\ \A i \in Steps : convert(f, e, ENV_OVERRIDES[i]) = "ok"
        \/ \E i \in Steps : /\ convert(f, e, ENV_OVERRIDES[i]) # "ok"
                           /\ converted = convert(f, e, ENV_OVERRIDES[i])
    BY FirstConversion
  <2> HIDE DEF overridden, converted
  <2>4. validate_config(app_config(f, e)) \in {"ok", "ValueError", "OSError"}
    BY DEF validate_config
  <2>5. ASSUME load_config(f, e) \notin {"ok"} \cup Expected PROVE Unexpected(f, e)
    <3>1. CASE overridden # "ok"
      <4>1. overridden \notin {"ok", "ValueError"}
        BY <2>1, <2>5, <3>1 DEF Expected
      <4> QED
        BY <2>2, <4>1, OverrideOutcome DEF Unexpected
    <3>2. CASE overridden = "ok"
      <4>1. converted \notin {"ok", "ValueError"}
        BY <2>1, <2>4, <2>5, <3>2 DEF Expected
      <4> QED
        BY <2>3, <4>1, ConvertOutcome DEF Unexpected
    <3> QED
      BY <3>1, <3>2
  <2>6. ASSUME Unexpected(f, e), NoValueError(f, e)
        PROVE  load_config(f, e) \notin {"ok"} \cup Expected
    <3>1. PICK i \in Steps : OnNoTable(f, e, ENV_OVERRIDES[i]) \/ OnNoInteger(f, e, ENV_OVERRIDES[i])
      BY <1>2, <2>6 DEF Unexpected
    <3>2. converted # "ok"
      BY <2>3, <3>1, ConvertOutcome
    <3>3. overridden \in {"ok", "TypeError"}
      BY <2>2, <2>6, OverrideOutcome DEF NoValueError
    <3>4. converted \in {"TypeError", "OverflowError", "AttributeError"}
      BY <2>3, <2>6, <3>2, ConvertOutcome DEF NoValueError
    <3> QED
      BY <2>1, <3>2, <3>3, <3>4 DEF Expected
  <2> QED
    BY <2>5, <2>6
<1> QED
  BY <1>1, <1>2

\* How far the configuration has come in each phase.
LoadInv ==
    /\ phase \in {"load", "start", "up", "ending", "shutdown", "exited", "refused"}
    /\ loaded \in {"none", "ok", "ValueError", "OSError"}
    /\ phase = "start" => loaded = "ok"
    /\ phase = "refused" => loaded = "ok" \/ exit = "78"

LEMMA LoadInvStep ==
    ASSUME \A f \in ConfigFiles, e \in Environments : ~ Unexpected(f, e),
           LoadInv, [ServiceNext]_serviceVars
    PROVE  LoadInv'
<1>1. CASE LoadConfig
  <2>1. PICK f \in ConfigFiles, e \in Environments : loaded' = load_config(f, e)
    BY <1>1 DEF LoadConfig
  <2>2. loaded' \in {"ok", "ValueError", "OSError"}
    BY <2>1, TracebackCauses, ServiceAssumption DEF Expected
  <2> QED
    BY <1>1, <2>2 DEF LoadConfig, Ends, LoadInv
<1>2. CASE ProtoMissing \/ StartRaises
  BY <1>2 DEF ProtoMissing, StartRaises, Ends, LoadInv
<1>3. CASE OpenGroup \/ OpenGroupServeFails \/ ServeBreaks \/ Signal \/ CancelWorkers
  BY <1>3 DEF OpenGroup, OpenGroupServeFails, ServeBreaks, Signal, CancelWorkers, LoadInv
<1>4. ASSUME NEW w \in Workers, WorkerFails(w) \/ WorkerCancelled(w) PROVE LoadInv'
  BY <1>4 DEF WorkerFails, WorkerCancelled, LoadInv
<1>5. CASE CallShutdown \/ Return
  BY <1>5 DEF CallShutdown, Return, LoadInv
<1>6. CASE SupervisorOnly
  <2>1. UNCHANGED <<phase, loaded, exit>>
    BY <1>6 DEF SupervisorOnly, ChildStep, CancelSupervisor, ShutdownStep, ClockStep, mainVars
  <2> QED
    BY <2>1 DEF LoadInv
<1>7. CASE UNCHANGED serviceVars
  BY <1>7 DEF serviceVars, mainVars, LoadInv
<1> QED
  BY <1>1, <1>2, <1>3, <1>4, <1>5, <1>6, <1>7 DEF ServiceNext, SupervisorOnly

(***************************************************************************)
(* Where none of these causes is met, every bad configuration exits with   *)
(* 78, as the guide says: the violation that TLC finds of BadConfigExits78 *)
(* has no other source.                                                    *)
(***************************************************************************)
THEOREM OtherBadConfigExits78 ==
    ASSUME \A f \in ConfigFiles, e \in Environments : ~ Unexpected(f, e)
    PROVE  ServiceSpec => []BadConfigExits78
<1>1. ServiceInit => LoadInv
  BY DEF ServiceInit, LoadInv
<1>2. LoadInv => BadConfigExits78
  BY DEF LoadInv, BadConfigExits78
<1>3. LoadInv /\ [ServiceNext]_serviceVars => LoadInv'
  BY LoadInvStep
<1> QED
  BY <1>1, <1>2, <1>3, PTL DEF ServiceSpec
=============================================================================
