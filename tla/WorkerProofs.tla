---------------------------- MODULE WorkerProofs ----------------------------
(***************************************************************************)
(* What the mutations of ActionSetController and its requests to the API   *)
(* server do to a well-typed status, and that the goroutines of actions    *)
(* preserve the inductive invariant.  The steps of a phase are the subject *)
(* of PhaseProofs.                                                         *)
(***************************************************************************)
EXTENDS ActionSetController, TLAPS

-----------------------------------------------------------------------------
(* The shape of an ActionSet *)

LEMMA SpecFacts ==
    ASSUME spec \in Specs
    PROVE  /\ Len(spec) \in Nat
           /\ Actions = 1..Len(spec)
           /\ \A a \in Actions :
                /\ Len(spec[a].phases) \in Nat
                /\ Phases(a) = 1..Len(spec[a].phases)
                /\ \A i \in Phases(a) : /\ spec[a].phases[i] \in Names
                                        /\ spec[a].phases[i] # spec[a].defer
                /\ spec[a].defer \in Names \cup {NoPhase}
<1>1. spec \in Seq(ActionSpecs)
  BY ConstantsAssumption
<1>2. Len(spec) \in Nat /\ Actions = 1..Len(spec)
  BY <1>1 DEF Actions
<1>3. ASSUME NEW a \in Actions
      PROVE  /\ Len(spec[a].phases) \in Nat
             /\ Phases(a) = 1..Len(spec[a].phases)
             /\ \A i \in Phases(a) : /\ spec[a].phases[i] \in Names
                                     /\ spec[a].phases[i] # spec[a].defer
             /\ spec[a].defer \in Names \cup {NoPhase}
  <2>1. spec[a] \in ActionSpecs
    BY <1>1, <1>2
  <2>2. spec[a].phases \in Seq(Names) /\ spec[a].defer \in Names \cup {NoPhase}
    BY <2>1 DEF ActionSpecs
  <2>3. \A i \in Phases(a) : spec[a].phases[i] # spec[a].defer
    BY DeferNameAssumption DEF Actions, Phases
  <2> QED
    BY <2>2, <2>3 DEF Phases
<1> QED
  BY <1>2, <1>3

\* The shape stays the same as long as the spec does.
LEMMA SameShape ==
    ASSUME spec' = spec
    PROVE  Actions' = Actions /\ \A a : Phases(a)' = Phases(a) /\ HasDefer(a)' = HasDefer(a)
BY DEF Actions, Phases, HasDefer

-----------------------------------------------------------------------------
(* What each mutation does to a well-typed status *)

LEMMA PhaseMapFacts ==
    ASSUME NEW f
    PROVE  f \in PhaseMaps <=>
             /\ f = [a \in Actions |-> f[a]]
             /\ \A a \in Actions : f[a] \in [Phases(a) -> PhaseStates]
<1>1. ASSUME f = [a \in Actions |-> f[a]], \A a \in Actions : f[a] \in [Phases(a) -> PhaseStates]
      PROVE  f \in [Actions -> UNION {[Phases(a) -> PhaseStates] : a \in Actions}]
  BY <1>1
<1> QED
  BY <1>1 DEF PhaseMaps

LEMMA MarkRunningEffect ==
    ASSUME status \in StatusType, NEW a \in Actions, NEW name \in Names \cup {NoPhase}
    PROVE  LET st == MarkRunning(status, a, name)
           IN  /\ st \in StatusType
               /\ st.state = status.state /\ st.populated = status.populated
               /\ st.defer = status.defer /\ st.rendered = status.rendered
               /\ \A b \in Actions : b # a => st.phases[b] = status.phases[b]
               /\ \A i \in Phases(a) : st.phases[a][i] =
                    IF spec[a].phases[i] = name THEN "running" ELSE status.phases[a][i]
<1> DEFINE st == MarkRunning(status, a, name)
           f  == [status.phases EXCEPT ![a] = [i \in Phases(a) |->
                    IF spec[a].phases[i] = name THEN "running" ELSE @[i]]]
<1>1. status.phases \in PhaseMaps
  BY DEF StatusType
<1>2. f \in PhaseMaps /\ (\A b \in Actions : b # a => f[b] = status.phases[b])
      /\ \A i \in Phases(a) : f[a][i] =
                    IF spec[a].phases[i] = name THEN "running" ELSE status.phases[a][i]
  BY <1>1, PhaseMapFacts DEF PhaseStates
<1>3. st = [status EXCEPT !.running = name, !.phases = f]
  BY DEF MarkRunning, StatusType
<1> HIDE DEF f
<1> QED
  BY Zenon, <1>2, <1>3 DEF StatusType

\* The mutations that set one phase: PhaseFailed and PhaseComplete.
LEMMA SetPhaseEffect ==
    ASSUME status \in StatusType, NEW a \in Actions, NEW i \in Phases(a)
    PROVE  \A st \in {PhaseFailed(status, a, i), PhaseComplete(status, a, i)} :
               /\ st \in StatusType
               /\ st.populated = status.populated
               /\ st.defer = status.defer /\ st.rendered = status.rendered
               /\ \A b \in Actions : b # a => st.phases[b] = status.phases[b]
               /\ \A j \in Phases(a) : j # i => st.phases[a][j] = status.phases[a][j]
<1> DEFINE f(x) == [status.phases EXCEPT ![a][i] = x]
<1>1. status.phases \in PhaseMaps
  BY DEF StatusType
<1>2. ASSUME NEW x \in PhaseStates
      PROVE  /\ f(x) \in PhaseMaps
             /\ \A b \in Actions : b # a => f(x)[b] = status.phases[b]
             /\ \A j \in Phases(a) : j # i => f(x)[a][j] = status.phases[a][j]
  BY <1>1, PhaseMapFacts
<1>3. PhaseFailed(status, a, i) =
        [status EXCEPT !.running = NoPhase, !.state = "failed", !.phases = f("failed")]
  BY DEF PhaseFailed, StatusType
<1>4. PhaseComplete(status, a, i) = [status EXCEPT !.phases = f("complete")]
  BY DEF PhaseComplete, StatusType
<1>5. "failed" \in PhaseStates /\ "complete" \in PhaseStates /\ "failed" \in States
  BY DEF PhaseStates, States
<1> HIDE DEF f
<1> DEFINE Effect(st) ==
               /\ st \in StatusType
               /\ st.populated = status.populated
               /\ st.defer = status.defer /\ st.rendered = status.rendered
               /\ \A b \in Actions : b # a => st.phases[b] = status.phases[b]
               /\ \A j \in Phases(a) : j # i => st.phases[a][j] = status.phases[a][j]
<1>6. Effect(PhaseFailed(status, a, i))
  <2>1. PICK g : /\ g = f("failed") /\ g \in PhaseMaps
                 /\ \A b \in Actions : b # a => g[b] = status.phases[b]
                 /\ \A j \in Phases(a) : j # i => g[a][j] = status.phases[a][j]
    BY <1>2, <1>5
  <2>2. PhaseFailed(status, a, i) =
          [status EXCEPT !.running = NoPhase, !.state = "failed", !.phases = g]
    BY <1>3, <2>1
  <2> QED
    BY Zenon, <2>1, <2>2, <1>5 DEF StatusType
<1>7. Effect(PhaseComplete(status, a, i))
  BY <1>2, <1>4, <1>5 DEF StatusType
<1> HIDE DEF Effect
<1>8. \A st \in {PhaseFailed(status, a, i), PhaseComplete(status, a, i)} : Effect(st)
  BY <1>6, <1>7
<1> QED
  BY <1>8 DEF Effect

LEMMA SetPhaseValue ==
    ASSUME status \in StatusType, NEW a \in Actions, NEW i \in Phases(a)
    PROVE  /\ PhaseFailed(status, a, i).state = "failed"
           /\ PhaseFailed(status, a, i).phases[a][i] = "failed"
           /\ PhaseComplete(status, a, i).state = status.state
           /\ PhaseComplete(status, a, i).phases[a][i] = "complete"
<1>1. status.phases \in PhaseMaps
  BY DEF StatusType
<1>2. status.phases[a] \in [Phases(a) -> PhaseStates]
  BY <1>1, PhaseMapFacts
<1>3. status.phases = [b \in Actions |-> status.phases[b]]
  BY <1>1, PhaseMapFacts
<1>4. ASSUME NEW x PROVE [status.phases EXCEPT ![a][i] = x][a][i] = x
  BY <1>2, <1>3
<1> QED
  BY <1>4 DEF PhaseFailed, PhaseComplete, StatusType

\* The mutations that leave the phases alone.
LEMMA DeferEffect ==
    ASSUME status \in StatusType, NEW a \in Actions
    PROVE  \A st \in {DeferFailed(status, a), DeferComplete(status, a)} :
               /\ st \in StatusType
               /\ st.populated = status.populated /\ st.phases = status.phases
               /\ st.rendered = status.rendered
               /\ \A b \in Actions : b # a => st.defer[b] = status.defer[b]
<1>1. ASSUME NEW x \in PhaseStates
      PROVE  /\ [status.defer EXCEPT ![a] = x] \in [Actions -> PhaseStates]
             /\ \A b \in Actions : b # a => [status.defer EXCEPT ![a] = x][b] = status.defer[b]
  BY DEF StatusType
<1> DEFINE Effect(st) ==
               /\ st \in StatusType
               /\ st.populated = status.populated /\ st.phases = status.phases
               /\ st.rendered = status.rendered
               /\ \A b \in Actions : b # a => st.defer[b] = status.defer[b]
<1>2. Effect(DeferFailed(status, a))
  BY Zenon, <1>1 DEF DeferFailed, StatusType, PhaseStates, States
<1>3. Effect(DeferComplete(status, a))
  BY <1>1 DEF DeferComplete, StatusType, PhaseStates
<1> HIDE DEF Effect
<1>4. \A st \in {DeferFailed(status, a), DeferComplete(status, a)} : Effect(st)
  BY <1>2, <1>3
<1> QED
  BY <1>4 DEF Effect

LEMMA DeferValue ==
    ASSUME status \in StatusType, NEW a \in Actions
    PROVE  /\ DeferFailed(status, a).state = "failed"
           /\ DeferComplete(status, a).state = status.state
           /\ DeferComplete(status, a).defer[a] = "complete"
BY DEF DeferFailed, DeferComplete, StatusType

LEMMA OtherEffect ==
    ASSUME status \in StatusType, NEW a \in Actions
    PROVE  \A st \in {MarkFailed(status), ArtifactsRendered(status, a), MaybeComplete(status, a)} :
               /\ st \in StatusType
               /\ st.populated = status.populated /\ st.phases = status.phases
               /\ st.defer = status.defer
<1> DEFINE Effect(st) ==
               /\ st \in StatusType
               /\ st.populated = status.populated /\ st.phases = status.phases
               /\ st.defer = status.defer
<1>1. Effect(MarkFailed(status))
  BY Zenon DEF MarkFailed, StatusType, States, PhaseStates
<1>2. Effect(ArtifactsRendered(status, a))
  BY DEF ArtifactsRendered, StatusType
<1>3. Effect(MaybeComplete(status, a))
  BY Zenon DEF MaybeComplete, StatusType, States, PhaseStates
<1> HIDE DEF Effect
<1>4. \A st \in {MarkFailed(status), ArtifactsRendered(status, a), MaybeComplete(status, a)} : Effect(st)
  BY <1>1, <1>2, <1>3
<1> QED
  BY <1>4 DEF Effect

LEMMA OtherValue ==
    ASSUME status \in StatusType, NEW a \in Actions
    PROVE  /\ MarkFailed(status).state = "failed"
           /\ ArtifactsRendered(status, a).state = status.state
           /\ MaybeComplete(status, a).state =
                IF AllPhasesComplete(status) /\ status.state # "failed"
                THEN "complete" ELSE status.state
BY DEF MarkFailed, ArtifactsRendered, MaybeComplete, StatusType

LEMMA InitialEffect ==
    \A st \in {NilStatus, InitialStatus, FailedInitialStatus} :
        /\ st \in StatusType
        /\ \A a \in Actions : /\ st.defer[a] = "pending"
                              /\ \A i \in Phases(a) : st.phases[a][i] = "pending"
<1>1. [a \in Actions |-> [i \in Phases(a) |-> "pending"]] \in PhaseMaps
  BY PhaseMapFacts DEF PhaseStates
<1> DEFINE Effect(st) ==
        /\ st \in StatusType
        /\ \A a \in Actions : /\ st.defer[a] = "pending"
                              /\ \A i \in Phases(a) : st.phases[a][i] = "pending"
<1>2. Effect(NilStatus)
  BY <1>1 DEF NilStatus, StatusType, States, PhaseStates
<1>3. Effect(InitialStatus)
  BY Zenon, <1>1 DEF NilStatus, InitialStatus, StatusType, States, PhaseStates
<1>4. Effect(FailedInitialStatus)
  BY Zenon, <1>1 DEF NilStatus, FailedInitialStatus, StatusType, States, PhaseStates
<1> HIDE DEF Effect
<1>5. \A st \in {NilStatus, InitialStatus, FailedInitialStatus} : Effect(st)
  BY <1>2, <1>3, <1>4
<1> QED
  BY <1>5 DEF Effect

LEMMA InitialValue ==
    /\ NilStatus.state = "none"
    /\ InitialStatus.state = "pending" /\ InitialStatus.populated
    /\ FailedInitialStatus.state = "failed" /\ ~FailedInitialStatus.populated
BY DEF NilStatus, InitialStatus, FailedInitialStatus

-----------------------------------------------------------------------------
(* Requests to the API server *)

LEMMA ReconcileEffect ==
    ASSUME NEW st, NEW err \in BOOLEAN, Reconcile(st, err)
    PROVE  UNCHANGED api \/ (Write(st) /\ Validate(st))
BY DEF Reconcile

LEMMA ReconcileOk ==
    ASSUME NEW st, Reconcile(st, FALSE)
    PROVE  Write(st) /\ Validate(st)
BY DEF Reconcile

LEMMA UpdateEffect ==
    ASSUME NEW st, NEW err \in BOOLEAN, Update(st, err)
    PROVE  UNCHANGED api \/ (Write(st) /\ hver = version)
BY DEF Update

LEMMA VersionGrows ==
    ASSUME version \in Nat, NEW st, UNCHANGED api \/ Write(st)
    PROVE  /\ version' \in Nat /\ version <= version'
           /\ status' # status => version < version'
           /\ status' = status \/ status' = st
BY DEF Write, api

-----------------------------------------------------------------------------
(* A step of the goroutine of action a does not disturb the rest *)

\* What such a step leaves alone.
OthersSame(a) ==
    /\ spec' = spec
    /\ UNCHANGED <<hpc, hver, next, launchErr>>
    /\ version' \in Nat /\ version <= version'
    /\ status'.populated = status.populated
    /\ status'.state \in {status.state, "complete", "failed"}
    /\ \A b \in Actions : b # a =>
         /\ pc'[b] = pc[b] /\ cur'[b] = cur[b] /\ phaseErr'[b] = phaseErr[b]
         /\ execs'[b] = execs[b] /\ deferExecs'[b] = deferExecs[b]
         /\ status'.phases[b] = status.phases[b] /\ status'.defer[b] = status.defer[b]

LEMMA WorkerStarted ==
    ASSUME IInv, NEW a \in Actions, pc[a] # "none"
    PROVE  /\ hpc \in {"launch", "fail", "done"}
           /\ hpc \in {"launch", "fail"} => a < next
           /\ status.state \notin {"none", "pending"} /\ status.populated
<1> USE SpecFacts DEF IInv, HandlerInv, TypeOK, HandlerSteps
<1>1. ~Untouched(a)
  BY DEF Untouched
<1>2. hpc \in {"launch", "fail", "done"}
  BY <1>1
<1>3. hpc \in {"launch", "fail"} => a < next
  BY <1>1
<1>4. status.state \notin {"none", "pending"} /\ status.populated
  BY <1>1 DEF StatusType
<1> QED
  BY <1>2, <1>3, <1>4

LEMMA OthersUndisturbed ==
    ASSUME IInv, NEW a \in Actions, pc[a] # "none", OthersSame(a)
    PROVE  /\ HandlerInv'
           /\ \A b \in Actions : b # a => WorkerInv(b)'
<1>1. Actions' = Actions /\ \A b : Phases(b)' = Phases(b)
  BY SameShape DEF OthersSame
<1>2. \A b \in Actions : b # a => Untouched(b)' = Untouched(b)
  BY <1>1 DEF OthersSame, Untouched
<1>3. /\ hpc \in {"launch", "fail", "done"}
      /\ hpc \in {"launch", "fail"} => a < next
      /\ status.state \notin {"none", "pending"} /\ status.populated
  BY WorkerStarted
<1>4. HandlerInv'
  <2>1. hver' <= version'
    BY SpecFacts DEF OthersSame, IInv, TypeOK, HandlerInv
  <2>2. status'.state \notin {"none", "pending"} /\ status'.populated
    BY <1>3 DEF OthersSame
  <2>3. hpc' \in {"launch", "fail"} =>
          /\ next' \in Actions'
          /\ \A b \in Actions' : b >= next' => Untouched(b)'
    <3> SUFFICES ASSUME hpc \in {"launch", "fail"}
                 PROVE  next \in Actions /\ \A b \in Actions : b >= next => Untouched(b)'
      BY <1>1 DEF OthersSame
    <3>1. next \in Actions /\ \A b \in Actions : b >= next => Untouched(b)
      BY DEF IInv, HandlerInv
    <3>2. \A b \in Actions : b >= next => b # a
      BY <1>3, <3>1, SpecFacts DEF IInv, TypeOK
    <3> QED
      BY <3>1, <3>2, <1>2
  <2>4. hpc' = "fail" /\ launchErr' = "runAction" => Phases(next)' # {}
    BY <1>1 DEF OthersSame, IInv, HandlerInv
  <2> QED
    BY <2>1, <2>2, <2>3, <2>4, <1>3 DEF HandlerInv, OthersSame
<1>5. \A b \in Actions : b # a => WorkerInv(b)'
  BY <1>1 DEF OthersSame, IInv, WorkerInv
<1> QED
  BY <1>4, <1>5

\* A step of a that leaves the phases alone: it may fail the ActionSet, or
\* complete it when all phases are complete.
QuietStep(a) ==
    /\ OthersSame(a)
    /\ execs' = execs
    /\ \A i \in Phases(a) : status'.phases[a][i] = status.phases[a][i]
    /\ status'.defer[a] = "failed" => status.defer[a] = "failed" \/ status'.state = "failed"
    /\ \/ status'.state \in {status.state, "failed"}
       \/ /\ status'.state = "complete" /\ status.state # "failed"
          /\ AllPhasesComplete(status)
    /\ deferExecs'[a] <= 1

LEMMA QuietWorker ==
    ASSUME IInv, NEW a \in Actions, pc[a] # "none",
           QuietStep(a), TypeOK', WorkerInv(a)'
    PROVE  IInv'
<1>1. Actions' = Actions /\ \A b : Phases(b)' = Phases(b)
  BY SameShape DEF QuietStep, OthersSame
<1>2. \A b \in Actions : \A i \in Phases(b) :
        status'.phases[b][i] = status.phases[b][i] /\ execs'[b][i] = execs[b][i]
  BY DEF QuietStep, OthersSame
<1>3. status.state \notin {"none", "pending"} /\ status.populated
      /\ status'.populated /\ status'.state # "none"
  BY WorkerStarted DEF QuietStep, OthersSame
<1>4. HandlerInv' /\ \A b \in Actions' : WorkerInv(b)'
  BY OthersUndisturbed, <1>1 DEF QuietStep
<1>5. CompleteIsExecuted'
  BY <1>1, <1>2 DEF IInv, CompleteIsExecuted
<1>6. PredecessorsRecorded'
  BY <1>1, <1>2 DEF IInv, PredecessorsRecorded
<1>7. ExecutedAtMostOnce'
  BY <1>1, <1>2 DEF IInv, ExecutedAtMostOnce, QuietStep, OthersSame
<1>8. CompleteMeansExecuted'
  BY <1>1, <1>2 DEF IInv, CompleteMeansExecuted, CompleteIsExecuted, AllPhasesComplete, QuietStep
<1>9. FailureIsReported'
  <2>1. ASSUME NEW b \in Actions, status'.defer[b] = "failed"
        PROVE  status'.state = "failed"
    <3>1. status.defer[b] = "failed" \/ status'.state = "failed"
      BY <2>1 DEF QuietStep, OthersSame
    <3> QED
      BY <3>1 DEF QuietStep, IInv, FailureIsReported
  <2>2. ASSUME NEW b \in Actions, NEW i \in Phases(b), status'.phases[b][i] = "failed"
        PROVE  status'.state = "failed"
    BY <2>2, <1>2 DEF QuietStep, IInv, FailureIsReported
  <2> QED
    BY <2>1, <2>2, <1>1 DEF FailureIsReported
<1>10. StatusStaysValid'
  <2>1. Validate(status)
    BY <1>3 DEF IInv, StatusStaysValid
  <2>2. ASSUME NEW b \in Actions PROVE ValidPhases(status'.phases[b])
    <3>1. status.phases[b] \in [Phases(b) -> PhaseStates]
      BY SMTT(40), PhaseMapFacts DEF IInv, TypeOK, StatusType
    <3>2. status'.phases \in PhaseMaps'
      BY DEF TypeOK, StatusType
    <3>3. PhaseMaps' = PhaseMaps
      BY <1>1 DEF PhaseMaps
    <3>4. status'.phases[b] \in [Phases(b) -> PhaseStates]
      BY <3>2, <3>3, PhaseMapFacts
    <3>5. ValidPhases(status.phases[b])
      BY <2>1, <1>3 DEF Validate
    <3> QED
      BY <3>1, <3>4, <3>5, <1>2 DEF ValidPhases
  <2>3. status'.state = "complete" =>
          \A b \in Actions : \A i \in Phases(b) : status'.phases[b][i] \in {"failed", "complete"}
    BY <1>1, <1>8 DEF CompleteMeansExecuted
  <2> QED
    BY <2>2, <2>3, <1>1, <1>3 DEF StatusStaysValid, Validate
<1> QED
  BY <1>4, <1>5, <1>6, <1>7, <1>8, <1>9, <1>10 DEF IInv

LEMMA ApiStep ==
    ASSUME TypeOK, spec' = spec, NEW st \in StatusType, UNCHANGED api \/ Write(st)
    PROVE  /\ status' \in StatusType'
           /\ version' \in Nat /\ version <= version'
           /\ status' = status \/ status' = st
<1>1. StatusType' = StatusType
  BY DEF StatusType, PhaseMaps, Actions, Phases
<1>2. version \in Nat /\ status \in StatusType
  BY DEF TypeOK
<1>3. /\ version' \in Nat /\ version <= version'
      /\ status' = status \/ status' = st
  BY <1>2, VersionGrows
<1> QED
  BY <1>1, <1>2, <1>3

-----------------------------------------------------------------------------
(* Every step of a goroutine preserves the invariant *)

\* TypeOK after a step of goroutine a, from what such a step may change.
LEMMA WorkerType ==
    ASSUME TypeOK, NEW a \in Actions, spec' = spec,
           status' \in StatusType', version' \in Nat,
           UNCHANGED <<hpc, hver, next, launchErr, notified, crashes, edits>>,
           pc' \in [Actions -> WorkerSteps],
           cur' \in [Actions -> Nat],
           phaseErr' \in [Actions -> BOOLEAN],
           coreErr' \in [Actions -> BOOLEAN],
           deferErr' \in [Actions -> BOOLEAN],
           resolution' \in [Actions -> {"none", "success", "failure"}],
           DOMAIN execs' = Actions,
           \A b \in Actions : execs'[b] \in [Phases(b) -> Nat],
           deferExecs' \in [Actions -> Nat]
    PROVE  TypeOK'
<1>1. Actions' = Actions /\ \A b : Phases(b)' = Phases(b)
  BY SameShape
<1> QED
  BY SMTT(40), <1>1 DEF TypeOK

LEMMA NextPhaseInv ==
    ASSUME IInv, NEW a \in Actions, NextPhase(a)
    PROVE  IInv'
<1> USE DEF NextPhase, Goto, handler, bounds, history, api
<1>0. TypeOK /\ WorkerInv(a) /\ ExecutedAtMostOnce
  BY DEF IInv
<1>1. pc[a] # "none"
  OBVIOUS
<1>2. TypeOK'
  <2>1. status' \in StatusType' /\ version' \in Nat
    BY <1>0, ApiStep DEF TypeOK
  <2> QED
    BY Zenon, <1>0, <2>1, WorkerType DEF TypeOK, WorkerSteps
<1>3. WorkerInv(a)'
  BY <1>0, SpecFacts, SameShape DEF TypeOK, WorkerInv
<1>4. QuietStep(a)
  BY <1>0 DEF TypeOK, QuietStep, OthersSame, ExecutedAtMostOnce, Reconcile
<1> QED
  BY <1>1, <1>2, <1>3, <1>4, QuietWorker

LEMMA StartDeferInv ==
    ASSUME IInv, NEW a \in Actions, StartDefer(a)
    PROVE  IInv'
<1> USE DEF StartDefer, Goto, handler, bounds, history
<1>0. TypeOK /\ WorkerInv(a) /\ ExecutedAtMostOnce
  BY DEF IInv
<1> DEFINE st == MarkRunning(status, a, spec[a].defer)
<1>1. pc[a] # "none"
  OBVIOUS
<1>2. /\ st \in StatusType /\ st.state = status.state /\ st.populated = status.populated
      /\ st.defer = status.defer
      /\ \A b \in Actions : b # a => st.phases[b] = status.phases[b]
      /\ \A i \in Phases(a) : st.phases[a][i] = status.phases[a][i]
  <2>1. /\ status \in StatusType /\ spec[a].defer \in Names \cup {NoPhase}
        /\ \A i \in Phases(a) : spec[a].phases[i] # spec[a].defer
    BY <1>0, SpecFacts DEF TypeOK
  <2> QED
    BY <2>1, MarkRunningEffect
<1>3. UNCHANGED api \/ Write(st)
  BY ReconcileEffect
<1> HIDE DEF st
<1>4. /\ status' \in StatusType' /\ version' \in Nat /\ version <= version'
      /\ status' = status \/ status' = st
  BY <1>0, <1>2, <1>3, ApiStep
<1>5. TypeOK'
  BY Zenon, <1>0, <1>4, WorkerType DEF TypeOK, WorkerSteps
<1>6. WorkerInv(a)'
  BY <1>0, SpecFacts, SameShape DEF TypeOK, WorkerInv
<1>7. QuietStep(a)
  BY <1>0, <1>2, <1>4 DEF TypeOK, QuietStep, OthersSame, ExecutedAtMostOnce
<1> QED
  BY <1>1, <1>5, <1>6, <1>7, QuietWorker

LEMMA ExecDeferInv ==
    ASSUME IInv, NEW a \in Actions, ExecDefer(a)
    PROVE  IInv'
<1> USE DEF ExecDefer, handler, bounds, api
<1>0. TypeOK /\ WorkerInv(a) /\ ExecutedAtMostOnce
  BY DEF IInv
<1>1. pc[a] # "none"
  OBVIOUS
<1>2. TypeOK'
  <2>1. status' \in StatusType' /\ version' \in Nat
    BY <1>0, ApiStep DEF TypeOK
  <2>2. deferErr' \in [Actions -> BOOLEAN] /\ deferExecs' \in [Actions -> Nat]
    BY <1>0 DEF TypeOK
  <2>3. /\ pc' \in [Actions -> WorkerSteps] /\ DOMAIN execs' = Actions
        /\ \A b \in Actions : execs'[b] \in [Phases(b) -> Nat]
    BY <1>0 DEF TypeOK, WorkerSteps
  <2> QED
    BY Zenon, <1>0, <2>1, <2>2, <2>3, WorkerType DEF TypeOK
<1>3. WorkerInv(a)'
  BY <1>0, SpecFacts, SameShape DEF TypeOK, WorkerInv
<1>4. QuietStep(a)
  BY <1>0 DEF TypeOK, QuietStep, OthersSame, WorkerInv
<1> QED
  BY <1>1, <1>2, <1>3, <1>4, QuietWorker

LEMMA RecordDeferInv ==
    ASSUME IInv, NEW a \in Actions, RecordDefer(a)
    PROVE  IInv'
<1> USE DEF RecordDefer, handler, bounds, history
<1>0. TypeOK /\ WorkerInv(a) /\ ExecutedAtMostOnce
  BY DEF IInv
<1> DEFINE st == IF deferErr[a] THEN DeferFailed(status, a) ELSE DeferComplete(status, a)
<1>1. pc[a] # "none"
  OBVIOUS
<1>2. /\ st \in StatusType /\ st.populated = status.populated /\ st.phases = status.phases
      /\ \A b \in Actions : b # a => st.defer[b] = status.defer[b]
  BY <1>0, DeferEffect DEF TypeOK
<1>3. /\ st.state \in {status.state, "failed"}
      /\ st.defer[a] = "failed" => st.state = "failed"
  BY <1>0, DeferValue DEF TypeOK
<1>4. UNCHANGED api \/ Write(st)
  BY ReconcileEffect
<1> HIDE DEF st
<1>5. /\ status' \in StatusType' /\ version' \in Nat /\ version <= version'
      /\ status' = status \/ status' = st
  BY <1>0, <1>2, <1>4, ApiStep
<1>6. TypeOK'
  BY Zenon, <1>0, <1>5, WorkerType DEF TypeOK, WorkerSteps
<1>7. WorkerInv(a)'
  BY <1>0, SpecFacts, SameShape DEF TypeOK, WorkerInv
<1>8. QuietStep(a)
  BY <1>0, <1>2, <1>3, <1>5 DEF TypeOK, QuietStep, OthersSame, ExecutedAtMostOnce
<1> QED
  BY <1>1, <1>6, <1>7, <1>8, QuietWorker

LEMMA FinishActionInv ==
    ASSUME IInv, NEW a \in Actions, FinishAction(a)
    PROVE  IInv'
<1> USE DEF FinishAction, Goto, handler, bounds, history, api
<1>0. TypeOK /\ WorkerInv(a) /\ ExecutedAtMostOnce
  BY DEF IInv
<1>1. pc[a] # "none"
  OBVIOUS
<1>2. TypeOK'
  <2>1. status' \in StatusType' /\ version' \in Nat
    BY <1>0, ApiStep DEF TypeOK
  <2> QED
    BY Zenon, <1>0, <2>1, WorkerType DEF TypeOK, WorkerSteps
<1>3. WorkerInv(a)'
  BY <1>0, SpecFacts, SameShape DEF TypeOK, WorkerInv
<1>4. QuietStep(a)
  <2>1. /\ spec' = spec /\ status' = status /\ version' = version
        /\ UNCHANGED <<hpc, hver, next, launchErr>>
        /\ cur' = cur /\ phaseErr' = phaseErr /\ execs' = execs /\ deferExecs' = deferExecs
    OBVIOUS
  <2>2. \A b \in Actions : b # a => pc'[b] = pc[b]
    BY <1>0 DEF TypeOK
  <2> HIDE DEF FinishAction, Goto, handler, bounds, history, api
  <2>3. version' \in Nat /\ version <= version' /\ deferExecs'[a] <= 1
    BY <1>0, <2>1 DEF TypeOK, ExecutedAtMostOnce
  <2> QED
    BY <2>1, <2>2, <2>3 DEF QuietStep, OthersSame
<1> QED
  BY <1>1, <1>2, <1>3, <1>4, QuietWorker

LEMMA LastStepsInv ==
    ASSUME IInv, NEW a \in Actions, RenderArtifacts(a) \/ MaybeSetComplete(a)
    PROVE  IInv'
<1> USE DEF RenderArtifacts, MaybeSetComplete, Goto, handler, bounds, history
<1>0. TypeOK /\ WorkerInv(a) /\ ExecutedAtMostOnce
  BY DEF IInv
<1>1. pc[a] # "none"
  OBVIOUS
<1>2. PICK st \in {MarkFailed(status), ArtifactsRendered(status, a), MaybeComplete(status, a)} :
        UNCHANGED api \/ Write(st)
  BY ReconcileEffect
<1>3. /\ st \in StatusType /\ st.populated = status.populated
      /\ st.phases = status.phases /\ st.defer = status.defer
  <2> HIDE DEF RenderArtifacts, MaybeSetComplete, Goto, handler, bounds, history
  <2>1. status \in StatusType
    BY <1>0 DEF TypeOK
  <2> QED
    BY Zenon, <2>1, OtherEffect
<1>4. \/ st.state \in {status.state, "failed"}
      \/ /\ st.state = "complete" /\ status.state # "failed"
         /\ AllPhasesComplete(status)
  <2> HIDE DEF RenderArtifacts, MaybeSetComplete, Goto, handler, bounds, history
  <2>1. status \in StatusType
    BY <1>0 DEF TypeOK
  <2> QED
    BY Zenon, <2>1, OtherValue
<1>5. /\ status' \in StatusType' /\ version' \in Nat /\ version <= version'
      /\ status' = status \/ status' = st
  BY <1>0, <1>2, <1>3, ApiStep
<1>6. TypeOK'
  BY Zenon, <1>0, <1>5, WorkerType DEF TypeOK, WorkerSteps
<1>7. WorkerInv(a)'
  BY <1>0, SpecFacts, SameShape DEF TypeOK, WorkerInv
<1>8. QuietStep(a)
  BY <1>0, <1>3, <1>4, <1>5 DEF TypeOK, QuietStep, OthersSame, ExecutedAtMostOnce
<1> QED
  BY <1>1, <1>6, <1>7, <1>8, QuietWorker

=============================================================================
