--------------------------- MODULE ContractProofs ---------------------------
(***************************************************************************)
(* ActionSetController implements ActionSetContract, and no step takes an  *)
(* ActionSet out of failed.                                                *)
(***************************************************************************)
EXTENDS ControllerProofs

-----------------------------------------------------------------------------
(* The life cycle of the state *)

\* How a step may change the state of the object.
LifeCycle ==
    \/ status'.state = status.state
    \/ status.state = "none" /\ status'.state \in {"pending", "failed"}
    \/ status.state = "pending" /\ status'.state = "running"
    \/ status.state = "running" /\ status'.state = "complete" /\ AllPhasesComplete(status)
    \/ status.state \in {"running", "complete"} /\ status'.state = "failed"

\* A goroutine fails the ActionSet, completes it when all phases are complete,
\* or leaves its state alone.
LEMMA WorkerLifeCycle ==
    ASSUME IInv, NEW a \in Actions, pc[a] # "none", NEW st,
           status' = status \/ status' = st,
           \/ st.state \in {status.state, "failed"}
           \/ /\ st.state = "complete" /\ status.state # "failed"
              /\ AllPhasesComplete(status)
    PROVE  LifeCycle
<1>1. status.state \in {"running", "complete", "failed"}
  BY WorkerStarted DEF IInv, TypeOK, StatusType, States, PhaseStates
<1> QED
  BY <1>1 DEF LifeCycle

LEMMA StepLifeCycle ==
    ASSUME IInv, [Next]_vars
    PROVE  LifeCycle
<1> USE DEF IInv
<1>1. status \in StatusType /\ version \in Nat
  BY DEF TypeOK
<1>2. CASE UNCHANGED api
  BY <1>2 DEF LifeCycle, api
<1>3. CASE InitActionSetStatus /\ ~UNCHANGED api
  <2>1. PICK st \in {InitialStatus, FailedInitialStatus} : Write(st) /\ hver = version
    BY <1>3, UpdateEffect DEF InitActionSetStatus
  <2>2. status.state = "none" /\ status' = st
    BY <1>3, <2>1 DEF InitActionSetStatus, HandlerInv, Write
  <2> QED
    BY <2>2, InitialValue DEF LifeCycle
<1>4. CASE StartRunning /\ ~UNCHANGED api
  <2>1. Write([status EXCEPT !.state = "running"]) /\ hver = version
    BY <1>4, UpdateEffect DEF StartRunning
  <2> QED
    BY <1>1, <1>4, <2>1 DEF StartRunning, HandlerInv, Write, LifeCycle, StatusType
<1>5. CASE RecordLaunchFailure /\ ~UNCHANGED api
  <2>1. /\ next \in Actions /\ status.state \in {"running", "complete", "failed"}
        /\ launchErr = "runAction" => 1 \in Phases(next)
    <3>1. next \in Actions /\ (launchErr = "runAction" => Phases(next) # {})
      BY <1>5 DEF RecordLaunchFailure, HandlerInv
    <3>2. status.state \notin {"none", "pending"}
      BY <1>5 DEF RecordLaunchFailure, HandlerInv
    <3>3. status.state \in {"running", "complete", "failed"}
      BY <1>1, <3>2 DEF StatusType, States, PhaseStates
    <3>4. Phases(next) = 1..Len(spec[next].phases) /\ Len(spec[next].phases) \in Nat
      BY <3>1, SpecFacts DEF TypeOK
    <3> QED
      BY <3>1, <3>3, <3>4
  <2>2. PICK st : /\ Write(st)
                  /\ st = IF launchErr = "runAction" THEN PhaseFailed(status, next, 1)
                                                     ELSE MarkFailed(status)
    BY <1>5, UpdateEffect DEF RecordLaunchFailure
  <2>3. st.state = "failed"
    BY <1>1, <2>1, <2>2, SetPhaseValue, OtherValue
  <2> QED
    BY <2>1, <2>2, <2>3 DEF Write, LifeCycle
<1>6. CASE (OnUpdate \/ OnUpdatePanics) /\ ~UNCHANGED api
  <2>1. Actions = {} /\ status.state = "running" /\ Write(EmptyComplete)
    BY Zenon, <1>6, ReconcileEffect DEF OnUpdate, OnUpdatePanics, EmptyIsRunning
  <2> QED
    BY <1>1, <2>1 DEF EmptyComplete, Write, LifeCycle, AllPhasesComplete, StatusType
<1>7. ASSUME NEW a \in Actions, Worker(a), ~UNCHANGED api PROVE LifeCycle
  <2>1. CASE MarkPhase(a)
    <3>1. cur[a] \in Phases(a) /\ pc[a] # "none"
      BY <2>1 DEF MarkPhase, WorkerInv
    <3>2. spec[a].phases[cur[a]] \in Names
      BY <3>1, SpecFacts DEF TypeOK
    <3>3. PICK st : st = MarkRunning(status, a, spec[a].phases[cur[a]]) /\ Write(st)
      BY <1>7, <2>1, ReconcileEffect DEF MarkPhase
    <3>4. st.state = status.state
      BY <1>1, <3>2, <3>3, MarkRunningEffect
    <3> QED
      BY <3>1, <3>3, <3>4, WorkerLifeCycle DEF Write
  <2>2. CASE RecordPhase(a)
    <3>1. cur[a] \in Phases(a) /\ pc[a] # "none"
      BY <2>2 DEF RecordPhase, WorkerInv
    <3>2. PICK st : /\ Write(st)
                    /\ st = IF phaseErr[a] THEN PhaseFailed(status, a, cur[a])
                                           ELSE PhaseComplete(status, a, cur[a])
      BY <1>7, <2>2, ReconcileEffect DEF RecordPhase
    <3>3. st.state \in {status.state, "failed"}
      BY <1>1, <3>1, <3>2, SetPhaseValue
    <3> QED
      BY <3>1, <3>2, <3>3, WorkerLifeCycle DEF Write
  <2>3. CASE StartDefer(a)
    <3>1. pc[a] # "none" /\ spec[a].defer \in Names \cup {NoPhase}
      BY <2>3, SpecFacts DEF StartDefer, TypeOK
    <3>2. PICK st : st = MarkRunning(status, a, spec[a].defer) /\ Write(st)
      BY <1>7, <2>3, ReconcileEffect DEF StartDefer
    <3>3. st.state = status.state
      BY <1>1, <3>1, <3>2, MarkRunningEffect
    <3> QED
      BY <3>1, <3>2, <3>3, WorkerLifeCycle DEF Write
  <2>4. CASE RecordDefer(a)
    <3>1. PICK st : /\ Write(st)
                    /\ st = IF deferErr[a] THEN DeferFailed(status, a)
                                           ELSE DeferComplete(status, a)
      BY <1>7, <2>4, ReconcileEffect DEF RecordDefer
    <3>2. st.state \in {status.state, "failed"}
      BY <1>1, <3>1, DeferValue
    <3>3. pc[a] # "none"
      BY <2>4 DEF RecordDefer
    <3> QED
      BY <3>1, <3>2, <3>3, WorkerLifeCycle DEF Write
  <2>5. CASE RenderArtifacts(a) \/ MaybeSetComplete(a)
    <3>1. PICK st \in {MarkFailed(status), ArtifactsRendered(status, a),
                       MaybeComplete(status, a)} : Write(st)
      BY <1>7, <2>5, ReconcileEffect DEF RenderArtifacts, MaybeSetComplete
    <3>2. \/ st.state \in {status.state, "failed"}
          \/ /\ st.state = "complete" /\ status.state # "failed"
             /\ AllPhasesComplete(status)
      BY <1>1, <3>1, OtherValue
    <3>3. pc[a] # "none"
      BY <2>5 DEF RenderArtifacts, MaybeSetComplete
    <3> QED
      BY <3>1, <3>2, <3>3, WorkerLifeCycle DEF Write
  <2> QED
    BY <1>7, <2>1, <2>2, <2>3, <2>4, <2>5 DEF Worker, NextPhase, ExecPhase, ExecDefer, FinishAction
<1>8. CASE EditMetadata
  BY <1>8 DEF EditMetadata, LifeCycle
<1> QED
  BY <1>2, <1>3, <1>4, <1>5, <1>6, <1>7, <1>8
     DEF Next, Handler, OnAdd, GetActionSet, LaunchAction, LaunchFails, Crash,
         LaunchPanics, Restart, vars

\* No writer takes an ActionSet out of failed: neither the handler with the copy
\* it holds, nor the goroutine of another action that succeeds later.
THEOREM FailedStays == Spec => FailedIsFinal
<1>1. IInv /\ [Next]_vars => [status.state = "failed" => status'.state = "failed"]_vars
  BY StepLifeCycle DEF LifeCycle
<1> QED
  BY <1>1, Invariance, PTL DEF Spec, FailedIsFinal

-----------------------------------------------------------------------------
(* Refinement *)

LEMMA RanFacts ==
    /\ Ran \subseteq Contract!AllPhases
    /\ \A a \in Actions : \A i \in Phases(a) :
         /\ <<a, i>> \in Contract!AllPhases
         /\ <<a, i>> \in Ran <=> execs[a][i] > 0
<1>1. Ran \subseteq Contract!AllPhases
  BY DEF Ran, Contract!AllPhases, Actions, Phases
<1>2. ASSUME NEW a \in Actions, NEW i \in Phases(a)
      PROVE  <<a, i>> \in UNION {{b} \X Phases(b) : b \in Actions}
  OBVIOUS
<1> QED
  BY <1>1, <1>2 DEF Ran, Contract!AllPhases, Actions, Phases

LEMMA AllPhasesFacts ==
    ASSUME NEW p \in Contract!AllPhases
    PROVE  \E a \in Actions : \E i \in Phases(a) : p = <<a, i>>
BY DEF Contract!AllPhases, Actions, Phases

\* The call of a phase's function is the abstract step Run.
LEMMA ExecIsRun ==
    ASSUME IInv, NEW a \in Actions, ExecPhase(a)
    PROVE  Contract!Run(a, cur[a])
<1> DEFINE i == cur[a]
<1>1. /\ i \in Phases(a) /\ execs[a][i] = 0 /\ pc[a] # "none"
      /\ \A j \in Phases(a) : j < i => status.phases[a][j] = "complete"
  BY DEF ExecPhase, IInv, WorkerInv
<1>2. status.state \in {"running", "failed"}
  <2>1. status.state \notin {"none", "pending"}
    BY <1>1, WorkerStarted
  <2>2. status.state # "complete"
    BY <1>1 DEF IInv, CompleteMeansExecuted
  <2> QED
    BY <2>1, <2>2 DEF IInv, TypeOK, StatusType, States, PhaseStates
<1>3. /\ spec' = spec /\ status' = status
      /\ execs' = [execs EXCEPT ![a][cur[a]] = @ + 1]
  BY DEF ExecPhase, api
<1> HIDE DEF i
<1>4. <<a, i>> \in Contract!AllPhases \ Ran
  BY <1>1, RanFacts
<1>5. \A j \in Phases(a) : j < i => <<a, j>> \in Ran
  BY <1>1, RanFacts DEF IInv, CompleteIsExecuted
<1>6. Ran' = Ran \cup {<<a, i>>}
  <2>1. /\ execs'[a][i] = 1
        /\ \A b \in Actions : \A j \in Phases(b) :
             b # a \/ j # i => execs'[b][j] = execs[b][j]
    BY <1>1, <1>3 DEF IInv, TypeOK, i
  <2>2. Actions' = Actions /\ \A b : Phases(b)' = Phases(b)
    BY <1>3, SameShape
  <2>3. Contract!AllPhases' = Contract!AllPhases
    BY <1>3 DEF Contract!AllPhases
  <2>4. ASSUME NEW b \in Actions, NEW j \in Phases(b)
        PROVE  <<b, j>> \in Ran' <=> execs'[b][j] > 0
    <3>1. <<b, j>> \in UNION {{c} \X Phases(c) : c \in Actions}
      OBVIOUS
    <3>2. UNION {{c} \X Phases(c) : c \in Actions}' = UNION {{c} \X Phases(c) : c \in Actions}
      BY <1>3 DEF Actions, Phases
    <3> QED
      BY <3>1, <3>2 DEF Ran
  <2>5. Ran' \subseteq Contract!AllPhases
    BY <1>3 DEF Ran, Contract!AllPhases, Actions, Phases
  <2>6. ASSUME NEW p \in Contract!AllPhases
        PROVE  p \in Ran' <=> p \in Ran \cup {<<a, i>>}
    <3>0. PICK b \in Actions : \E j \in Phases(b) : p = <<b, j>>
      BY AllPhasesFacts
    <3>1. PICK j \in Phases(b) : p = <<b, j>>
      BY <3>0
    <3> QED
      BY <1>1, <2>1, <2>4, <3>1, RanFacts
  <2> QED
    BY <1>4, <2>5, <2>6, RanFacts
<1> QED
  BY <1>2, <1>3, <1>4, <1>5, <1>6 DEF Contract!Run, Phases, i

LEMMA StepImplements ==
    ASSUME IInv, [Next]_vars
    PROVE  [Contract!Next]_(Contract!vars)
<1>1. ASSUME NEW a \in Actions, ExecPhase(a) PROVE Contract!Next
  <2>1. Contract!Run(a, cur[a]) /\ cur[a] \in Phases(a)
    BY Zenon, <1>1, ExecIsRun DEF ExecPhase, IInv, WorkerInv
  <2> QED
    BY SMTT(40), <2>1 DEF Contract!Next, Actions, Phases
<1>2. CASE ~\E a \in Actions : ExecPhase(a)
  <2>1. spec' = spec /\ execs' = execs
    BY Zenon, <1>2 DEF Next, Handler, OnAdd, InitActionSetStatus, GetActionSet, StartRunning,
         LaunchAction, LaunchFails, RecordLaunchFailure, OnUpdate, Worker, NextPhase,
         MarkPhase, RecordPhase, StartDefer, ExecDefer, RecordDefer, FinishAction,
         RenderArtifacts, MaybeSetComplete, Crash, LaunchPanics, OnUpdatePanics, Restart,
         EditMetadata, vars, history
  <2>2. Ran' = Ran
    BY <2>1 DEF Ran, Actions, Phases
  <2>3. LifeCycle
    BY StepLifeCycle
  <2>4. AllPhasesComplete(status) => Ran = Contract!AllPhases
    <3> SUFFICES ASSUME AllPhasesComplete(status), NEW p \in Contract!AllPhases
                 PROVE  p \in Ran
      BY RanFacts
    <3>0. PICK a \in Actions : \E i \in Phases(a) : p = <<a, i>>
      BY AllPhasesFacts
    <3>1. PICK i \in Phases(a) : p = <<a, i>>
      BY <3>0
    <3>2. execs[a][i] = 1
      BY DEF IInv, CompleteIsExecuted, AllPhasesComplete
    <3> QED
      BY <3>1, <3>2, RanFacts
  <2> QED
    BY <2>1, <2>2, <2>3, <2>4 DEF LifeCycle, Contract!Next, Contract!vars, Contract!Prepare,
         Contract!Start, Contract!Complete, Contract!Fail
<1> QED
  BY <1>1, <1>2

\* Through every interleaving, crash and failed request, the controller shows the
\* owner of an ActionSet only the life cycle of ActionSetContract.
THEOREM ControllerImplementsContract == Spec => ImplementsContract
<1>1. Init => Contract!Init
  <2> SUFFICES ASSUME Init PROVE Contract!Init
    OBVIOUS
  <2>1. status.state = "none" /\ spec \in Specs
    BY InitialValue DEF Init
  <2>2. Ran = {}
    <3>1. \A a \in Actions : \A i \in Phases(a) : execs[a][i] = 0
      BY DEF Init
    <3> QED
      BY <3>1, RanFacts, AllPhasesFacts
  <2> QED
    BY <2>1, <2>2 DEF Contract!Init
<1>2. IInv /\ [Next]_vars => [Contract!Next]_(Contract!vars)
  BY StepImplements
<1> QED
  BY <1>1, <1>2, Invariance, PTL DEF Spec, ImplementsContract, Contract!Spec

=============================================================================
