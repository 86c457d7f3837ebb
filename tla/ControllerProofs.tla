-------------------------- MODULE ControllerProofs --------------------------
(***************************************************************************)
(* Proofs about ActionSetController, for every set of ActionSets, any      *)
(* combination of faults and any number of restarts and metadata edits.    *)
(***************************************************************************)
EXTENDS PhaseProofs, HandlerProofs

-----------------------------------------------------------------------------
(* onUpdate and the environment preserve the invariant *)

LEMMA OnUpdateInv ==
    ASSUME IInv, OnUpdate
    PROVE  IInv'
<1> DEFINE st == EmptyComplete
<1>1. /\ spec' = spec /\ UNCHANGED <<hpc, hver, next, launchErr>> /\ notified' = FALSE
      /\ UNCHANGED worker /\ UNCHANGED bounds /\ UNCHANGED history
  BY DEF OnUpdate, handler
<1>2. \/ UNCHANGED api
      \/ Actions = {} /\ status.state = "running" /\ Write(st) /\ Validate(st)
  BY Zenon, ReconcileEffect DEF OnUpdate, EmptyIsRunning
<1>3. /\ st \in StatusType /\ st.state = "complete" /\ st.populated = status.populated
  BY Zenon DEF IInv, TypeOK, StatusType, States, PhaseStates, EmptyComplete
<1> HIDE DEF st
<1>4. Actions' = Actions /\ \A b : Phases(b)' = Phases(b)
  BY <1>1, SameShape
<1>5. /\ status' \in StatusType' /\ version' \in Nat /\ version <= version'
  BY <1>1, <1>2, <1>3, ApiStep DEF IInv
<1>6. TypeOK'
  BY Zenon, <1>1, <1>5, HandlerType DEF IInv, TypeOK
<1>7. CASE UNCHANGED api
  <2>1. status' = status /\ version' = version
    BY <1>7 DEF api
  <2>2. \A a \in Actions : Untouched(a)' = Untouched(a) /\ pc'[a] = pc[a]
    BY <1>1, <1>4, <2>1 DEF Untouched, worker, history
  <2>3. HandlerInv'
    BY <1>1, <1>4, <2>1, <2>2 DEF IInv, HandlerInv
  <2> QED
    BY <1>1, <1>6, <2>1, <2>3, SameObject, WorkersSame DEF IInv, ObjectInv
<1>8. CASE Actions = {} /\ status.state = "running" /\ Write(st) /\ Validate(st)
  <2>1. status' = st
    BY <1>8 DEF Write
  <2>2. HandlerInv'
    <3>1. hpc \in {"init", "run"} => hver' # version'
      <4>1. hpc \in {"init", "run"} => hver < version
        BY <1>8 DEF IInv, TypeOK, HandlerInv
      <4> QED
        BY <1>1, <1>5, <4>1 DEF IInv, TypeOK
    <3>2. hver' <= version'
      BY <1>1, <1>5 DEF IInv, TypeOK, HandlerInv
    <3>3. status.populated
      BY <1>8 DEF IInv, HandlerInv
    <3>4. hpc \notin {"launch", "fail"}
      BY <1>8 DEF IInv, HandlerInv
    <3> QED
      BY Zenon, <1>1, <1>3, <1>4, <1>8, <2>1, <3>1, <3>2, <3>3, <3>4 DEF IInv, HandlerInv
  <2>3. StatusStaysValid'
    BY <1>4, <1>8, <2>1 DEF StatusStaysValid, Validate
  <2>4. /\ \A a \in Actions' : WorkerInv(a)'
        /\ CompleteIsExecuted' /\ ExecutedAtMostOnce' /\ PredecessorsRecorded'
        /\ CompleteMeansExecuted' /\ FailureIsReported'
    BY <1>4, <1>8 DEF CompleteIsExecuted, ExecutedAtMostOnce, PredecessorsRecorded,
                      CompleteMeansExecuted, FailureIsReported
  <2> QED
    BY <1>6, <2>2, <2>3, <2>4 DEF IInv
<1> QED
  BY <1>2, <1>7, <1>8

LEMMA LostType ==
    ASSUME IInv, Lost, spec' = spec, UNCHANGED history, edits' = edits,
           crashes' \in 0..MaxCrashes, status' \in StatusType', version' \in Nat
    PROVE  TypeOK'
<1>1. Actions' = Actions /\ \A b : Phases(b)' = Phases(b)
  BY SameShape
<1>2. /\ pc' \in [Actions -> WorkerSteps] /\ cur' \in [Actions -> Nat]
      /\ resolution' \in [Actions -> {"none", "success", "failure"}]
  BY DEF Lost, WorkerSteps
<1>3. /\ phaseErr' \in [Actions -> BOOLEAN] /\ coreErr' \in [Actions -> BOOLEAN]
      /\ deferErr' \in [Actions -> BOOLEAN]
  BY DEF Lost
<1>4. /\ hpc' = "idle" /\ hver' = 0 /\ next' = 1 /\ launchErr' = "none"
      /\ notified' = FALSE
  BY DEF Lost
<1>5. Len(spec) \in Nat
  BY SpecFacts DEF IInv, TypeOK
<1>6. /\ next' \in 1..Len(spec) + 1 /\ hver' \in Nat
      /\ spec' \in Specs /\ hpc' \in HandlerSteps /\ edits' \in 0..MaxEdits
  BY <1>4, <1>5 DEF IInv, TypeOK, HandlerSteps
<1>7. /\ DOMAIN execs' = Actions /\ deferExecs' \in [Actions -> Nat]
      /\ \A a \in Actions : execs'[a] \in [Phases(a) -> Nat]
  BY DEF IInv, TypeOK, history
<1> QED
  BY Zenon, <1>1, <1>2, <1>3, <1>4, <1>6, <1>7 DEF TypeOK

LEMMA RestartInv ==
    ASSUME IInv, Restart, crashes' \in 0..MaxCrashes
    PROVE  IInv'
<1>1. /\ spec' = spec /\ status' = status /\ version' = version
      /\ UNCHANGED history /\ edits' = edits /\ Lost
  BY DEF Restart, api
<1>2. Actions' = Actions /\ \A b : Phases(b)' = Phases(b)
  BY <1>1, SameShape
<1>3. TypeOK'
  BY SMTT(40), <1>1, SameStatusType, LostType DEF IInv, TypeOK
<1>4. HandlerInv'
  <2>1. \A a \in Actions : pc'[a] = "none" /\ (Untouched(a) => Untouched(a)')
    BY <1>1, <1>2 DEF Lost, Untouched, history
  <2> QED
    BY <1>1, <1>2, <2>1 DEF Lost, IInv, TypeOK, HandlerInv
<1>5. \A a \in Actions' : WorkerInv(a)'
  BY <1>1, <1>2 DEF Lost, WorkerInv
<1> QED
  BY <1>1, <1>3, <1>4, <1>5, SameObject DEF IInv, ObjectInv

LEMMA OnUpdatePanicsInv ==
    ASSUME IInv, OnUpdatePanics
    PROVE  IInv'
<1>1. /\ spec' = spec /\ UNCHANGED history /\ Lost
      /\ crashes' = crashes /\ edits' = edits
      /\ Actions = {} /\ status.state = "running"
  BY DEF OnUpdatePanics, EmptyIsRunning, bounds
<1>2. crashes' \in 0..MaxCrashes
  BY <1>1 DEF IInv, TypeOK
<1>3. UNCHANGED api \/ (Write(EmptyComplete) /\ Validate(EmptyComplete))
  BY Zenon, ReconcileEffect DEF OnUpdatePanics
<1>4. CASE UNCHANGED api
  BY <1>1, <1>2, <1>4, RestartInv DEF Restart
<1>5. CASE Write(EmptyComplete) /\ Validate(EmptyComplete)
  <2>1. /\ EmptyComplete \in StatusType /\ EmptyComplete.state = "complete"
        /\ EmptyComplete.populated = status.populated
    BY Zenon DEF IInv, TypeOK, StatusType, States, PhaseStates, EmptyComplete
  <2>2. status' = EmptyComplete
    BY <1>5 DEF Write
  <2>3. Actions' = Actions /\ \A b : Phases(b)' = Phases(b)
    BY <1>1, SameShape
  <2>4. status' \in StatusType' /\ version' \in Nat
    BY <1>1, <1>5, <2>1, ApiStep DEF IInv
  <2>5. TypeOK'
    BY <1>1, <1>2, <2>4, LostType
  <2>6. HandlerInv'
    <3>1. status.populated
      BY <1>1 DEF IInv, HandlerInv
    <3>2. hpc' = "idle" /\ hver' = 0 /\ next' = 1
      BY Zenon, <1>1 DEF Lost
    <3>3. Actions' = {} /\ status'.state = "complete" /\ status'.populated
      BY Zenon, <1>1, <2>1, <2>2, <2>3, <3>1
    <3> QED
      BY <2>4, <3>2, <3>3 DEF HandlerInv
  <2>7. StatusStaysValid'
    BY <1>5, <2>2, <2>3 DEF StatusStaysValid, Validate
  <2>8. /\ \A a \in Actions' : WorkerInv(a)'
        /\ CompleteIsExecuted' /\ ExecutedAtMostOnce' /\ PredecessorsRecorded'
        /\ CompleteMeansExecuted' /\ FailureIsReported'
    BY <1>1, <2>3 DEF CompleteIsExecuted, ExecutedAtMostOnce, PredecessorsRecorded,
                      CompleteMeansExecuted, FailureIsReported
  <2> QED
    BY <2>5, <2>6, <2>7, <2>8 DEF IInv
<1> QED
  BY <1>3, <1>4, <1>5

LEMMA EditMetadataInv ==
    ASSUME IInv, EditMetadata
    PROVE  IInv'
<1> USE DEF EditMetadata, handler
<1>1. spec' = spec /\ status' = status /\ version' = version + 1
      /\ UNCHANGED worker /\ UNCHANGED history
  OBVIOUS
<1>2. Actions' = Actions /\ \A b : Phases(b)' = Phases(b)
  BY SameShape
<1>3. TypeOK'
  BY <1>1, <1>2, SameStatusType, ConstantsAssumption DEF IInv, TypeOK, worker, history
<1>4. HandlerInv'
  <2>1. \A a \in Actions : Untouched(a)' = Untouched(a) /\ pc'[a] = pc[a]
    BY <1>1, <1>2 DEF Untouched, worker, history
  <2> QED
    BY SMTT(40), <1>1, <1>2, <2>1 DEF IInv, TypeOK, HandlerInv
<1> QED
  BY <1>1, <1>3, <1>4, SameObject, WorkersSame DEF IInv, ObjectInv

-----------------------------------------------------------------------------
(* The invariant *)

LEMMA InitInv ==
    ASSUME Init
    PROVE  IInv
<1> USE DEF Init
<1>1. /\ status \in StatusType
      /\ \A a \in Actions : /\ status.defer[a] = "pending"
                            /\ \A i \in Phases(a) : status.phases[a][i] = "pending"
      /\ status.state = "none"
  BY InitialEffect, InitialValue
<1>2. Len(spec) \in Nat /\ Actions = 1..Len(spec)
  BY SpecFacts
<1>3. TypeOK
  <2>1. /\ pc \in [Actions -> WorkerSteps] /\ cur \in [Actions -> Nat]
        /\ resolution \in [Actions -> {"none", "success", "failure"}]
    BY DEF WorkerSteps
  <2>2. /\ phaseErr \in [Actions -> BOOLEAN] /\ coreErr \in [Actions -> BOOLEAN]
        /\ deferErr \in [Actions -> BOOLEAN]
    OBVIOUS
  <2>3. /\ DOMAIN execs = Actions /\ deferExecs \in [Actions -> Nat]
        /\ \A a \in Actions : execs[a] \in [Phases(a) -> Nat]
    OBVIOUS
  <2>4. /\ next \in 1..Len(spec) + 1 /\ crashes \in 0..MaxCrashes /\ edits \in 0..MaxEdits
        /\ hpc \in HandlerSteps
    BY <1>2, ConstantsAssumption DEF HandlerSteps
  <2> QED
    BY Zenon, <1>1, <2>1, <2>2, <2>3, <2>4 DEF TypeOK
<1>4. \A a \in Actions : Untouched(a)
  BY <1>1 DEF Untouched
<1>5. HandlerInv
  BY <1>1, <1>4 DEF HandlerInv
<1>6. \A a \in Actions : WorkerInv(a)
  BY DEF WorkerInv
<1>7. CompleteIsExecuted /\ ExecutedAtMostOnce /\ PredecessorsRecorded
  BY <1>1, <1>4 DEF Untouched, CompleteIsExecuted, ExecutedAtMostOnce, PredecessorsRecorded
<1>8. CompleteMeansExecuted /\ FailureIsReported /\ StatusStaysValid
  BY <1>1 DEF CompleteMeansExecuted, FailureIsReported, StatusStaysValid, Validate
<1> QED
  BY <1>3, <1>5, <1>6, <1>7, <1>8 DEF IInv

LEMMA NextInv ==
    ASSUME IInv, [Next]_vars
    PROVE  IInv'
<1>1. CASE Handler
  BY <1>1, LookInv, InitStatusInv, StartRunningInv, LaunchActionInv, LaunchFailsInv,
     RecordLaunchFailureInv, OnUpdateInv DEF Handler
<1>2. ASSUME NEW a \in Actions, Worker(a) PROVE IInv'
  BY <1>2, NextPhaseInv, MarkPhaseInv, ExecPhaseInv, RecordPhaseInv, StartDeferInv,
     ExecDeferInv, RecordDeferInv, FinishActionInv, LastStepsInv DEF Worker
<1>3. CASE Crash
  <2>1. crashes' \in 0..MaxCrashes
    BY <1>3, ConstantsAssumption DEF Crash, IInv, TypeOK
  <2> QED
    BY <1>3, <2>1, RestartInv DEF Crash
<1>4. CASE LaunchPanics
  BY <1>4, RestartInv DEF LaunchPanics, IInv, TypeOK
<1>5. CASE EditMetadata
  BY <1>5, EditMetadataInv
<1>7. CASE OnUpdatePanics
  BY <1>7, OnUpdatePanicsInv
<1>6. CASE UNCHANGED vars
  <2>1. /\ spec' = spec /\ status' = status /\ version' = version
        /\ UNCHANGED <<hpc, hver, next, launchErr, notified>>
        /\ UNCHANGED worker /\ UNCHANGED bounds /\ UNCHANGED history
    BY <1>6 DEF vars, api, handler
  <2>2. Actions' = Actions /\ \A b : Phases(b)' = Phases(b)
    BY <2>1, SameShape
  <2>3. TypeOK'
    BY <2>1, SameStatusType, HandlerType DEF IInv, TypeOK
  <2>4. \A a \in Actions : Untouched(a)' = Untouched(a) /\ pc'[a] = pc[a]
    BY <2>1, <2>2 DEF Untouched, worker, history
  <2>5. HandlerInv'
    BY <2>1, <2>2, <2>4 DEF IInv, HandlerInv
  <2> QED
    BY <2>1, <2>3, <2>5, SameObject, WorkersSame DEF IInv, ObjectInv
<1> QED
  BY <1>1, <1>2, <1>3, <1>4, <1>5, <1>6, <1>7 DEF Next

LEMMA Invariance == Spec => []IInv
<1>1. Init => IInv
  BY InitInv
<1>2. IInv /\ [Next]_vars => IInv'
  BY NextInv
<1> QED
  BY <1>1, <1>2, PTL DEF Spec

\* The type invariant holds for every set of ActionSets and every fault.
THEOREM TypeCorrect == Spec => []TypeOK
<1>1. IInv => TypeOK
  BY DEF IInv
<1> QED
  BY <1>1, Invariance, PTL

\* No function of a phase or deferPhase is called twice, through any number of
\* crashes, restarts, conflicts and lost replies of the API server.
THEOREM AtMostOnce == Spec => []ExecutedAtMostOnce
<1>1. IInv => ExecutedAtMostOnce
  BY DEF IInv
<1> QED
  BY <1>1, Invariance, PTL

\* runAction executes a phase only after the API server holds the completion of
\* every phase before it.
THEOREM InOrder == Spec => []PredecessorsRecorded
<1>1. IInv => PredecessorsRecorded
  BY DEF IInv
<1> QED
  BY <1>1, Invariance, PTL

\* A complete ActionSet has every phase of every action executed and recorded.
THEOREM CompleteIsReal == Spec => []CompleteMeansExecuted
<1>1. IInv => CompleteMeansExecuted
  BY DEF IInv
<1> QED
  BY <1>1, Invariance, PTL

\* The recorded failure of one phase or deferPhase fails the ActionSet for good,
\* whatever the goroutines of the other actions write.
THEOREM FailuresShow == Spec => []FailureIsReported
<1>1. IInv => FailureIsReported
  BY DEF IInv
<1> QED
  BY <1>1, Invariance, PTL

\* The status in the API server passes validate.ActionSet, whichever writer was
\* last, unless it never got its actions.
THEOREM AlwaysValid == Spec => []StatusStaysValid
<1>1. IInv => StatusStaysValid
  BY DEF IInv
<1> QED
  BY <1>1, Invariance, PTL

=============================================================================
