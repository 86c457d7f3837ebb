---------------------------- MODULE HandlerProofs ----------------------------
(***************************************************************************)
(* The handler goroutine preserves the inductive invariant of              *)
(* ActionSetController.                                                    *)
(***************************************************************************)
EXTENDS WorkerProofs

-----------------------------------------------------------------------------
(* Every step of the handler preserves the invariant *)

\* The part of the invariant that is about the object and the history only.
ObjectInv ==
    /\ CompleteIsExecuted /\ ExecutedAtMostOnce /\ PredecessorsRecorded
    /\ CompleteMeansExecuted /\ FailureIsReported /\ StatusStaysValid

LEMMA SameObject ==
    ASSUME IInv, spec' = spec, status' = status, UNCHANGED history
    PROVE  ObjectInv'
<1>1. Actions' = Actions /\ \A b : Phases(b)' = Phases(b)
  BY SameShape
<1>2. CompleteIsExecuted' /\ ExecutedAtMostOnce' /\ PredecessorsRecorded'
  BY <1>1 DEF IInv, history, CompleteIsExecuted, ExecutedAtMostOnce, PredecessorsRecorded
<1>3. CompleteMeansExecuted' /\ FailureIsReported'
  BY <1>1 DEF IInv, history, CompleteMeansExecuted, FailureIsReported
<1>4. StatusStaysValid'
  BY <1>1 DEF IInv, StatusStaysValid, Validate
<1> QED
  BY <1>2, <1>3, <1>4 DEF ObjectInv

\* An object no action of which has been touched.
LEMMA FreshObject ==
    ASSUME spec' = spec, UNCHANGED history,
           \A a \in Actions :
             /\ deferExecs[a] = 0 /\ status'.defer[a] = "pending"
             /\ \A i \in Phases(a) : execs[a][i] = 0 /\ status'.phases[a][i] = "pending",
           status'.state # "complete",
           status'.populated \/ status'.state = "failed",
           \A a \in Actions : DOMAIN status'.phases[a] = Phases(a)
    PROVE  ObjectInv'
<1>1. Actions' = Actions /\ \A b : Phases(b)' = Phases(b)
  BY SameShape
<1>2. CompleteIsExecuted' /\ ExecutedAtMostOnce' /\ PredecessorsRecorded'
  BY <1>1 DEF history, CompleteIsExecuted, ExecutedAtMostOnce, PredecessorsRecorded
<1>3. CompleteMeansExecuted' /\ FailureIsReported'
  BY <1>1 DEF CompleteMeansExecuted, FailureIsReported
<1>4. \A a \in Actions : ValidPhases(status'.phases[a])
  BY DEF ValidPhases
<1>5. StatusStaysValid'
  BY <1>1, <1>4 DEF StatusStaysValid, Validate
<1> QED
  BY <1>2, <1>3, <1>5 DEF ObjectInv

\* The goroutines do not notice a step that leaves their variables alone and
\* does not take back a completed phase.
LEMMA WorkersSame ==
    ASSUME IInv, spec' = spec, UNCHANGED worker, UNCHANGED history,
           \A a \in Actions : pc[a] # "none" => status'.phases[a] = status.phases[a]
    PROVE  \A a \in Actions' : WorkerInv(a)'
<1>1. Actions' = Actions /\ \A b : Phases(b)' = Phases(b)
  BY SameShape
<1> QED
  BY <1>1 DEF IInv, WorkerInv, worker, history

LEMMA SameStatusType ==
    ASSUME TypeOK, spec' = spec, status' = status
    PROVE  status' \in StatusType'
BY DEF TypeOK, StatusType, PhaseMaps, Actions, Phases

LEMMA HandlerType ==
    ASSUME TypeOK, spec' = spec, status' \in StatusType', version' \in Nat,
           hver' \in Nat, hpc' \in HandlerSteps, next' \in 1..Len(spec) + 1,
           launchErr' \in {"none", "blueprint", "runAction"},
           notified' \in BOOLEAN, UNCHANGED worker, UNCHANGED bounds, UNCHANGED history
    PROVE  TypeOK'
<1>1. Actions' = Actions /\ \A b : Phases(b)' = Phases(b)
  BY SameShape
<1> QED
  BY <1>1 DEF TypeOK, worker, bounds, history

\* OnAdd and GetActionSet only look at the object.
LEMMA LookInv ==
    ASSUME IInv, OnAdd \/ GetActionSet
    PROVE  IInv'
<1> USE DEF OnAdd, GetActionSet, api
<1>1. /\ spec' = spec /\ status' = status /\ version' = version /\ hver' = version
      /\ UNCHANGED <<next, launchErr, notified>>
      /\ UNCHANGED worker /\ UNCHANGED bounds /\ UNCHANGED history
  OBVIOUS
<1>2. /\ hpc' \in {"init", "get", "run", "done"}
      /\ hpc' = "init" => status.state = "none"
      /\ hpc' = "run" => status.state = "pending"
      /\ hpc \in {"idle", "get"}
  OBVIOUS
<1>3. TypeOK'
  BY <1>1, <1>2, SameStatusType, HandlerType DEF IInv, TypeOK, HandlerSteps
<1>4. Actions' = Actions /\ \A b : Phases(b)' = Phases(b)
  BY <1>1, SameShape
<1>5. HandlerInv'
  <2>1. \A a \in Actions : Untouched(a)' = Untouched(a) /\ pc'[a] = pc[a]
    BY <1>1, <1>4 DEF Untouched, worker, history
  <2> QED
    BY <1>1, <1>2, <1>4, <2>1 DEF IInv, TypeOK, HandlerInv
<1> QED
  BY <1>1, <1>3, <1>5, SameObject, WorkersSame DEF IInv, ObjectInv

LEMMA LaunchFailsInv ==
    ASSUME IInv, LaunchFails
    PROVE  IInv'
<1> USE DEF LaunchFails, api
<1>1. /\ spec' = spec /\ status' = status /\ version' = version /\ hver' = hver
      /\ UNCHANGED <<next, notified, pc, cur, phaseErr, coreErr, deferErr>>
      /\ UNCHANGED bounds /\ UNCHANGED history /\ hpc = "launch" /\ hpc' = "fail"
      /\ launchErr' \in {"blueprint", "runAction"}
      /\ launchErr' = "runAction" => Phases(next) # {}
  OBVIOUS
<1>2. Actions' = Actions /\ \A b : Phases(b)' = Phases(b)
  BY <1>1, SameShape
<1>3. resolution' \in [Actions -> {"none", "success", "failure"}]
  BY Zenon DEF IInv, TypeOK
<1>4. TypeOK'
  BY <1>1, <1>2, <1>3, SameStatusType DEF IInv, TypeOK, HandlerSteps, bounds, history
<1>5. HandlerInv'
  <2>1. \A a \in Actions : Untouched(a)' = Untouched(a) /\ pc'[a] = pc[a]
    BY <1>1, <1>2 DEF Untouched, history
  <2> QED
    BY <1>1, <1>2, <2>1 DEF IInv, HandlerInv
<1>6. \A a \in Actions' : WorkerInv(a)'
  BY <1>1, <1>2 DEF IInv, WorkerInv, history
<1> QED
  BY <1>1, <1>4, <1>5, <1>6, SameObject DEF IInv, ObjectInv

LEMMA LaunchActionInv ==
    ASSUME IInv, LaunchAction
    PROVE  IInv'
<1> USE DEF LaunchAction, api
<1>1. /\ spec' = spec /\ status' = status /\ version' = version /\ hver' = hver
      /\ UNCHANGED <<launchErr, notified, cur, phaseErr, coreErr, deferErr, resolution>>
      /\ UNCHANGED bounds /\ UNCHANGED history /\ hpc = "launch"
      /\ pc' = [pc EXCEPT ![next] = "phase"] /\ next' = next + 1
      /\ hpc' = IF next = Len(spec) THEN "done" ELSE "launch"
  OBVIOUS
<1> HIDE DEF LaunchAction
<1>2. Actions' = Actions /\ \A b : Phases(b)' = Phases(b)
  BY <1>1, SameShape
<1>3. /\ next \in Actions /\ Untouched(next)
      /\ status.state \notin {"none", "pending"} /\ status.populated
      /\ \A a \in Actions : a >= next => Untouched(a)
  <2>1. /\ next \in Actions
        /\ status.state \notin {"none", "pending"} /\ status.populated
        /\ \A a \in Actions : a >= next => Untouched(a)
    BY <1>1 DEF IInv, HandlerInv
  <2> QED
    BY <2>1, SpecFacts DEF IInv, TypeOK
<1>4. Len(spec) \in Nat /\ Actions = 1..Len(spec)
  BY SpecFacts DEF IInv, TypeOK
<1>5. TypeOK'
  <2>1. pc' \in [Actions -> WorkerSteps] /\ next' \in 1..Len(spec) + 1
    BY <1>1, <1>3, <1>4 DEF IInv, TypeOK, WorkerSteps
  <2> QED
    BY <1>1, <1>2, <2>1, SameStatusType DEF IInv, TypeOK, HandlerSteps, bounds, history
<1>6. HandlerInv'
  <2>1. \A a \in Actions : a >= next + 1 => Untouched(a)'
    <3> SUFFICES ASSUME NEW a \in Actions, a >= next + 1 PROVE Untouched(a)'
      OBVIOUS
    <3>1. Untouched(a) /\ a # next
      BY <1>3, <1>4
    <3> QED
      BY <1>1, <1>2, <3>1 DEF IInv, TypeOK, Untouched, history
  <2> QED
    BY <1>1, <1>2, <1>3, <1>4, <2>1 DEF IInv, HandlerInv
<1>7. \A a \in Actions' : WorkerInv(a)'
  <2> SUFFICES ASSUME NEW a \in Actions PROVE WorkerInv(a)'
    BY <1>2
  <2>1. CASE a # next
    <3>1. pc'[a] = pc[a]
      BY <1>1, <2>1 DEF IInv, TypeOK
    <3> QED
      BY <1>1, <1>2, <3>1 DEF IInv, WorkerInv, history
  <2>2. CASE a = next
    <3>1. pc'[a] = "phase" /\ cur'[a] = 1 /\ deferExecs'[a] = 0
          /\ \A i \in Phases(a) : execs'[a][i] = 0
      BY <1>1, <1>3, <2>2 DEF IInv, TypeOK, WorkerInv, Untouched, history
    <3>2. Phases(a) = 1..Len(spec[a].phases) /\ Len(spec[a].phases) \in Nat
      BY SpecFacts DEF IInv, TypeOK
    <3> QED
      BY SMTT(40), <1>1, <1>2, <3>1, <3>2 DEF WorkerInv
  <2> QED
    BY <2>1, <2>2
<1> QED
  BY <1>1, <1>5, <1>6, <1>7, SameObject DEF IInv, ObjectInv

LEMMA InitStatusInv ==
    ASSUME IInv, InitActionSetStatus
    PROVE  IInv'
<1> USE DEF InitActionSetStatus
<1>1. /\ spec' = spec /\ hver' = hver /\ hpc = "init" /\ hpc' = "get"
      /\ UNCHANGED <<next, launchErr, notified>>
      /\ UNCHANGED worker /\ UNCHANGED bounds /\ UNCHANGED history
  OBVIOUS
<1>2. PICK st \in {InitialStatus, FailedInitialStatus} :
        UNCHANGED api \/ (Write(st) /\ hver = version)
  BY UpdateEffect
<1> HIDE DEF InitActionSetStatus
<1>3. /\ st \in StatusType
      /\ \A a \in Actions : /\ st.defer[a] = "pending"
                            /\ \A i \in Phases(a) : st.phases[a][i] = "pending"
  BY InitialEffect
<1>4. st.state \in {"pending", "failed"} /\ (~st.populated => st.state = "failed")
  BY InitialValue
<1>5. Actions' = Actions /\ \A b : Phases(b)' = Phases(b)
  BY <1>1, SameShape
<1>6. /\ status' \in StatusType' /\ version' \in Nat /\ version <= version'
      /\ status' = status \/ (status' = st /\ hver = version)
  BY <1>1, <1>2, <1>3, ApiStep DEF IInv, api
<1>7. TypeOK'
  BY <1>1, <1>6, HandlerType DEF IInv, TypeOK, HandlerSteps
<1>8. hver' <= version'
  BY <1>1, <1>6 DEF IInv, TypeOK, HandlerInv
<1>9. CASE status' = status
  <2>1. \A a \in Actions : Untouched(a)' = Untouched(a) /\ pc'[a] = pc[a]
    BY <1>1, <1>5, <1>9 DEF Untouched, worker, history
  <2>2. HandlerInv'
    BY <1>1, <1>5, <1>8, <1>9, <2>1 DEF IInv, HandlerInv
  <2> QED
    BY <1>1, <1>7, <1>9, <2>2, SameObject, WorkersSame DEF IInv, ObjectInv
<1>10. CASE status' = st /\ hver = version
  <2>1. \A a \in Actions : Untouched(a)
    BY <1>1, <1>10 DEF IInv, HandlerInv
  <2>2. \A a \in Actions : Untouched(a)'
    BY <1>1, <1>3, <1>5, <1>10, <2>1 DEF Untouched, worker, history
  <2>3. HandlerInv'
    <3>1. \A a \in Actions : pc'[a] = "none"
      BY <2>2 DEF Untouched
    <3> QED
      BY <1>1, <1>4, <1>5, <1>8, <1>10, <2>2, <3>1 DEF IInv, HandlerInv
  <2>4. ObjectInv'
    <3>1. \A a \in Actions : DOMAIN status'.phases[a] = Phases(a)
      BY <1>3, <1>10, PhaseMapFacts DEF StatusType
    <3> QED
      BY <1>1, <1>3, <1>4, <1>10, <2>1, <3>1, FreshObject DEF Untouched
  <2>5. \A a \in Actions' : WorkerInv(a)'
    BY <1>1, <2>1, WorkersSame DEF Untouched
  <2> QED
    BY <1>7, <2>3, <2>4, <2>5 DEF IInv, ObjectInv
<1> QED
  BY <1>6, <1>9, <1>10

LEMMA StartRunningInv ==
    ASSUME IInv, StartRunning
    PROVE  IInv'
<1> USE DEF StartRunning
<1> DEFINE st == [status EXCEPT !.state = "running"]
<1>1. /\ spec' = spec /\ hver' = version' /\ hpc = "run"
      /\ hpc' \in {"launch", "done"}
      /\ UNCHANGED <<next, launchErr>> /\ notified' \in BOOLEAN
      /\ UNCHANGED worker /\ UNCHANGED bounds /\ UNCHANGED history
  OBVIOUS
<1>2. PICK err \in BOOLEAN : /\ Update(st, err)
                            /\ hpc' = IF err \/ Actions = {} THEN "done" ELSE "launch"
  OBVIOUS
<1>3. UNCHANGED api \/ (Write(st) /\ hver = version)
  BY <1>2, UpdateEffect
<1>4. ~err => Write(st) /\ hver = version
  BY <1>2 DEF Update
<1>5. /\ st \in StatusType /\ st.state = "running" /\ st.populated = status.populated
      /\ st.phases = status.phases /\ st.defer = status.defer
  BY Zenon DEF IInv, TypeOK, StatusType, States, PhaseStates
<1> HIDE DEF StartRunning, st
<1>6. Actions' = Actions /\ \A b : Phases(b)' = Phases(b)
  BY <1>1, SameShape
<1>7. /\ status' \in StatusType' /\ version' \in Nat /\ version <= version'
      /\ status' = status \/ (status' = st /\ hver = version)
  BY <1>1, <1>3, <1>5, ApiStep DEF IInv, api
<1>8. TypeOK'
  BY <1>1, <1>7, HandlerType DEF IInv, TypeOK, HandlerSteps
<1>9. hver' <= version'
  BY <1>1, <1>7
<1>10. \A a \in Actions : Untouched(a)' <=> Untouched(a)
  BY <1>1, <1>5, <1>6, <1>7 DEF Untouched, worker, history
<1>11. CASE ~(status' = st /\ hver = version)
  <2>1. status' = status /\ hpc' = "done"
    BY <1>1, <1>2, <1>4, <1>7, <1>11 DEF Write
  <2>2. HandlerInv'
    BY <1>1, <1>6, <1>9, <1>10, <2>1 DEF IInv, HandlerInv
  <2> QED
    BY <1>1, <1>8, <2>1, <2>2, SameObject, WorkersSame DEF IInv, ObjectInv
<1>12. CASE status' = st /\ hver = version
  <2>1. status.state = "pending" /\ status.populated /\ \A a \in Actions : Untouched(a)
    BY <1>1, <1>12 DEF IInv, HandlerInv
  <2>2. HandlerInv'
    <3>1. hpc' = "launch" => next' \in Actions'
      <4>1. Len(spec) \in Nat /\ Actions = 1..Len(spec)
        BY SpecFacts DEF IInv, TypeOK
      <4>2. next = 1
        BY <1>1 DEF IInv, HandlerInv
      <4> QED
        BY <1>1, <1>2, <1>6, <4>1, <4>2
    <3> QED
      BY Zenon, <1>1, <1>5, <1>6, <1>9, <1>10, <1>12, <2>1, <3>1 DEF IInv, HandlerInv
  <2>3. ObjectInv'
    <3>1. \A a \in Actions : DOMAIN status'.phases[a] = Phases(a)
      BY <1>5, <1>12, PhaseMapFacts DEF StatusType
    <3>2. \A a \in Actions :
             /\ deferExecs[a] = 0 /\ status'.defer[a] = "pending"
             /\ \A i \in Phases(a) : execs[a][i] = 0 /\ status'.phases[a][i] = "pending"
      BY <1>5, <1>12, <2>1 DEF Untouched
    <3> QED
      BY Zenon, <1>1, <1>5, <1>12, <2>1, <3>1, <3>2, FreshObject
  <2>4. \A a \in Actions' : WorkerInv(a)'
    BY <1>1, <1>5, <1>12, WorkersSame
  <2> QED
    BY <1>8, <2>2, <2>3, <2>4 DEF IInv, ObjectInv
<1> QED
  BY <1>7, <1>11, <1>12

LEMMA RecordLaunchFailureInv ==
    ASSUME IInv, RecordLaunchFailure
    PROVE  IInv'
<1> DEFINE st == IF launchErr = "runAction" THEN PhaseFailed(status, next, 1)
                                            ELSE MarkFailed(status)
<1>1. /\ spec' = spec /\ hver' = hver /\ hpc = "fail" /\ hpc' = "done"
      /\ UNCHANGED <<next, launchErr, notified>>
      /\ UNCHANGED worker /\ UNCHANGED bounds /\ UNCHANGED history
  BY DEF RecordLaunchFailure
<1>2. UNCHANGED api \/ Write(st)
  BY UpdateEffect DEF RecordLaunchFailure
<1>3. Actions' = Actions /\ \A b : Phases(b)' = Phases(b)
  BY <1>1, SameShape
<1>4. /\ next \in Actions /\ Untouched(next)
      /\ status.state \notin {"none", "pending"} /\ status.populated
      /\ launchErr = "runAction" => 1 \in Phases(next)
  <2>1. /\ next \in Actions
        /\ status.state \notin {"none", "pending"} /\ status.populated
        /\ \A a \in Actions : a >= next => Untouched(a)
        /\ launchErr = "runAction" => Phases(next) # {}
    BY <1>1 DEF IInv, HandlerInv
  <2> QED
    BY <2>1, SpecFacts DEF IInv, TypeOK
<1>5. /\ st \in StatusType /\ st.populated = status.populated /\ st.defer = status.defer
      /\ st.state = "failed"
      /\ \A b \in Actions : b # next => st.phases[b] = status.phases[b]
      /\ \A i \in Phases(next) : i # 1 => st.phases[next][i] = status.phases[next][i]
      /\ \A i \in Phases(next) : st.phases[next][i] \in {"failed", status.phases[next][i]}
  <2>1. status \in StatusType
    BY DEF IInv, TypeOK
  <2>2. CASE launchErr = "runAction"
    <3>1. ASSUME NEW k \in Phases(next), NEW t, t = PhaseFailed(status, next, k)
          PROVE  /\ t \in StatusType /\ t.populated = status.populated
                 /\ t.defer = status.defer
                 /\ \A b \in Actions : b # next => t.phases[b] = status.phases[b]
                 /\ \A i \in Phases(next) : i # k => t.phases[next][i] = status.phases[next][i]
                 /\ t.state = "failed" /\ t.phases[next][k] = "failed"
      <4>1. next \in Actions
        BY <1>4
      <4> QED
        BY <2>1, <3>1, <4>1, SetPhaseEffect, SetPhaseValue
    <3>2. st = PhaseFailed(status, next, 1) /\ 1 \in Phases(next)
      BY <1>4, <2>2
    <3> HIDE DEF st
    <3> QED
      BY <3>1, <3>2
  <2>3. CASE launchErr # "runAction"
    BY Zenon, <1>4, <2>1, <2>3, OtherEffect, OtherValue
  <2> QED
    BY <2>2, <2>3
<1> HIDE DEF st
<1>6. /\ status' \in StatusType' /\ version' \in Nat /\ version <= version'
      /\ status' = status \/ status' = st
  BY <1>1, <1>2, <1>5, ApiStep DEF IInv
<1>7. TypeOK'
  BY <1>1, <1>6, HandlerType DEF IInv, TypeOK, HandlerSteps
<1>8. HandlerInv'
  <2>1. hver' <= version'
    BY <1>1, <1>6 DEF IInv, TypeOK, HandlerInv
  <2>2. status'.state \notin {"none", "pending"} /\ status'.populated
    BY Zenon, <1>4, <1>5, <1>6
  <2> QED
    BY <1>1, <2>1, <2>2 DEF HandlerInv
<1>9. \A a \in Actions' : WorkerInv(a)'
  <2>1. \A a \in Actions : pc[a] # "none" => status'.phases[a] = status.phases[a]
    BY <1>4, <1>5, <1>6 DEF Untouched
  <2> QED
    BY <1>1, <2>1, WorkersSame
<1>10. CASE status' = status
  BY <1>1, <1>7, <1>8, <1>9, <1>10, SameObject DEF IInv, ObjectInv
<1>11. CASE status' = st
  <2>1. \A b \in Actions : \A i \in Phases(b) :
          status'.phases[b][i] \in {"failed", status.phases[b][i]}
    BY <1>5, <1>11
  <2>2. CompleteIsExecuted' /\ ExecutedAtMostOnce'
    BY <1>1, <1>3, <2>1 DEF IInv, CompleteIsExecuted, ExecutedAtMostOnce, history
  <2>3. PredecessorsRecorded'
    <3> SUFFICES ASSUME NEW b \in Actions, NEW i \in Phases(b), NEW j \in Phases(b),
                        i < j, execs[b][j] > 0
                 PROVE  status'.phases[b][i] = "complete"
      BY <1>1, <1>3 DEF PredecessorsRecorded, history
    <3>1. b # next
      BY <1>4 DEF Untouched
    <3> QED
      BY <1>5, <1>11, <3>1 DEF IInv, PredecessorsRecorded
  <2>4. CompleteMeansExecuted' /\ FailureIsReported'
    BY <1>3, <1>5, <1>11 DEF CompleteMeansExecuted, FailureIsReported
  <2>5. StatusStaysValid'
    <3>1. Validate(status)
      BY <1>4 DEF IInv, StatusStaysValid
    <3>2. ASSUME NEW b \in Actions PROVE ValidPhases(st.phases[b])
      <4>1. CASE b # next
        BY <1>4, <1>5, <3>1, <4>1 DEF Validate
      <4>2. CASE b = next
        <5>1. DOMAIN st.phases[b] = Phases(b)
          BY <1>5, PhaseMapFacts DEF StatusType
        <5>2. Phases(b) = 1..Len(spec[b].phases) /\ Len(spec[b].phases) \in Nat
          BY SpecFacts DEF IInv, TypeOK
        <5>3. \A i \in Phases(b) : i # 1 => st.phases[b][i] = "pending"
          BY <1>4, <1>5, <4>2 DEF Untouched
        <5> QED
          BY <5>1, <5>2, <5>3 DEF ValidPhases
      <4> QED
        BY <4>1, <4>2
    <3> QED
      BY <1>3, <1>4, <1>5, <1>11, <3>2 DEF StatusStaysValid, Validate
  <2> QED
    BY <1>7, <1>8, <1>9, <2>2, <2>3, <2>4, <2>5 DEF IInv
<1> QED
  BY <1>6, <1>10, <1>11

=============================================================================
