---------------------------- MODULE PhaseProofs ----------------------------
(***************************************************************************)
(* The three steps of a phase, which mark it, execute it and record its    *)
(* outcome, preserve the inductive invariant of ActionSetController.       *)
(***************************************************************************)
EXTENDS WorkerProofs

LEMMA ExecPhaseInv ==
    ASSUME IInv, NEW a \in Actions, ExecPhase(a)
    PROVE  IInv'
<1> USE DEF ExecPhase, handler, bounds, api
<1>1. pc[a] # "none" /\ spec' = spec /\ status' = status /\ version' = version
  OBVIOUS
<1>2. Actions' = Actions /\ \A b : Phases(b)' = Phases(b)
  BY SameShape
<1>3. /\ cur[a] \in Phases(a) /\ execs[a][cur[a]] = 0 /\ deferExecs[a] = 0
      /\ cur[a] \in 1..Len(spec[a].phases) + 1
      /\ \A i \in Phases(a) : /\ i < cur[a] => status.phases[a][i] = "complete"
                              /\ i > cur[a] => execs[a][i] = 0
  BY DEF IInv, WorkerInv
<1>4. /\ execs'[a][cur[a]] = 1
      /\ \A i \in Phases(a) : i # cur[a] => execs'[a][i] = execs[a][i]
      /\ \A b \in Actions : b # a => execs'[b] = execs[b]
  BY <1>3 DEF IInv, TypeOK
<1>5. TypeOK'
  <2>1. status' \in StatusType' /\ version' \in Nat
    BY ApiStep DEF IInv, TypeOK
  <2>2. phaseErr' \in [Actions -> BOOLEAN] /\ pc' \in [Actions -> WorkerSteps]
    BY DEF IInv, TypeOK, WorkerSteps
  <2>3. DOMAIN execs' = Actions /\ \A b \in Actions : execs'[b] \in [Phases(b) -> Nat]
    BY <1>3 DEF IInv, TypeOK
  <2> QED
    BY Zenon, <2>1, <2>2, <2>3, WorkerType DEF IInv, TypeOK
<1>6. HandlerInv' /\ \A b \in Actions : b # a => WorkerInv(b)'
  <2>1. OthersSame(a)
    BY SMTT(40), <1>1, <1>4 DEF OthersSame, IInv, TypeOK
  <2> QED
    BY <1>1, <2>1, OthersUndisturbed
<1>7. WorkerInv(a)'
  <2>1. pc'[a] = "record" /\ cur' = cur /\ deferExecs' = deferExecs
    BY DEF IInv, TypeOK
  <2> QED
    BY SMTT(40), <1>1, <1>2, <1>3, <1>4, <2>1, SpecFacts DEF IInv, TypeOK, WorkerInv
<1>8. CompleteIsExecuted'
  BY <1>1, <1>2, <1>4 DEF IInv, CompleteIsExecuted
<1>9. ExecutedAtMostOnce'
  BY <1>2, <1>4 DEF IInv, ExecutedAtMostOnce
<1>10. PredecessorsRecorded'
  <2> SUFFICES ASSUME NEW b \in Actions, NEW i \in Phases(b), NEW j \in Phases(b),
                      i < j, execs'[b][j] > 0
               PROVE  status.phases[b][i] = "complete"
    BY <1>1, <1>2 DEF PredecessorsRecorded
  <2>1. CASE b # a \/ j # cur[a]
    BY <1>4, <2>1 DEF IInv, PredecessorsRecorded
  <2>2. CASE b = a /\ j = cur[a]
    BY <1>3, <2>2
  <2> QED
    BY <2>1, <2>2
<1>11. CompleteMeansExecuted'
  BY <1>1, <1>2, <1>3 DEF IInv, CompleteMeansExecuted
<1>12. FailureIsReported' /\ StatusStaysValid'
  BY <1>1, <1>2 DEF IInv, FailureIsReported, StatusStaysValid, Validate
<1> QED
  BY <1>2, <1>5, <1>6, <1>7, <1>8, <1>9, <1>10, <1>11, <1>12 DEF IInv

LEMMA MarkPhaseInv ==
    ASSUME IInv, NEW a \in Actions, MarkPhase(a)
    PROVE  IInv'
<1> USE DEF MarkPhase, Goto, handler, bounds, history
<1> DEFINE st == MarkRunning(status, a, spec[a].phases[cur[a]])
<1>1. pc[a] # "none" /\ spec' = spec /\ execs' = execs /\ deferExecs' = deferExecs
  OBVIOUS
<1>2. Actions' = Actions /\ \A b : Phases(b)' = Phases(b)
  BY SameShape
<1>3. /\ cur[a] \in Phases(a) /\ execs[a][cur[a]] = 0 /\ deferExecs[a] = 0
      /\ cur[a] \in 1..Len(spec[a].phases) + 1
      /\ \A i \in Phases(a) : /\ i < cur[a] => status.phases[a][i] = "complete"
                              /\ i > cur[a] => execs[a][i] = 0
  BY DEF IInv, WorkerInv
<1>4. /\ st \in StatusType /\ st.state = status.state /\ st.populated = status.populated
      /\ st.defer = status.defer
      /\ \A b \in Actions : b # a => st.phases[b] = status.phases[b]
      /\ \A i \in Phases(a) : st.phases[a][i] \in {"running", status.phases[a][i]}
      /\ st.phases[a][cur[a]] = "running"
  <2>1. status \in StatusType /\ spec[a].phases[cur[a]] \in Names
    BY <1>3, SpecFacts DEF IInv, TypeOK
  <2>2. \A name \in Names :
          LET new == MarkRunning(status, a, name)
          IN  /\ new \in StatusType /\ new.state = status.state
              /\ new.populated = status.populated /\ new.defer = status.defer
              /\ \A b \in Actions : b # a => new.phases[b] = status.phases[b]
              /\ \A i \in Phases(a) : new.phases[a][i] =
                   IF spec[a].phases[i] = name THEN "running" ELSE status.phases[a][i]
    BY <2>1, MarkRunningEffect
  <2>3. \A i \in Phases(a) : st.phases[a][i] =
          IF spec[a].phases[i] = spec[a].phases[cur[a]] THEN "running"
                                                        ELSE status.phases[a][i]
    BY <2>1, <2>2, Zenon
  <2>4. /\ st \in StatusType /\ st.state = status.state /\ st.populated = status.populated
        /\ st.defer = status.defer
        /\ \A b \in Actions : b # a => st.phases[b] = status.phases[b]
    BY <2>1, <2>2, Zenon
  <2> HIDE DEF st
  <2> QED
    BY <1>3, <2>3, <2>4
<1>5. UNCHANGED api \/ (Write(st) /\ Validate(st))
  BY ReconcileEffect
<1> HIDE DEF st
<1>6. /\ status' \in StatusType' /\ version' \in Nat /\ version <= version'
      /\ status' = status \/ (status' = st /\ Validate(st))
  BY <1>1, <1>4, <1>5, ApiStep DEF IInv, api
<1>7. TypeOK'
  BY Zenon, <1>6, WorkerType DEF IInv, TypeOK, WorkerSteps
<1>8. HandlerInv' /\ \A b \in Actions : b # a => WorkerInv(b)'
  <2>1. OthersSame(a)
    BY SMTT(40), <1>1, <1>4, <1>6 DEF OthersSame, IInv, TypeOK
  <2> QED
    BY <1>1, <2>1, OthersUndisturbed
\* A second phase of the same name would be marked too, and refused.
<1>9. ASSUME NEW i \in Phases(a), i < cur[a]
      PROVE  status'.phases[a][i] = "complete"
  <2>1. CASE status' = status
    BY <1>3, <1>9, <2>1
  <2>2. CASE status' = st /\ Validate(st)
    <3>1. ValidPhases(st.phases[a])
      <4>1. st.state # "none"
        BY <1>1, <1>4, WorkerStarted
      <4> QED
        BY SMTT(40), <2>2, <4>1 DEF Validate
    <3>2. DOMAIN st.phases[a] = Phases(a)
      BY SMTT(40), <1>4, PhaseMapFacts DEF StatusType
    <3>3. st.phases[a][i] = "complete"
      BY SMTT(40), <1>3, <1>4, <1>9, <3>1, <3>2 DEF ValidPhases
    <3> QED
      BY <2>2, <3>3
  <2> QED
    BY <1>6, <2>1, <2>2
<1>10. \A b \in Actions : \A i \in Phases(b) :
         status'.phases[b][i] \in {"running", status.phases[b][i]}
  BY <1>4, <1>6
<1>11. status'.state = status.state /\ status'.defer = status.defer
  BY SMTT(40), <1>4, <1>6
<1>12. WorkerInv(a)'
  <2>1. pc'[a] = "exec" /\ cur' = cur
    BY SMTT(40) DEF IInv, TypeOK
  <2> QED
    BY SMTT(40), <1>1, <1>2, <1>3, <1>9, <2>1, SpecFacts DEF IInv, TypeOK, WorkerInv
<1>13. CompleteIsExecuted' /\ ExecutedAtMostOnce'
  BY SMTT(40), <1>1, <1>2, <1>10 DEF IInv, CompleteIsExecuted, ExecutedAtMostOnce
<1>14. PredecessorsRecorded'
  <2> SUFFICES ASSUME NEW b \in Actions, NEW i \in Phases(b), NEW j \in Phases(b),
                      i < j, execs[b][j] > 0
               PROVE  status'.phases[b][i] = "complete"
    BY <1>1, <1>2 DEF PredecessorsRecorded
  <2>1. CASE b # a
    <3>1. status'.phases[b] = status.phases[b]
      BY SMTT(40), <1>4, <1>6, <2>1
    <3> QED
      BY SMTT(40), <3>1 DEF IInv, PredecessorsRecorded
  <2>2. CASE b = a
    <3>1. cur[a] \in Nat /\ i \in Nat /\ j \in Nat
      <4>1. Phases(a) = 1..Len(spec[a].phases) /\ Len(spec[a].phases) \in Nat
        BY SMTT(40), SpecFacts DEF IInv, TypeOK
      <4> QED
        BY SMTT(40), <2>2, <4>1, <1>3
    <3>2. j \in Phases(a) /\ execs[a][j] > 0
      BY <2>2
    <3>3. ~(j > cur[a]) /\ j # cur[a]
      BY <1>3, <3>2
    <3> QED
      BY SMTT(40), <2>2, <3>1, <3>3, <1>9
  <2> QED
    BY <2>1, <2>2
<1>15. CompleteMeansExecuted'
  BY SMTT(40), <1>2, <1>3, <1>11 DEF IInv, CompleteMeansExecuted
<1>16. FailureIsReported'
  BY <1>2, <1>10, <1>11 DEF IInv, FailureIsReported
<1>17. StatusStaysValid'
  <2>1. Validate(status)
    BY SMTT(40), <1>1, WorkerStarted DEF IInv, StatusStaysValid
  <2>2. Validate(status)'
    BY <1>2, <1>6, <2>1 DEF Validate
  <2> QED
    BY <2>2 DEF StatusStaysValid
<1> QED
  BY <1>2, <1>7, <1>8, <1>12, <1>13, <1>14, <1>15, <1>16, <1>17 DEF IInv

LEMMA RecordPhaseInv ==
    ASSUME IInv, NEW a \in Actions, RecordPhase(a)
    PROVE  IInv'
<1> USE DEF RecordPhase, handler, bounds, history
<1> DEFINE st == IF phaseErr[a] THEN PhaseFailed(status, a, cur[a])
                                ELSE PhaseComplete(status, a, cur[a])
<1>1. pc[a] # "none" /\ spec' = spec /\ execs' = execs /\ deferExecs' = deferExecs
  OBVIOUS
<1>2. Actions' = Actions /\ \A b : Phases(b)' = Phases(b)
  BY SameShape
<1>3. /\ cur[a] \in Phases(a) /\ deferExecs[a] = 0
      /\ ~phaseErr[a] => execs[a][cur[a]] = 1
      /\ \A i \in Phases(a) : /\ i < cur[a] => status.phases[a][i] = "complete"
                              /\ i > cur[a] => execs[a][i] = 0
  BY DEF IInv, WorkerInv
<1>4. /\ st \in StatusType /\ st.populated = status.populated /\ st.defer = status.defer
      /\ \A b \in Actions : b # a => st.phases[b] = status.phases[b]
      /\ \A i \in Phases(a) : i # cur[a] => st.phases[a][i] = status.phases[a][i]
  BY SMTT(40), <1>3, SetPhaseEffect DEF IInv, TypeOK
<1>5. \/ /\ phaseErr[a] /\ st.state = "failed"
         /\ st.phases[a][cur[a]] = "failed"
      \/ /\ ~phaseErr[a] /\ st.state = status.state
         /\ st.phases[a][cur[a]] = "complete"
  BY <1>3, SetPhaseValue DEF IInv, TypeOK
<1>6. PICK err \in BOOLEAN :
        /\ Reconcile(st, err)
        /\ IF phaseErr[a] \/ err
           THEN /\ coreErr' = [coreErr EXCEPT ![a] = TRUE]
                /\ pc' = [pc EXCEPT ![a] = "defer"]
                /\ UNCHANGED cur
           ELSE /\ cur' = [cur EXCEPT ![a] = @ + 1]
                /\ pc' = [pc EXCEPT ![a] = "phase"]
                /\ UNCHANGED coreErr
  OBVIOUS
<1>7. UNCHANGED phaseErr /\ UNCHANGED deferErr /\ UNCHANGED resolution
      /\ UNCHANGED notified /\ UNCHANGED <<hpc, hver, next, launchErr, crashes, edits>>
  OBVIOUS
<1> HIDE DEF st, RecordPhase
<1>8. /\ status' \in StatusType' /\ version' \in Nat /\ version <= version'
      /\ status' = status \/ (status' = st /\ Validate(st))
  <2>1. UNCHANGED api \/ (Write(st) /\ Validate(st))
    BY <1>6, ReconcileEffect
  <2> QED
    BY <1>1, <1>4, <2>1, ApiStep DEF IInv, api
<1>9. ~err => status' = st
  BY Zenon, <1>6, ReconcileOk DEF Write
<1>10. TypeOK'
  <2>1. /\ pc' \in [Actions -> WorkerSteps] /\ cur' \in [Actions -> Nat]
        /\ coreErr' \in [Actions -> BOOLEAN]
    <3>1. pc \in [Actions -> WorkerSteps] /\ cur \in [Actions -> Nat]
          /\ coreErr \in [Actions -> BOOLEAN]
      BY DEF IInv, TypeOK
    <3>2. pc' \in [Actions -> WorkerSteps]
      BY <1>6, <3>1 DEF WorkerSteps
    <3>3. cur' \in [Actions -> Nat]
      BY <1>6, <3>1
    <3>4. coreErr' \in [Actions -> BOOLEAN]
      BY Zenon, <1>6, <3>1
    <3> QED
      BY <3>2, <3>3, <3>4
  <2> QED
    BY Zenon, <1>1, <1>7, <1>8, <2>1, WorkerType DEF IInv, TypeOK
<1>11. HandlerInv' /\ \A b \in Actions : b # a => WorkerInv(b)'
  <2>1. OthersSame(a)
    BY <1>1, <1>4, <1>5, <1>6, <1>7, <1>8 DEF OthersSame, IInv, TypeOK
  <2> QED
    BY <1>1, <2>1, OthersUndisturbed
<1>12. \A i \in Phases(a) : i # cur[a] => status'.phases[a][i] = status.phases[a][i]
  BY <1>4, <1>8
<1>13. cur[a] \in 1..Len(spec[a].phases) /\ Phases(a) = 1..Len(spec[a].phases)
       /\ Len(spec[a].phases) \in Nat
  BY SMTT(40), <1>3, SpecFacts DEF IInv, TypeOK
<1>14. WorkerInv(a)'
  <2>1. CASE phaseErr[a] \/ err
    <3>1. pc'[a] = "defer"
      BY <1>6, <2>1 DEF IInv, TypeOK
    <3> QED
      BY <1>1, <1>3, <3>1 DEF WorkerInv
  <2>2. CASE ~phaseErr[a] /\ ~err
    <3>1. pc'[a] = "phase" /\ cur'[a] = cur[a] + 1
      BY <1>6, <2>2 DEF IInv, TypeOK
    <3>2. \A i \in Phases(a) : i < cur[a] + 1 => status'.phases[a][i] = "complete"
      BY <1>3, <1>5, <1>9, <1>12, <1>13, <2>2
    <3> QED
      BY SMTT(40), <1>1, <1>2, <1>3, <1>13, <3>1, <3>2 DEF WorkerInv
  <2> QED
    BY <2>1, <2>2
<1>15. CompleteIsExecuted' /\ ExecutedAtMostOnce'
  <2>1. ASSUME NEW b \in Actions, NEW i \in Phases(b), status'.phases[b][i] = "complete"
        PROVE  execs[b][i] = 1
    <3>1. CASE b = a /\ i = cur[a] /\ status' = st
      BY <1>3, <1>5, <2>1, <3>1
    <3>2. CASE ~(b = a /\ i = cur[a] /\ status' = st)
      BY <1>4, <1>8, <2>1, <3>2 DEF IInv, CompleteIsExecuted
    <3> QED
      BY <3>1, <3>2
  <2> QED
    BY <1>1, <1>2, <2>1 DEF IInv, CompleteIsExecuted, ExecutedAtMostOnce
<1>16. PredecessorsRecorded'
  <2> SUFFICES ASSUME NEW b \in Actions, NEW i \in Phases(b), NEW j \in Phases(b),
                      i < j, execs[b][j] > 0
               PROVE  status'.phases[b][i] = "complete"
    BY <1>1, <1>2 DEF PredecessorsRecorded
  <2>1. status.phases[b][i] = "complete"
    BY DEF IInv, PredecessorsRecorded
  <2>2. ~(b = a /\ i = cur[a])
    BY <1>3
  <2> QED
    BY <1>4, <1>8, <2>1, <2>2
<1>17. CompleteMeansExecuted'
  BY <1>1, <1>2, <1>4, <1>5, <1>8 DEF IInv, CompleteMeansExecuted
<1>18. FailureIsReported'
  BY <1>2, <1>4, <1>5, <1>8 DEF IInv, FailureIsReported
<1>19. StatusStaysValid'
  <2>1. Validate(status)
    BY <1>1, WorkerStarted DEF IInv, StatusStaysValid
  <2>2. Validate(status)'
    BY <1>2, <1>8, <2>1 DEF Validate
  <2> QED
    BY <2>2 DEF StatusStaysValid
<1> QED
  BY <1>2, <1>10, <1>11, <1>14, <1>15, <1>16, <1>17, <1>18, <1>19 DEF IInv

=============================================================================
