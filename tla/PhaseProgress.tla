--------------------------- MODULE PhaseProgress ---------------------------
(***************************************************************************)
(* The progress of an ActionSet (pkg/progress/action.go).  While a phase   *)
(* executes, a tracker goroutine wakes up now and then, asks the function  *)
(* of the phase for its progress and writes it into the status with        *)
(* reconcile.ActionSet; runAction stops the tracker when the function has  *)
(* returned and records the final progress itself.                         *)
(*                                                                         *)
(* The functions are registered once (kanister.Register), so all phases    *)
(* that use a function read and set the progress of one shared instance.   *)
(***************************************************************************)
EXTENDS Integers, Sequences, FiniteSetsExt

CONSTANT
    Settings  \* what is looked at: actions, and the kinds of fault that may happen

ASSUME SettingsAssumption ==
    \A s \in Settings :
      /\ \A a \in DOMAIN s.plan : \A i, j \in DOMAIN s.plan[a] :
           i # j => s.plan[a][i].name # s.plan[a][j].name
      /\ s.faults \subseteq {"api", "params", "render", "exec"}

VARIABLES
    plan,      \* the actions: sequences of phases, each with a name and the
               \* function it uses; names are distinct within an action
    faults,    \* the kinds of fault that may happen
    phases,    \* Status.Actions[a].Phases[i]: state and ProgressPercent
    percent,   \* Status.Progress.PercentCompleted
    version,   \* the object's resourceVersion
    func,      \* progressPercent of each function instance
    pc, cur,   \* the goroutine of each action and the phase it is at
    execErr,   \* the current phase failed
    rval, rver,\* the progress and the resourceVersion its reconcile has read
    tpc,       \* the tracker of each phase
    tval,      \* the progress the tracker is about to write
    tver,      \* the resourceVersion its reconcile has read
    cancelled  \* the phases whose tracker's context is cancelled

object  == <<phases, percent, version>>
worker  == <<pc, cur, execErr, rval, rver, func>>
tracker == <<tpc, tval, tver>>
setting == <<plan, faults>>
vars    == <<setting, object, worker, tracker, cancelled>>

Unset     == -1      \* the empty string
Started   == 0
Completed == 100

Actions  == DOMAIN plan
All      == UNION {{a} \X DOMAIN plan[a] : a \in Actions}
Name(p)  == plan[p[1]][p[2]].name
Func(p)  == plan[p[1]][p[2]].func
Funcs    == {Func(p) : p \in All}
Percents == {Unset, Started, Completed}

-----------------------------------------------------------------------------
(* The calculations of pkg/progress *)

\* SetActionSetPercentCompleted: a phase without progress counts as nothing.
Average(ph) ==
    MapThenSumSet(LAMBDA p : IF ph[p].percent = Unset THEN 0 ELSE ph[p].percent, All)
        \div Cardinality(All)

CompletedOrFailed(p) == phases[p].state \in {"failed", "complete"}

\* setActionSetPhaseProgress: every phase of that name, in every action.
SetProgress(ph, name, value) ==
    [p \in All |-> IF Name(p) = name /\ ph[p].state \notin {"pending", "failed"}
                   THEN [ph[p] EXCEPT !.percent = value] ELSE ph[p]]

-----------------------------------------------------------------------------
(* The object *)

Write(ph, pct) ==
    /\ phases' = ph
    /\ percent' = pct
    /\ version' = IF <<ph, pct>> = <<phases, percent>> THEN version ELSE version + 1

Init ==
    /\ \E s \in Settings : plan = s.plan /\ faults = s.faults
    /\ phases = [p \in All |-> [state |-> "pending", percent |-> Unset]]
    /\ percent = Unset
    /\ version = 0
    /\ func = [f \in Funcs |-> Unset]
    /\ pc = [a \in Actions |-> "mark"]
    /\ cur = [a \in Actions |-> 1]
    /\ execErr = [a \in Actions |-> FALSE]
    /\ rval = [a \in Actions |-> Unset]
    /\ rver = [a \in Actions |-> 0]
    /\ tpc = [p \in All |-> "off"]
    /\ tval = [p \in All |-> Unset]
    /\ tver = [p \in All |-> 0]
    /\ cancelled = {}

-----------------------------------------------------------------------------
(* The goroutine of action a *)

\* The parameters of the phase cannot be initialised: it fails before it runs.
ParamsFail(a) ==
    /\ pc[a] = "mark" /\ cur[a] \in DOMAIN plan[a] /\ "params" \in faults
    /\ execErr' = [execErr EXCEPT ![a] = TRUE]
    /\ pc' = [pc EXCEPT ![a] = "record"]
    /\ UNCHANGED <<object, cur, rval, rver, func, tracker, cancelled>>

\* The phase is marked as running (updateActionSetRunningPhase only logs an
\* error of its reconcile) and its tracker is started.
StartPhase(a) ==
    LET p == <<a, cur[a]>>
    IN  /\ pc[a] = "mark" /\ cur[a] \in DOMAIN plan[a]
        /\ \/ Write([phases EXCEPT ![p].state = "running"], percent)
           \/ "api" \in faults /\ UNCHANGED object
        /\ tpc' = [tpc EXCEPT ![p] = "wait"]
        /\ pc' = [pc EXCEPT ![a] = "start"]
        /\ UNCHANGED <<cur, execErr, rval, rver, func, tval, tver, cancelled>>

\* What follows the return of Phase.Exec: doneProgressTrack.
ExecReturns(a, err) ==
    /\ execErr' = [execErr EXCEPT ![a] = err]
    /\ cancelled' = cancelled \cup {<<a, cur[a]>>}
    /\ pc' = [pc EXCEPT ![a] = "record"]
    /\ UNCHANGED <<object, cur, rval, rver, tracker>>

\* The arguments of the phase cannot be rendered: its function is not called.
RenderFails(a) ==
    /\ pc[a] = "start" /\ "render" \in faults
    /\ ExecReturns(a, TRUE)
    /\ UNCHANGED func

\* Exec of the function sets its progress to 0 ...
ExecStart(a) ==
    /\ pc[a] = "start"
    /\ func' = [func EXCEPT ![Func(<<a, cur[a]>>)] = Started]
    /\ pc' = [pc EXCEPT ![a] = "exec"]
    /\ UNCHANGED <<object, cur, execErr, rval, rver, tracker, cancelled>>

\* ... and, by a deferred statement, to 100 when it returns, with an error or
\* without.
ExecEnd(a) ==
    /\ pc[a] = "exec"
    /\ func' = [func EXCEPT ![Func(<<a, cur[a]>>)] = Completed]
    /\ \E err \in BOOLEAN : (err => "exec" \in faults) /\ ExecReturns(a, err)

\* The reconcile that records the outcome reads the object, and its callback
\* the progress of the function ...
RecordGet(a) ==
    /\ pc[a] = "record"
    /\ rver' = [rver EXCEPT ![a] = version]
    /\ rval' = [rval EXCEPT ![a] = func[Func(<<a, cur[a]>>)]]
    /\ pc' = [pc EXCEPT ![a] = "write"]
    /\ UNCHANGED <<object, cur, execErr, func, tracker, cancelled>>

\* The goroutine leaves the reconcile, or its attempt.
RecordTo(a, at) ==
    /\ pc' = [pc EXCEPT ![a] = at]
    /\ rval' = [rval EXCEPT ![a] = Unset]
    /\ rver' = [rver EXCEPT ![a] = 0]

\* Mutant: the percentage is computed before the progress is set.
RecordCompleteEarlyPercent(a) ==
    LET p    == <<a, cur[a]>>
        done == [phases EXCEPT ![p] = [state |-> "complete", percent |-> rval[a]]]
    IN  /\ pc[a] = "write" /\ rver[a] = version /\ ~execErr[a]
        /\ Write(done, Average(phases))
        /\ cur' = [cur EXCEPT ![a] = @ + 1]
        /\ RecordTo(a, "mark")
        /\ UNCHANGED <<execErr, func, tracker, cancelled>>

\* ... which is the final progress of a phase that succeeded.
RecordComplete(a) ==
    LET p    == <<a, cur[a]>>
        done == [phases EXCEPT ![p] = [state |-> "complete", percent |-> rval[a]]]
    IN  /\ pc[a] = "write" /\ rver[a] = version /\ ~execErr[a]
        /\ Write(done, Average(done))
        /\ cur' = [cur EXCEPT ![a] = @ + 1]
        /\ RecordTo(a, "mark")
        /\ UNCHANGED <<execErr, func, tracker, cancelled>>

\* A phase that failed keeps its progress, and ends the action.
RecordFailed(a) ==
    /\ pc[a] = "write" /\ rver[a] = version /\ execErr[a]
    /\ Write([phases EXCEPT ![<<a, cur[a]>>].state = "failed"], percent)
    /\ RecordTo(a, "done")
    /\ UNCHANGED <<cur, execErr, func, tracker, cancelled>>

RecordConflict(a) ==
    /\ pc[a] = "write" /\ rver[a] # version
    /\ RecordTo(a, "record")
    /\ UNCHANGED <<object, cur, execErr, func, tracker, cancelled>>

\* The reconcile fails: the action ends.
RecordFails(a) ==
    /\ pc[a] \in {"record", "write"} /\ "api" \in faults
    /\ RecordTo(a, "done")
    /\ UNCHANGED <<object, cur, execErr, func, tracker, cancelled>>

-----------------------------------------------------------------------------
(* The tracker of phase p: UpdateActionSetsProgress *)

\* The tracker is at a new point; what it has read is only kept while in use.
At(p, at, value, ver) ==
    /\ tpc' = [tpc EXCEPT ![p] = at]
    /\ tval' = [tval EXCEPT ![p] = value]
    /\ tver' = [tver EXCEPT ![p] = ver]

\* updateActionProgress up to its reconcile: it reads the object to see whether
\* the phase is over, and the progress of the function.
Tick(p) ==
    /\ tpc[p] = "wait" /\ p \notin cancelled
    /\ IF CompletedOrFailed(p) THEN At(p, "done", Unset, 0) ELSE At(p, "get", func[Func(p)], 0)
    /\ UNCHANGED <<object, worker, cancelled>>

\* The Get of reconcile.ActionSet.
TrackerGet(p) ==
    /\ tpc[p] = "get" /\ p \notin cancelled
    /\ At(p, "update", tval[p], version)
    /\ UNCHANGED <<object, worker, cancelled>>

\* Mutant: the version is not checked.
TrackerUpdateBlind(p) ==
    LET new == SetProgress(phases, Name(p), tval[p])
    IN  /\ tpc[p] = "update"
        /\ Write(new, IF new = phases THEN percent ELSE Average(new))
        /\ At(p, "wait", Unset, 0)
        /\ UNCHANGED <<worker, cancelled>>

\* Mutant: the percentage is left to the goroutines of the actions.
TrackerUpdatePhaseOnly(p) ==
    /\ tpc[p] = "update"
    /\ tver[p] = version
    /\ Write(SetProgress(phases, Name(p), tval[p]), percent)
    /\ At(p, "wait", Unset, 0)
    /\ UNCHANGED <<worker, cancelled>>

\* Its Update.  The request may be on its way when the context is cancelled.
TrackerUpdate(p) ==
    LET new == SetProgress(phases, Name(p), tval[p])
    IN  /\ tpc[p] = "update"
        /\ tver[p] = version
        /\ Write(new, IF new = phases THEN percent ELSE Average(new))
        /\ At(p, "wait", Unset, 0)
        /\ UNCHANGED <<worker, cancelled>>

\* A conflict: reconcile.ActionSet starts over.
TrackerConflict(p) ==
    /\ tpc[p] = "update" /\ p \notin cancelled
    /\ tver[p] # version
    /\ At(p, "get", tval[p], 0)
    /\ UNCHANGED <<object, worker, cancelled>>

\* The context is done: the loop returns, or the next request fails.
TrackerCancelled(p) ==
    /\ tpc[p] \in {"wait", "get", "update"} /\ p \in cancelled
    /\ At(p, "done", Unset, 0)
    /\ UNCHANGED <<object, worker, cancelled>>

\* A request of the tracker fails: UpdateActionSetsProgress returns the error.
TrackerFails(p) ==
    /\ tpc[p] \in {"wait", "get", "update"} /\ "api" \in faults
    /\ At(p, "done", Unset, 0)
    /\ UNCHANGED <<object, worker, cancelled>>

Worker(a) ==
    \/ ParamsFail(a) \/ StartPhase(a) \/ RenderFails(a) \/ ExecStart(a) \/ ExecEnd(a)
    \/ RecordGet(a) \/ RecordComplete(a) \/ RecordFailed(a) \/ RecordConflict(a)
    \/ RecordFails(a)

Tracker(p) ==
    \/ Tick(p) \/ TrackerGet(p) \/ TrackerUpdate(p) \/ TrackerConflict(p)
    \/ TrackerCancelled(p) \/ TrackerFails(p)

Next ==
    /\ (\E a \in Actions : Worker(a)) \/ (\E p \in All : Tracker(p))
    /\ UNCHANGED setting

Spec == Init /\ [][Next]_vars

-----------------------------------------------------------------------------
(* Properties *)

\* The percentage of the ActionSet is the average of what its phases show,
\* whichever of the concurrent writers, trackers or goroutines, wrote last.
PercentIsAverage ==
    percent = Average(phases) \/ \A p \in All : phases[p].percent = Unset

\* The phases of different actions have different names and functions.
Separate ==
    \A p, q \in All : p[1] # q[1] => Name(p) # Name(q) /\ Func(p) # Func(q)

\* The progress a phase is recorded as complete with stands: no tracker, late
\* and with the value it read before, overwrites it.  If two actions have a phase
\* of the same name, the tracker of one does write the progress of both.
FinalProgressStands ==
    [][\A p \in All : phases[p].state = "complete" /\ Separate =>
           phases'[p].percent = phases[p].percent]_vars

\* What the comment on PercentCompleted says: it assesses the completed phases
\* against all phases, so that it is 100 when all are complete.  If two actions
\* use the same function, a phase may be recorded with the progress of the other.
AllCompleteIsHundred ==
    (\A p \in All : phases[p].state = "complete") /\ Separate => percent = Completed

=============================================================================
