------------------------- MODULE ActionSetController -------------------------
(***************************************************************************)
(* The life of one ActionSet inside the Kanister controller                *)
(* (pkg/controller/controller.go).  The API server keeps the object; the   *)
(* controller runs one handler goroutine (onAddActionSet) and, for every   *)
(* action of the ActionSet, one goroutine (the closure of runAction) that  *)
(* executes the phases of the action in order and then its deferPhase.     *)
(*                                                                         *)
(* Every goroutine changes the object through reconcile.ActionSet, one     *)
(* atomic read-modify-write here; module ReconcileLoop models the          *)
(* Get / Update / conflict loop and shows that it implements this.  The    *)
(* handler's three plain Updates carry the resource version they read.     *)
(***************************************************************************)
EXTENDS Integers, Sequences

CONSTANTS
    Names,       \* the names of phases
    Specs,       \* the ActionSets considered: sequences of actions, each a
                 \* record of its phase names and its deferPhase name
    Faults,      \* the kinds of fault that may happen (see FaultKinds)
    MaxCrashes,  \* bound: restarts of the controller process
    MaxEdits     \* bound: updates of the object's metadata by its owner

NoPhase == ""    \* Progress.RunningPhase or DeferPhase.Name when unset

ActionSpecs == [phases : Seq(Names), defer : Names \cup {NoPhase}]

FaultKinds ==
    {"api",        \* a request to the API server fails and changes nothing
     "lostReply",  \* an Update is applied but its caller sees an error
     "blueprint",  \* a Blueprint cannot be read, or lacks the action
     "launch",     \* param.New, GetPhases or GetDeferPhase fails
     "params",     \* InitPhaseParams fails
     "exec",       \* the function of a phase fails
     "deferExec",  \* the function of a deferPhase fails
     "render"}     \* the output artifacts do not render

ASSUME ConstantsAssumption ==
    /\ Specs \subseteq Seq(ActionSpecs)
    /\ Faults \subseteq FaultKinds
    /\ MaxCrashes \in Nat
    /\ MaxEdits \in Nat

\* validatePhaseNames: a deferPhase does not share its name with a phase.
ASSUME DeferNameAssumption ==
    \A s \in Specs : \A a \in DOMAIN s : \A i \in DOMAIN s[a].phases :
        s[a].phases[i] # s[a].defer

VARIABLES
    spec,       \* as.Spec, fixed when the ActionSet is created
    status,     \* as.Status in the API server
    version,    \* the object's resourceVersion
    hpc,        \* what the handler goroutine does next
    hver,       \* resourceVersion of the copy the handler holds
    next,       \* the action handleActionSet launches next
    launchErr,  \* what stopped the launch loop, if anything did
    notified,   \* an event that onUpdate may act on is queued
    pc,         \* what the goroutine of each action does next
    cur,        \* the phase each action is at
    phaseErr,   \* err: the current phase of the action failed
    coreErr,    \* coreErr of the goroutine
    deferErr,   \* deferErr of the goroutine
    resolution, \* the label each action added to the resolution metric
    crashes,
    edits,
    execs,      \* history: how often each phase's function was called
    deferExecs  \* history: how often each deferPhase's function was called

api     == <<status, version>>
handler == <<hpc, hver, next, launchErr>>
worker  == <<pc, cur, phaseErr, coreErr, deferErr, resolution>>
history == <<execs, deferExecs>>
bounds  == <<crashes, edits>>
vars    == <<spec, api, handler, notified, worker, bounds, history>>

Actions     == DOMAIN spec
Phases(a)   == DOMAIN spec[a].phases
HasDefer(a) == spec[a].defer # NoPhase

PhaseStates == {"pending", "running", "failed", "complete"}
States      == PhaseStates \cup {"none"}    \* none: as.Status is nil

HandlerSteps == {"idle", "init", "get", "run", "launch", "fail", "done"}
WorkerSteps  == {"none", "phase", "mark", "exec", "record", "defer",
                 "deferExec", "deferRecord", "finish", "render",
                 "complete", "done"}

-----------------------------------------------------------------------------
(* The status of the object *)

\* The status of an ActionSet that has none yet.  "populated" tells whether
\* Status.Actions has an entry for every action of the spec.
NilStatus ==
    [state     |-> "none",
     populated |-> FALSE,
     running   |-> NoPhase,
     phases    |-> [a \in Actions |-> [i \in Phases(a) |-> "pending"]],
     defer     |-> [a \in Actions |-> "pending"],
     rendered  |-> {}]

\* actionSetStatusActions: what follows a phase that is not complete is pending.
ValidPhases(ps) ==
    \A i, j \in DOMAIN ps : i < j /\ ps[i] # "complete" => ps[j] = "pending"

\* validate.ActionSet on an ActionSet whose objects are of known kinds.
Validate(st) ==
    \/ st.state = "none"
    \/ /\ st.populated \/ Actions = {}
       /\ \A a \in Actions : ValidPhases(st.phases[a])
       /\ st.state = "complete" =>
            \A a \in Actions : \A i \in Phases(a) :
                st.phases[a][i] \in {"failed", "complete"}

\* initActionSetStatus, when every blueprint and action is found ...
InitialStatus == [NilStatus EXCEPT !.state = "pending", !.populated = TRUE]

\* ... and when one is not: Status.Actions stays empty.
FailedInitialStatus == [NilStatus EXCEPT !.state = "failed"]

\* The mutation of updateActionSetRunningPhase.
MarkRunning(st, a, name) ==
    [st EXCEPT !.running = name,
               !.phases[a] = [i \in Phases(a) |->
                   IF spec[a].phases[i] = name THEN "running" ELSE @[i]]]

\* The two mutations runAction records a phase with.
PhaseFailed(st, a, i) ==
    [st EXCEPT !.running = NoPhase, !.state = "failed",
               !.phases[a][i] = "failed"]

\* Mutant: completes the phase of that name in every action.
PhaseCompleteByName(st, a, i) ==
    [st EXCEPT !.phases = [b \in Actions |-> [j \in Phases(b) |->
        IF spec[b].phases[j] = spec[a].phases[i] THEN "complete" ELSE @[b][j]]]]

PhaseComplete(st, a, i) ==
    [st EXCEPT !.phases[a][i] = "complete"]

\* Mutant: a failed deferPhase does not fail the ActionSet.
DeferFailedOnly(st, a) ==
    [st EXCEPT !.running = NoPhase, !.defer[a] = "failed"]

\* The two mutations of executeDeferPhase.
DeferFailed(st, a) ==
    [st EXCEPT !.running = NoPhase, !.state = "failed",
               !.defer[a] = "failed"]

DeferComplete(st, a) ==
    [st EXCEPT !.defer[a] = "complete"]

\* The two mutations of renderActionsetArtifacts.  The first is also what
\* handleActionSet writes when a Blueprint cannot be read.
MarkFailed(st) ==
    [st EXCEPT !.running = NoPhase, !.state = "failed"]

ArtifactsRendered(st, a) ==
    [st EXCEPT !.rendered = @ \cup {a}]

\* Mutant: the deferPhase is not one of the phases looked for.
IsCorePhaseInAction(name, a) ==
    \E i \in Phases(a) : spec[a].phases[i] = name

IsPhaseInAction(name, a) ==
    \/ \E i \in Phases(a) : spec[a].phases[i] = name
    \/ spec[a].defer = name

\* Mutant: waits for the deferPhase of actions that have none, too.
AllPhasesAndDefersComplete(st) ==
    \A a \in Actions :
        /\ \A i \in Phases(a) : st.phases[a][i] = "complete"
        /\ st.defer[a] = "complete"

AllPhasesComplete(st) ==
    \A a \in Actions : \A i \in Phases(a) : st.phases[a][i] = "complete"

\* The mutation of maybeSetActionSetStateComplete, which is only reached
\* when neither the phases nor the deferPhase of the action failed.
MaybeComplete(st, a) ==
    [st EXCEPT
        !.running = IF IsPhaseInAction(@, a) THEN NoPhase ELSE @,
        !.state   = IF AllPhasesComplete(st) /\ @ # "failed"
                    THEN "complete" ELSE @]

-----------------------------------------------------------------------------
(* Requests to the API server *)

\* An Update the server accepts; one that changes nothing keeps the version.
Write(st) ==
    /\ status' = st
    /\ version' = IF st = status THEN version ELSE version + 1

\* Mutant: the object is not validated again after the mutation.
ReconcileUnvalidated(st, err) ==
    LET valid == Validate(status)
    IN  \/ ~err /\ valid /\ Write(st)
        \/ err /\ ~valid /\ UNCHANGED api
        \/ err /\ "api" \in Faults /\ UNCHANGED api
        \/ err /\ "lostReply" \in Faults /\ valid /\ Write(st)

\* reconcile.ActionSet with a mutation that yields st; err tells whether its
\* caller gets an error.  The object is validated before and after the
\* mutation, conflicts are retried, any other error ends the loop.
Reconcile(st, err) ==
    LET valid == Validate(status) /\ Validate(st)
    IN  \/ ~err /\ valid /\ Write(st)
        \/ err /\ ~valid /\ UNCHANGED api
        \/ err /\ "api" \in Faults /\ UNCHANGED api
        \/ err /\ "lostReply" \in Faults /\ valid /\ Write(st)

\* A plain Update with the handler's copy: a stale copy is a conflict.
Update(st, err) ==
    \/ ~err /\ hver = version /\ Write(st)
    \/ err /\ hver # version /\ UNCHANGED api
    \/ err /\ "api" \in Faults /\ UNCHANGED api
    \/ err /\ "lostReply" \in Faults /\ hver = version /\ Write(st)

-----------------------------------------------------------------------------
(* The handler goroutine: onAdd, onAddActionSet, handleActionSet *)

Init ==
    /\ spec \in Specs
    /\ status = NilStatus
    /\ version = 0
    /\ hpc = "idle" /\ hver = 0 /\ next = 1 /\ launchErr = "none"
    /\ notified = FALSE
    /\ pc = [a \in Actions |-> "none"]
    /\ cur = [a \in Actions |-> 1]
    /\ phaseErr = [a \in Actions |-> FALSE]
    /\ coreErr = [a \in Actions |-> FALSE]
    /\ deferErr = [a \in Actions |-> FALSE]
    /\ resolution = [a \in Actions |-> "none"]
    /\ crashes = 0 /\ edits = 0
    /\ execs = [a \in Actions |-> [i \in Phases(a) |-> 0]]
    /\ deferExecs = [a \in Actions |-> 0]

\* The informer delivers the object; onAdd starts onAddActionSet, whose first
\* checks look at the delivered copy.
OnAdd ==
    /\ hpc = "idle"
    /\ hver' = version
    /\ hpc' = IF ~Validate(status) THEN "done"
              ELSE IF status.state = "none" THEN "init" ELSE "get"
    /\ UNCHANGED <<spec, api, next, launchErr, notified, worker, bounds, history>>

\* initActionSetStatus; an error of its Update is only logged.
InitActionSetStatus ==
    /\ hpc = "init"
    /\ \E err \in BOOLEAN :
         \/ Update(InitialStatus, err)
         \/ "blueprint" \in Faults /\ Actions # {} /\ Update(FailedInitialStatus, err)
    /\ hpc' = "get"
    /\ UNCHANGED <<spec, hver, next, launchErr, notified, worker, bounds, history>>

\* Mutant: an ActionSet found running is started, too.
GetActionSetResume ==
    /\ hpc = "get"
    /\ hver' = version
    /\ hpc' = IF Validate(status) /\ status.state \in {"pending", "running"}
              THEN "run" ELSE "done"
    /\ UNCHANGED <<spec, api, next, launchErr, notified, worker, bounds, history>>

\* The Get of onAddActionSet and the checks handleActionSet starts with.
GetActionSet ==
    /\ hpc = "get"
    /\ hver' = version
    /\ \/ hpc' = IF Validate(status) /\ status.state = "pending"
                 THEN "run" ELSE "done"
       \/ "api" \in Faults /\ hpc' = "done"
    /\ UNCHANGED <<spec, api, next, launchErr, notified, worker, bounds, history>>

\* Mutant: the error of the Update is ignored.
StartRunningRegardless ==
    /\ hpc = "run"
    /\ \E err \in BOOLEAN : Update([status EXCEPT !.state = "running"], err)
    /\ hpc' = IF Actions = {} THEN "done" ELSE "launch"
    /\ hver' = version'
    /\ notified' = (notified \/ status' # status)
    /\ UNCHANGED <<spec, next, launchErr, worker, bounds, history>>

\* handleActionSet moves the ActionSet to running.  The informer will deliver
\* that change to onUpdate.
StartRunning ==
    /\ hpc = "run"
    /\ \E err \in BOOLEAN :
         /\ Update([status EXCEPT !.state = "running"], err)
         /\ hpc' = IF err \/ Actions = {} THEN "done" ELSE "launch"
    /\ hver' = version'
    /\ notified' = (notified \/ status' # status)
    /\ UNCHANGED <<spec, next, launchErr, worker, bounds, history>>

\* One round of the launch loop of handleActionSet: runAction's synchronous
\* part succeeds and the goroutine of the action starts.
LaunchAction ==
    /\ hpc = "launch"
    /\ pc' = [pc EXCEPT ![next] = "phase"]
    /\ next' = next + 1
    /\ hpc' = IF next = Len(spec) THEN "done" ELSE "launch"
    /\ UNCHANGED <<spec, api, hver, launchErr, notified, cur, phaseErr, coreErr,
                   deferErr, resolution, bounds, history>>

\* The launch loop stops: the Blueprint cannot be read, or runAction fails
\* before it starts the goroutine.  The latter also marks the first phase of
\* the handler's copy as failed.
LaunchFails ==
    /\ hpc = "launch"
    /\ \/ /\ "blueprint" \in Faults
          /\ launchErr' = "blueprint"
          /\ UNCHANGED resolution
       \/ /\ "launch" \in Faults
          /\ Phases(next) # {}
          /\ launchErr' = "runAction"
          /\ resolution' = [resolution EXCEPT ![next] = "failure"]
    /\ hpc' = "fail"
    /\ UNCHANGED <<spec, api, hver, next, notified, pc, cur, phaseErr, coreErr,
                   deferErr, bounds, history>>

\* handleActionSet records the failed launch with the copy it got back when
\* it moved the ActionSet to running.
RecordLaunchFailure ==
    /\ hpc = "fail"
    /\ LET failed == IF launchErr = "runAction"
                     THEN PhaseFailed(status, next, 1)
                     ELSE MarkFailed(status)
       IN  \E err \in BOOLEAN : Update(failed, err)
    /\ hpc' = "done"
    /\ UNCHANGED <<spec, hver, next, launchErr, notified, worker, bounds, history>>

\* onUpdateActionSet has something to do: a running ActionSet without actions.
EmptyIsRunning == Validate(status) /\ Actions = {} /\ status.state = "running"

EmptyComplete == [status EXCEPT !.running = NoPhase, !.state = "complete"]

\* onUpdateActionSet completes a running ActionSet that has no actions; what it
\* does on all other events is logging, so only those that count are queued.
OnUpdate ==
    /\ notified
    /\ notified' = FALSE
    /\ IF EmptyIsRunning THEN Reconcile(EmptyComplete, FALSE) ELSE UNCHANGED api
    /\ UNCHANGED <<spec, handler, worker, bounds, history>>

-----------------------------------------------------------------------------
(* The goroutine of action a, started by runAction *)

\* A step of a that moves only its program counter and the object.
Goto(a, step) ==
    /\ pc' = [pc EXCEPT ![a] = step]
    /\ UNCHANGED <<cur, phaseErr, coreErr, deferErr, resolution>>

\* The head of the phase loop, and InitPhaseParams.
NextPhase(a) ==
    /\ pc[a] = "phase"
    /\ \/ /\ cur[a] \in Phases(a)
          /\ Goto(a, "mark")
       \/ /\ cur[a] \in Phases(a)
          /\ "params" \in Faults
          /\ phaseErr' = [phaseErr EXCEPT ![a] = TRUE]
          /\ pc' = [pc EXCEPT ![a] = "record"]
          /\ UNCHANGED <<cur, coreErr, deferErr, resolution>>
       \/ /\ cur[a] \notin Phases(a)
          /\ Goto(a, "defer")
    /\ UNCHANGED <<spec, api, handler, notified, bounds, history>>

\* updateActionSetRunningPhase for a phase; its error is only logged.
MarkPhase(a) ==
    /\ pc[a] = "mark"
    /\ \E err \in BOOLEAN :
         Reconcile(MarkRunning(status, a, spec[a].phases[cur[a]]), err)
    /\ Goto(a, "exec")
    /\ UNCHANGED <<spec, handler, notified, bounds, history>>

\* p.Exec runs the function of the phase.
ExecPhase(a) ==
    /\ pc[a] = "exec"
    /\ \E err \in BOOLEAN :
         /\ err => "exec" \in Faults
         /\ phaseErr' = [phaseErr EXCEPT ![a] = err]
    /\ execs' = [execs EXCEPT ![a][cur[a]] = @ + 1]
    /\ pc' = [pc EXCEPT ![a] = "record"]
    /\ UNCHANGED <<spec, api, handler, notified, cur, coreErr, deferErr,
                   resolution, bounds, deferExecs>>

\* Mutant: goes on to the next phase although this one was not recorded.
RecordPhaseRegardless(a) ==
    /\ pc[a] = "record"
    /\ \E err \in BOOLEAN :
         Reconcile(IF phaseErr[a] THEN PhaseFailed(status, a, cur[a])
                                  ELSE PhaseComplete(status, a, cur[a]), err)
    /\ IF phaseErr[a]
       THEN /\ coreErr' = [coreErr EXCEPT ![a] = TRUE]
            /\ pc' = [pc EXCEPT ![a] = "defer"]
            /\ UNCHANGED cur
       ELSE /\ cur' = [cur EXCEPT ![a] = @ + 1]
            /\ pc' = [pc EXCEPT ![a] = "phase"]
            /\ UNCHANGED coreErr
    /\ UNCHANGED <<spec, handler, notified, phaseErr, deferErr, resolution,
                   bounds, history>>

\* The outcome of the phase is recorded.  A phase that failed, or whose
\* outcome could not be recorded, ends the loop.
RecordPhase(a) ==
    /\ pc[a] = "record"
    /\ \E err \in BOOLEAN :
         /\ Reconcile(IF phaseErr[a] THEN PhaseFailed(status, a, cur[a])
                                     ELSE PhaseComplete(status, a, cur[a]), err)
         /\ IF phaseErr[a] \/ err
            THEN /\ coreErr' = [coreErr EXCEPT ![a] = TRUE]
                 /\ pc' = [pc EXCEPT ![a] = "defer"]
                 /\ UNCHANGED cur
            ELSE /\ cur' = [cur EXCEPT ![a] = @ + 1]
                 /\ pc' = [pc EXCEPT ![a] = "phase"]
                 /\ UNCHANGED coreErr
    /\ UNCHANGED <<spec, handler, notified, phaseErr, deferErr, resolution,
                   bounds, history>>

\* The deferred closure starts: updateActionSetRunningPhase for the deferPhase,
\* if the action has one.
StartDefer(a) ==
    /\ pc[a] = "defer"
    /\ \/ /\ HasDefer(a)
          /\ \E err \in BOOLEAN :
                Reconcile(MarkRunning(status, a, spec[a].defer), err)
          /\ Goto(a, "deferExec")
       \/ /\ ~HasDefer(a)
          /\ Goto(a, "finish")
          /\ UNCHANGED api
    /\ UNCHANGED <<spec, handler, notified, bounds, history>>

\* executeDeferPhase runs the function of the deferPhase ...
ExecDefer(a) ==
    /\ pc[a] = "deferExec"
    /\ \E err \in BOOLEAN :
         /\ err => "deferExec" \in Faults
         /\ deferErr' = [deferErr EXCEPT ![a] = err]
    /\ deferExecs' = [deferExecs EXCEPT ![a] = @ + 1]
    /\ pc' = [pc EXCEPT ![a] = "deferRecord"]
    /\ UNCHANGED <<spec, api, handler, notified, cur, phaseErr, coreErr,
                   resolution, bounds, execs>>

\* ... and records its outcome.
RecordDefer(a) ==
    /\ pc[a] = "deferRecord"
    /\ \E err \in BOOLEAN :
         /\ Reconcile(IF deferErr[a] THEN DeferFailed(status, a)
                                     ELSE DeferComplete(status, a), err)
         /\ deferErr' = [deferErr EXCEPT ![a] = @ \/ err]
    /\ pc' = [pc EXCEPT ![a] = "finish"]
    /\ UNCHANGED <<spec, handler, notified, cur, phaseErr, coreErr, resolution,
                   bounds, history>>

\* An action with an error is over; one without goes on to its artifacts.
FinishAction(a) ==
    /\ pc[a] = "finish"
    /\ IF coreErr[a] \/ deferErr[a]
       THEN /\ resolution' = [resolution EXCEPT ![a] = "failure"]
            /\ pc' = [pc EXCEPT ![a] = "done"]
            /\ UNCHANGED <<cur, phaseErr, coreErr, deferErr>>
       ELSE Goto(a, "render")
    /\ UNCHANGED <<spec, api, handler, notified, bounds, history>>

\* renderActionsetArtifacts; an error of its reconcile is only logged.
RenderArtifacts(a) ==
    /\ pc[a] = "render"
    /\ \E err \in BOOLEAN :
         \/ Reconcile(ArtifactsRendered(status, a), err)
         \/ "render" \in Faults /\ Reconcile(MarkFailed(status), err)
    /\ Goto(a, "complete")
    /\ UNCHANGED <<spec, handler, notified, bounds, history>>

\* maybeSetActionSetStateComplete; an error of its reconcile is only logged.
MaybeSetComplete(a) ==
    /\ pc[a] = "complete"
    /\ \E err \in BOOLEAN : Reconcile(MaybeComplete(status, a), err)
    /\ resolution' = [resolution EXCEPT ![a] = "success"]
    /\ pc' = [pc EXCEPT ![a] = "done"]
    /\ UNCHANGED <<spec, handler, notified, cur, phaseErr, coreErr, deferErr,
                   bounds, history>>

-----------------------------------------------------------------------------
(* The environment *)

\* The process dies and is started again: every goroutine is gone and the
\* informer will list the object anew.
Lost ==
    /\ hpc' = "idle" /\ hver' = 0 /\ next' = 1 /\ launchErr' = "none"
    /\ notified' = FALSE
    /\ pc' = [a \in Actions |-> "none"]
    /\ cur' = [a \in Actions |-> 1]
    /\ phaseErr' = [a \in Actions |-> FALSE]
    /\ coreErr' = [a \in Actions |-> FALSE]
    /\ deferErr' = [a \in Actions |-> FALSE]
    /\ resolution' = [a \in Actions |-> "none"]

Restart == Lost /\ UNCHANGED <<spec, api, edits, history>>

Crash ==
    /\ crashes < MaxCrashes
    /\ crashes' = crashes + 1
    /\ Restart

\* handleActionSet indexes a.Phases[0] of an action that failed to launch: an
\* action without phases takes the process down.
LaunchPanics ==
    /\ hpc = "launch"
    /\ "launch" \in Faults
    /\ Phases(next) = {}
    /\ UNCHANGED crashes
    /\ Restart

\* onUpdate reports a failed reconcile of onUpdateActionSet with the blueprint of
\* Spec.Actions[0], of an ActionSet that has no actions.
OnUpdatePanics ==
    /\ notified
    /\ EmptyIsRunning
    /\ Reconcile(EmptyComplete, TRUE)
    /\ Lost
    /\ UNCHANGED <<spec, bounds, history>>

\* The owner changes labels or annotations: a new version, the same status.
\* The informer delivers the change to onUpdate once it has delivered the object.
EditMetadata ==
    /\ edits < MaxEdits
    /\ edits' = edits + 1
    /\ version' = version + 1
    /\ notified' = (hpc # "idle")
    /\ UNCHANGED <<spec, status, handler, worker, crashes, history>>

Handler ==
    \/ OnAdd \/ InitActionSetStatus \/ GetActionSet \/ StartRunning
    \/ LaunchAction \/ LaunchFails \/ RecordLaunchFailure
    \/ OnUpdate

Worker(a) ==
    \/ NextPhase(a) \/ MarkPhase(a) \/ ExecPhase(a) \/ RecordPhase(a)
    \/ StartDefer(a) \/ ExecDefer(a) \/ RecordDefer(a)
    \/ FinishAction(a) \/ RenderArtifacts(a) \/ MaybeSetComplete(a)

Next ==
    \/ Handler
    \/ \E a \in Actions : Worker(a)
    \/ Crash \/ LaunchPanics \/ OnUpdatePanics \/ EditMetadata

Spec == Init /\ [][Next]_vars

\* The Go scheduler runs every goroutine that can run, and every function a
\* phase calls returns; crashes and edits need not happen.
FairSpec ==
    /\ Spec
    /\ WF_vars(Handler)
    /\ WF_vars(OnUpdate)
    /\ \A a \in UNION {DOMAIN s : s \in Specs} :
         WF_vars(a \in Actions /\ Worker(a))

-----------------------------------------------------------------------------
(* Properties *)

PhaseMaps ==
    {f \in [Actions -> UNION {[Phases(a) -> PhaseStates] : a \in Actions}] :
        \A a \in Actions : f[a] \in [Phases(a) -> PhaseStates]}

StatusType ==
    [state     : States,
     populated : BOOLEAN,
     running   : Names \cup {NoPhase},
     phases    : PhaseMaps,
     defer     : [Actions -> PhaseStates],
     rendered  : SUBSET Actions]

\* The type invariant.
TypeOK ==
    /\ spec \in Specs
    /\ status \in StatusType
    /\ version \in Nat /\ hver \in Nat
    /\ hpc \in HandlerSteps
    /\ next \in 1..Len(spec) + 1
    /\ launchErr \in {"none", "blueprint", "runAction"}
    /\ notified \in BOOLEAN
    /\ pc \in [Actions -> WorkerSteps]
    /\ cur \in [Actions -> Nat]
    /\ phaseErr \in [Actions -> BOOLEAN]
    /\ coreErr \in [Actions -> BOOLEAN]
    /\ deferErr \in [Actions -> BOOLEAN]
    /\ resolution \in [Actions -> {"none", "success", "failure"}]
    /\ crashes \in 0..MaxCrashes /\ edits \in 0..MaxEdits
    /\ DOMAIN execs = Actions
    /\ \A a \in Actions : execs[a] \in [Phases(a) -> Nat]
    /\ deferExecs \in [Actions -> Nat]

\* No phase and no deferPhase of an ActionSet is executed twice, whatever
\* crashes, restarts, conflicts and lost replies happen: handleActionSet starts
\* only a pending ActionSet and nothing makes one pending again.
ExecutedAtMostOnce ==
    \A a \in Actions :
        /\ \A i \in Phases(a) : execs[a][i] <= 1
        /\ deferExecs[a] <= 1

\* A phase is only executed once all phases before it are recorded as complete
\* in the API server, even though updateActionSetRunningPhase ignores errors.
PredecessorsRecorded ==
    \A a \in Actions : \A i, j \in Phases(a) :
        i < j /\ execs[a][j] > 0 => status.phases[a][i] = "complete"

\* The ActionSet is complete only if every phase of every action is recorded as
\* complete and really was executed, by whichever action completed it.
CompleteMeansExecuted ==
    status.state = "complete" =>
        \A a \in Actions : \A i \in Phases(a) :
            status.phases[a][i] = "complete" /\ execs[a][i] = 1

\* A failed phase or deferPhase of one action is never hidden by the concurrent
\* updates of another: the ActionSet is failed too.
FailureIsReported ==
    \A a \in Actions :
        (status.defer[a] = "failed" \/ \E i \in Phases(a) : status.phases[a][i] = "failed")
            => status.state = "failed"

\* The status always passes validate.ActionSet, except when it could not be
\* initialized, so that no later reconcile is refused for what it reads.
StatusStaysValid ==
    \/ Validate(status)
    \/ status.state = "failed" /\ ~status.populated

\* No writer, of any action or of the handler, takes an ActionSet out of failed.
FailedIsFinal ==
    [][status.state = "failed" => status'.state = "failed"]_vars

\* All goroutines of a launched ActionSet have ended.
Quiescent ==
    /\ hpc = "done" /\ ~notified
    /\ \A a \in Actions : pc[a] = "done"

\* When everything has ended without API errors, a complete ActionSet has all
\* its deferPhases complete, all artifacts rendered and no running phase.
CompleteAtRest ==
    Quiescent /\ status.state = "complete" =>
        /\ \A a \in Actions : HasDefer(a) => status.defer[a] = "complete"
        /\ status.rendered = Actions
        /\ status.running = NoPhase

\* Without API errors and crashes every ActionSet ends, complete or failed.
Terminates ==
    <>[](status.state \in {"complete", "failed"} /\ hpc = "done")

\* What the comment on executeDeferPhase says: the state is complete only if all
\* the phases and the deferPhases are run successfully.
CompleteMeansDeferred ==
    status.state = "complete" =>
        \A a \in Actions : HasDefer(a) => status.defer[a] = "complete"

\* What the architecture document says of a failed launch: the ActionSet is
\* marked as failed.
LaunchFailureIsMarked ==
    launchErr # "none" ~> status.state = "failed"

\* The phases executed so far.
Ran == {p \in UNION {{a} \X Phases(a) : a \in Actions} : execs[p[1]][p[2]] > 0}

Contract == INSTANCE ActionSetContract WITH state <- status.state, ran <- Ran

\* The controller implements ActionSetContract: seen from outside, only the
\* state of the object and the executed phases count.
ImplementsContract == Contract!Spec

-----------------------------------------------------------------------------
(* The inductive invariant behind the safety properties *)

\* Nothing has happened to action a yet.
Untouched(a) ==
    /\ pc[a] = "none"
    /\ deferExecs[a] = 0 /\ status.defer[a] = "pending"
    /\ \A i \in Phases(a) : execs[a][i] = 0 /\ status.phases[a][i] = "pending"

\* What the handler knows: its copy is current if its version is, no goroutine
\* runs before the launch loop, and the loop has not touched what is left.
HandlerInv ==
    /\ hver <= version
    /\ hpc = "init" /\ hver = version => status.state = "none"
    /\ hpc = "run" /\ hver = version => status.state = "pending"
    /\ hpc \in {"idle", "init", "get", "run"} =>
         next = 1 /\ \A a \in Actions : pc[a] = "none"
    /\ hpc \in {"launch", "fail"} =>
         /\ next \in Actions
         /\ status.state \notin {"none", "pending"} /\ status.populated
         /\ \A a \in Actions : a >= next => Untouched(a)
    /\ hpc = "fail" /\ launchErr = "runAction" => Phases(next) # {}
    /\ status.state \in {"none", "pending"} \/ ~status.populated =>
         \A a \in Actions : Untouched(a)
    /\ ~status.populated => status.state \in {"none", "failed"}

\* What the goroutine of action a knows: the phases before the current one are
\* recorded as complete, those from it on have not been executed.
WorkerInv(a) ==
    /\ pc[a] = "none" => cur[a] = 1
    /\ pc[a] \in {"phase", "mark", "exec", "record"} =>
         /\ cur[a] \in 1..Len(spec[a].phases) + 1
         /\ deferExecs[a] = 0
         /\ \A i \in Phases(a) :
              /\ i < cur[a] => status.phases[a][i] = "complete"
              /\ i > cur[a] => execs[a][i] = 0
    /\ pc[a] \in {"phase", "mark", "exec"} /\ cur[a] \in Phases(a) =>
         execs[a][cur[a]] = 0
    /\ pc[a] \in {"mark", "exec", "record"} => cur[a] \in Phases(a)
    /\ pc[a] = "record" /\ ~phaseErr[a] => execs[a][cur[a]] = 1
    /\ pc[a] \in {"defer", "deferExec"} => deferExecs[a] = 0

\* A phase is recorded as complete only if its function was called.
CompleteIsExecuted ==
    \A a \in Actions : \A i \in Phases(a) :
        status.phases[a][i] = "complete" => execs[a][i] = 1

IInv ==
    /\ TypeOK
    /\ HandlerInv
    /\ \A a \in Actions : WorkerInv(a)
    /\ CompleteIsExecuted
    /\ ExecutedAtMostOnce
    /\ PredecessorsRecorded
    /\ CompleteMeansExecuted
    /\ FailureIsReported
    /\ StatusStaysValid

=============================================================================
