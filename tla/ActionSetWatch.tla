--------------------------- MODULE ActionSetWatch ---------------------------
(***************************************************************************)
(* How the controller learns of ActionSets and stops them: the informer,   *)
(* onAdd, onUpdate and onDelete, and the tombs that hold the goroutines    *)
(* started for an ActionSet (pkg/controller/controller.go).                *)
(*                                                                         *)
(* The module follows one name.  The user creates and deletes ActionSets   *)
(* of that name; each is an incarnation.  Tombs, Gets and reconciles go by *)
(* the name, so goroutines of one incarnation may meet another one.  What  *)
(* an action does is reduced to one phase; see ActionSetController.        *)
(***************************************************************************)
EXTENDS Integers, Sequences

CONSTANTS
    Incarnations,  \* how many ActionSets of the name the user may create
    Crashes,       \* how often the controller may be killed
    Faults         \* the sets of faults considered:
                   \* "gap": the watch may break and miss events
                   \* "reuse": the name is used again before the controller
                   \* has seen the deletion
                   \* "api": the API server may refuse a request, or the
                   \* answer to one that it has served may be lost
                   \* "invalid": an ActionSet may fail the validation

ASSUME WatchAssumption ==
    /\ Incarnations \in Nat \ {0}
    /\ Crashes \in Nat
    /\ Faults \subseteq SUBSET {"gap", "reuse", "api", "invalid"}

VARIABLES
    stored,    \* the object in the API server
    made,      \* the number of incarnations created
    stream,    \* watch events on their way to the controller
    fifo,      \* deltas the informer has queued
    known,     \* the incarnation in the informer's store, 0 if none
    process,   \* the controller: "up", "crashed" or "panicked"
    faults,    \* the faults of this behaviour, fixed from the start
    crashes,   \* the number of crashes
    tombMap,   \* actionSetTombMap: the tomb under the name, 0 if none
    alive,     \* the number of goroutines of each tomb
    killed,    \* the tombs that are killed
    handler,   \* onAddActionSet of each incarnation: where it is
    copy,      \*   the ActionSet it holds
    tomb,      \*   the tomb it runs under
    context,   \*   whether its context is the tomb's or the background's
    worker,    \*   the action goroutine it has launched
    started,   \* how often each incarnation's actions were launched
    missed     \* the incarnations this process will not initialise (history)

api        == <<stored, made, stream>>
informer   == <<fifo, known>>
env        == <<faults, crashes>>
tombs      == <<tombMap, alive, killed>>
goroutines == <<handler, copy, tomb, context, worker>>
vars       == <<api, informer, process, env, tombs, goroutines, started, missed>>

Inc  == 1..Incarnations
None == [uid |-> 0, state |-> "nil", version |-> 0, valid |-> TRUE]

Object == [uid : 0..Incarnations, state : {"nil", "pending", "running", "over"}, version : Nat,
           valid : BOOLEAN]

Init ==
    /\ stored = None /\ made = 0 /\ stream = <<>>
    /\ fifo = <<>> /\ known = 0
    /\ process = "up" /\ faults \in Faults /\ crashes = 0
    /\ tombMap = 0 /\ alive = [t \in Inc |-> 0] /\ killed = {}
    /\ handler = [u \in Inc |-> "off"] /\ copy = [u \in Inc |-> None]
    /\ tomb = [u \in Inc |-> 0] /\ context = [u \in Inc |-> "tomb"]
    /\ worker = [u \in Inc |-> "off"]
    /\ started = [u \in Inc |-> 0] /\ missed = {}

-----------------------------------------------------------------------------
(* The user and the API server *)

\* The controller has seen every event up to now.
UpToDate == stream = <<>> /\ fifo = <<>> /\ known = stored.uid

Create ==
    /\ stored = None /\ made < Incarnations
    /\ "reuse" \in faults \/ (process = "up" /\ UpToDate)
    /\ made' = made + 1
    /\ \E valid \in {TRUE, "invalid" \notin faults} :
         stored' = [uid |-> made + 1, state |-> "nil", version |-> 1, valid |-> valid]
    /\ stream' = IF process = "up" THEN Append(stream, [type |-> "set", object |-> stored'])
                                   ELSE stream
    /\ UNCHANGED <<informer, process, env, tombs, goroutines, started, missed>>

Delete ==
    /\ stored # None
    /\ stored' = None
    /\ stream' = IF process = "up" THEN Append(stream, [type |-> "deleted", object |-> stored])
                                   ELSE stream
    /\ UNCHANGED <<made, informer, process, env, tombs, goroutines, started, missed>>

Write(state) == stored' = [stored EXCEPT !.state = state, !.version = @ + 1]

-----------------------------------------------------------------------------
(* The informer of client-go *)

Receive ==
    /\ process = "up" /\ stream # <<>>
    /\ fifo' = Append(fifo, Head(stream))
    /\ stream' = Tail(stream)
    /\ UNCHANGED <<stored, made, known, process, env, tombs, goroutines, started, missed>>

\* What a list of the API server adds to the queue: the object that is there,
\* or, for one that is known and is gone, a deletion with an unknown final state.
Listed ==
    LET last == fifo[Len(fifo)]
        gone == [type |-> "final", object |-> None]
    IN  IF stored # None THEN Append(fifo, [type |-> "set", object |-> stored])
        ELSE IF fifo # <<>> THEN IF last.type = "set" THEN Append(fifo, gone) ELSE fifo
        ELSE IF known # 0 THEN <<gone>> ELSE <<>>

\* The watch breaks, and the events since are replaced by a list.
Relist ==
    /\ process = "up" /\ "gap" \in faults /\ stream # <<>>
    /\ fifo' = Listed
    /\ stream' = <<>>
    /\ UNCHANGED <<stored, made, known, process, env, tombs, goroutines, started, missed>>

-----------------------------------------------------------------------------
(* Crashes *)

\* The process ends, and with it all goroutines, tombs and the informer.
Lost ==
    /\ stream' = <<>> /\ fifo' = <<>> /\ known' = 0
    /\ tombMap' = 0 /\ alive' = [t \in Inc |-> 0] /\ killed' = {}
    /\ handler' = [u \in Inc |-> "off"] /\ copy' = [u \in Inc |-> None]
    /\ tomb' = [u \in Inc |-> 0] /\ context' = [u \in Inc |-> "tomb"]
    /\ worker' = [u \in Inc |-> "off"]
    /\ missed' = {}

Panic == process' = "panicked" /\ Lost /\ UNCHANGED <<stored, made, env, started>>

Crash ==
    /\ process = "up" /\ crashes < Crashes
    /\ crashes' = crashes + 1
    /\ process' = "crashed"
    /\ Lost
    /\ UNCHANGED <<stored, made, faults, started>>

\* A new process lists what is there.
Restart ==
    /\ process # "up"
    /\ process' = "up"
    /\ fifo' = Listed
    /\ UNCHANGED <<api, known, env, tombs, goroutines, started, missed>>

-----------------------------------------------------------------------------
(* The event handlers *)

\* Mutant: always a new tomb.
AlwaysStoreTomb(u) == [tomb |-> u, context |-> "tomb"]

\* LoadOrStoreTomb for the event of incarnation u: the tomb under the name with
\* the context of the caller, or a new tomb with a context of its own.
LoadOrStoreTomb(u) ==
    IF tombMap # 0 THEN [tomb |-> tombMap, context |-> "background"]
                   ELSE [tomb |-> u, context |-> "tomb"]

\* onAdd.  t.Go panics if the goroutines of the tomb have all ended.
OnAdd(as) ==
    LET u == as.uid
        l == LoadOrStoreTomb(u)
    IN  \/ /\ tombMap # 0 /\ alive[tombMap] = 0
           /\ Panic
        \/ /\ ~(tombMap # 0 /\ alive[tombMap] = 0)
           /\ tombMap' = l.tomb
           /\ alive' = [alive EXCEPT ![l.tomb] = @ + 1]
           /\ tomb' = [tomb EXCEPT ![u] = l.tomb]
           /\ context' = [context EXCEPT ![u] = l.context]
           /\ copy' = [copy EXCEPT ![u] = as]
           /\ handler' = [handler EXCEPT ![u] = IF ~as.valid THEN "reject"
                                                ELSE IF as.state = "nil" THEN "init" ELSE "get"]
           /\ known' = u
           /\ fifo' = Tail(fifo)
           /\ UNCHANGED <<api, process, env, killed, worker, started, missed>>

\* onUpdate starts nothing (for an ActionSet with actions), even if what it is
\* given is another ActionSet of the name, which a list has put there.
OnUpdate(as) ==
    /\ known' = as.uid
    /\ missed' = IF as.uid # known /\ as.state = "nil" THEN missed \cup {as.uid} ELSE missed
    /\ fifo' = Tail(fifo)
    /\ UNCHANGED <<api, process, env, tombs, goroutines, started>>

\* Mutant: the goroutines are left to run.
OnDeleteWithoutKill ==
    /\ tombMap' = 0
    /\ known' = 0
    /\ fifo' = Tail(fifo)
    /\ UNCHANGED <<api, process, env, killed, alive, goroutines, started, missed>>

\* Mutant: the tomb stays in the map.
OnDeleteKeepsTomb ==
    /\ killed' = IF tombMap = 0 THEN killed ELSE killed \cup {tombMap}
    /\ known' = 0
    /\ fifo' = Tail(fifo)
    /\ UNCHANGED <<api, process, env, tombMap, alive, goroutines, started, missed>>

\* onDelete of an ActionSet kills the tomb under its name.
OnDelete ==
    /\ killed' = IF tombMap = 0 THEN killed ELSE killed \cup {tombMap}
    /\ tombMap' = 0
    /\ known' = 0
    /\ fifo' = Tail(fifo)
    /\ UNCHANGED <<api, process, env, alive, goroutines, started, missed>>

\* onDelete of a DeletedFinalStateUnknown only logs an unknown object type.
OnDeleteUnknown ==
    /\ known' = 0
    /\ fifo' = Tail(fifo)
    /\ UNCHANGED <<api, process, env, tombs, goroutines, started, missed>>

Process ==
    /\ process = "up" /\ fifo # <<>>
    /\ LET delta == Head(fifo)
       IN  \/ delta.type = "set" /\ known = 0 /\ OnAdd(delta.object)
           \/ delta.type = "set" /\ known # 0 /\ OnUpdate(delta.object)
           \/ delta.type = "deleted" /\ OnDelete
           \/ delta.type = "final" /\ OnDeleteUnknown

-----------------------------------------------------------------------------
(* The goroutines *)

\* Requests of the goroutines started for u succeed: their context is not done.
Live(u) == context[u] = "background" \/ tomb[u] \notin killed

\* A goroutine of u's tomb ends.  The last one ends the tomb.
Ended(u) == alive' = [alive EXCEPT ![tomb[u]] = @ - 1]

Return(u) ==
    /\ handler' = [handler EXCEPT ![u] = "off"]
    /\ copy' = [copy EXCEPT ![u] = None]
    /\ Ended(u)

\* A request may fail although the context is not done.
MayFail == "api" \in faults

\* onAddActionSet: an ActionSet that is not valid is left as it is.
Reject(u) ==
    /\ handler[u] = "reject"
    /\ Return(u)
    /\ UNCHANGED <<api, informer, process, env, tombMap, killed, tomb, context, worker,
                   started, missed>>

\* Mutant: the status is not initialised.
InitStatusSkipped(u) ==
    /\ handler[u] = "init"
    /\ handler' = [handler EXCEPT ![u] = "get"]
    /\ UNCHANGED <<api, informer, process, env, tombs, copy, tomb, context, worker, started,
                   missed>>

\* initActionSetStatus: an Update of the object of the event, to failed if the
\* blueprint does not have the action.  Its error is only logged.
InitStatus(u) ==
    /\ handler[u] = "init"
    /\ \/ /\ Live(u) /\ stored = copy[u]
          /\ \E state \in {"pending", "over"} : Write(state)
          /\ UNCHANGED missed
       \/ /\ ~(Live(u) /\ stored = copy[u])
          /\ UNCHANGED <<stored, missed>>
       \/ /\ MayFail
          /\ missed' = missed \cup {u}
          /\ UNCHANGED stored
    /\ handler' = [handler EXCEPT ![u] = "get"]
    /\ UNCHANGED <<made, stream, informer, process, env, tombs, copy, tomb, context,
                   worker, started>>

\* The Get by name gives an ActionSet that is to be started.
Startable(u) == Live(u) /\ stored # None /\ stored.valid /\ stored.state = "pending"

\* The Get by name and the conditions before the ActionSet is started.
GetActionSet(u) ==
    /\ handler[u] = "get"
    /\ \/ /\ Startable(u)
          /\ copy' = [copy EXCEPT ![u] = stored]
          /\ handler' = [handler EXCEPT ![u] = "run"]
          /\ UNCHANGED alive
       \/ /\ ~Startable(u) \/ MayFail
          /\ Return(u)
    /\ UNCHANGED <<api, informer, process, env, tombMap, killed, tomb, context, worker,
                   started, missed>>

\* Mutant: the Update overwrites what others have written.
LaunchBlind(u) ==
    /\ handler[u] = "run"
    /\ Live(u) /\ stored.uid = copy[u].uid
    /\ Write("running")
    /\ started' = [started EXCEPT ![copy[u].uid] = @ + 1]
    /\ worker' = [worker EXCEPT ![u] = "mark"]
    /\ handler' = [handler EXCEPT ![u] = "off"]
    /\ copy' = [copy EXCEPT ![u] = None]
    /\ UNCHANGED <<made, stream, informer, process, env, tombs, tomb, context,
                   missed>>

\* handleActionSet: the Update to running, and the launch of the action in the
\* tomb of the handler, which returns.
Launch(u) ==
    /\ handler[u] = "run"
    /\ Live(u) /\ stored = copy[u]
    /\ Write("running")
    /\ started' = [started EXCEPT ![copy[u].uid] = @ + 1]
    /\ worker' = [worker EXCEPT ![u] = "mark"]
    /\ handler' = [handler EXCEPT ![u] = "off"]
    /\ copy' = [copy EXCEPT ![u] = None]
    /\ UNCHANGED <<made, stream, informer, process, env, tombs, tomb, context,
                   missed>>

\* The Update fails, or is not known to have succeeded: nothing is launched.
LaunchFails(u) ==
    /\ handler[u] = "run"
    /\ \/ ~(Live(u) /\ stored = copy[u]) /\ UNCHANGED stored
       \/ MayFail /\ UNCHANGED stored
       \/ MayFail /\ stored = copy[u] /\ Write("running")
    /\ Return(u)
    /\ UNCHANGED <<made, stream, informer, process, env, tombMap, killed, tomb, context,
                   worker, started, missed>>

\* The Get of a reconcile gives an ActionSet that passes the validation.
Reconcilable(u) == Live(u) /\ stored # None /\ stored.valid

\* A reconcile of the worker meets an ActionSet without a status, which the
\* callback dereferences.
NilStatus(u) ==
    /\ worker[u] \in {"mark", "exec"}
    /\ Reconcilable(u) /\ stored.state = "nil"
    /\ Panic

\* A reconcile of the worker writes the state, or fails and changes nothing.
Reconcile(u, state) ==
    \/ Reconcilable(u) /\ stored.state # "nil" /\ Write(state)
    \/ (~Reconcilable(u) \/ MayFail) /\ UNCHANGED stored

\* updateActionSetRunningPhase, whose errors are only logged.
Mark(u) ==
    /\ worker[u] = "mark"
    /\ Reconcile(u, stored.state)
    /\ worker' = [worker EXCEPT ![u] = "exec"]
    /\ UNCHANGED <<made, stream, informer, process, env, tombs, handler, copy, tomb,
                   context, started, missed>>

\* The phase has executed; its outcome is recorded, if the reconcile succeeds,
\* and the goroutine ends.  The ActionSets of the name have the same actions.
Record(u) ==
    /\ worker[u] = "exec"
    /\ Reconcile(u, "over")
    /\ worker' = [worker EXCEPT ![u] = "off"]
    /\ Ended(u)
    /\ UNCHANGED <<made, stream, informer, process, env, tombMap, killed, handler, copy,
                   tomb, context, started, missed>>

Handler(u) == Reject(u) \/ InitStatus(u) \/ GetActionSet(u) \/ Launch(u) \/ LaunchFails(u)
Worker(u)  == NilStatus(u) \/ Mark(u) \/ Record(u)

Next ==
    \/ Create \/ Delete
    \/ Receive \/ Relist \/ Process
    \/ Crash \/ Restart
    \/ \E u \in Inc : Handler(u) \/ Worker(u)

Spec == Init /\ [][Next]_vars

\* The informer delivers, the goroutines run, and a dead controller is
\* restarted by its Deployment.
FairSpec ==
    /\ Spec
    /\ WF_vars(Receive) /\ WF_vars(Process) /\ WF_vars(Restart)
    /\ \A u \in Inc : WF_vars(Handler(u)) /\ WF_vars(Worker(u))

-----------------------------------------------------------------------------
(* Properties *)

Active(u) == handler[u] # "off" \/ worker[u] # "off"

\* actionSetTombMap loses no goroutine: a tomb with goroutines that is not
\* killed is the one a deletion would find, whatever the informer missed.
SingleTomb ==
    \A t \in Inc : alive[t] > 0 /\ t \notin killed => tombMap = t

\* The actions of an ActionSet are launched at most once, even if handlers of
\* several ActionSets of the name, or of several processes, get hold of it.
LaunchedAtMostOnce == \A u \in Inc : started[u] <= 1

\* The context of all that was started for an ActionSet that is gone is done.
Stopped == \A u \in Inc : Active(u) /\ Live(u) => known = u

\* Unless the watch breaks, onDelete reaches all that was started for an
\* ActionSet, by whichever event and under whichever tomb, although the name may
\* be in use again: once the deletion is seen, its context is done.
SeenDeletionStops == "gap" \notin faults => Stopped

\* What the documentation says of deletion: it stops the execution, whatever
\* the informer reports it with.
DeletionStops == Stopped

\* Unless events are missed or the name is used again too early, the controller
\* does not panic: it never adds a goroutine to a dead tomb, and its callbacks
\* never meet an ActionSet without a status, although requests fail and
\* ActionSets without a status are left behind.
NoPanic == faults \cap {"gap", "reuse"} = {} => process # "panicked"

\* The ActionSet there is has no status, and would pass the validation.
Uninitialised(u) == stored.uid = u /\ stored.state = "nil" /\ stored.valid

\* A valid ActionSet is initialised or deleted, over crashes of the controller,
\* gaps in the watch and an early reuse of the name.  There are two exceptions,
\* both until the controller is restarted: one that a list has put in the place
\* of another, so that it is reported as an update, and one whose first Update
\* was refused.
SeenIsInitialised ==
    \A u \in Inc : Uninitialised(u) ~> (~Uninitialised(u) \/ u \in missed)

=============================================================================
