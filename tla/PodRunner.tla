----------------------------- MODULE PodRunner ------------------------------
(***************************************************************************)
(* podRunner.Run and the podController it works with (pkg/kube): one       *)
(* goroutine runs the function with the pod, another one waits for the end *)
(* of the context and deletes the pod.  Both use the fields of the         *)
(* controller, without a lock.                                             *)
(***************************************************************************)
EXTENDS Naturals

VARIABLES
  pod,       \* in the cluster: "absent", "pending", "running" or "ended"
  field,     \* podController: is pod set, podName set, podReady
  fn,        \* the goroutine of Run: where it is
  stop,      \* the goroutine that stops the pod: where it is
  over,      \* whether the context of Run is done
  cancelled, \* whether it was the caller who ended it
  crashed    \* a goroutine dereferenced a nil pod

podVars == <<pod, field, fn, stop, over, cancelled, crashed>>

PodInit ==
  /\ pod = "absent" /\ field = [pod |-> FALSE, name |-> FALSE, ready |-> FALSE]
  /\ fn = "idle" /\ stop = "none"
  /\ over = FALSE /\ cancelled = FALSE /\ crashed = FALSE

Alive == ~crashed

\* Somebody calls Run.
CallRun ==
  /\ fn = "idle" /\ fn' = "start"
  /\ UNCHANGED <<pod, field, stop, over, cancelled, crashed>>

\* StartPod: the pod is created and remembered; the goroutine that will stop
\* it is started.  When the answer is lost the pod is there and nobody knows.
StartPod ==
  /\ Alive /\ fn = "start"
  /\ \/ /\ ~over
        /\ pod' = "pending" /\ field' = [field EXCEPT !.pod = TRUE, !.name = TRUE]
        /\ fn' = "waitReady" /\ stop' = "wait" /\ UNCHANGED over
     \/ pod' \in {pod, "pending"} /\ fn' = "failed" /\ over' = TRUE /\ UNCHANGED <<field, stop>>
  /\ UNCHANGED <<cancelled, crashed>>

\* The operations of the controller look at podName and podReady first; they
\* fail, or go on to read p.pod.
Guarded(from, to, ready) ==
  /\ Alive /\ fn = from
  /\ fn' = IF field.name /\ (ready => field.ready) THEN to ELSE "return"
  /\ UNCHANGED <<pod, field, stop, over, cancelled, crashed>>

Dereference(from, to) ==
  /\ Alive /\ fn = from
  /\ crashed' = ~field.pod
  /\ fn' = IF field.pod THEN to ELSE fn
  /\ UNCHANGED <<pod, field, stop, over, cancelled>>

\* WaitForPodReady polls until the pod is not pending any more; a pod that is
\* not found, a node or a volume that is not there, the timeout and the end of
\* the context are errors.
WaitForPodReady ==
  \/ Guarded("waitReady", "waitReadyPod", FALSE)
  \/ Dereference("waitReadyPod", "polling")
  \/ /\ Alive /\ fn = "polling"
     /\ \/ pod \in {"running", "ended"} /\ fn' = "isReady"
        \/ fn' = "return"
     /\ UNCHANGED <<pod, field, stop, over, cancelled, crashed>>
  \/ /\ Alive /\ fn = "isReady"
     /\ field' = [field EXCEPT !.ready = TRUE] /\ fn' = "execute"
     /\ UNCHANGED <<pod, stop, over, cancelled, crashed>>

\* GetCommandExecutor, StreamPodLogs: what is done in the pod.
Use ==
  \/ Guarded("execute", "executePod", TRUE)
  \/ Dereference("executePod", "inPod")
  \/ /\ Alive /\ fn = "inPod" /\ fn' \in {"complete", "return"}
     /\ UNCHANGED <<pod, field, stop, over, cancelled, crashed>>

WaitForPodCompletion ==
  \/ Guarded("complete", "completePod", TRUE)
  \/ Dereference("completePod", "completing")
  \/ /\ Alive /\ fn = "completing"
     /\ \/ pod = "ended" /\ fn' = "isComplete"
        \/ (over \/ pod = "absent") /\ fn' = "return"
     /\ UNCHANGED <<pod, field, stop, over, cancelled, crashed>>
  \/ /\ Alive /\ fn = "isComplete"
     /\ field' = [field EXCEPT !.ready = FALSE] /\ fn' = "return"
     /\ UNCHANGED <<pod, stop, over, cancelled, crashed>>

\* A fault: the context of Run is not cancelled when it returns.
RunWithoutCancel ==
  /\ Alive /\ fn = "return"
  /\ fn' = "returned"
  /\ UNCHANGED <<pod, field, stop, over, cancelled, crashed>>

\* Run returns; its deferred cancel ends the context.
Run ==
  /\ Alive /\ fn = "return"
  /\ fn' = "returned" /\ over' = TRUE
  /\ UNCHANGED <<pod, field, stop, cancelled, crashed>>

\* A fault: the goroutine does not wait for the end of the context.
StopPodAtOnce ==
  /\ Alive
  /\ \/ stop = "wait" /\ stop' = "delete" /\ UNCHANGED <<pod, field>>
     \/ /\ stop = "delete"
        /\ \/ pod' = "absent" /\ stop' = "ready"
           \/ stop' = "failed" /\ UNCHANGED pod
        /\ UNCHANGED field
     \/ /\ stop = "ready" /\ field' = [field EXCEPT !.ready = FALSE] /\ stop' = "name"
        /\ UNCHANGED pod
     \/ /\ stop = "name" /\ field' = [field EXCEPT !.name = FALSE] /\ stop' = "pod"
        /\ UNCHANGED pod
     \/ /\ stop = "pod" /\ field' = [field EXCEPT !.pod = FALSE] /\ stop' = "stopped"
        /\ UNCHANGED pod
  /\ UNCHANGED <<fn, over, cancelled, crashed>>

\* <-ctx.Done(), then StopPod under a context of its own: the pod is deleted,
\* which may fail, and the fields are reset one after the other.
StopPod ==
  /\ Alive
  /\ \/ stop = "wait" /\ over /\ stop' = "delete" /\ UNCHANGED <<pod, field>>
     \/ /\ stop = "delete"
        /\ \/ pod' = "absent" /\ stop' = "ready"
           \/ stop' = "failed" /\ UNCHANGED pod
        /\ UNCHANGED field
     \/ /\ stop = "ready" /\ field' = [field EXCEPT !.ready = FALSE] /\ stop' = "name"
        /\ UNCHANGED pod
     \/ /\ stop = "name" /\ field' = [field EXCEPT !.name = FALSE] /\ stop' = "pod"
        /\ UNCHANGED pod
     \/ /\ stop = "pod" /\ field' = [field EXCEPT !.pod = FALSE] /\ stop' = "stopped"
        /\ UNCHANGED pod
  /\ UNCHANGED <<fn, over, cancelled, crashed>>

\* The caller's context is cancelled.
PodCancel ==
  /\ Alive /\ ~over /\ fn \notin {"idle", "returned"}
  /\ over' = TRUE /\ cancelled' = TRUE
  /\ UNCHANGED <<pod, field, fn, stop, crashed>>

\* The cluster runs the pod.
Kubelet ==
  /\ \/ pod = "pending" /\ pod' = "running"
     \/ pod = "running" /\ pod' = "ended"
  /\ UNCHANGED <<field, fn, stop, over, cancelled, crashed>>

\* The goroutine of Run.
RunStep == StartPod \/ WaitForPodReady \/ Use \/ WaitForPodCompletion \/ Run
PodNext == CallRun \/ RunStep \/ StopPod \/ Kubelet \/ PodCancel

PodSpec == PodInit /\ [][PodNext]_podVars

\* Both goroutines are scheduled, the pod is started and its containers end.
PodFairness == WF_podVars(RunStep) /\ WF_podVars(StopPod) /\ WF_podVars(Kubelet)

---------------------------------------------------------------------------

\* "Pod will be deleted as soon as functor exits" (pod_runner.go): a pod that
\* was started is gone in the end, whether the function succeeded, failed or
\* was cancelled, unless the request to delete it failed, the answer to its
\* creation was lost, or the process died.
PodIsDeleted ==
  (pod # "absent") ~> (pod = "absent" \/ stop = "failed" \/ fn = "failed" \/ crashed)

\* While its caller does not cancel, the function has the pod for itself: it is
\* not deleted, and the fields are not reset, before the function has returned.
PodOutlivesFunction ==
  ~cancelled => ~crashed /\ (fn \notin {"idle", "start", "failed", "returned"} => field.pod /\ pod # "absent")

=============================================================================
