----------------------------- MODULE Workloads ------------------------------
(***************************************************************************)
(* Scaling a workload and waiting for it (pkg/kube/workload.go, as called  *)
(* by ScaleWorkload): the workload is read, written with the new number of *)
(* replicas, and polled until its status and its pods agree.  Meanwhile    *)
(* the controllers of the cluster work with copies and report what they    *)
(* have seen: that of a StatefulSet looks after its pods itself, that of a *)
(* Deployment after its ReplicaSets, one for each revision, and their      *)
(* controller looks after the pods.  A DeploymentConfig has                *)
(* ReplicationControllers in their place.                                  *)
(***************************************************************************)
EXTENDS Naturals

CONSTANTS
  MaxReplicas,  \* a workload has at most so many replicas
  MaxFailures   \* how often pods fail, or are left of an earlier revision, in all

Counts == 0 .. MaxReplicas

VARIABLES
  wkind,    \* "statefulset", or "deployment" (for a DeploymentConfig too)
  wspec,    \* spec.replicas and metadata.generation
  wstatus,  \* replicas, updated, available (or ready) and observedGeneration
  current,  \* the current ReplicaSet: the replicas it is to have, and its status
  earlier,  \* how many pods the ReplicaSets of earlier revisions still report
  wpods,    \* how many pods of the current revision are in which state
  manager,  \* the controller of the workload: where it is, and the copies it works on
  keeper,   \* the controller of the ReplicaSets, likewise
  scale,    \* the call: where it is, what was asked, how many pods are to run
  failures  \* how many of them have occurred

workloadVars == <<wkind, wspec, wstatus, current, earlier, wpods, manager, keeper, scale, failures>>
clusterVars == <<wkind, wspec, wstatus, current, earlier, wpods, manager, keeper, failures>>

\* A pod in its phase Running is running, or is not ready, or is stopping; one
\* that was deleted before it ran is cancelled; one that has succeeded stays for
\* a while.
NoPods ==
  [pending |-> 0, running |-> 0, unready |-> 0, stopping |-> 0, cancelled |-> 0, succeeded |-> 0]

\* What the controllers count, and the two lists of FetchPods.
Active == wpods.pending + wpods.running + wpods.unready
Started == wpods.running + wpods.unready + wpods.stopping
NotRunning == wpods.pending + wpods.cancelled + wpods.succeeded

NoStatus == [replicas |-> 0, updated |-> 0, available |-> 0, observed |-> 1]
NoSet == [replicas |-> 0, status |-> [replicas |-> 0, available |-> 0]]
IdleManager == [at |-> "idle", replicas |-> 0, seen |-> NoStatus]
IdleKeeper == [at |-> "idle", copy |-> NoSet]

WorkloadInit ==
  /\ wkind = "none"
  /\ wspec = [replicas |-> 0, gen |-> 1] /\ wstatus = NoStatus
  /\ current = NoSet /\ earlier = 0 /\ wpods = NoPods
  /\ manager = IdleManager /\ keeper = IdleKeeper
  /\ scale = [at |-> "idle", asked |-> 0, pods |-> 0, behind |-> FALSE]
  /\ failures = 0

\* The workload is deployed; a Deployment may have pods of an earlier revision.
Deploy ==
  /\ wkind = "none"
  /\ \E n \in Counts : wspec' = [replicas |-> n, gen |-> 2]
  /\ \/ wkind' = "statefulset" /\ UNCHANGED <<wstatus, earlier, failures>>
     \/ /\ wkind' = "deployment"
        /\ \E n \in 0 .. MaxFailures :
             /\ earlier' = n /\ failures' = n
             /\ wstatus' = [wstatus EXCEPT !.replicas = n, !.available = n]
  /\ UNCHANGED <<current, wpods, manager, keeper, scale>>

(* ScaleStatefulSet, ScaleDeployment, ScaleDeploymentConfig, when they wait *)

\* The update is refused if the workload has changed since it was read.
UpdateWorkload ==
  /\ wkind # "none" /\ scale.at = "idle"
  /\ \E n \in Counts :
       \/ /\ scale' = [scale EXCEPT !.at = "poll", !.asked = n]
          /\ wspec' = [replicas |-> n, gen |-> wspec.gen + (IF n = wspec.replicas THEN 0 ELSE 1)]
       \/ scale' = [scale EXCEPT !.at = "error"] /\ UNCHANGED wspec
  /\ UNCHANGED <<wkind, wstatus, current, earlier, wpods, manager, keeper, failures>>

\* The first half of StatefulSetReady, DeploymentReady and DeploymentConfigReady
\* looks at the workload, and remembers how many pods are to run.
StatefulSetStatus == wstatus.available = wspec.replicas

\* A fault: the status may be older than the specification.
DeploymentStatusUnobserved ==
  {wstatus.replicas, wstatus.updated, wstatus.available} = {wspec.replicas}

DeploymentStatus ==
  /\ {wstatus.replicas, wstatus.updated, wstatus.available} = {wspec.replicas}
  /\ wstatus.observed >= wspec.gen

PollStatus ==
  /\ scale.at = "poll"
  /\ IF wkind = "statefulset" THEN StatefulSetStatus ELSE DeploymentStatus
  /\ scale' = [scale EXCEPT !.at = "pods",
                 !.pods = IF wkind = "statefulset" THEN wspec.replicas ELSE wstatus.available]
  /\ UNCHANGED clusterVars

\* The second half lists the pods, those of the current revision's ReplicaSet
\* only; that a pod has succeeded is no obstacle for a DeploymentConfig.
StatefulSetPods == Started = scale.pods
DeploymentPods == Started = scale.pods /\ NotRunning = 0
DeploymentConfigPods == Started = scale.pods /\ NotRunning = wpods.succeeded

\* Remembered for the property: the ReplicaSet's controller may still be at work
\* with another number.
PollPods ==
  /\ scale.at = "pods"
  /\ \E ready \in IF wkind = "statefulset" THEN {StatefulSetPods} ELSE {DeploymentPods, DeploymentConfigPods} :
       scale' = [scale EXCEPT !.at = IF ready THEN "ok" ELSE "poll",
                               !.behind = ready /\ keeper.at = "pods"
                                                /\ keeper.copy.replicas # scale.asked,
                               !.pods = 0]
  /\ UNCHANGED clusterVars

\* The context ends the waiting, or a request fails.
ScaleTimeout ==
  /\ scale.at \in {"poll", "pods"}
  /\ scale' = [scale EXCEPT !.at = "error"]
  /\ UNCHANGED clusterVars

(* The cluster *)

Shift(from, to) ==
  /\ wpods[from] > 0
  /\ wpods' = [wpods EXCEPT ![from] = @ - 1, ![to] = @ + 1]

\* A pod is created, or deleted: one that is not started yet may still be
\* started before it is gone.
TowardReplicas(n) ==
  \/ Active < n /\ wpods' = [wpods EXCEPT !.pending = @ + 1]
  \/ /\ Active > n
     /\ Shift("pending", "cancelled") \/ Shift("running", "stopping") \/ Shift("unready", "stopping")

\* The controller of a workload takes a copy of it, that of a Deployment of the
\* status of its ReplicaSets too, when there is something to do.
Observe ==
  /\ manager.at = "idle" /\ wkind # "none"
  /\ LET seen == [replicas |-> earlier + current.status.replicas, updated |-> current.status.replicas,
                  available |-> earlier + current.status.available, observed |-> wspec.gen]
     IN /\ wkind = "deployment" => wstatus # seen \/ current.replicas # wspec.replicas
        /\ manager' = [at |-> "sync", replicas |-> wspec.replicas, seen |-> seen]
  /\ UNCHANGED <<wkind, wspec, wstatus, current, earlier, wpods, keeper, scale, failures>>

SyncPods ==
  /\ wkind = "statefulset" /\ manager.at = "sync" /\ TowardReplicas(manager.replicas)
  /\ UNCHANGED <<wkind, wspec, wstatus, current, earlier, manager, keeper, scale, failures>>

\* The current ReplicaSet is scaled.
SyncSet ==
  /\ wkind = "deployment" /\ manager.at = "sync"
  /\ current' = [current EXCEPT !.replicas = manager.replicas]
  /\ manager' = [manager EXCEPT !.at = "status", !.replicas = 0]
  /\ UNCHANGED <<wkind, wspec, wstatus, earlier, wpods, keeper, scale, failures>>

SyncStatus ==
  /\ \/ /\ wkind = "statefulset" /\ manager.at = "sync" /\ Active = manager.replicas
        /\ wstatus' = [replicas |-> Active, updated |-> Active,
                       available |-> wpods.running, observed |-> manager.seen.observed]
     \/ manager.at = "status" /\ wstatus' = manager.seen
  /\ manager' = IdleManager
  /\ UNCHANGED <<wkind, wspec, current, earlier, wpods, keeper, scale, failures>>

\* The controller of the ReplicaSets counts the pods before it changes them, and
\* reports that afterwards.
ObserveSet ==
  /\ wkind = "deployment" /\ keeper.at = "idle"
  /\ LET seen == [replicas |-> Active, available |-> wpods.running]
     IN /\ current # [replicas |-> Active, status |-> seen]
        /\ keeper' = [at |-> "pods", copy |-> [current EXCEPT !.status = seen]]
  /\ UNCHANGED <<wkind, wspec, wstatus, current, earlier, wpods, manager, scale, failures>>

SyncSetPods ==
  /\ keeper.at = "pods" /\ TowardReplicas(keeper.copy.replicas)
  /\ UNCHANGED <<wkind, wspec, wstatus, current, earlier, manager, keeper, scale, failures>>

SyncSetStatus ==
  /\ keeper.at = "pods" /\ Active = keeper.copy.replicas
  /\ current' = [current EXCEPT !.status = keeper.copy.status] /\ keeper' = IdleKeeper
  /\ UNCHANGED <<wkind, wspec, wstatus, earlier, wpods, manager, scale, failures>>

\* A pod of an earlier revision is deleted, and no longer reported.
Retire ==
  /\ earlier > 0 /\ earlier' = earlier - 1
  /\ UNCHANGED <<wkind, wspec, wstatus, current, wpods, manager, keeper, scale, failures>>

RunPods ==
  /\ \/ Shift("pending", "running") \/ Shift("unready", "running")
     \/ \E from \in {"stopping", "cancelled", "succeeded"} :
          wpods[from] > 0 /\ wpods' = [wpods EXCEPT ![from] = @ - 1]
  /\ UNCHANGED <<wkind, wspec, wstatus, current, earlier, manager, keeper, scale, failures>>

LateStart ==
  /\ Shift("cancelled", "stopping")
  /\ UNCHANGED <<wkind, wspec, wstatus, current, earlier, manager, keeper, scale, failures>>

PodFails ==
  /\ failures < MaxFailures /\ failures' = failures + 1
  /\ Shift("running", "unready") \/ Shift("running", "succeeded")
  /\ UNCHANGED <<wkind, wspec, wstatus, current, earlier, manager, keeper, scale>>

ScaleStep == UpdateWorkload \/ PollStatus \/ PollPods
ManagerStep == Observe \/ SyncPods \/ SyncSet \/ SyncStatus
KeeperStep == ObserveSet \/ SyncSetPods \/ SyncSetStatus \/ Retire
\* Nothing is asked of what follows an error.
WorkloadNext ==
  /\ scale.at # "error"
  /\ \/ Deploy \/ ScaleStep \/ ScaleTimeout \/ ManagerStep \/ KeeperStep
     \/ RunPods \/ LateStart \/ PodFails

---------------------------------------------------------------------------

\* "The function only returns after the desired replica state is achieved: when
\* reducing the replica count, wait until all terminating pods complete": when
\* the scaling of a Deployment or a DeploymentConfig has returned, it has no pod
\* in excess of the number asked for, and none that runs or starts any more if
\* that is zero, however far behind the status was that the waiting looked at.
\* There are limits: the pods of an earlier revision are not looked at, a pod
\* that is terminating can be counted for one that is wanted, and the controller
\* of the ReplicaSets may be about to act upon a number that it read before.
ScaledDeploymentIsQuiet ==
  wkind # "statefulset" /\ scale.at = "ok" /\ ~scale.behind =>
    /\ Active <= scale.asked
    /\ scale.asked = 0 => Started = 0

\* The same of every workload the function supports, without the limits.
ScaledWorkloadIsQuiet ==
  scale.at = "ok" => Started <= scale.asked

=============================================================================
