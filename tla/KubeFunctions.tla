--------------------------- MODULE KubeFunctions ----------------------------
(***************************************************************************)
(* The Kanister functions that work on Kubernetes objects and on all pods  *)
(* of a workload (pkg/function), with the parts of pkg/kube they call.     *)
(* What several goroutines do at once is here done one after the other;    *)
(* module FanOut interleaves them.                                         *)
(***************************************************************************)
EXTENDS DataFunctions

L == INSTANCE Locations

---------------------------------------------------------------------------
(* pkg/kube/kubectl.go, kubeops.go *)

\* The request that creates the object knows no context.
KubectlCreate == Background(Call("read the manifest") \o Make("object"))

waitForResourceDeletion == Gone("object")

KubectlDelete == Delete("object") \o waitForResourceDeletion

execKubeOperation ==
  When("isCreate", Unless("spec", Fail("missing")) \o KubectlCreate \o Return)
  \o When("isDelete",
       Unless("objectReference", Fail("missing")) \o When("incompleteReference", Fail("err"))
       \o KubectlDelete \o Return)
  \o Fail("err")

KubeOps ==
  Function({"operation"}, {"spec", "namespace", "objectReference"},
    Operation({{"isCreate"}, {"isDelete"}, {"isDelete", "incompleteReference"}, {}}, {}, {"object"},
      OptArg({"spec"}) \o Arg({"operation"}) \o OptArg({"namespace", "objectReference"})
      \o Call("kube.NewDynamicClient") \o Scope(execKubeOperation) \o Call("encode the reference")))

---------------------------------------------------------------------------
(* wait.go, waitv2.go: the conditions hold once the object is ready *)

\* Polls until the conditions hold or the timeout is over; an object that is
\* not there is an error of the evaluation, which is tried again.
waitForCondition == Await("object")

Wait ==
  Function({"timeout", "conditions"}, {},
    Operation(SUBSET {"badTimeout"}, {}, {"object"},
      Call("render the arguments") \o Arg({"timeout", "conditions"})
      \o Call("kube.NewDynamicClient") \o When("badTimeout", Fail("err")) \o waitForCondition))

WaitV2 ==
  Function({"timeout", "conditions"}, {},
    Operation(SUBSET {"badTimeout"}, {}, {"object"},
      Arg({"timeout", "conditions"})
      \o Call("kube.NewDynamicClient") \o When("badTimeout", Fail("err")) \o waitForCondition))

---------------------------------------------------------------------------
(* location_delete.go *)

LocationDelete ==
  Function({"artifact"}, {},
    Operation(L!Stores, {"bucket"}, {"artifact"},
      Arg({"artifact"}) \o ValidateProfile \o L!DeleteFrom("artifact")))

---------------------------------------------------------------------------
(* scale_workload.go; module Workloads has the waiting in detail *)

Kinds == {"statefulset", "deployment", "deploymentconfig"}

\* The workload is the ActionSet's unless the arguments name another.
setArgs ==
  Arg({"replicas"}) \o When("badReplicas", Fail("err"))
  \o Unless("workload",
       Unless("namespace", Fail("missing")) \o Unless("name", Fail("missing"))
       \o Unless("kind", Fail("missing")))
  \o OptArg({"namespace", "name", "kind", "waitForReady"})

\* ScaleStatefulSet, ScaleDeployment, ScaleDeploymentConfig: what is waited for is
\* the status of the workload, which may not have seen the change yet.
ScaleStatefulSet ==
  Get("workload") \o Get("workload") \o Do("scaled") \o Unless("dontWait", Poll("workload"))

ScaleWorkload ==
  Function({"replicas"}, {"namespace", "name", "kind", "waitForReady"},
    Operation({{k} \cup w : k \in Kinds \cup {"otherKind"}, w \in SUBSET {"workload"}}
              \cup {{"deployment", "workload", "dontWait"}, {"badReplicas"}},
              {}, {"workload"},
      setArgs \o Call("Kubernetes clients") \o When("otherKind", Fail("err"))
      \o ScaleStatefulSet))

---------------------------------------------------------------------------
(* Functions that treat all pods of a workload at once *)

\* Every pod is treated whatever happens to the others; any error is an error
\* of the whole.
ForAll(body(_), pods) ==
  ForEach(LAMBDA p : Attempt(p, AnyError, body(p)), pods)
  \o ForEach(LAMBDA p : When(p, Fail("err")), pods)

Pods == <<"1", "2">>

(* kube_exec_all.go *)

execAll == ForAll(LAMBDA p : Of(p, Exec("command")), Pods) \o parseLogAndCreateOutput

KubeExecAll ==
  Function({"namespace", "pods", "containers", "command"}, {},
    Operation(SUBSET {}, {}, {},
      Clients \o Arg({"namespace", "pods", "containers", "command"}) \o execAll))

(* backup_data_all.go *)

backupDataAll == ForAll(LAMBDA p : Of(p, backupData), Pods)

BackupDataAll ==
  Function({"namespace", "container", "includePath", "backupArtifactPrefix"}, {"pods"} \cup Restic,
    Operation({{"workload"}, {"workload", "gcs"}, {}}, {}, {"repository1"},
      Arg({"namespace", "container", "includePath", "backupArtifactPrefix"})
      \o OptArg({"pods"} \cup Restic) \o ValidateProfile \o Clients
      \o Unless("pods", Unless("workload", Fail("missing"))) \o backupDataAll))

(* restore_data_all.go *)

validateAndGetRestoreAllOptArgs ==
  OptArg({"restorePath", "pods"} \cup Restic) \o GetPodSpecOverride
  \o Unless("pods", Unless("workload", Fail("missing")))

restoreDataAll ==
  When("badInfo", Fail("err"))
  \o ForAll(LAMBDA p : FetchPodVolumes \o Of(p, restoreData("restored")), Pods)

RestoreDataAll ==
  Function({"namespace", "image", "backupArtifactPrefix", "backupInfo"},
           {"restorePath", "pods", "podOverride"} \cup Restic \cup Pod,
    Operation({{"workload", "podKnown", "gcs"}, {"podKnown"}, {"workload", "badInfo"}, {"workload"}},
              {"pvc1"}, {"pvc2"},
      Arg({"namespace", "image", "backupArtifactPrefix", "backupInfo"}) \o MergeBPMetadata
      \o validateAndGetRestoreAllOptArgs \o ValidateProfile \o Clients \o restoreDataAll))

=============================================================================
