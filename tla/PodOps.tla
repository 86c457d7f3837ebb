------------------------------ MODULE PodOps --------------------------------
(***************************************************************************)
(* What the Kanister functions share: the pod they start to work in        *)
(* (pkg/kube), the credentials they put into a pod and remove again        *)
(* (pkg/function/utils.go), the restic repository of a profile's location  *)
(* (pkg/restic).  Module PodRunner has what a function sees of its pod     *)
(* when the goroutine of Run deletes it under its hands.                   *)
(***************************************************************************)
EXTENDS Steps

---------------------------------------------------------------------------
(* pkg/kube: pods *)

\* The specification of the pod: the override is merged into the default one,
\* every volume is checked for its claim.
GetPodObjectFromPodOptions == Call("patch the default pod specs")

CreatePod == GetPodObjectFromPodOptions \o Spawn("pod")

\* When the pod does not become ready the claims and volumes it waits for are
\* read to explain the error, which is returned in every case.
WaitForPodReady == Ready("pod")

WaitForPodCompletion == Do("completed")

\* Deletes with a timeout of its own and waits as long as it takes; an error
\* of the deletion is logged.
StopPod == Background(Drop("pod"))
\* A fault: the pod is not stopped.
RunWithoutStop(fn) == Scope(CreatePod \o fn)

\* podRunner.Run: the context given to fn is cancelled when Run returns, or with
\* the caller's; the goroutine that waits for it then deletes the pod, and
\* nobody waits for the goroutine.
Run(fn) == Scope(CreatePod \o Go(StopPod) \o fn)

\* kube.Exec and podCommandExecutor.Exec: a command in a container.
Exec(effect) == Do(effect)

---------------------------------------------------------------------------
(* pkg/function/utils.go *)

ValidateProfile == Call("the profile, its credentials and its location type")

\* Only a GCS location needs a file with credentials in the pod.
MaybeWriteProfileCredentials ==
  When("gcs", Do("creds")) \o Defer(Background(When("gcs", Drop("creds"))))

\* The same for a pod of the application: the file is removed under the context
\* of the caller.
GetPodWriter == When("gcs", Do("appCreds"))
CleanUpCredsFile == Defer(When("gcs", Drop("appCreds")))

\* The claims of the pod's volumes, from the template parameters.
FetchPodVolumes == Unless("podKnown", Fail("err"))

MergeBPMetadata == OptArg({"podAnnotations", "podLabels"})

\* pod labels and annotations are validated before the arguments' names.
ValidatePodLabelsAndAnnotations == When("badMetadata", Fail("err"))

GetPodSpecOverride == OptArg({"podOverride"}) \o Call("merge the pod overrides")

---------------------------------------------------------------------------
(* pkg/restic *)

\* Every restic command is built from the profile and fails for a location or a
\* credential it does not know.
resticArgs == Call("restic arguments of the location")

getLatestSnapshots == resticArgs \o Get("repository")

\* Any error of listing the snapshots is taken for a missing repository.
GetOrCreateRepository ==
  Attempt("noRepository", AnyError, getLatestSnapshots)
  \o When("noRepository", resticArgs \o Make("repository"))

\* A wrong password and a missing repository are told apart by the output.
CheckIfRepoIsReachable ==
  When("wrongPassword", resticArgs \o Call("list snapshots") \o Fail("password"))
  \o Unless("wrongPassword", getLatestSnapshots)

=============================================================================
