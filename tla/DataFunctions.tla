--------------------------- MODULE DataFunctions ----------------------------
(***************************************************************************)
(* The Kanister functions that run commands in pods and that move data     *)
(* with restic or through a Kopia repository server (pkg/function).  Each  *)
(* function is its helpers followed by the function itself: RequiredArgs,  *)
(* Arguments, Exec and Validate.                                           *)
(***************************************************************************)
EXTENDS PodOps

Pod == {"podAnnotations", "podLabels"}
Restic == {"encryptionKey", "insecureTLS"}

Clients == Call("kube.NewClient")

---------------------------------------------------------------------------
(* kube_task.go: a command in a pod of its own *)

kubeTaskPodFunc ==
  WaitForPodReady \o Call("stream and parse the logs") \o WaitForPodCompletion

kubeTask == Run(kubeTaskPodFunc)
\* A fault: the command is not required.
KubeTaskLax ==
  Function({"image"}, {"command", "namespace", "podOverride"} \cup Pod,
    Operation(SUBSET {}, {}, {},
      Arg({"image", "command"}) \o OptArg({"namespace"}) \o MergeBPMetadata
      \o GetPodSpecOverride \o Clients \o kubeTask))

KubeTask ==
  Function({"image", "command"}, {"namespace", "podOverride"} \cup Pod,
    Operation(SUBSET {}, {}, {},
      Arg({"image", "command"}) \o OptArg({"namespace"}) \o MergeBPMetadata
      \o GetPodSpecOverride \o Clients \o kubeTask))

(* prepare_data.go: a command in a pod with the volumes of the application *)

\* The volumes of the workload when none are named.
getVolumes == Unless("workload", Fail("missing"))

prepareDataPodFunc == WaitForPodReady \o Call("stream the logs") \o Do("logsRead")

prepareData == Get("pvc") \o Run(prepareDataPodFunc)

PrepareData ==
  Function({"namespace", "image", "command"},
           {"volumes", "serviceaccount", "podOverride"} \cup Pod,
    Operation(SUBSET {"workload"}, {}, {"pvc"},
      Arg({"namespace", "image", "command"}) \o OptArg({"volumes", "serviceaccount"})
      \o MergeBPMetadata \o GetPodSpecOverride \o Clients
      \o Unless("volumes", getVolumes) \o prepareData))

(* kube_exec.go: a command in a container of the application *)

parseLogAndCreateOutput == Call("parse the output")

KubeExec ==
  Function({"namespace", "pod", "command"}, {"container"},
    Operation(SUBSET {}, {}, {},
      Clients \o Arg({"namespace", "pod"}) \o OptArg({"container"}) \o Arg({"command"})
      \o Exec("command") \o parseLogAndCreateOutput))

---------------------------------------------------------------------------
(* multi_container_run.go: two containers and a shared directory *)

getPodOutput ==
  WaitForPodReady \o Call("stream the output container's logs") \o Call("parse the output")
  \o WaitForPodCompletion

\* The pod is created first and waited for while the controller is built, then
\* a goroutine is started that deletes it when the caller's context is done:
\* not when the function returns, but when the action has ended.
run ==
  Call("patch the default pod specs") \o Spawn("pod")
  \o Background(WaitForPodReady)
  \o GoUntilCancelled(StopPod) \o getPodOutput

MultiContainerRun ==
  Function({"backgroundImage", "backgroundCommand", "outputImage", "outputCommand"},
           {"namespace", "initImage", "initCommand", "sharedVolumeMedium",
            "sharedVolumeSizeLimit", "sharedVolumeDir", "podOverride"} \cup Pod,
    Operation(SUBSET {"badSize"}, {}, {},
      Arg({"backgroundImage", "outputImage", "backgroundCommand", "outputCommand"})
      \o OptArg({"initImage", "initCommand", "namespace", "sharedVolumeMedium",
                 "sharedVolumeSizeLimit", "sharedVolumeDir"})
      \o When("badSize", Fail("err"))
      \o MergeBPMetadata \o GetPodSpecOverride \o Clients \o run))

---------------------------------------------------------------------------
(* backup_data.go: the data of a container of the application, by restic *)

backupData ==
  Scope(GetPodWriter \o CleanUpCredsFile \o GetOrCreateRepository
        \o resticArgs \o Exec("backup") \o When("noBackupID", Fail("err")))

BackupData ==
  Function({"namespace", "pod", "container", "includePath", "backupArtifactPrefix"}, Restic,
    Operation(SUBSET {"gcs", "noBackupID"}, {}, {"repository"},
      Arg({"namespace", "pod", "container", "includePath", "backupArtifactPrefix"})
      \o OptArg(Restic) \o ValidateProfile \o Clients \o backupData))

(* backup_data_stats.go *)

backupDataStatsPodFunc ==
  WaitForPodReady
  \o Scope(MaybeWriteProfileCredentials \o resticArgs \o Exec("stats")
           \o When("noStats", Fail("err")))

backupDataStats == Run(backupDataStatsPodFunc)

BackupDataStats ==
  Function({"namespace", "backupArtifactPrefix", "backupID"},
           {"statsMode", "encryptionKey"} \cup Pod,
    Operation(SUBSET {"gcs", "noStats"}, {}, {},
      Arg({"namespace", "backupArtifactPrefix", "backupID"})
      \o OptArg({"statsMode", "encryptionKey"}) \o MergeBPMetadata
      \o GetPodSpecOverride \o ValidateProfile \o Clients \o backupDataStats))

(* checkRepository.go: the two errors it looks for are its output *)

CheckRepositoryPodFunc ==
  WaitForPodReady
  \o Scope(MaybeWriteProfileCredentials
           \o Attempt("passwordIncorrect", {"password"},
                Attempt("repoUnavailable", {"nf"}, CheckIfRepoIsReachable))
           \o Do("checked"))

CheckRepositoryBody == Run(CheckRepositoryPodFunc)

CheckRepository ==
  Function({"backupArtifactPrefix"}, Restic \cup Pod,
    Operation(SUBSET {"gcs", "wrongPassword"}, {}, {"repository"},
      Arg({"backupArtifactPrefix"}) \o OptArg(Restic) \o MergeBPMetadata
      \o GetPodSpecOverride \o ValidateProfile \o Clients \o CheckRepositoryBody))

(* copy_volume_data.go: the data of a volume, in a pod of its own *)

copyVolumeDataPodFunc ==
  WaitForPodReady
  \o Scope(MaybeWriteProfileCredentials \o GetOrCreateRepository
           \o resticArgs \o Exec("backup") \o When("noBackupID", Fail("err")))

copyVolumeData == Get("pvc") \o Run(copyVolumeDataPodFunc)

CopyVolumeData ==
  Function({"namespace", "volume", "dataArtifactPrefix"}, Restic \cup Pod,
    Operation(SUBSET {"gcs", "noBackupID"}, {"pvc"}, {"repository"},
      Arg({"namespace", "volume", "dataArtifactPrefix"}) \o OptArg(Restic)
      \o MergeBPMetadata \o GetPodSpecOverride \o ValidateProfile \o Clients
      \o copyVolumeData))

---------------------------------------------------------------------------
(* delete_data.go, delete_data_all.go: snapshots are forgotten one by one *)

pruneData == resticArgs \o Background(Exec("pruned"))

forget(snapshot) ==
  resticArgs \o Drop(snapshot) \o When("reclaimSpace", pruneData)

\* By tag, the snapshot of every tag is looked up before any is forgotten.
deleteDataPodFunc(snapshots) ==
  WaitForPodReady
  \o Scope(MaybeWriteProfileCredentials
           \o When("backupTag", ForEach(LAMBDA s : resticArgs \o Get(s), snapshots))
           \o ForEach(forget, snapshots))

deleteData(snapshots) == Run(deleteDataPodFunc(snapshots))

\* Exactly one of two arguments: both are refused, and so is neither.
OneOf(a, b) == When(a, When(b, Fail("err"))) \o Unless(a, Unless(b, Fail("missing")))

DeleteData ==
  Without({{"backupID"}, {"backupTag"}, {"backupID", "reclaimSpace"}},
  Function({"namespace", "backupArtifactPrefix"},
           {"backupID", "backupTag", "reclaimSpace"} \cup Restic \cup Pod,
    Operation(SUBSET {"gcs"}, {"snapshot1"}, {},
      Arg({"namespace", "backupArtifactPrefix"})
      \o OptArg({"backupID", "backupTag", "reclaimSpace"} \cup Restic)
      \o MergeBPMetadata \o GetPodSpecOverride \o ValidateProfile \o Clients
      \o OneOf("backupID", "backupTag") \o deleteData(<<"snapshot1">>))))

DeleteDataAll ==
  Without({{}, {"reclaimSpace"}},
  Function({"namespace", "backupArtifactPrefix", "backupInfo"},
           {"reclaimSpace"} \cup Restic \cup Pod,
    Operation(SUBSET {"gcs", "badInfo"}, {"snapshot1", "snapshot2"}, {},
      Arg({"namespace", "backupArtifactPrefix", "backupInfo"})
      \o OptArg({"reclaimSpace"} \cup Restic) \o MergeBPMetadata \o GetPodSpecOverride
      \o ValidateProfile \o Clients \o When("badInfo", Fail("err"))
      \o deleteData(<<"snapshot1", "snapshot2">>))))

---------------------------------------------------------------------------
(* restore_data.go, and what restore_data_all.go does for every pod *)

validateAndGetOptArgs ==
  OptArg({"restorePath", "pod", "volumes", "backupTag", "backupIdentifier"} \cup Restic)
  \o OneOf("pod", "volumes") \o OneOf("backupTag", "backupIdentifier")
  \o GetPodSpecOverride

\* Without a tag or an identifier the command is empty.
restoreDataPodFunc(restored) ==
  WaitForPodReady
  \o Scope(MaybeWriteProfileCredentials \o Unless("noCommand", resticArgs)
           \o When("noCommand", Fail("err")) \o Exec(restored) \o parseLogAndCreateOutput)

restoreData(restored) == Get("pvc") \o Run(restoreDataPodFunc(restored))

RestoreData ==
  Without({p \cup b : p \in {{"pod"}, {"volumes"}}, b \in {{"backupTag"}, {"backupIdentifier"}}},
  Function({"namespace", "image", "backupArtifactPrefix"},
           {"restorePath", "pod", "volumes", "backupTag", "backupIdentifier",
            "podOverride"} \cup Restic \cup Pod,
    Operation(SUBSET {"gcs", "podKnown"}, {}, {"pvc"},
      Arg({"namespace", "image", "backupArtifactPrefix"}) \o MergeBPMetadata
      \o validateAndGetOptArgs \o ValidateProfile
      \o Unless("volumes", FetchPodVolumes) \o Clients \o restoreData("restored"))))

---------------------------------------------------------------------------
(* Through a Kopia repository server (pkg/function/*_using_kopia_server.go) *)

Hostname == {"repositoryServerUserHostname"}

\* The secret of the server's certificate and the one of the user's access must
\* be in the template parameters.
userCredentialsAndServerTLS == Call("user passphrase and certificate")

\* A hostname that is asked for must be one of the secret's; without one the
\* secret must not be empty.
hostNameAndUserPassPhraseFromRepoServer ==
  OptArg(Hostname) \o When("unknownHost", Fail("err"))

Fingerprint == Call("fingerprint of the certificate")

\* kopia repository connect server, in the container that moves the data.
Connect == Exec("connected")

---------------------------------------------------------------------------

backupDataUsingKopiaServer ==
  Connect \o Exec("backup") \o Call("ParseSnapshotCreateOutput")

BackupDataUsingKopiaServer ==
  Function({"container", "includePath", "namespace", "pod"}, {"snapshotTags"} \cup Hostname,
    Operation(SUBSET {"unknownHost"}, {}, {},
      Arg({"container", "includePath", "namespace", "pod"}) \o OptArg({"snapshotTags"})
      \o userCredentialsAndServerTLS \o Fingerprint
      \o hostNameAndUserPassPhraseFromRepoServer \o Clients
      \o backupDataUsingKopiaServer))

deleteDataFromServerPodFunc == WaitForPodReady \o Connect \o Drop("snapshot")

deleteDataFromServer == Run(deleteDataFromServerPodFunc)

DeleteDataUsingKopiaServer ==
  Function({"backupID", "namespace", "image"}, Hostname \cup Pod,
    Operation(SUBSET {"unknownHost"}, {}, {"snapshot"},
      Arg({"backupID", "namespace", "image"}) \o MergeBPMetadata
      \o userCredentialsAndServerTLS \o Fingerprint
      \o hostNameAndUserPassPhraseFromRepoServer \o Clients
      \o deleteDataFromServer))

restoreDataFromServerPodFunc == WaitForPodReady \o Connect \o Exec("restored")

restoreDataFromServer == Get("pvc") \o Run(restoreDataFromServerPodFunc)

\* Both a pod and volumes are refused; neither is accepted here, and then no
\* volumes are found for the empty name.
validateAndGetOptArgsForRestore ==
  OptArg({"pod", "volumes"}) \o When("pod", When("volumes", Fail("err")))
  \o GetPodSpecOverride

RestoreDataUsingKopiaServer ==
  Without({{"pod"}, {"volumes"}},
  Function({"backupIdentifier", "namespace", "restorePath", "image"},
           {"pod", "volumes", "podOverride"} \cup Hostname \cup Pod,
    Operation(SUBSET {"unknownHost", "podKnown"}, {}, {"pvc"},
      Arg({"backupIdentifier", "namespace", "restorePath", "image"}) \o MergeBPMetadata
      \o userCredentialsAndServerTLS \o Fingerprint \o validateAndGetOptArgsForRestore
      \o Unless("volumes", Unless("pod", Fail("missing")) \o FetchPodVolumes)
      \o hostNameAndUserPassPhraseFromRepoServer \o Clients
      \o restoreDataFromServer)))

=============================================================================
