------------------------------ MODULE Promises ------------------------------
(***************************************************************************)
(* What the operations promise: what exists and what no longer exists when *)
(* one of them reports success, what none of them leaves behind, and what  *)
(* may be expected when it is run again.                                   *)
(***************************************************************************)
EXTENDS Execution

\* The resources that are usable once the operation has succeeded.
Makes ==
  [KubeTask |-> {"completed"}, PrepareData |-> {"logsRead"}, KubeExec |-> {"command"},
   MultiContainerRun |-> {"completed"}, BackupData |-> {"repository", "backup"},
   BackupDataStats |-> {"stats"}, CheckRepository |-> {"checked"},
   CopyVolumeData |-> {"repository", "backup"}, RestoreData |-> {"restored"},
   BackupDataUsingKopiaServer |-> {"backup"}, RestoreDataUsingKopiaServer |-> {"restored"},
   KubeExecAll |-> {"command1", "command2"}, BackupDataAll |-> {"backup1", "backup2"},
   RestoreDataAll |-> {"restored1", "restored2"},
   CreateRDSSnapshot |-> {"newSnapshot"}, ExportRDSSnapshotToLocation |-> {"completed"},
   CloneSnapshot |-> {"target"}, CloneClass |-> {"targetClass"}, RestorePVC |-> {"pvc"},
   CreateCSISnapshotStatic |-> {"snapshot"}, RestoreCSISnapshot |-> {"pvc"},
   CreateVolumeFromSnapshot |-> {"pvc1", "newVolume1", "newPV1"},
   WaitForSnapshotCompletion |-> {"snapshot1", "snapshot2"},
   MakeEBS |-> {"volume"}, MakeGPD |-> {"volume"}, MakeAD |-> {"volume"},
   CopyEBS |-> {"copy"}, CopyAD |-> {"copy"}, BackUpAD |-> {"snapshot"},
   RestoreAD |-> {"volume"}, Wait |-> {"object"}, WaitV2 |-> {"object"},
   ScaleWorkload |-> {"scaled"}, OpenBucket |-> {"bucket"},
   LocationPull |-> {"target"}, ChroniclePull |-> {"target"}, StreamPush |-> {"snapshot"}]

\* The resources that are gone, or on their way, once it has succeeded.
Unmakes ==
  [DeleteData |-> {"snapshot1"}, DeleteDataAll |-> {"snapshot1", "snapshot2"},
   DeleteDataUsingKopiaServer |-> {"snapshot"}, DeleteCSISnapshot |-> {"snapshot"},
   DeleteCSISnapshotContent |-> {"content"}, DeleteVolumeSnapshot |-> {"snapshot1", "snapshot2"},
   RemoveEBS |-> {"volume"}, RemoveGPD |-> {"volume"}, RemoveAD |-> {"volume"},
   RemoveSnapshotAD |-> {"snapshot"}, LocationDelete |-> {"artifact"}, RemoveBucket |-> {"bucket"},
   Cassandra |-> {"workload"}, MySQL |-> {"workload"}, Maria |-> {"workload"},
   PostgreSQL |-> {"workload"}, MongoDB |-> {"workload"}, Elasticsearch |-> {"workload"},
   Couchbase |-> {"workload"}, CockroachDB |-> {"workload"},
   FoundationDB |-> {"workload", "operator"}, MSSQL |-> {"workload", "claim", "service", "secret"},
   MongoDBDepConfig |-> {"workload"}, MysqlDBDepConfig |-> {"workload"},
   PostgreSQLDepConfig |-> {"workload"}, TimeLogCSI |-> {"namespace"},
   RDSPostgreSQL |-> {"workload", "instance", "subnetGroup", "securityGroup"},
   Kafka |-> {"operator", "CRD", "clusterRole", "sinkConfig"}]

Chosen(cond, set) == IF cond THEN set ELSE {}
Asked == input \cup given
OnServer == Asked \cap {"repositoryServer", "kopia"} # {}

\* The operations of which it depends on what they are asked.
Wanted ==
  CASE op \in DOMAIN Makes -> Makes[op]
    [] op = "CreateCSISnapshot" -> {IF "name" \in given THEN "snapshot" ELSE "randomName"}
    [] op = "CreateVolumeSnapshot" ->
         Chosen("skipWait" \notin given, {"newSnapshot", "otherNewSnapshot"})
    [] op = "RestoreRDSSnapshot" ->
         Chosen("snapshotID" \in given /\ "aurora" \notin input, {"instance"})
         \cup Chosen("snapshotID" \notin given, {"completed"})
    [] op = "KubeOps" -> Chosen("isCreate" \in input, {"object"})
    [] op = "LocationPush" -> {IF OnServer THEN "snapshot" ELSE "artifact"}
    [] op = "ChroniclePush" -> Chosen("noProfile" \notin input, {"artifact", "manifest"})
    [] OTHER -> {}

Unwanted ==
  CASE op \in DOMAIN Unmakes -> Unmakes[op]
    [] op = "DeleteRDSSnapshot" ->
         Chosen("aurora" \notin input, {"dbSnapshot"})
         \cup Chosen("aurora" \in input /\ "otherError" \notin input, {"clusterSnapshot"})
    [] op = "KubeOps" -> Chosen("isDelete" \in input, {"object"})
    [] op = "KandoDelete" -> {IF OnServer THEN "snapshot" ELSE "artifact"}
    [] op = "CreateActionSet" -> Chosen("dryRun" \in input, {"actionset"})
    [] op = "CreateProfile" -> Chosen("dryRun" \in input, {"profile", "secret"})
    [] OTHER -> {}

\* What is created by requests that are not waited for.
Requested ==
  CASE op = "CreateActionSet" -> Chosen("dryRun" \notin input, {"actionset"})
    [] op = "CreateProfile" -> Chosen("dryRun" \notin input, {"profile", "secret"})
    [] op = "CreateRepositoryServer" -> {"repositoryServer"}
    [] op = "ProcessCreate" -> Chosen("asJSON" \notin input, {"process"})
    [] op = "CreateVolumeSnapshot" -> {"newSnapshot", "otherNewSnapshot"}
    [] OTHER -> {}

---------------------------------------------------------------------------

\* What is written from a pipe to an Azure location: readerSize takes the first
\* Read of a pipe for all of it.
MayBeCut(r) == r = "artifact" /\ "azure" \in input /\ ("pipe" \in input \/ op = "ChroniclePush")


Temporary ==
  {"pod", "pod1", "pod2", "creds", "creds1", "creds2", "appCreds", "appCreds1", "appCreds2",
   "postgresSecret", "tmpInstance", "access", "blob", "sample"}

\* What is left behind by the code all the same: the cleanups that run under
\* the caller's context once that is cancelled; on an error, the instance that
\* did not become available and the sample that could not be deleted; and the
\* pod of MultiContainerRun, which lives until the action's context is done, and
\* longer when it did not become ready.
KnownLeaks ==
  Chosen(done, {"appCreds", "appCreds1", "appCreds2", "tmpInstance"})
  \cup Chosen(outcome = "error", {"tmpInstance", "sample"})
  \cup Chosen(op = "MultiContainerRun" /\ (~done \/ outcome = "error"), {"pod"})

\* When an operation has returned, with success or with an error, cancelled or
\* not, and the goroutines whose context ended with it have ended too, no pod,
\* credentials file, secret, access grant, blob or instance that it made for
\* itself exists, unless its creation was reported to have failed or the one
\* deletion of it did.  (At the return itself the pod may exist: Run does not wait
\* for the goroutine that deletes it.)
NothingLeft ==
  outcome \in {"ok", "error"} /\ Loose = {} =>
    \A r \in (Temporary \cap DOMAIN world) \ KnownLeaks :
      r \in lost \cup kept \/ world[r] = "absent"

\* The functions that create an object under a name the blueprint gives, and do
\* not remove it when they fail afterwards.
NamedByCaller == {"CreateCSISnapshot", "CreateCSISnapshotStatic", "RestoreCSISnapshot", "KubeOps"}

\* The deletions for which "not found" is a success.
Repeatable ==
  {"DeleteRDSSnapshot", "DeleteCSISnapshot", "DeleteCSISnapshotContent", "LocationDelete",
   "RemoveEBS", "RemoveGPD"}


\* What a function insists on and RequiredArgs cannot say: of each set one at least
\* is given, or is the case.
InsistsOn ==
  [PrepareData |-> {{"volumes", "workload"}}, CreateVolumeSnapshot |-> {{"pvcs", "workload"}},
   BackupDataAll |-> {{"pods", "workload"}}, RestoreDataAll |-> {{"pods", "workload"}},
   ScaleWorkload |-> {{a, "workload"} : a \in {"namespace", "name", "kind"}},
   DeleteData |-> {{"backupID", "backupTag"}},
   RestoreData |-> {{"pod", "volumes"}, {"backupTag", "backupIdentifier"}},
   RestoreDataUsingKopiaServer |-> {{"pod", "volumes"}},
   KubeOps |-> {{"spec", "isDelete"}, {"objectReference", "isCreate"}},
   RestoreRDSSnapshot |->
     {{a, "snapshotID"} : a \in {"backupArtifactPrefix", "backupID", "username", "password",
                                 "namespace"}}]

Short == op \in DOMAIN InsistsOn /\ \E alternatives \in InsistsOn[op] : alternatives \cap Asked = {}

\* The resources are as the operation found them.
Untouched ==
  \A r \in DOMAIN world :
    world[r] \in Chosen(r \notin Ops[op].there, {"absent"})
               \cup Chosen(r \in Ops[op].there \cup Ops[op].maybe, {"ready"})

\* A function whose arguments passed RequiredArgs finds every argument it insists
\* on, but for the ones that are needed in place of another or of a workload.
\* When one of those is not given the function does not succeed, and it says so
\* before it has made or deleted anything.
RequiredArgsSuffice ==
  /\ outcome = "error" /\ err = "missing" => Short /\ Untouched
  /\ outcome = "ok" => ~Short

=============================================================================
