--------------------------- MODULE CSISnapshots -----------------------------
(***************************************************************************)
(* CSI snapshots: the snapshotter for the three versions of the snapshot   *)
(* API (pkg/kube/snapshot), the claims and volumes made from snapshots     *)
(* (pkg/kube/volume), and the Kanister functions built on them             *)
(* (pkg/function/*csi_snapshot*.go).  A snapshot is made ready by the CSI  *)
(* driver; "noStatus" is a snapshot the driver has not looked at yet.      *)
(***************************************************************************)
EXTENDS PodOps

---------------------------------------------------------------------------
(* pkg/kube/snapshot/snapshot.go *)

\* The newest version the cluster serves; discovery has no deadline.
NewSnapshotter ==
  Background(Call("discover v1"))
  \o When("beta", Background(Call("discover v1beta1")))
  \o When("alpha", Background(Call("discover v1beta1") \o Call("discover v1alpha1")))
  \o When("noSnapshotAPI",
       Background(Call("discover v1beta1") \o Call("discover v1alpha1")) \o Fail("err"))

\* Conflicts are retried; the error the driver wrote into the status is not.
waitOnReadyToUse(snap) == When("driverError", Fail("err")) \o Ready(snap)

---------------------------------------------------------------------------
(* snapshot_beta.go: what v1beta1 and v1 share *)

cloneSnapshotClass == Get("class") \o Tolerate({"exists"}, Make("targetClass"))

getSnapshot(snap) == Get(snap)

\* A missing claim is an error that nobody takes for a missing snapshot.
createSnapshot(snap, creation) ==
  Attempt("noPVC", {"nf"}, Get("pvc")) \o When("noPVC", Fail("err"))
  \o creation \o waitOnReadyToUse(snap) \o getSnapshot(snap)

listSnapshots == Call("list snapshots")

deleteSnapshot(snap) ==
  Scope(Attempt("noSnapshot", {"nf"}, getSnapshot(snap)) \o When("noSnapshot", Return)
        \o Tolerate({"nf"}, Delete(snap)))

getSnapshotContent == Get("content")

\* The status is read without a look whether there is one.
getSnapshotSource(snap) ==
  getSnapshot(snap) \o When("noStatus", Panic) \o When("notReady", Fail("err"))
  \o getSnapshotContent

getDeletionPolicyFromClass == Background(Get("class"))

updateVolumeSnapshotStatus(snap) == Get(snap) \o When("noStatus", Fail("err")) \o Do(snap)

\* SnapshotBeta and SnapshotStable: the content gets a name of its own, the
\* snapshot the name it is asked for.
CreateContentFromSource == Spawn("newContent")

CreateFromSource(snap) ==
  getDeletionPolicyFromClass \o CreateContentFromSource \o Create(snap)
  \o waitOnReadyToUse(snap)

DeleteContent == Tolerate({"nf"}, Delete("content"))

\* The target must not exist; the error of getting the source is replaced.
Clone(snap, target) ==
  Attempt("noTarget", {"nf"}, getSnapshot(target)) \o Unless("noTarget", Fail("err"))
  \o getSnapshotSource(snap) \o CreateFromSource(target)

---------------------------------------------------------------------------
(* snapshot_alpha.go *)

CloneVolumeSnapshotClassAlpha == Get("class") \o Tolerate({"exists"}, Make("targetClass"))

\* GetSnapshotClassbyAnnotation, for all versions: the class the storage class
\* names, or the first of its driver with the annotation.
GetSnapshotClassbyAnnotation ==
  Get("storageClass") \o When("classNamed", Get("class") \o Return)
  \o Call("list classes") \o When("noClass", Fail("err"))

\* An empty status becomes no status.
TransformUnstructuredSnaphotV1alphaToV1 == Call("decode the v1alpha1 object")
GetAlpha(snap) == Get(snap) \o TransformUnstructuredSnaphotV1alphaToV1

CreateAlpha(snap, creation) ==
  Attempt("noPVC", {"nf"}, Get("pvc")) \o When("noPVC", Fail("err"))
  \o creation \o waitOnReadyToUse(snap) \o GetAlpha(snap)

DeleteAlpha(snap) ==
  Scope(Attempt("noSnapshot", {"nf"}, GetAlpha(snap)) \o When("noSnapshot", Return)
        \o Tolerate({"nf"}, Delete(snap)))

DeleteContentAlpha == Tolerate({"nf"}, Delete("content"))

GetSourceAlpha(snap) ==
  GetAlpha(snap) \o When("noStatus", Panic) \o When("notReady", Fail("err")) \o Get("content")

CreateContentFromSourceAlpha == Spawn("newContent")

CreateFromSourceAlpha(snap) ==
  Background(Get("class")) \o CreateContentFromSourceAlpha \o Create(snap)
  \o waitOnReadyToUse(snap)

CloneAlpha(snap, target) ==
  Attempt("noTarget", {"nf"}, GetAlpha(target)) \o Unless("noTarget", Fail("err"))
  \o GetSourceAlpha(snap) \o CreateFromSourceAlpha(target)

---------------------------------------------------------------------------
(* The method of the snapshotter NewSnapshotter returned. *)

Versioned(alpha, later) == When("alpha", alpha) \o Unless("alpha", later)

Versions == {{}, {"beta"}, {"alpha"}}
AnyVersion(others) == {v \cup o : v \in Versions, o \in others}

\* The operations of the snapshotter that no Kanister function uses.
CloneSnapshot ==
  Operation(AnyVersion({{}, {"noStatus"}, {"notReady"}, {"driverError"}}),
            {"class", "content"}, {"snapshot", "target"},
    NewSnapshotter \o Versioned(CloneAlpha("snapshot", "target"), Clone("snapshot", "target")))

CloneClass ==
  Operation(AnyVersion({{}}), {}, {"class", "targetClass"},
    NewSnapshotter \o Versioned(CloneVolumeSnapshotClassAlpha, cloneSnapshotClass))

FindClass ==
  Operation({{}, {"classNamed"}, {"noClass"}}, {"class"}, {"storageClass"},
    NewSnapshotter \o GetSnapshotClassbyAnnotation)

MarkSnapshot ==
  Operation({{}, {"noStatus"}}, {}, {"snapshot"},
    NewSnapshotter \o listSnapshots \o updateVolumeSnapshotStatus("snapshot"))

---------------------------------------------------------------------------
(* pkg/kube/volume *)

\* A claim that exists under the name is the one that was asked for.
CreatePVC(claim) == Tolerate({"exists"}, Make(claim))

\* The larger one of the size asked for and the size in the snapshot's status.
getPVCRestoreSize ==
  NewSnapshotter \o Versioned(GetAlpha("snapshot"), getSnapshot("snapshot"))
  \o Unless("restoreSize", When("noStatus", Fail("err")))

CreatePVCFromSnapshot(claim) == getPVCRestoreSize \o Tolerate({"exists"}, Make(claim))

\* A volume with the label of the disk is the one that was made before; an
\* error of looking for it is ignored.
CreatePV(type, volume) ==
  Scope(Attempt("noVolume", AnyError, Get(volume)) \o Unless("noVolume", Return)
        \o When(type, Fail("err")) \o Make(volume))

\* context.TODO(); a minute for the claim to go.
DeletePVC(claim) ==
  Background(Tolerate({"nf"}, Delete(claim)) \o Gone(claim))

RestorePVC ==
  Operation(AnyVersion({{}, {"noStatus"}, {"noStatus", "restoreSize"}}), {}, {"snapshot", "pvc"},
    CreatePVCFromSnapshot("pvc"))

---------------------------------------------------------------------------
(* pkg/function: create_csi_snapshot.go, create_csi_snapshot_static.go, *)
(* delete_csi_snapshot.go, delete_csi_snapshot_content.go,              *)
(* restore_csi_snapshot.go                                              *)

Snapshotting == Call("kube.NewClient") \o Call("kube.NewDynamicClient") \o NewSnapshotter

\* Without a name argument a random name is used.
createCSISnapshot ==
  When("name", Versioned(CreateAlpha("snapshot", Create("snapshot")) \o GetAlpha("snapshot"),
                         createSnapshot("snapshot", Create("snapshot")) \o getSnapshot("snapshot")))
  \o Unless("name", Versioned(CreateAlpha("randomName", Spawn("randomName")) \o GetAlpha("randomName"),
                              createSnapshot("randomName", Spawn("randomName")) \o getSnapshot("randomName")))

CreateCSISnapshot ==
  Without({{}, {"name"}},
  Function({"pvc", "namespace", "snapshotClass"}, {"name", "labels"},
    Operation(AnyVersion({{}, {"driverError"}}) \cup {{"noSnapshotAPI"}}, {}, {"pvc"},
      Arg({"pvc", "namespace", "snapshotClass"}) \o OptArg({"name", "labels"})
      \o Snapshotting \o createCSISnapshot)))

createCSISnapshotStatic ==
  Versioned(CreateFromSourceAlpha("snapshot") \o GetAlpha("snapshot"),
            CreateFromSource("snapshot") \o getSnapshot("snapshot"))

CreateCSISnapshotStatic ==
  Function({"name", "namespace", "driver", "snapshotHandle", "snapshotClass"}, {},
    Operation(AnyVersion({{}, {"driverError"}}), {}, {"class"},
      Arg({"name", "namespace", "driver", "snapshotHandle", "snapshotClass"})
      \o Snapshotting \o createCSISnapshotStatic))

deleteCSISnapshot == Versioned(DeleteAlpha("snapshot"), deleteSnapshot("snapshot"))

\* Polls until the snapshot is not found; any other error ends the function.
waitForCSISnapshotDeletion == Gone("snapshot")

DeleteCSISnapshot ==
  Function({"name", "namespace"}, {},
    Operation(AnyVersion({{}}), {}, {"snapshot"},
      Arg({"name", "namespace"}) \o Snapshotting
      \o deleteCSISnapshot \o waitForCSISnapshotDeletion))

deleteCSISnapshotContent == Versioned(DeleteContentAlpha, DeleteContent)

DeleteCSISnapshotContent ==
  Function({"name"}, {},
    Operation(AnyVersion({{}}), {}, {"content"},
      Arg({"name"}) \o Snapshotting \o deleteCSISnapshotContent))

validateVolumeAccessModesArg == When("badAccessMode", Fail("err"))
validateVolumeModeArg == When("badVolumeMode", Fail("err"))

\* The claim is created and nothing is waited for; one that exists is an error.
restoreCSISnapshot == Make("pvc")

RestoreCSISnapshot ==
  Function({"name", "pvc", "namespace", "storageClass", "restoreSize"},
           {"accessModes", "volumeMode", "labels"},
    Operation({{}, {"badAccessMode"}, {"badVolumeMode"}, {"badSize"}}, {"snapshot"}, {"pvc"},
      Arg({"name", "pvc", "namespace", "storageClass", "restoreSize"})
      \o OptArg({"accessModes"}) \o validateVolumeAccessModesArg
      \o OptArg({"volumeMode"}) \o validateVolumeModeArg \o OptArg({"labels"})
      \o When("badSize", Fail("err")) \o Call("kube.NewClient") \o restoreCSISnapshot))

=============================================================================
