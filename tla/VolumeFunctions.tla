--------------------------- MODULE VolumeFunctions --------------------------
(***************************************************************************)
(* The Kanister functions for snapshots of volumes, on EBS and on Google's *)
(* persistent disks (flag "gpd").  The snapshots of one call are made      *)
(* concurrently; module FanOut models what that does to their results.     *)
(***************************************************************************)
EXTENDS PodOps

EBS == INSTANCE AwsEbs
GPD == INSTANCE GcePd
CSI == INSTANCE CSISnapshots

\* The provider that the type of the volume names, from pkg/blockstorage/getter.
On(ebs, gpd) == Unless("gpd", ebs) \o When("gpd", gpd)
getterGet == On(EBS!NewProvider, GPD!NewProvider)

ValidateLocationForBlockstorage == When("badProfile", Fail("err"))

Provider == ValidateLocationForBlockstorage \o getterGet

---------------------------------------------------------------------------
(* create_volume_snapshot.go *)

\* The claim must be bound to a volume of a known kind.
getPVCInfo(pvc, pv) ==
  Get(pvc) \o When("unbound", Fail("err")) \o Get(pv) \o When("otherVolume", Fail("err"))
  \o Provider

\* A failure after SnapshotCreate leaves the snapshot, which nobody knows of.
snapshotVolume(vol, snap) ==
  On(EBS!VolumeGet(vol), GPD!VolumeGet(vol)) \o When("encrypted", Fail("err"))
  \o On(EBS!SetTags(vol), GPD!SetTags(vol))
  \o On(EBS!SnapshotCreate(vol, snap), GPD!SnapshotCreate(vol, snap))
  \o Unless("skipWait", On(EBS!SnapshotCreateWaitForCompletion(snap),
                           GPD!SnapshotCreateWaitForCompletion(snap)))

\* The claims of the workload when no list is given.
getPVCList == Unless("workload", Fail("missing"))

\* Every volume is snapshotted, whatever happens to the others.
createVolumeSnapshot ==
  getPVCInfo("pvc", "pv")
  \o Attempt("someFailed", AnyError, snapshotVolume("volume", "newSnapshot"))
  \o Attempt("otherFailed", AnyError, snapshotVolume("volume", "otherNewSnapshot"))
  \o When("someFailed", Fail("err")) \o When("otherFailed", Fail("err"))

CreateVolumeSnapshot ==
  Without({{}, {"skipWait"}, {"pvcs"}},
  Function({"namespace"}, {"pvcs", "skipWait"},
    Operation({{"workload"}, {"workload", "gpd"}, {}, {"badProfile"}, {"unbound"},
               {"otherVolume"}, {"encrypted"}, {"workload", "snapshotError"}},
              {"pvc", "pv", "volume"}, {},
      Call("kube.NewClient") \o Arg({"namespace"}) \o OptArg({"pvcs", "skipWait"})
      \o Unless("pvcs", getPVCList) \o createVolumeSnapshot)))

---------------------------------------------------------------------------
(* create_volume_from_snapshot.go *)

\* What exists under the name of the claim is deleted before the snapshot is
\* looked at.  An error of looking for the claim is taken for no claim.
RestoreClaim(snap, pvc, vol, pv) ==
  Provider
  \o Attempt("noClaim", AnyError, Get(pvc)) \o Unless("noClaim", CSI!DeletePVC(pvc))
  \o On(EBS!SnapshotGet(snap), GPD!SnapshotGet(snap))
  \o On(EBS!VolumeCreateFromSnapshot(snap, vol), GPD!VolumeCreateFromSnapshot(snap, vol))
  \o CSI!CreatePVC(pvc) \o CSI!CreatePV("otherType", pv)

createVolumeFromSnapshot ==
  When("badInfo", Fail("err")) \o When("wrongNumber", Fail("err"))
  \o RestoreClaim("snapshot1", "pvc1", "newVolume1", "newPV1")

CreateVolumeFromSnapshot ==
  Function({"namespace", "snapshots"}, {"pvcNames"},
    Operation({{"gpd"}, {"badInfo"}, {"wrongNumber"}, {"badProfile"}} \cup EBS!Places,
              {}, {"pvc1", "snapshot1"},
      Call("kube.NewClient") \o Arg({"namespace", "snapshots"}) \o OptArg({"pvcNames"})
      \o createVolumeFromSnapshot))

---------------------------------------------------------------------------
(* delete_volume_snapshot.go *)

\* "Snapshot already deleted" is logged, and the deletion goes on with the
\* snapshot that SnapshotGet did not return.
RemoveSnapshot(snap) ==
  Provider
  \o Attempt("nilSnapshot", {"nf"}, On(EBS!SnapshotGet(snap), GPD!SnapshotGet(snap)))
  \o On(EBS!SnapshotDelete(snap), GPD!SnapshotDelete(snap))

deleteVolumeSnapshot ==
  When("badInfo", Fail("err")) \o RemoveSnapshot("snapshot1") \o RemoveSnapshot("snapshot2")

DeleteVolumeSnapshot ==
  Function({"namespace", "snapshots"}, {},
    Operation({{}, {"gpd"}, {"badInfo"}, {"badProfile"}}, {}, {"snapshot1", "snapshot2"},
      Call("kube.NewClient") \o Arg({"namespace", "snapshots"}) \o deleteVolumeSnapshot))

---------------------------------------------------------------------------
(* wait_for_snapshot_completion.go *)

AwaitSnapshot(snap) ==
  Provider \o On(EBS!SnapshotGet(snap), GPD!SnapshotGet(snap))
  \o On(EBS!SnapshotCreateWaitForCompletion(snap), GPD!SnapshotCreateWaitForCompletion(snap))

waitForSnapshotsCompletion ==
  When("badInfo", Fail("err")) \o AwaitSnapshot("snapshot1") \o AwaitSnapshot("snapshot2")

WaitForSnapshotCompletion ==
  Function({"snapshots"}, {},
    Operation({{}, {"gpd"}, {"badInfo"}, {"snapshotError"}}, {}, {"snapshot1", "snapshot2"},
      Arg({"snapshots"}) \o waitForSnapshotsCompletion))

=============================================================================
