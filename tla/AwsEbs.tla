------------------------------- MODULE AwsEbs -------------------------------
(***************************************************************************)
(* The EBS provider, pkg/blockstorage/awsebs/awsebs.go.                    *)
(***************************************************************************)
EXTENDS BlockStorage

newEC2Client == Call("AWS session")

NewProvider == Background(Call("AWS configuration")) \o newEC2Client

\* A loop that only the calls end: describe fails, the volume is in error or is
\* available.  A pause is not cut short by the context.
waitOnVolume(vol) == When("volumeError", Fail("err")) \o Ready(vol)

\* A volume that does not become available is not deleted.
createVolume(vol) == Spawn(vol) \o waitOnVolume(vol)

VolumeGet(vol) == Get(vol)

VolumeCreate(vol) == createVolume(vol) \o VolumeGet(vol)

\* The second zone is taken: a region with one zone is a range error.  The call
\* succeeds when it is refused as a dry run.
CheckVolumeCreate ==
  newEC2Client \o Background(Call("describe zones")) \o When("oneZone", Panic)
  \o Background(Call("create volume, dry run"))

VolumesList == Call("describe volumes by tags")
SnapshotsList == Call("describe snapshots by tags")

\* Every error is reported as a snapshot that does not exist.
getSnapshots(snap) ==
  Attempt("describeFailed", AnyError, Get(snap)) \o When("describeFailed", Fail("nf"))

SnapshotGet(snap) == getSnapshots(snap)

\* Polls; a failed describe ends it.
waitOnSnapshotID(snap) == When("snapshotError", Fail("err")) \o Ready(snap)

SnapshotCreateWaitForCompletion(snap) == waitOnSnapshotID(snap)

\* CreateTags takes no context.
setResourceTags(thing) == Background(Do("tags"))
SetTags(thing) == setResourceTags(thing)

SnapshotCopy(from, to) ==
  When("noRegion", Fail("err")) \o newEC2Client
  \o When("otherRegion", Call("presign the request"))
  \o Get(from) \o Spawn(to) \o setResourceTags(to) \o waitOnSnapshotID(to) \o getSnapshots(to)

availabilityZoneToRegion == Call("describe zone") \o When("noZone", Fail("err"))

\* The snapshot is made before its region is looked up.
SnapshotCreate(vol, snap) == Get(vol) \o Spawn(snap) \o availabilityZoneToRegion

\* Not found is fine; snapshot.ID of a nil snapshot is not.
SnapshotDelete(snap) == When("nilSnapshot", Panic) \o Tolerate({"nf"}, Drop(snap))
VolumeDelete(vol) == Tolerate({"nf"}, Drop(vol))

FromRegion == newEC2Client \o Background(Call("describe zones of region"))

GetRegions == Background(Call("describe regions"))

VolumeCreateFromSnapshot(snap, vol) ==
  VolumeFields \o Tolerate(AnyError, Call("kube.NewClient"))
  \o FromSourceRegionZone(FromRegion)
  \o When("manyZones", Fail("err"))
  \o Get(snap) \o createVolume(vol) \o VolumeGet(vol)

SnapshotRestoreTargets == VolumeFields \o FromRegion

GetRegionFromEC2Metadata == Background(Call("instance metadata"))

---------------------------------------------------------------------------
(* The operations of the provider *)

MakeVolume ==
  Operation(SUBSET {"volumeError"}, {}, {}, NewProvider \o VolumeCreate("volume"))

RemoveVolume ==
  Operation({{}}, {}, {"volume"}, NewProvider \o VolumeDelete("volume"))

Survey ==
  Operation(SUBSET {"oneZone", "noFields"}, {}, {},
    GetRegionFromEC2Metadata \o NewProvider \o GetRegions \o VolumesList \o SnapshotsList
    \o SnapshotRestoreTargets \o CheckVolumeCreate)

CopySnapshot ==
  Operation({{}, {"otherRegion"}, {"noRegion"}, {"snapshotError"}}, {}, {"snapshot"},
    NewProvider \o SnapshotCopy("snapshot", "copy"))

=============================================================================
