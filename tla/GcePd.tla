-------------------------------- MODULE GcePd -------------------------------
(***************************************************************************)
(* The provider of Google's persistent disks,                              *)
(* pkg/blockstorage/gcepd/gcepd.go.  A disk with several zones is a        *)
(* regional disk; the zones must then be of one region.                    *)
(***************************************************************************)
EXTENDS BlockStorage

NewClient == Background(Call("google credentials") \o Call("compute.NewService"))
NewProvider == NewClient

getRegionFromZones == When("badZone", Fail("err"))
Zoned == When("multiZone", getRegionFromZones)

\* Polls the operation; the error of a poll ends the wait.
waitOnOperation == Call("wait on operation")

VolumeGet(vol) == Zoned \o Get(vol)

getSelfLinks == Call("get zones")

\* The request is accepted, its operation is waited for.
VolumeCreate(vol) ==
  Zoned \o When("multiZone", getSelfLinks)
  \o Spawn(vol) \o waitOnOperation \o Ready(vol) \o VolumeGet(vol)

VolumeDelete(vol) ==
  Zoned \o Attempt("noDisk", {"nf"}, Delete(vol))
  \o Unless("noDisk", waitOnOperation \o Gone(vol))

\* Not found is taken for not there yet.
SnapshotCreate(vol, snap) == Zoned \o Get(vol) \o Spawn(snap) \o Ready(snap)

waitOnSnapshotID(snap) == When("snapshotError", Fail("err")) \o Ready(snap)
SnapshotCreateWaitForCompletion(snap) == waitOnSnapshotID(snap)

\* snapshot.ID of a nil snapshot, as for EBS.
SnapshotDelete(snap) ==
  When("nilSnapshot", Panic)
  \o Attempt("noSnapshot", {"nf"}, Delete(snap))
  \o Unless("noSnapshot", waitOnOperation \o Gone(snap))

\* Only a not found is reported as a snapshot that does not exist.
SnapshotGet(snap) == Get(snap)

VolumesList == Zoned \o Call("list disks")
SnapshotsList == Call("list snapshots")

dynamicRegionToZoneMap == Call("list zones")
FromRegion == dynamicRegionToZoneMap \o When("noRegion", Fail("err"))
GetRegions == dynamicRegionToZoneMap

VolumeCreateFromSnapshot(snap, vol) ==
  Get(snap) \o VolumeFields \o getRegionFromZones
  \o Tolerate(AnyError, Call("kube.NewClient"))
  \o FromSourceRegionZone(FromRegion) \o getRegionFromZones
  \o When("multiZone", getSelfLinks)
  \o Spawn(vol) \o waitOnOperation \o Ready(vol) \o VolumeGet(vol)

\* The labels are set without a context, then the operation is waited for.
SetTags(thing) == Zoned \o Get(thing) \o Background(Do("tags")) \o waitOnOperation

---------------------------------------------------------------------------
(* The operations of the provider *)

MakeVolume ==
  Operation({{}, {"multiZone"}, {"multiZone", "badZone"}}, {}, {},
    NewProvider \o VolumeCreate("volume"))

RemoveVolume ==
  Operation({{}, {"multiZone"}}, {}, {"volume"}, NewProvider \o VolumeDelete("volume"))

Survey ==
  Operation({{}, {"noRegion"}}, {}, {},
    NewProvider \o GetRegions \o VolumesList \o SnapshotsList \o FromRegion)

=============================================================================
