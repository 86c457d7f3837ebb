------------------------------ MODULE AzureDisk -----------------------------
(***************************************************************************)
(* The provider of Azure's managed disks, pkg/blockstorage/azure.  Every   *)
(* change is begun by one call and ended by another that polls it.         *)
(***************************************************************************)
EXTENDS BlockStorage

\* auth.go: managed identity, or a client secret with its tenant.
NewAzureAuthenticator == When("noCreds", Fail("err"))
Authenticate ==
  When("msi", Call("managed identity credential"))
  \o Unless("msi", Call("client secret credential"))

\* client.go: what the configuration does not say is asked of the instance.
queryMetadataBytes == Background(Call("instance metadata"))
NewClient ==
  When("bareConfig", queryMetadataBytes)
  \o NewAzureAuthenticator \o Authenticate \o Call("client factories")

NewProvider == Background(NewClient)

parseDiskID == When("badID", Fail("err"))
parseSnapshotID == When("badID", Fail("err"))

\* A disk without a type, a snapshot without an identifier.
VolumeParse == When("noType", Fail("err"))
snapshotParse == When("noID", Fail("err"))

VolumeGet(vol) == parseDiskID \o Get(vol) \o VolumeParse

getLocationInfo == When("noAz", Fail("err"))

VolumeCreate(vol) == getLocationInfo \o Spawn(vol) \o Ready(vol) \o VolumeParse

\* A disk that is not found is an error.
VolumeDelete(vol) == parseDiskID \o Delete(vol) \o Gone(vol)
\* The error is compared by errors.As with a value that is no pointer, which
\* As answers with a panic.
isNotFoundError == Panic

SnapshotGet(snap) ==
  parseSnapshotID
  \o Attempt("getFailed", AnyError, Get(snap)) \o When("getFailed", isNotFoundError)
  \o snapshotParse

\* The access that a copy needs ends with it.  When it cannot be ended the code
\* goes on with the poller it did not get.
revokeAccess(snap) == Unchecked(Drop("access"))

deleteBlob == Background(Drop("blob"))

getCopyOptions == Call("time left until the deadline")

SnapshotCopyWithArgs(from, to) ==
  Scope(When("noStorageKey", Fail("err")) \o Call("storage client") \o parseSnapshotID
        \o Get(from) \o Do("access") \o Defer(revokeAccess(from)) \o Call("poll the grant")
        \o Background(Call("create container"))
        \o Defer(deleteBlob) \o getCopyOptions \o Background(Do("blob"))
        \o Spawn(to) \o Ready(to) \o SnapshotGet(to))

SnapshotCreate(vol, snap) ==
  getLocationInfo \o Get(vol) \o Spawn(snap) \o Ready(snap) \o snapshotParse

\* Polls SnapshotGet until the deadline; its errors are waited out, except that
\* SnapshotGet does not return them.
SnapshotCreateWaitForCompletion(snap) == SnapshotGet(snap) \o Ready(snap)

SnapshotDelete(snap) ==
  When("nilSnapshot", Panic) \o parseSnapshotID \o Delete(snap) \o Gone(snap)

VolumesList == Call("pages of disks") \o VolumeParse

\* A snapshot that cannot be parsed is left out.
SnapshotsList == Call("pages of snapshots")

dynamicRegionMapAzure == Call("pages of locations") \o Call("pages of SKUs")
FromRegion == dynamicRegionMapAzure \o When("noRegion", Fail("err"))
GetRegions == dynamicRegionMapAzure
SnapshotRestoreTargets == VolumeFields \o FromRegion

\* A cluster without zones: the region of its nodes.
getRegionAndZoneID ==
  Scope(Call("kube.NewClient") \o NodeZonesAndRegion \o When("noZones", Return)
        \o FromSourceRegionZone(FromRegion) \o When("manyZones", Fail("err")) \o getLocationInfo)

VolumeCreateFromSnapshot(snap, vol) ==
  getRegionAndZoneID \o Get(snap) \o Spawn(vol) \o Ready(vol) \o VolumeParse

SetTags(thing) == parseDiskID \o Get(thing) \o Do("tags") \o Call("poll the update")

---------------------------------------------------------------------------
(* The operations of the provider *)

MakeVolume ==
  Operation({{}, {"msi", "bareConfig"}, {"noCreds"}, {"noAz"}, {"noType"}}, {}, {},
    NewProvider \o VolumeCreate("volume"))

RemoveVolume ==
  Operation({{}, {"badID"}}, {}, {"volume"}, NewProvider \o VolumeDelete("volume"))

Survey ==
  Operation({{}, {"noFields"}, {"noRegion"}}, {}, {},
    NewProvider \o GetRegions \o VolumesList \o SnapshotsList \o SnapshotRestoreTargets)

CopySnapshot ==
  Operation({{}, {"noStorageKey"}}, {}, {"snapshot"},
    NewProvider \o SnapshotCopyWithArgs("snapshot", "copy"))

BackUp ==
  Operation({{}, {"noAz"}}, {}, {"volume"},
    NewProvider \o VolumeGet("volume") \o SetTags("volume")
    \o SnapshotCreate("volume", "snapshot") \o SnapshotCreateWaitForCompletion("snapshot"))

RestoreVolume ==
  Operation({{}, {"noZones"}, {"manyZones"}, {"noNodes"}}, {}, {"snapshot"},
    NewProvider \o SnapshotGet("snapshot") \o VolumeCreateFromSnapshot("snapshot", "volume"))

RemoveSnapshot ==
  Operation({{}}, {}, {"snapshot"}, NewProvider \o SnapshotDelete("snapshot"))

=============================================================================
