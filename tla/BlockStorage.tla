---------------------------- MODULE BlockStorage ----------------------------
(***************************************************************************)
(* What the block storage providers share (pkg/blockstorage,               *)
(* pkg/blockstorage/zone).  A volume or a snapshot is created under an     *)
(* identifier nobody else knows: a creation that fails half-way leaves it  *)
(* behind, and a retry makes another one.  Which of several zones is taken *)
(* is left out: only the calls and their failures matter here.             *)
(***************************************************************************)
EXTENDS Steps

\* context.TODO(); no ready node is an error.
GetReadySchedulableNodes == Background(Call("list nodes")) \o When("noNodes", Fail("err"))

\* Not one region is an error.
NodeZonesAndRegion == GetReadySchedulableNodes \o When("manyRegions", Fail("err"))

\* Whatever goes wrong here leaves no zone of the cluster's.
getAvailableZones(fromRegion) ==
  Tolerate(AnyError, When("noClient", Fail("err")) \o NodeZonesAndRegion \o fromRegion)

\* The zones of the cluster, or else the ones of the snapshot that the provider
\* still has.
FromSourceRegionZone(fromRegion) ==
  getAvailableZones(fromRegion)
  \o When("noClusterZone", fromRegion \o When("noZone", Fail("err")))

\* The fields of the snapshot's volume that are needed to make another one.
VolumeFields == When("noFields", Fail("err"))

\* What a restore may find.
Places == {{}, {"noFields"}, {"noNodes", "noClusterZone"}, {"noClient", "noClusterZone"},
           {"manyRegions", "noClusterZone", "noZone"}}

=============================================================================
