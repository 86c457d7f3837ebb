------------------------------- MODULE Kando --------------------------------
(***************************************************************************)
(* The commands of kando, the tool that blueprints run inside containers   *)
(* (pkg/kando), with the client of the process server (pkg/kanx),          *)
(* the data mover (pkg/kopia/repository, pkg/kopia/snapshot,               *)
(* pkg/datamover) that its location commands use, and                      *)
(* chronicle pull and push of one output (pkg/chronicle).                  *)
(***************************************************************************)
EXTENDS Locations

---------------------------------------------------------------------------
(* pkg/kopia: the repository *)

ExtractFingerprintFromCertificate == Call("fingerprint of the certificate")

\* Writes the configuration of the client; a refused connection is tried again.
ConnectToAPIServer == ExtractFingerprintFromCertificate \o Do("config")

OpenRepository == Check("config") \o Call("repository and its writer")

\* The manifest of the snapshot and the entry of the file in it.
GetStreamingFileObjectIDFromSnapshot == Get("snapshot") \o When("noRoot", Fail("err")) \o Call("nested entry")

findPreviousSnapshotManifest == Call("list of the snapshots")

\* The snapshot is complete and saved, and yet an error when files of it failed.
reportStatus == When("failedEntries", Fail("err"))

SnapshotSource ==
  findPreviousSnapshotManifest \o Call("policy tree") \o Call("upload")
  \o Spawn("snapshot") \o Call("policy.SetManual") \o Ready("snapshot") \o reportStatus

SnapshotWrite == OpenRepository \o SnapshotSource

getLocalFSEntry == Call("entry of the local file system")

SnapshotWriteFile == OpenRepository \o getLocalFSEntry \o SnapshotSource

SnapshotRead == OpenRepository \o GetStreamingFileObjectIDFromSnapshot \o Call("open the object") \o Do("target")

SnapshotReadFile == OpenRepository \o Get("snapshot") \o Do("target")

SnapshotDelete == OpenRepository \o Get("snapshot") \o Delete("snapshot") \o Gone("snapshot")

MarshalKopiaSnapshot == Call("encode the snapshot")
UnmarshalKopiaSnapshot == When("badSnapshot", Fail("err"))

---------------------------------------------------------------------------
(* pkg/datamover *)

kopiaLocationPull == When("pipe", SnapshotRead) \o Unless("pipe", SnapshotReadFile)

kopiaLocationPush ==
  When("pipe", SnapshotWrite) \o Unless("pipe", SnapshotWriteFile)
  \o MarshalKopiaSnapshot \o Call("output.PrintOutput")

kopiaLocationDelete == SnapshotDelete

\* The file is made, or opened as it is, before anything is read.
targetWriter == Unless("pipe", Do("target"))

sourceReader == Call("open the source") \o When("pipe", When("notPiped", Fail("err")))

\* Without a host any of the users the server knows will do.
hostnameAndUserPassphrase == When("unknownHost", Fail("err"))

\* The two data movers; the one of a repository server looks up its user first.
connectToKopiaRepositoryServer ==
  When("repositoryServer", hostnameAndUserPassphrase) \o ConnectToAPIServer

unmarshalKopiaSnapshot == When("noSnapshot", Fail("err")) \o UnmarshalKopiaSnapshot

serverPull == unmarshalKopiaSnapshot \o connectToKopiaRepositoryServer \o kopiaLocationPull
serverPush == connectToKopiaRepositoryServer \o kopiaLocationPush
serverDelete == unmarshalKopiaSnapshot \o connectToKopiaRepositoryServer \o kopiaLocationDelete

profilePull == targetWriter \o Read("artifact") \o Do("target")
profilePush ==
  sourceReader \o When("pipe", WritePipe("artifact")) \o Unless("pipe", Write("artifact"))
profileDelete == DeleteFrom("artifact")

---------------------------------------------------------------------------
(* The commands *)

\* Exactly one of --profile and --repository-server.
validateCommandArgs == When("bothFlags", Fail("err")) \o When("noFlag", Fail("err"))

dataMoverFromCMD == When("badJSON", Fail("err"))

\* A profile whose location is a Kopia server is moved like a repository server.
Movers(profile, server) ==
  validateCommandArgs \o dataMoverFromCMD
  \o When("repositoryServer", Scope(server) \o Return) \o When("kopia", Scope(server) \o Return)
  \o profile

Servers == {{"repositoryServer"}, {"kopia"}, {"repositoryServer", "pipe"}}
Refused == {{"bothFlags"}, {"noFlag"}, {"badJSON"}}

LocationPush ==
  Operation(Stores \cup Refused \cup Servers \cup {{"s3", "pipe", "notPiped"},
              {"s3", "pipe"}, {"azure", "pipe"}, {"repositoryServer", "unknownHost"}, {"kopia", "failedEntries"}},
            {"bucket"}, {}, Movers(profilePush, serverPush))

LocationPull ==
  Operation(Stores \cup Refused \cup Servers \cup {{"kopia", "noSnapshot"},
              {"kopia", "badSnapshot"}, {"kopia", "pipe", "noRoot"}},
            {"bucket"}, {"artifact", "snapshot"}, Movers(profilePull, serverPull))

KandoDelete ==
  Operation(Stores \cup Servers \cup {{"kopia", "noSnapshot"}},
            {"bucket"}, {"artifact", "snapshot"}, Movers(profileDelete, serverDelete))

---------------------------------------------------------------------------
(* process: the server is module ProcessServer *)

processAddressFlagValue == Call("address of the socket")
newGRPCConnection == Call("connection")

CreateProcess == newGRPCConnection \o Spawn("process")
ListProcesses == newGRPCConnection \o Call("receive the processes")
Stdout == newGRPCConnection \o Get("process") \o Call("receive and write the output")

\* With --as-json the error of the creation is forgotten: it is overwritten by
\* the one of the encoding of the process that is not there.
runProcessClientCreate ==
  processAddressFlagValue \o When("asJSON", Tolerate(AnyError, CreateProcess) \o Call("encode") \o Return)
  \o CreateProcess

runProcessClientList == processAddressFlagValue \o ListProcesses \o When("asJSON", Call("encode"))

runProcessClientOutput == When("badPid", Fail("err")) \o processAddressFlagValue \o Background(Stdout)

ProcessCreate == Operation(SUBSET {"asJSON"}, {}, {}, runProcessClientCreate)
ProcessList == Operation(SUBSET {"asJSON"}, {}, {}, runProcessClientList)
ProcessOutput == Operation(SUBSET {"badPid"}, {}, {"process"}, runProcessClientOutput)

---------------------------------------------------------------------------
(* stream push *)

\* The tree of the file: every directory on the path is added to the one above.
addToTree == When("badPath", Fail("err"))

StreamPush ==
  Operation(SUBSET {"badPath"} \cup {{"failedEntries"}}, {}, {"config"},
    Background(OpenRepository \o addToTree \o Call("dial the source") \o SnapshotSource))

---------------------------------------------------------------------------
(* chronicle: module Chronicle has the pushing over time *)

\* The error of reading the manifest is ignored: the path is then empty, and
\* nothing is found under it.
chroniclePull ==
  Attempt("noManifest", AnyError, Read("manifest"))
  \o When("noManifest", Call("read nothing") \o Fail("err")) \o Read("artifact") \o Do("target")

runChroniclePull == targetWriter \o When("badJSON", Fail("err")) \o Background(chroniclePull)

ChroniclePull ==
  Operation(Stores \cup {{"badJSON"}}, {"bucket"}, {"manifest", "artifact"}, runChroniclePull)

readProfile == When("noProfile", Return) \o When("badJSON", Fail("err"))

pushWithEnv ==
  Call("start the command") \o WritePipe("artifact") \o Call("wait for the command")
  \o Write("manifest") \o Tolerate(AnyError, Scope(DeleteFrom("previous")))

\* One round of the loop: without a profile it does nothing.
chroniclePush == readProfile \o Call("environment") \o pushWithEnv

ChroniclePush ==
  Operation(Stores \cup {{"badJSON"}, {"noProfile"}}, {"bucket"}, {"previous"}, chroniclePush)

=============================================================================
