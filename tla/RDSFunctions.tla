---------------------------- MODULE RDSFunctions ----------------------------
(***************************************************************************)
(* The Kanister functions for RDS databases (pkg/function/*rds*.go) and    *)
(* the client they use (pkg/aws/rds).  An instance or a cluster is created *)
(* and deleted by calls that return before the work is done, and by waits. *)
(* The flag "aurora" stands for the Aurora engines, which have clusters    *)
(* with instances as members.                                              *)
(***************************************************************************)
EXTENDS DataFunctions

getAWSConfigFromProfile == Call("AWS configuration of the profile")

RDSClient == ValidateProfile \o getAWSConfigFromProfile \o Call("rds.NewClient")

---------------------------------------------------------------------------
(* pkg/aws/rds *)

DeleteDBInstance(db) == Delete(db)
WaitUntilDBInstanceDeleted(db) == Gone(db)
WaitUntilDBInstanceAvailable(db) == Ready(db)

\* Polls DescribeDBClusters until it says that there is no such cluster.
WaitUntilDBClusterDeleted(cluster) == Gone(cluster)

\* Polls; an error of a call is taken for a cluster that is not available yet.
WaitUntilDBClusterAvailable(cluster) == Ready(cluster)

\* The service refuses when the snapshot does not exist.
RestoreFrom(snapshot, creation) == Get(snapshot) \o creation

---------------------------------------------------------------------------
(* pkg/function/utils.go *)

findSecurityGroups(db) == Get(db)

\* A cluster that is not found has no security groups.
findAuroraSecurityGroups(cluster) == Tolerate({"nf"}, Get(cluster))

GetRDSDBSubnetGroup(db) == Get(db)
GetRDSAuroraDBSubnetGroup(cluster) == Tolerate({"nf"}, Get(cluster))

\* Both use context.TODO().
createPostgresSecret == Background(Spawn("postgresSecret"))
deletePostgresSecret == Background(Drop("postgresSecret"))

---------------------------------------------------------------------------

createSnapshot ==
  Unless("aurora", Get("instance") \o Spawn("newSnapshot") \o Ready("newSnapshot"))
  \o When("aurora", Get("cluster") \o Spawn("newSnapshot") \o Ready("newSnapshot"))

\* A failure after the snapshot is complete leaves it behind.
createRDSSnapshot ==
  RDSClient \o createSnapshot
  \o Unless("aurora", findSecurityGroups("instance") \o GetRDSDBSubnetGroup("instance"))
  \o When("aurora", findAuroraSecurityGroups("cluster") \o GetRDSAuroraDBSubnetGroup("cluster"))

CreateRDSSnapshot ==
  Function({"instanceID"}, {"dbEngine"},
    Operation(SUBSET {"aurora"}, {"instance", "cluster"}, {},
      Arg({"instanceID"}) \o OptArg({"dbEngine"}) \o createRDSSnapshot))

---------------------------------------------------------------------------
(* delete_rds_snapshot.go: a snapshot that is not found is a success.  For *)
(* an Aurora snapshot the code waits for a CLUSTER of the snapshot's name. *)

\* Only an awserr.Error is looked at: after an error that is none (flag
\* "otherError") the code goes on to the wait.
deleteSnapshot(snapshot) ==
  Attempt("notFound", {"nf"},
    Unless("otherError", Delete(snapshot)) \o When("otherError", Tolerate({"err"}, Delete(snapshot))))
  \o When("notFound", Return)

deleteRDSSnapshot ==
  RDSClient
  \o Unless("aurora", deleteSnapshot("dbSnapshot") \o Gone("dbSnapshot"))
  \o When("aurora", deleteSnapshot("clusterSnapshot")
                    \o WaitUntilDBClusterDeleted("clusterNamedAsSnapshot"))

DeleteRDSSnapshot ==
  Function({"snapshotID"}, {"dbEngine"},
    Operation(SUBSET {"aurora", "otherError"}, {}, {"dbSnapshot", "clusterSnapshot"},
      Arg({"snapshotID"}) \o OptArg({"dbEngine"}) \o deleteRDSSnapshot))

---------------------------------------------------------------------------
(* restore_rds_snapshot.go *)

\* What exists under the name is deleted first; not found is fine.
restoreFromSnapshot(db, creation) ==
  Attempt("notThere", {"nf"}, DeleteDBInstance(db))
  \o Unless("notThere", WaitUntilDBInstanceDeleted(db))
  \o RestoreFrom("dbSnapshot", creation) \o WaitUntilDBInstanceAvailable(db)

\* Every member and then the cluster; each is waited for unless it is gone.
DeleteMember(db, gone) ==
  Attempt(gone, {"nf"}, DeleteDBInstance(db)) \o Unless(gone, WaitUntilDBInstanceDeleted(db))

DeleteAuroraDBCluster ==
  DeleteMember("member", "noMember") \o DeleteMember("newMember", "noNewMember")
  \o Attempt("noCluster", {"nf"}, Delete("cluster"))
  \o Unless("noCluster", WaitUntilDBClusterDeleted("cluster"))

engineVersion == Get("clusterSnapshot")

\* if err := DeleteAuroraDBCluster(...); err != nil { return nil }
restoreAuroraFromSnapshot ==
  Attempt("clusterNotFound", {"nf"}, Get("cluster"))
  \o Attempt("deleteFailed", AnyError, Unless("clusterNotFound", DeleteAuroraDBCluster))
  \o When("deleteFailed", Return)
  \o engineVersion
  \o RestoreFrom("clusterSnapshot", Create("cluster")) \o WaitUntilDBClusterAvailable("cluster")
  \o Create("newMember") \o WaitUntilDBInstanceAvailable("newMember")

---------------------------------------------------------------------------
(* export_rds_snapshot_location.go *)

\* Only PostgreSQL is known; without a list of databases the server is asked.
prepareCommand ==
  Unless("postgres", Fail("err")) \o Unless("databases", Call("findDBList"))

cleanupRDSDB(db) == DeleteDBInstance(db) \o WaitUntilDBInstanceDeleted(db)

execDumpCommand ==
  Scope(prepareCommand \o Clients \o createPostgresSecret
        \o Defer(deletePostgresSecret) \o kubeTask)

findRDSEndpoint(db) == Get(db)
rdsDBEngineVersion(db) == Get(db)

\* The temporary instance is deleted under the caller's context, and only once
\* it was available.
exportRDSSnapshotToLoc ==
  Scope(RDSClient \o Unless("securityGroupID", findSecurityGroups("instance"))
        \o restoreFromSnapshot("tmpInstance", Spawn("tmpInstance"))
        \o Defer(cleanupRDSDB("tmpInstance"))
        \o findRDSEndpoint("tmpInstance") \o rdsDBEngineVersion("tmpInstance")
        \o execDumpCommand)

ExportRDSSnapshotToLocation ==
  Without({{}, {"securityGroupID", "databases"}},
  Function({"namespace", "instanceID", "snapshotID", "dbEngine"},
           {"username", "password", "backupArtifactPrefix", "databases",
            "securityGroupID", "dbSubnetGroup"} \cup Pod,
    Operation(SUBSET {"postgres"}, {"instance", "dbSnapshot"}, {},
      Arg({"namespace", "instanceID", "snapshotID", "dbEngine"})
      \o OptArg({"username", "password", "backupArtifactPrefix", "dbSubnetGroup", "image"})
      \o MergeBPMetadata \o OptArg({"databases", "securityGroupID"})
      \o exportRDSSnapshotToLoc)))

\* With a snapshot the instance or cluster is restored from it; without one the
\* dump is loaded into the instance.
restoreRDSSnapshot ==
  RDSClient
  \o When("snapshotID",
       Unless("securityGroupID",
         Unless("aurora", findSecurityGroups("instance"))
         \o When("aurora", findAuroraSecurityGroups("cluster")))
       \o Unless("aurora", restoreFromSnapshot("instance", Create("instance")))
       \o When("aurora", Scope(restoreAuroraFromSnapshot)))
  \o Unless("snapshotID",
       findRDSEndpoint("instance") \o rdsDBEngineVersion("instance") \o execDumpCommand)

DumpArgs == {"backupArtifactPrefix", "backupID", "username", "password", "namespace"}

RestoreRDSSnapshot ==
  Without({{}, {"securityGroupID"}, {"snapshotID"}},
  Function({"instanceID"},
           {"snapshotID", "dbEngine", "securityGroupID", "dbSubnetGroup"} \cup DumpArgs \cup Pod,
    Operation(SUBSET {"aurora", "postgres"}, {"dbSnapshot", "clusterSnapshot"},
              {"instance", "cluster", "member"},
      Arg({"instanceID"}) \o OptArg({"snapshotID", "dbEngine", "dbSubnetGroup", "image"})
      \o MergeBPMetadata \o OptArg({"securityGroupID"})
      \o Unless("snapshotID", Arg(DumpArgs)) \o restoreRDSSnapshot)))

=============================================================================
