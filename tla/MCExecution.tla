---------------------------- MODULE MCExecution -----------------------------
(***************************************************************************)
(* All operations together, each under the name that Promises knows it by. *)
(***************************************************************************)
EXTENDS Promises

F == INSTANCE KubeFunctions
V == INSTANCE VolumeFunctions
AZ == INSTANCE AzureDisk
KD == INSTANCE Kando
KC == INSTANCE Kanctl
A == INSTANCE Apps

MCOps ==
  LET operations ==
      [KubeTask |-> F!KubeTask, PrepareData |-> F!PrepareData, KubeExec |-> F!KubeExec,
       MultiContainerRun |-> F!MultiContainerRun, BackupData |-> F!BackupData,
       BackupDataStats |-> F!BackupDataStats, CheckRepository |-> F!CheckRepository,
       CopyVolumeData |-> F!CopyVolumeData, DeleteData |-> F!DeleteData,
       DeleteDataAll |-> F!DeleteDataAll, RestoreData |-> F!RestoreData,
       BackupDataUsingKopiaServer |-> F!BackupDataUsingKopiaServer,
       DeleteDataUsingKopiaServer |-> F!DeleteDataUsingKopiaServer,
       RestoreDataUsingKopiaServer |-> F!RestoreDataUsingKopiaServer,
       CreateRDSSnapshot |-> A!CreateRDSSnapshot, DeleteRDSSnapshot |-> A!DeleteRDSSnapshot,
       ExportRDSSnapshotToLocation |-> A!ExportRDSSnapshotToLocation,
       RestoreRDSSnapshot |-> A!RestoreRDSSnapshot,
       CloneSnapshot |-> V!CSI!CloneSnapshot, CloneClass |-> V!CSI!CloneClass,
       FindClass |-> V!CSI!FindClass, MarkSnapshot |-> V!CSI!MarkSnapshot,
       RestorePVC |-> V!CSI!RestorePVC,
       CreateCSISnapshot |-> V!CSI!CreateCSISnapshot,
       CreateCSISnapshotStatic |-> V!CSI!CreateCSISnapshotStatic,
       DeleteCSISnapshot |-> V!CSI!DeleteCSISnapshot,
       DeleteCSISnapshotContent |-> V!CSI!DeleteCSISnapshotContent,
       RestoreCSISnapshot |-> V!CSI!RestoreCSISnapshot,
       CreateVolumeSnapshot |-> V!CreateVolumeSnapshot,
       CreateVolumeFromSnapshot |-> V!CreateVolumeFromSnapshot,
       DeleteVolumeSnapshot |-> V!DeleteVolumeSnapshot,
       WaitForSnapshotCompletion |-> V!WaitForSnapshotCompletion,
       MakeEBS |-> V!EBS!MakeVolume, RemoveEBS |-> V!EBS!RemoveVolume,
       SurveyEBS |-> V!EBS!Survey, CopyEBS |-> V!EBS!CopySnapshot,
       MakeGPD |-> V!GPD!MakeVolume, RemoveGPD |-> V!GPD!RemoveVolume,
       SurveyGPD |-> V!GPD!Survey,
       MakeAD |-> AZ!MakeVolume, RemoveAD |-> AZ!RemoveVolume, SurveyAD |-> AZ!Survey,
       CopyAD |-> AZ!CopySnapshot, BackUpAD |-> AZ!BackUp, RestoreAD |-> AZ!RestoreVolume,
       RemoveSnapshotAD |-> AZ!RemoveSnapshot,
       KubeOps |-> F!KubeOps, Wait |-> F!Wait, WaitV2 |-> F!WaitV2,
       LocationDelete |-> F!LocationDelete, ScaleWorkload |-> F!ScaleWorkload,
       KubeExecAll |-> F!KubeExecAll, BackupDataAll |-> F!BackupDataAll,
       RestoreDataAll |-> F!RestoreDataAll,
       OpenBucket |-> KD!OpenBucket, RemoveBucket |-> KD!RemoveBucket,
       LocationPush |-> KD!LocationPush, LocationPull |-> KD!LocationPull,
       KandoDelete |-> KD!KandoDelete, ProcessCreate |-> KD!ProcessCreate,
       ProcessList |-> KD!ProcessList, ProcessOutput |-> KD!ProcessOutput,
       StreamPush |-> KD!StreamPush, ChroniclePull |-> KD!ChroniclePull,
       ChroniclePush |-> KD!ChroniclePush,
       CreateActionSet |-> KC!CreateActionSet, CreateProfile |-> KC!CreateProfile,
       Validate |-> KC!Validate, CreateRepositoryServer |-> KC!CreateRepositoryServer,
       Cassandra |-> A!Cassandra, MySQL |-> A!MySQL, Maria |-> A!Maria,
       PostgreSQL |-> A!PostgreSQL, MongoDB |-> A!MongoDB,
       Elasticsearch |-> A!Elasticsearch, Couchbase |-> A!Couchbase,
       CockroachDB |-> A!CockroachDB, FoundationDB |-> A!FoundationDB, MSSQL |-> A!MSSQL,
       TimeLogCSI |-> A!TimeLogCSI, MongoDBDepConfig |-> A!MongoDBDepConfig,
       MysqlDBDepConfig |-> A!MysqlDBDepConfig,
       PostgreSQLDepConfig |-> A!PostgreSQLDepConfig, RDSAuroraMySQL |-> A!RDSAuroraMySQL,
       RDSPostgreSQL |-> A!RDSPostgreSQL, Kafka |-> A!Kafka]
  IN operations

=============================================================================
