-------------------------------- MODULE Apps --------------------------------
(***************************************************************************)
(* The applications Kanister is tried out with (pkg/app), the clients that *)
(* install them (pkg/helm, pkg/openshift) and the life the integration     *)
(* suite gives each of them: installed into a namespace of its own, filled,*)
(* emptied, and uninstalled whatever happened in between.                  *)
(*                                                                         *)
(* An application is a record with the steps of every method of the        *)
(* interfaces App and DatabaseApp.  "workload" is what the pods commands   *)
(* are executed in belong to; "table" is what holds the entries.           *)
(***************************************************************************)
EXTENDS RDSFunctions

---------------------------------------------------------------------------
(* pkg/helm/client.go and pkg/openshift/oc.go: commands on the host *)

FindVersion == Call("helm version")
NewCliClient == FindVersion
UpdateRepo == Tolerate(AnyError, Call("helm repo update"))
AddRepo == Call("helm repo add") \o UpdateRepo

\* helm install: refuses the name of a release that is there, even of one that
\* failed; with --wait it returns when the workloads are ready.
HelmInstall(release) == Create(release)
HelmInstallAndWait(release) == HelmInstall(release) \o Ready(release)
HelmUninstall(release) == Drop(release)

\* oc new-app on a template, oc delete all by the label of the template.
NewApp == Create("workload")
DeleteApp == Drop("workload")

---------------------------------------------------------------------------
(* What the applications share *)

\* Init: the configuration and the clients of the cluster.
kubeClients == Call("kube configuration and clients")

installChart == NewCliClient \o AddRepo \o HelmInstallAndWait("workload")
uninstallChart == NewCliClient \o HelmUninstall("workload")

\* By the status of the workload: module Workloads has when that is early.
WaitOnWorkloadReady(w) == Poll(w)

\* GetPodContainerFrom*: no ready pod is an error.  Then the command runs.
GetPodContainer == Check("workload")
execCommand(cmd) == GetPodContainer \o cmd

create(t) == execCommand(Make(t))                            \* CREATE
dropIfExists(t) == execCommand(Tolerate({"nf"}, Drop(t)))    \* DROP ... IF EXISTS
query == execCommand(Get("table"))                           \* SELECT, INSERT
command == execCommand(Call("a command of the database"))

\* An application that is one helm chart.
chartApp(ready, data) ==
  [init |-> kubeClients, install |-> installChart, ready |-> ready,
   data |-> data, uninstall |-> uninstallChart]

---------------------------------------------------------------------------
(* cassandra.go, mysql.go, mariadb.go, postgresql.go, mongodb.go,          *)
(* elasticsearch.go: charts with a stateful set                            *)

\* One command drops the table and the keyspace; two commands create them.
cassandraData ==
  [ping |-> command, reset |-> dropIfExists("table") \o dropIfExists("keyspace"),
   initialize |-> create("keyspace") \o create("table"), insert |-> query, count |-> query]

cassandra == chartApp(WaitOnWorkloadReady("workload"), cassandraData)

\* Reset waits for a ping first.
mysqlData ==
  [ping |-> command, reset |-> command \o dropIfExists("table"),
   initialize |-> create("table"), insert |-> query, count |-> query]

mysql == chartApp(WaitOnWorkloadReady("workload"), mysqlData)

mariadbData ==
  [ping |-> command, reset |-> command \o dropIfExists("table"),
   initialize |-> create("table"), insert |-> query, count |-> query]

mariadb == chartApp(WaitOnWorkloadReady("workload"), mariadbData)

\* DROP DATABASE takes the table along.
postgresData ==
  [ping |-> command, reset |-> dropIfExists("table") \o dropIfExists("database"),
   initialize |-> create("database") \o create("table"), insert |-> query, count |-> query]

postgres == chartApp(WaitOnWorkloadReady("workload"), postgresData)

\* A collection comes into being with its first document.  The ping asks
\* twice: whether the server answers and whether the pod is the primary.
mongoData ==
  [ping |-> command \o execCommand(Call("isMaster")), reset |-> dropIfExists("table"),
   initialize |-> << >>, insert |-> execCommand(Do("table")), count |-> command]

\* The stateful sets of the members and of the arbiter.
mongo == chartApp(WaitOnWorkloadReady("workload") \o WaitOnWorkloadReady("workload"), mongoData)

\* curl succeeds whatever the server answers.
elasticsearchData ==
  [ping |-> command, reset |-> dropIfExists("table"),
   initialize |-> execCommand(Tolerate({"exists"}, Make("table"))),
   insert |-> execCommand(Do("table")), count |-> command]

elasticsearch == chartApp(WaitOnWorkloadReady("workload"), elasticsearchData)

---------------------------------------------------------------------------
(* couchbase.go and cockroachdb.go: credentials are read from a secret of  *)
(* the release once its pods are ready                                     *)

waitForCount == command

\* Insert counts before, and waits until one more is counted.
couchbaseData ==
  [ping |-> command,
   reset |-> execCommand(Call("create index")) \o dropIfExists("table") \o waitForCount,
   initialize |-> << >>,
   insert |-> command \o execCommand(Do("table")) \o waitForCount, count |-> command]

couchbase ==
  chartApp(WaitOnWorkloadReady("workload") \o Call("read the secret of the cluster"),
           couchbaseData)

\* The garbage collector is waited for, its error is not looked at.
waitForGC == Tolerate(AnyError, command)

cockroachData ==
  [ping |-> command, reset |-> command \o dropIfExists("table") \o waitForGC,
   initialize |-> create("table"), insert |-> query, count |-> query]

\* The certificates of the secret are put into the pod.
cockroachReady ==
  WaitOnWorkloadReady("workload") \o Call("read the client certificates")
  \o execCommand(Do("certificates"))

cockroach ==
  [chartApp(cockroachReady, cockroachData) EXCEPT
     !.install = NewCliClient \o AddRepo \o HelmInstall("workload")]

---------------------------------------------------------------------------
(* foundationdb.go: the release of an operator and that of the instance *)

foundationData ==
  [ping |-> command, reset |-> dropIfExists("table"), initialize |-> << >>,
   insert |-> execCommand(Do("table")), count |-> command]

\* An operator is left when the instance cannot be deleted.
foundation ==
  [init |-> kubeClients,
   install |-> FindVersion \o HelmInstallAndWait("operator") \o HelmInstallAndWait("workload"),
   ready |-> Ready("workload"), data |-> foundationData,
   uninstall |-> HelmUninstall("workload") \o HelmUninstall("operator")]

---------------------------------------------------------------------------
(* mssql.go and csi-snapshot.go: objects of the cluster, made one by one *)

\* Databases are made and dropped by sqlcmd, which succeeds whatever SQL says.
mssqlData ==
  [ping |-> command, reset |-> execCommand(Tolerate({"nf"}, Drop("table"))),
   initialize |-> execCommand(Tolerate({"exists"}, Make("table"))) \o command,
   insert |-> command, count |-> query]

mssqlInstall ==
  Attempt("noDeployment", AnyError, Make("secret") \o Make("claim") \o Make("workload"))
  \o When("noDeployment", Fail("err"))
  \o Attempt("noService", AnyError, Make("service"))
  \o When("noService", Fail("err"))

\* The names are those of the objects Install kept: nil when it did not get there.
mssqlUninstall ==
  When("noDeployment", Panic) \o Drop("workload") \o Drop("claim")
  \o When("noService", Panic) \o Drop("service") \o Drop("secret")

mssql ==
  [init |-> kubeClients, install |-> mssqlInstall, ready |-> Ready("workload"),
   data |-> mssqlData, uninstall |-> mssqlUninstall]

\* A log that grows by itself: entries are neither inserted nor counted.
timeLogData ==
  [ping |-> command, reset |-> command, initialize |-> << >>,
   insert |-> << >>, count |-> << >>]

timeLogInstall == Make("claim") \o Make("workload")

timeLog ==
  [init |-> kubeClients, install |-> timeLogInstall, ready |-> Ready("workload"),
   data |-> timeLogData, uninstall |-> Delete("namespace")]

---------------------------------------------------------------------------
(* *-deploymentconfig.go: templates of OpenShift *)

templateApp(data) ==
  [init |-> kubeClients, install |-> NewApp, ready |-> WaitOnWorkloadReady("workload"),
   data |-> data, uninstall |-> DeleteApp]

mongoTemplateData ==
  [ping |-> command, reset |-> dropIfExists("table"), initialize |-> << >>,
   insert |-> execCommand(Do("table")), count |-> command]

mongoTemplate == templateApp(mongoTemplateData)

\* Reset makes the table again, Initialize does nothing.
mysqlTemplateData ==
  [ping |-> command, reset |-> dropIfExists("table") \o create("table"),
   initialize |-> << >>, insert |-> query, count |-> query]

mysqlTemplate == templateApp(mysqlTemplateData)

postgresTemplateData ==
  [ping |-> command, reset |-> dropIfExists("table") \o dropIfExists("database"),
   initialize |-> create("database") \o create("table"), insert |-> query, count |-> query]

createPostgreSQLSecret == Make("adminSecret")

\* The secret has none of the template's labels.
postgresTemplate ==
  [templateApp(postgresTemplateData) EXCEPT !.install = @ \o createPostgreSQLSecret]

---------------------------------------------------------------------------
(* rds_aurora_mysql.go, rds_postgres.go, utils.go: databases of AWS, asked *)
(* from a pod of the cluster                                               *)

rdsInit == kubeClients \o Call("region and credentials from the environment")
getAWSConfig == Call("AWS configuration")
bastion == Make("workload") \o Ready("workload")
vpcIDForRDSInstance == Call("the VPC given or the default one")
dbSubnetGroup == Call("subnets of the VPC") \o Make("subnetGroup")
securityGroup == Make("securityGroup") \o Call("allow ingress")
dropIfFound(r) == Tolerate({"nf"}, Drop(r))

auroraInstall ==
  getAWSConfig \o Call("ec2.NewClient") \o bastion \o Call("rds.NewClient")
  \o vpcIDForRDSInstance \o dbSubnetGroup \o securityGroup
  \o Create("cluster") \o WaitUntilDBClusterAvailable("cluster")
  \o Create("newMember") \o WaitUntilDBInstanceAvailable("newMember")
  \o Get("cluster") \o Make("dbconfig")

\* if err := function.DeleteAuroraDBCluster(...); err != nil { return nil }
auroraUninstall ==
  Scope(getAWSConfig \o Call("rds.NewClient")
        \o Attempt("clusterNotFound", {"nf"}, Get("cluster"))
        \o Attempt("deleteFailed", AnyError, Unless("clusterNotFound", DeleteAuroraDBCluster))
        \o When("deleteFailed", Return)
        \o Call("ec2.NewClient") \o dropIfFound("subnetGroup")
        \o dropIfFound("securityGroup") \o dropIfFound("workload"))

auroraData ==
  [ping |-> command, reset |-> dropIfExists("table"), initialize |-> create("table"),
   insert |-> query, count |-> query]

aurora ==
  [init |-> rdsInit, install |-> auroraInstall, ready |-> << >>,
   data |-> auroraData, uninstall |-> auroraUninstall]

rdsPostgresInstall ==
  getAWSConfig \o Call("ec2.NewClient and rds.NewClient") \o bastion
  \o vpcIDForRDSInstance \o dbSubnetGroup \o securityGroup
  \o Create("instance") \o WaitUntilDBInstanceAvailable("instance")
  \o Get("instance") \o Make("dbconfig") \o Make("dbsecret")

\* The wait follows a deletion that was accepted.
rdsPostgresUninstall ==
  getAWSConfig \o Call("rds.NewClient")
  \o Attempt("noInstance", {"nf"}, DeleteDBInstance("instance"))
  \o Unless("noInstance", WaitUntilDBInstanceDeleted("instance"))
  \o Call("ec2.NewClient") \o dropIfFound("subnetGroup")
  \o dropIfFound("securityGroup") \o dropIfFound("workload")

\* The ping reads how to connect from the objects Install made.
rdsPostgresData ==
  [ping |-> Get("dbconfig") \o Get("dbsecret") \o command, reset |-> dropIfExists("table"),
   initialize |-> create("table"), insert |-> query, count |-> query]

rdsPostgres ==
  [init |-> rdsInit, install |-> rdsPostgresInstall, ready |-> << >>,
   data |-> rdsPostgresData, uninstall |-> rdsPostgresUninstall]

---------------------------------------------------------------------------
(* kafka.go: an operator's release, its objects, a bridge that is asked    *)
(* over HTTP through a forwarded port                                      *)

\* The definitions of a chart are made first, and stay when it is uninstalled.
kafkaInstall ==
  NewCliClient \o AddRepo \o Do("CRD") \o HelmInstallAndWait("operator")
  \o Create("workload") \o Make("sinkConfig") \o Create("bridge")

kafkaReady ==
  Ready("operator") \o Ready("workload") \o Ready("bridge")

\* One for the cluster roles and bindings, one for the definitions.
GetClusterScopedResources == <<"clusterRole", "CRD">>

kafkaUninstall ==
  NewCliClient \o dropIfFound("sinkConfig") \o HelmUninstall("operator")
  \o ForEach(dropIfFound, GetClusterScopedResources)

\* A service without pods yields neither a forwarder nor an error.
K8SServicePortForward ==
  Call("kube configuration and clients") \o Get("bridge")
  \o When("noBridgePod", Panic) \o Call("forward the port")

InsertRecord == K8SServicePortForward \o Call("POST a record")

createConsumerGroup == Call("POST a consumer")
subscribe == Call("POST a subscription")

\* The status of the answer is read before the error is looked at.
consumeMessage ==
  Attempt("noAnswer", AnyError, Call("GET records")) \o When("noAnswer", Panic)

consumeTopic == K8SServicePortForward \o createConsumerGroup \o subscribe \o consumeMessage

kafkaData ==
  [ping |-> Call("kubectl run kafka-topics.sh"), reset |-> << >>, initialize |-> << >>,
   insert |-> InsertRecord, count |-> consumeTopic]

kafka ==
  [init |-> kubeClients, install |-> kafkaInstall, ready |-> kafkaReady,
   data |-> kafkaData, uninstall |-> kafkaUninstall]

---------------------------------------------------------------------------
(* bp.go and the integration suite *)

\* A blueprint that cannot be read is logged, and used.
Blueprint ==
  Attempt("noBlueprint", AnyError, Call("read the blueprint")) \o When("noBlueprint", Panic)

\* Until the ping succeeds or the time is up.
pingAppAndWait(app) == app.data.ping

TestRun(app) ==
  Make("namespace") \o app.install \o app.ready \o Blueprint \o Make("blueprint")
  \o pingAppAndWait(app) \o app.data.reset \o app.data.initialize
  \o app.data.insert \o app.data.count \o app.data.reset

\* Without a configuration the application is skipped.
Suite(app, cond) ==
  Operation(cond, {}, {},
    Attempt("skip", AnyError, app.init)
    \o When("skip", Return)
    \o Attempt("failed", AnyError, TestRun(app))
    \o app.uninstall \o Delete("namespace")
    \o When("failed", Fail("err")))

(* integration_register.go *)

Cassandra == Suite(cassandra, {{}})
MySQL == Suite(mysql, {{}})
Maria == Suite(mariadb, {{}})
PostgreSQL == Suite(postgres, {{}})
MongoDB == Suite(mongo, {{}})
Elasticsearch == Suite(elasticsearch, {{}})
Couchbase == Suite(couchbase, {{}})
CockroachDB == Suite(cockroach, {{}})
FoundationDB == Suite(foundation, {{}})
MSSQL == Suite(mssql, {{}})
TimeLogCSI == Suite(timeLog, {{}})
MongoDBDepConfig == Suite(mongoTemplate, {{}})
MysqlDBDepConfig == Suite(mysqlTemplate, {{}})
PostgreSQLDepConfig == Suite(postgresTemplate, {{}})
RDSAuroraMySQL == Suite(aurora, {{}})
RDSPostgreSQL == Suite(rdsPostgres, {{}})
Kafka == Suite(kafka, {{}, {"noBridgePod"}})

=============================================================================
