-------------------------- MODULE RepositoryServer --------------------------
(***************************************************************************)
(* The controller of RepositoryServers (pkg/controllers/repositoryserver): *)
(* a reconciliation makes sure that there is a service and a pod, connects *)
(* to the kopia repository in the pod, starts the kopia server, adds its   *)
(* users, and says so in the status of the resource.  It is done again     *)
(* after an error and whenever the pod or the service changes.  Requests   *)
(* are refused, answers lost, pods fail or disappear, the server in a pod  *)
(* ends, and the controller is restarted, between any two steps.           *)
(***************************************************************************)
EXTENDS Naturals, Sequences

CONSTANTS
  MaxObjects,  \* at most so many pods and so many services are created
  MaxTrouble   \* how many things go wrong in all

Ids == 1 .. MaxObjects

VARIABLES
  cr,         \* the resource, absent at first: whether it has a ConfigFilePath of its own,
              \* progress, conditions, pod and service in its status
  kopiaPods,  \* the pods: phase, label, and what was done in them
  services,   \* the services there are
  made,       \* how many pods and services were created
  recon,      \* the reconciliation: the stage it is at, 0 when there is none
  queued,     \* whether the resource is in the work queue
  trouble,    \* how many things went wrong
  unrecorded  \* whether a pod or a service was created and not recorded, or not found again

repoVars == <<cr, kopiaPods, services, made, recon, queued, trouble, unrecorded>>

\* The stages of Reconcile in their order.  "status" writes the condition that
\* what was done before succeeded; a stage that fails makes its condition false.
Stages ==
  <<[does |-> "begin", condition |-> "none"],
    [does |-> "getSecretsFromCR", condition |-> "ServerSetup"],
    [does |-> "reconcileService", condition |-> "ServerSetup"],
    [does |-> "recordService", condition |-> "ServerSetup"],
    [does |-> "reconcilePod", condition |-> "ServerSetup"],
    [does |-> "recordPod", condition |-> "ServerSetup"],
    [does |-> "waitForPodReady", condition |-> "ServerSetup"],
    [does |-> "writeGCPCredsToPod", condition |-> "ServerSetup"],
    [does |-> "status", condition |-> "ServerSetup"],
    [does |-> "connectToKopiaRepository", condition |-> "RepositoryConnected"],
    [does |-> "status", condition |-> "RepositoryConnected"],
    [does |-> "startRepoProxyServer", condition |-> "ServerInitialized"],
    [does |-> "status", condition |-> "ServerInitialized"],
    [does |-> "createOrUpdateClientUsers", condition |-> "ClientUserInitialized"],
    [does |-> "status", condition |-> "ClientUserInitialized"],
    [does |-> "refreshServer", condition |-> "ServerRefreshed"],
    [does |-> "status", condition |-> "ServerRefreshed"]>>

Conditions == {Stages[i].condition : i \in DOMAIN Stages} \ {"none"}
NoPod == [phase |-> "none", label |-> 0, connected |-> FALSE, server |-> "none", users |-> FALSE]

RepoInit ==
  /\ cr = [progress |-> "absent", custom |-> FALSE, true |-> {}, false |-> {}, pod |-> 0, service |-> 0]
  /\ kopiaPods = [p \in Ids |-> NoPod] /\ services = {}
  /\ made = [pods |-> 0, services |-> 0]
  /\ recon = [stage |-> 0, failed |-> FALSE, service |-> 0, pod |-> 0]
  /\ queued = FALSE /\ trouble = 0 /\ unrecorded = FALSE

---------------------------------------------------------------------------
At(does) == recon.stage # 0 /\ ~recon.failed /\ Stages[recon.stage].does = does
Proceed == recon' = IF recon.stage = Len(Stages) THEN [recon EXCEPT !.stage = 0]
                    ELSE [recon EXCEPT !.stage = @ + 1]
Abort == recon' = [recon EXCEPT !.failed = TRUE]
Requeue == recon' = [recon EXCEPT !.stage = 0, !.failed = FALSE] /\ queued' = TRUE
Exists(p) == p # 0 /\ kopiaPods[p].phase # "none"
Runs(p) == p # 0 /\ kopiaPods[p].phase = "running"
Serves(p) == Runs(p) /\ kopiaPods[p].server = "up"

\* Somebody creates the resource.
Create ==
  /\ cr.progress = "absent" /\ queued' = TRUE
  /\ \E custom \in BOOLEAN : cr' = [cr EXCEPT !.progress = "none", !.custom = custom]
  /\ UNCHANGED <<kopiaPods, services, made, recon, trouble, unrecorded>>

\* The workqueue hands the resource out; one reconciliation of it at a time.
Dequeue ==
  /\ queued /\ recon.stage = 0
  /\ queued' = FALSE /\ recon' = [stage |-> 1, failed |-> FALSE, service |-> 0, pod |-> 0]
  /\ UNCHANGED <<cr, kopiaPods, services, made, trouble, unrecorded>>

\* The progress is Pending again, and the conditions are forgotten.
Begin ==
  /\ At("begin") /\ Proceed
  /\ cr' = [cr EXCEPT !.progress = "Pending", !.true = {}, !.false = {}]
  /\ UNCHANGED <<kopiaPods, services, made, queued, trouble, unrecorded>>

\* Reading the secrets; the file with the credentials is written into the pod if
\* they are those of Google Cloud, and otherwise there is nothing to do.
Prepare ==
  /\ At("getSecretsFromCR") \/ At("writeGCPCredsToPod")
  /\ Proceed
  /\ UNCHANGED <<cr, kopiaPods, services, made, queued, trouble, unrecorded>>

\* createService, createPod: the object exists, its name is to be recorded next.
createService ==
  LET s == made.services + 1 IN
  /\ s \in Ids /\ services' = services \cup {s} /\ made' = [made EXCEPT !.services = s]
  /\ recon' = [recon EXCEPT !.stage = @ + 1, !.service = s]
  /\ queued' = TRUE

createPod ==
  LET p == made.pods + 1 IN
  /\ p \in Ids /\ made' = [made EXCEPT !.pods = p]
  /\ kopiaPods' = [kopiaPods EXCEPT ![p] = [NoPod EXCEPT !.phase = "starting", !.label = recon.service]]
  /\ recon' = [recon EXCEPT !.stage = @ + 1, !.pod = p]
  /\ queued' = TRUE

\* The service whose name is in the status is updated, or one is created.
reconcileService ==
  /\ At("reconcileService")
  /\ IF cr.service \in services
     THEN /\ recon' = [recon EXCEPT !.stage = @ + 2, !.service = cr.service]
          /\ UNCHANGED <<services, made, queued>>
     ELSE createService
  /\ UNCHANGED <<cr, kopiaPods, trouble, unrecorded>>

\* A fault: the name of the pod is not recorded.
updateServiceInfoOnly ==
  /\ \/ At("recordService") /\ cr' = [cr EXCEPT !.service = recon.service]
     \/ At("recordPod") /\ UNCHANGED cr
  /\ Proceed
  /\ UNCHANGED <<kopiaPods, services, made, queued, trouble, unrecorded>>

\* updateServerInfoInCRStatus
updateServerInfo ==
  /\ \/ At("recordService") /\ cr' = [cr EXCEPT !.service = recon.service]
     \/ At("recordPod") /\ cr' = [cr EXCEPT !.pod = recon.pod]
  /\ Proceed
  /\ UNCHANGED <<kopiaPods, services, made, queued, trouble, unrecorded>>

\* A fault: a pod that exists keeps the label of an earlier service.
reconcilePodUnlabelled ==
  /\ At("reconcilePod")
  /\ IF Exists(cr.pod)
     THEN /\ UNCHANGED kopiaPods
          /\ recon' = [recon EXCEPT !.stage = @ + 2, !.pod = cr.pod]
          /\ UNCHANGED <<made, queued>>
     ELSE createPod
  /\ UNCHANGED <<cr, services, trouble, unrecorded>>

\* The pod whose name is in the status gets the label of the service, whatever
\* its phase is, or one is created with it.
reconcilePod ==
  /\ At("reconcilePod")
  /\ IF Exists(cr.pod)
     THEN /\ kopiaPods' = [kopiaPods EXCEPT ![cr.pod].label = recon.service]
          /\ recon' = [recon EXCEPT !.stage = @ + 2, !.pod = cr.pod]
          /\ queued' = (queued \/ kopiaPods' # kopiaPods) /\ UNCHANGED made
     ELSE createPod
  /\ UNCHANGED <<cr, services, trouble, unrecorded>>

\* WaitForPodReady waits until the pod is no longer pending; a pod that has
\* failed will do.
waitForPodReady ==
  /\ At("waitForPodReady") /\ Exists(recon.pod) /\ kopiaPods[recon.pod].phase # "starting" /\ Proceed
  /\ UNCHANGED <<cr, kopiaPods, services, made, queued, trouble, unrecorded>>

\* The commands in the pod the status names.  Only the first one uses the
\* ConfigFilePath of the resource; the others do not find the connection there.
\* A server that answers is not started again; users are added to the
\* repository, or their password is set.
InPod ==
  /\ Runs(cr.pod) /\ Proceed
  /\ kopiaPods' = [kopiaPods EXCEPT ![cr.pod] =
       CASE At("connectToKopiaRepository") -> [@ EXCEPT !.connected = ~cr.custom]
         [] At("startRepoProxyServer") -> [@ EXCEPT !.server = "up"]
         [] At("createOrUpdateClientUsers") -> [@ EXCEPT !.users = TRUE]
         [] At("refreshServer") -> @]
  /\ UNCHANGED <<cr, services, made, queued, trouble, unrecorded>>

connectToKopiaRepository == At("connectToKopiaRepository") /\ InPod
startRepoProxyServer ==
  At("startRepoProxyServer") /\ (kopiaPods[cr.pod].connected \/ Serves(cr.pod)) /\ InPod
createOrUpdateClientUsers == At("createOrUpdateClientUsers") /\ kopiaPods[cr.pod].connected /\ InPod
refreshServer == At("refreshServer") /\ Serves(cr.pod) /\ InPod

\* setCondition after a success; the last one makes the resource Ready.
setCondition ==
  /\ At("status") /\ Proceed
  /\ cr' = [cr EXCEPT !.true = @ \cup {Stages[recon.stage].condition},
                      !.progress = IF recon.stage = Len(Stages) THEN "Ready" ELSE "Pending"]
  /\ UNCHANGED <<kopiaPods, services, made, queued, trouble, unrecorded>>

\* A fault: the error of a reconciliation is not returned.
setFailedAndForget ==
  /\ recon.failed /\ recon' = [recon EXCEPT !.stage = 0, !.failed = FALSE] /\ UNCHANGED queued
  /\ cr' = [cr EXCEPT !.false = @ \cup {Stages[recon.stage].condition}, !.progress = "Failed"]
  /\ UNCHANGED <<kopiaPods, services, made, trouble, unrecorded>>

\* setCondition after a failure; Reconcile returns the error and is tried again.
setFailed ==
  /\ recon.failed /\ Requeue
  /\ cr' = [cr EXCEPT !.false = @ \cup {Stages[recon.stage].condition}, !.progress = "Failed"]
  /\ UNCHANGED <<kopiaPods, services, made, trouble, unrecorded>>

\* What is not there makes a stage fail.
Unmet ==
  /\ recon.stage # 0 /\ ~recon.failed
  /\ \/ At("waitForPodReady") /\ ~Exists(recon.pod)
     \/ At("writeGCPCredsToPod") /\ ~Runs(recon.pod)
     \/ At("connectToKopiaRepository") /\ ~Runs(cr.pod)
     \/ At("startRepoProxyServer") /\ ~((Runs(cr.pod) /\ kopiaPods[cr.pod].connected) \/ Serves(cr.pod))
     \/ At("createOrUpdateClientUsers") /\ ~(Runs(cr.pod) /\ kopiaPods[cr.pod].connected)
     \/ At("refreshServer") /\ ~Serves(cr.pod)
  /\ Abort
  /\ UNCHANGED <<cr, kopiaPods, services, made, queued, trouble, unrecorded>>

---------------------------------------------------------------------------
Goes == trouble < MaxTrouble /\ trouble' = trouble + 1

\* A stage fails, or a request to write the status does; the latter ends the
\* reconciliation as it is.  A name that could not be recorded is lost, like
\* that of a pod or a service whose creation got no answer.
Fault ==
  /\ Goes /\ recon.stage # 0
  /\ IF recon.failed \/ Stages[recon.stage].does \in {"begin", "status"} THEN Requeue
     ELSE Abort /\ UNCHANGED queued
  /\ unrecorded' = (unrecorded \/ At("recordPod") \/ At("recordService"))
  /\ UNCHANGED <<cr, kopiaPods, services, made>>

\* The client reads from a cache, which does not know yet of a pod or a service
\* that an earlier reconciliation has created: another one is created.
StaleCache ==
  /\ Goes /\ unrecorded' = TRUE
  /\ \/ At("reconcileService") /\ cr.service \in services /\ createService /\ UNCHANGED kopiaPods
     \/ At("reconcilePod") /\ Exists(cr.pod) /\ createPod /\ UNCHANGED services
  /\ UNCHANGED cr

\* The controller is restarted, and lists all resources.
Crash ==
  /\ Goes /\ recon.stage # 0 /\ Requeue
  /\ unrecorded' = (unrecorded \/ At("recordPod") \/ At("recordService"))
  /\ UNCHANGED <<cr, kopiaPods, services, made>>

\* A pod is deleted, or fails, and stays so since its containers are never
\* restarted; a service is deleted.
Lose ==
  /\ Goes /\ queued' = TRUE
  /\ \/ /\ \E p \in Ids : /\ Exists(p)
                          /\ kopiaPods' \in {[kopiaPods EXCEPT ![p] = NoPod],
                               [kopiaPods EXCEPT ![p].phase = "failed", ![p].server = "none"]}
        /\ UNCHANGED services
     \/ (\E s \in services : services' = services \ {s}) /\ UNCHANGED kopiaPods
  /\ UNCHANGED <<cr, made, recon, unrecorded>>

\* The server ends in its pod, whose container does nothing else than wait: no
\* object changes, and nobody is told.
ServerEnds ==
  /\ Goes
  /\ \E p \in Ids : Serves(p) /\ kopiaPods' = [kopiaPods EXCEPT ![p].server = "ended"]
  /\ UNCHANGED <<cr, services, made, recon, queued, unrecorded>>

\* The informers of the pods and services repeat what they know.
Resync ==
  /\ Goes /\ services # {} /\ ~queued /\ queued' = TRUE
  /\ UNCHANGED <<cr, kopiaPods, services, made, recon, unrecorded>>

KubeletStarts ==
  /\ \E p \in Ids : kopiaPods[p].phase = "starting" /\ kopiaPods' = [kopiaPods EXCEPT ![p].phase = "running"]
  /\ queued' = TRUE
  /\ UNCHANGED <<cr, services, made, recon, trouble, unrecorded>>

ReconcileStep ==
  \/ Dequeue \/ Begin \/ Prepare \/ reconcileService \/ updateServerInfo \/ reconcilePod
  \/ waitForPodReady \/ connectToKopiaRepository \/ startRepoProxyServer
  \/ createOrUpdateClientUsers \/ refreshServer \/ setCondition \/ setFailed \/ Unmet

RepoNext == Create \/ ReconcileStep \/ Fault \/ StaleCache \/ Crash \/ Lose \/ ServerEnds \/ Resync \/ KubeletStarts

\* The worker goes on, and pods are started; a finite number of things go wrong.
RepoFairness == WF_repoVars(ReconcileStep) /\ WF_repoVars(KubeletStarts)

---------------------------------------------------------------------------

\* A resource that says it is ready has a server: unless something has changed
\* and a reconciliation is due, the pod in its status runs, is connected to the
\* repository, has its users, is the one its service selects, and a server was
\* started in it, which serves unless it has ended by itself, of which the
\* controller does not learn.
ReadyIsServing ==
  cr.progress = "Ready" /\ ~queued /\ recon.stage = 0 =>
    /\ cr.true = Conditions /\ cr.false = {}
    /\ cr.service \in services
    /\ LET pod == kopiaPods[cr.pod] IN
       /\ pod.phase = "running" /\ pod.label = cr.service /\ pod.connected /\ pod.users
       /\ pod.server \in {"up", "ended"}

\* As long as every pod and service that was created could be recorded in the
\* status, and was found by the next reconciliation, there is never a second
\* one: the service does not select a pod in which nothing listens.
NoSecondPod ==
  ~unrecorded =>
    /\ \A p \in Ids : Exists(p) => p = cr.pod \/ (p = recon.pod /\ At("recordPod"))
    /\ \A s \in services : s = cr.service \/ (s = recon.service /\ At("recordService"))

\* What the controller cannot repair: it takes the pod in the status as it is,
\* even one that has failed, and the server of a resource with a ConfigFilePath
\* of its own does not find the connection.
Stuck == cr.custom \/ (cr.pod # 0 /\ kopiaPods[cr.pod].phase = "failed")

\* Whatever else goes wrong in the meantime, and even if the controller is
\* restarted in the middle of a reconciliation, the resource becomes ready and
\* stays so once nothing happens any more.
BecomesReady ==
  <>[](cr.progress # "absent" /\ ~Stuck => cr.progress = "Ready" /\ kopiaPods[cr.pod].server # "none")

=============================================================================
