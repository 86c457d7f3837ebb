---------------------------- MODULE MCServices ------------------------------
(***************************************************************************)
(* The concurrent parts of Kanister that do not share state, each with     *)
(* small constants.  A behaviour is one of one part: the variables of the  *)
(* others keep their initial values.                                       *)
(***************************************************************************)
EXTENDS PodRunner, FanOut, ProcessServer, Chronicle, SharedFunction, Workloads,
        RepositoryServer, OutputStream, ObjectStore

CONSTANT Parts   \* the parts that are looked at
VARIABLE part    \* the one that moves

\* The first letters of the separator are equal, like those of the real one.
Separator == <<"#", "#", "P", "P">>

\* Two names of which one begins with the other, and a directory in one.
BeginsAlike(n, m) == n = m \/ (n = "a" /\ m = "ab")
BucketPaths == {<< >>} \cup {<<n>> : n \in Segments} \cup {<<"a", n>> : n \in Segments}

\* The first call gives more than the second.
Lengths ==
  [c \in Calls |-> IF c = "c1"
     THEN [commands |-> 2, initCommand |-> 1, storageSizeLimit |-> 1, overrides |-> 1]
     ELSE [commands |-> 1, initCommand |-> 0, storageSizeLimit |-> 0, overrides |-> 0]]

serviceVars ==
  <<part, podVars, fanVars, kanxVars, chronicleVars, sharedVars, workloadVars, repoVars, outputVars,
    storeVars>>

\* The other parts rest.
Rest(p) ==
  /\ IF p = "podrunner" THEN TRUE ELSE UNCHANGED podVars
  /\ IF p = "fanout" THEN TRUE ELSE UNCHANGED fanVars
  /\ IF p = "processes" THEN TRUE ELSE UNCHANGED kanxVars
  /\ IF p = "chronicle" THEN TRUE ELSE UNCHANGED chronicleVars
  /\ IF p = "shared" THEN TRUE ELSE UNCHANGED sharedVars
  /\ IF p = "workloads" THEN TRUE ELSE UNCHANGED workloadVars
  /\ IF p = "repository" THEN TRUE ELSE UNCHANGED repoVars
  /\ IF p = "output" THEN TRUE ELSE UNCHANGED outputVars
  /\ IF p = "store" THEN TRUE ELSE UNCHANGED storeVars

Init ==
  /\ part \in Parts
  /\ PodInit /\ FanInit /\ KanxInit /\ ChronicleInit
  /\ SharedInit /\ WorkloadInit /\ RepoInit /\ OutputInit /\ StoreInit

Next ==
  /\ \/ part = "podrunner" /\ PodNext
     \/ part = "fanout" /\ FanNext
     \/ part = "processes" /\ KanxNext
     \/ part = "chronicle" /\ ChronicleNext
     \/ part = "shared" /\ SharedNext
     \/ part = "workloads" /\ WorkloadNext
     \/ part = "repository" /\ RepoNext
     \/ part = "output" /\ OutputNext
     \/ part = "store" /\ StoreNext
  /\ Rest(part) /\ UNCHANGED part

\* No fair action of a part is enabled in its initial state, so the fairness of
\* the parts that rest excludes no behaviour.
Spec ==
  /\ Init /\ [][Next]_serviceVars
  /\ PodFairness /\ FanFairness /\ KanxFairness /\ RepoFairness

=============================================================================
