--------------------------- MODULE ServiceProofs ----------------------------
(***************************************************************************)
(* Proofs about the services, each for its own specification: chronicling  *)
(* for any number of rounds and restarts, the pod runner, and deletions in *)
(* a bucket with any number of objects.                                    *)
(***************************************************************************)
EXTENDS Chronicle, PodRunner, ObjectStore, TLAPS

---------------------------------------------------------------------------
(* Chronicling *)

Places == {"profile", "write", "manifest", "delete", "sleep", "error"}

\* The types of the variables of Chronicle.
ChronicleTypes ==
  /\ objects \in [Ords -> {"none", "partial", "whole"}]
  /\ manifest \in Ords \cup {-1}
  /\ push \in [at : Places, ord : Ords]
  /\ restarts \in Nat
  /\ pull \in [at : {"idle", "named", "done", "failed"}, ord : Ords \cup {-1},
               got : {"none", "partial", "whole"}]

\* What the place of Push says about the object of its round: the manifest is
\* written after the data, and the data before it is deleted after that.
PushInv ==
  /\ ChronicleTypes
  /\ push.at = "manifest" => objects[push.ord] # "none"
  /\ push.at = "delete" => manifest = push.ord
  /\ ManifestNamesData

\* As long as Push was not started anew it writes to objects that no manifest
\* has named yet, so that those a Pull may still read are whole or gone, unless
\* they were cut on the way to Azure.
PullInv ==
  restarts = 0 /\ ~azure =>
    /\ push.at = "manifest" => objects[push.ord] = "whole"
    /\ push.at \in {"profile", "write", "manifest", "error"} => manifest < push.ord
    /\ manifest <= push.ord
    /\ pull.ord <= manifest
    /\ \A o \in Ords : objects[o] = "partial" => o = push.ord /\ push.at = "error"
    /\ PullIsWhole

LEMMA PushInvInit == ChronicleInit => PushInv /\ PullInv
  BY MaxOrdAssumption
  DEF ChronicleInit, PushInv, PullInv, ChronicleTypes, Places, Ords, ManifestNamesData, PullIsWhole

\* Every step keeps the types, and what the place of Push says.
LEMMA PushInvStep == PushInv /\ [ChronicleNext]_chronicleVars => PushInv'
  <1> SUFFICES ASSUME PushInv, [ChronicleNext]_chronicleVars PROVE PushInv'
    OBVIOUS
  <1> USE MaxOrdAssumption DEF PushInv, ChronicleTypes, Places, Ords, ManifestNamesData, GoTo
  <1>1. CASE readProfile
    BY <1>1 DEF readProfile
  <1>2. CASE writeOutput
    BY <1>2 DEF writeOutput
  <1>3. CASE writeManifest
    BY <1>3 DEF writeManifest
  <1>4. CASE deletePrevious
    BY <1>4 DEF deletePrevious
  <1>5. CASE nextRound
    BY <1>5 DEF nextRound
  <1>6. CASE restart
    BY <1>6 DEF restart
  <1>7. CASE pullManifest
    BY <1>7 DEF pullManifest
  <1>8. CASE pullData
    BY <1>8 DEF pullData
  <1>9. CASE UNCHANGED chronicleVars
    BY <1>9 DEF chronicleVars
  <1> QED
    BY <1>1, <1>2, <1>3, <1>4, <1>5, <1>6, <1>7, <1>8, <1>9 DEF ChronicleNext

\* Every step keeps apart what Push writes and what Pull may read.
LEMMA PullInvStep == PushInv /\ PullInv /\ [ChronicleNext]_chronicleVars => PullInv'
  <1> SUFFICES ASSUME PushInv, PullInv, [ChronicleNext]_chronicleVars PROVE PullInv'
    OBVIOUS
  <1> USE MaxOrdAssumption DEF PushInv, ChronicleTypes, Places, Ords, PullInv, PullIsWhole, GoTo
  <1>1. CASE readProfile
    BY <1>1 DEF readProfile
  <1>2. CASE writeOutput
    BY <1>2 DEF writeOutput
  <1>3. CASE writeManifest
    BY <1>3 DEF writeManifest
  <1>4. CASE deletePrevious
    BY <1>4 DEF deletePrevious
  <1>5. CASE nextRound
    BY <1>5 DEF nextRound
  <1>6. CASE restart
    BY <1>6 DEF restart
  <1>7. CASE pullManifest
    BY <1>7 DEF pullManifest
  <1>8. CASE pullData
    BY <1>8 DEF pullData
  <1>9. CASE UNCHANGED chronicleVars
    BY <1>9 DEF chronicleVars
  <1> QED
    BY <1>1, <1>2, <1>3, <1>4, <1>5, <1>6, <1>7, <1>8, <1>9 DEF ChronicleNext

\* For any number of rounds and restarts the manifest names an object that is
\* there: Push writes the data first and deletes the old data last.
THEOREM ManifestIsTrue == ChronicleSpec => []ManifestNamesData
  <1>1. ChronicleInit => PushInv
    BY PushInvInit
  <1>2. PushInv /\ [ChronicleNext]_chronicleVars => PushInv'
    BY PushInvStep
  <1>3. PushInv => ManifestNamesData
    BY DEF PushInv
  <1> QED
    BY <1>1, <1>2, <1>3, PTL DEF ChronicleSpec

\* For any number of rounds, a Pull that succeeds while Push was not started
\* anew, and from an object store that is not Azure's, has the whole output of a
\* command.
THEOREM PullsAreWhole == ChronicleSpec => []PullIsWhole
  <1>1. ChronicleInit => PushInv /\ PullInv
    BY PushInvInit
  <1>2. PushInv /\ PullInv /\ [ChronicleNext]_chronicleVars => (PushInv /\ PullInv)'
    BY PushInvStep, PullInvStep
  <1>3. PushInv /\ PullInv => PullIsWhole
    BY DEF PushInv, PullInv, PullIsWhole
  <1> QED
    BY <1>1, <1>2, <1>3, PTL DEF ChronicleSpec

---------------------------------------------------------------------------
(* The pod runner *)

Fields == [pod : BOOLEAN, name : BOOLEAN, ready : BOOLEAN]

\* Until the caller cancels, the context ends only when the function returns, or
\* the pod could not be created; and the pod is not stopped before that.
PodInv ==
  /\ field \in Fields
  /\ ~cancelled => /\ over => fn \in {"failed", "returned"}
                   /\ stop \notin {"none", "wait"} => over
  /\ PodOutlivesFunction

LEMMA PodInvInit == PodInit => PodInv
  <1> SUFFICES ASSUME PodInit PROVE PodInv
    OBVIOUS
  <1>1. ~over /\ ~crashed /\ stop = "none" /\ fn = "idle"
    BY Zenon DEF PodInit
  <1>2. field \in Fields
    BY SMT DEF PodInit, Fields
  <1> QED
    BY <1>1, <1>2, Zenon DEF PodInv, PodOutlivesFunction

\* The fields of the controller: only StopPod resets the pod.
LEMMA FieldStep ==
  ASSUME field \in Fields, PodNext \/ UNCHANGED podVars
  PROVE /\ field' \in Fields
        /\ field.pod /\ stop # "pod" => field'.pod
  <1> USE DEF Fields
  <1>1. CASE StartPod
    BY <1>1 DEF StartPod
  <1>2. CASE WaitForPodReady \/ Use \/ WaitForPodCompletion
    BY <1>2 DEF WaitForPodReady, Use, WaitForPodCompletion, Guarded, Dereference
  <1>3. CASE StopPod
    BY <1>3 DEF StopPod
  <1>4. CASE CallRun \/ Run \/ Kubelet \/ PodCancel \/ UNCHANGED podVars
    BY <1>4 DEF CallRun, Run, Kubelet, PodCancel, podVars
  <1> QED
    BY <1>1, <1>2, <1>3, <1>4 DEF PodNext, RunStep

\* A goroutine that finds the pod in the field goes on.
LEMMA DereferenceFindsPod ==
  ASSUME NEW from, NEW to, Dereference(from, to), field.pod
  PROVE ~crashed' /\ fn' = to
  BY Zenon DEF Dereference

\* A step between two places of the function where it has the pod keeps PodInv.
LEMMA StepWithPod ==
  ASSUME PodInv, field' \in Fields, field.pod /\ stop # "pod" => field'.pod,
         fn \notin {"idle", "start", "failed", "returned"},
         ~cancelled => ~crashed' /\ fn' \notin {"idle", "start", "failed", "returned"},
         UNCHANGED <<pod, stop, over, cancelled>>
  PROVE PodInv'
  <1>1. CASE cancelled
    BY <1>1, Zenon DEF PodInv, PodOutlivesFunction
  <1>2. CASE ~cancelled
    <2>1. ~over /\ stop \in {"none", "wait"} /\ field.pod /\ pod # "absent"
      BY <1>2, Zenon DEF PodInv, PodOutlivesFunction
    <2>2. field'.pod /\ ~crashed' /\ ~over' /\ stop' \in {"none", "wait"} /\ pod' # "absent"
      BY <1>2, <2>1
    <2> QED
      BY <2>2, Zenon DEF PodInv, PodOutlivesFunction
  <1> QED
    BY <1>1, <1>2

\* Every step of the two goroutines, the caller and the cluster keeps PodInv.
LEMMA PodInvStep == PodInv /\ [PodNext]_podVars => PodInv'
  <1> SUFFICES ASSUME PodInv, [PodNext]_podVars PROVE PodInv'
    OBVIOUS
  <1>0. field' \in Fields /\ (field.pod /\ stop # "pod" => field'.pod)
    BY FieldStep DEF PodInv
  <1> DEFINE HasPod == fn \notin {"idle", "start", "failed", "returned"}
  <1>a. HasPod /\ ~cancelled => field.pod /\ ~crashed
    BY Zenon DEF PodInv, PodOutlivesFunction
  <1>1. CASE CallRun
    BY <1>0, <1>1 DEF CallRun, PodInv, PodOutlivesFunction
  <1>2. CASE StartPod
    <2>1. CASE fn' = "failed" /\ over' = TRUE /\ UNCHANGED <<field, stop, cancelled, crashed>>
      BY <1>0, <2>1, Zenon DEF PodInv, PodOutlivesFunction
    <2>2. CASE /\ ~over /\ UNCHANGED <<over, cancelled, crashed>> /\ pod' = "pending"
               /\ fn' = "waitReady" /\ stop' = "wait"
               /\ field' = [field EXCEPT !.pod = TRUE, !.name = TRUE]
      <3>1. field'.pod
        BY <2>2, SMT DEF PodInv, Fields
      <3>2. pod' # "absent" /\ ~over' /\ stop' \in {"none", "wait"}
        BY <2>2
      <3>3. ~cancelled' => ~crashed'
        BY <2>2, Zenon DEF PodInv, PodOutlivesFunction
      <3> QED
        BY <1>0, <3>1, <3>2, <3>3, Zenon DEF PodInv, PodOutlivesFunction
    <2> QED
      BY <1>2, <2>1, <2>2, Zenon DEF StartPod
  <1>3. CASE WaitForPodReady
    <2>1. HasPod /\ UNCHANGED <<pod, stop, over, cancelled>>
      BY <1>3 DEF WaitForPodReady, Guarded, Dereference
    <2>2. CASE Dereference("waitReadyPod", "polling")
      BY <1>0, <1>a, <2>1, <2>2, DereferenceFindsPod, StepWithPod
    <2>3. CASE UNCHANGED crashed /\ fn' \in {"waitReadyPod", "isReady", "execute", "return"}
      BY <1>0, <1>a, <2>1, <2>3, StepWithPod
    <2> QED
      BY <1>3, <2>2, <2>3 DEF WaitForPodReady, Guarded
  <1>4. CASE Use
    <2>1. HasPod /\ UNCHANGED <<pod, stop, over, cancelled>>
      BY <1>4 DEF Use, Guarded, Dereference
    <2>2. CASE Dereference("executePod", "inPod")
      BY <1>0, <1>a, <2>1, <2>2, DereferenceFindsPod, StepWithPod
    <2>3. CASE UNCHANGED crashed /\ fn' \in {"executePod", "complete", "return"}
      BY <1>0, <1>a, <2>1, <2>3, StepWithPod
    <2> QED
      BY <1>4, <2>2, <2>3 DEF Use, Guarded
  <1>5. CASE WaitForPodCompletion
    <2>1. HasPod /\ UNCHANGED <<pod, stop, over, cancelled>>
      BY <1>5 DEF WaitForPodCompletion, Guarded, Dereference
    <2>2. CASE Dereference("completePod", "completing")
      BY <1>0, <1>a, <2>1, <2>2, DereferenceFindsPod, StepWithPod
    <2>3. CASE UNCHANGED crashed /\ fn' \in {"completePod", "isComplete", "return"}
      BY <1>0, <1>a, <2>1, <2>3, StepWithPod
    <2> QED
      BY <1>5, <2>2, <2>3 DEF WaitForPodCompletion, Guarded
  <1>6. CASE Run
    BY <1>0, <1>6 DEF Run, PodInv, PodOutlivesFunction
  <1>7. CASE StopPod
    BY <1>0, <1>7 DEF StopPod, PodInv, PodOutlivesFunction
  <1>8. CASE Kubelet
    BY <1>0, <1>8 DEF Kubelet, PodInv, PodOutlivesFunction
  <1>9. CASE PodCancel
    BY <1>0, <1>9 DEF PodCancel, PodInv, PodOutlivesFunction
  <1>10. CASE UNCHANGED podVars
    BY <1>0, <1>10 DEF podVars, PodInv, PodOutlivesFunction
  <1> QED
    BY <1>1, <1>2, <1>3, <1>4, <1>5, <1>6, <1>7, <1>8, <1>9, <1>10 DEF PodNext, RunStep

\* Until its caller cancels, the function has the pod: it is not deleted, and no
\* goroutine finds the fields of the controller reset.
THEOREM PodIsKept == PodSpec => []PodOutlivesFunction
  <1>1. PodInv => PodOutlivesFunction
    BY DEF PodInv
  <1> QED
    BY <1>1, PodInvInit, PodInvStep, PTL DEF PodSpec

---------------------------------------------------------------------------
(* Deletions in a bucket *)

\* A name with the prefix "dir/" has the prefix "dir".
LEMMA BelowHasPrefix ==
  ASSUME NEW k \in Keys, NEW d \in Paths, Below(k, d)
  PROVE HasPrefix(k, d)
  <1> SUFFICES ASSUME d # << >> PROVE HasPrefix(k, d)
    BY DEF HasPrefix
  <1>1. d \in Seq(Segments) /\ k.path \in Seq(Segments)
    BY PathsAssumption DEF Keys, Key
  <1>2. Len(d) \in 1..Len(d) /\ d[Len(d)] \in Segments /\ Len(d) \in Nat
    BY <1>1
  <1>3. k.path[Len(d)] = d[Len(d)]
    BY <1>2 DEF Below
  <1>4. \A i \in 1..(Len(d) - 1) : k.path[i] = d[i]
    BY <1>2 DEF Below
  <1> QED
    BY <1>2, <1>3, <1>4, StartsAssumption DEF HasPrefix, Below

\* What is below the directory that is being deleted is still to be removed, or
\* was put since.
WalkInv ==
  /\ keys \subseteq Keys
  /\ walk.at \in {"idle", "removing", "ok"}
  /\ walk = [at |-> walk.at, kind |-> walk.kind, dir |-> walk.dir,
             todo |-> walk.todo, fresh |-> walk.fresh]
  /\ walk.at # "idle" =>
       \A k \in keys : Below(k, walk.dir) =>
         k \in walk.fresh \/ (walk.at = "removing" /\ k \in walk.todo)
  /\ walk.at = "removing" /\ walk.kind = "directory" => \A k \in walk.todo : Below(k, walk.dir)

LEMMA IsKey ==
  ASSUME NEW p \in Paths, p # << >>
  PROVE Key(p, TRUE) \in Keys /\ Key(p, FALSE) \in Keys
  BY SMT DEF Keys, Key

LEMMA WalkStep ==
  ASSUME WalkInv, NEW kind, NEW d,
         NEW listed, \A k \in keys : Below(k, d) => k \in listed,
         kind = "directory" => \A k \in listed : Below(k, d),
         Walk(kind, d, listed), UNCHANGED keys
  PROVE WalkInv'
  BY DEF Walk, WalkInv

LEMMA WalkInvStep == WalkInv /\ [StoreNext]_storeVars => WalkInv'
  <1> SUFFICES ASSUME WalkInv, [StoreNext]_storeVars PROVE WalkInv'
    OBVIOUS
  <1>1. ASSUME NEW d \in Paths, NEW name \in Paths \ {<< >>},
               CreateDirectory(d, name) \/ Put(d, name) \/ Delete(d, name)
        PROVE WalkInv'
    <2>1. keys' \subseteq Keys
      <3>1. d \o name \in Paths => d \o name # << >>
        BY PathsAssumption
      <3>2. CASE CreateDirectory(d, name)
        BY <3>1, <3>2, IsKey DEF CreateDirectory, PutItem, WalkInv
      <3>3. CASE Put(d, name)
        BY <3>1, <3>3, IsKey DEF Put, PutItem, WalkInv
      <3>4. CASE Delete(d, name)
        BY <3>4 DEF Delete, WalkInv
      <3> QED
        BY <1>1, <3>2, <3>3, <3>4
    <2>2. walk' = Idle
      BY <1>1 DEF CreateDirectory, Put, Delete
    <2> QED
      BY <2>1, <2>2 DEF WalkInv, Idle
  <1>2. ASSUME NEW d \in Paths, DeleteDirectory(d) PROVE WalkInv'
    BY <1>2, WalkStep DEF DeleteDirectory
  <1>3. ASSUME NEW d \in Paths, NEW name \in Paths, DeleteAllWithPrefix(d, name) PROVE WalkInv'
    <2>1. d \o name \in Paths
      BY <1>3 DEF DeleteAllWithPrefix
    <2>2. \A k \in keys : Below(k, d \o name) => k \in {j \in keys : HasPrefix(j, d \o name)}
      BY <2>1, BelowHasPrefix DEF WalkInv
    <2> QED
      BY <1>3, <2>2, WalkStep DEF DeleteAllWithPrefix
  <1>4. ASSUME NEW k \in Keys, RemoveItem(k) PROVE WalkInv'
    <2>1. CASE walk' = Idle /\ UNCHANGED keys
      BY <2>1 DEF WalkInv, Idle
    <2>2. CASE /\ keys' = keys \ {k}
               /\ walk' = [walk EXCEPT !.todo = @ \ {k}, !.fresh = @ \ {k},
                                       !.at = IF walk.todo = {k} THEN "ok" ELSE @]
      <3>1. /\ walk'.at = IF walk.todo = {k} THEN "ok" ELSE walk.at
            /\ walk'.dir = walk.dir /\ walk'.kind = walk.kind
            /\ walk'.todo = walk.todo \ {k} /\ walk'.fresh = walk.fresh \ {k}
            /\ walk' = [at |-> walk'.at, kind |-> walk'.kind, dir |-> walk'.dir,
                        todo |-> walk'.todo, fresh |-> walk'.fresh]
        BY <2>2 DEF WalkInv
      <3>2. walk.at = "removing"
        BY <1>4 DEF RemoveItem
      <3> QED
        BY <2>2, <3>1, <3>2 DEF WalkInv
    <2> QED
      BY <1>4, <2>1, <2>2 DEF RemoveItem
  <1>5. ASSUME NEW k \in Keys, OtherPuts(k) PROVE WalkInv'
    BY <1>5 DEF OtherPuts, PutItem, WalkInv
  <1>6. ASSUME NEW k \in Keys, OtherDeletes(k) PROVE WalkInv'
    BY <1>6 DEF OtherDeletes, WalkInv
  <1>7. CASE UNCHANGED storeVars
    BY <1>7 DEF storeVars, WalkInv
  <1> QED
    BY <1>1, <1>2, <1>3, <1>4, <1>5, <1>6, <1>7 DEF StoreNext

\* Whatever the names in the bucket are, a deletion that returns without an error
\* has removed all that it found below the directory, and DeleteDirectory nothing
\* else.
THEOREM DeletesTheDirectory == StoreSpec => []DeletionIsExact
  <1>1. StoreInit => WalkInv
    BY DEF StoreInit, WalkInv, Idle
  <1>2. WalkInv => DeletionIsExact
    BY DEF WalkInv, DeletionIsExact
  <1> QED
    BY <1>1, <1>2, WalkInvStep, PTL DEF StoreSpec

=============================================================================
