----------------------------- MODULE Chronicle ------------------------------
(***************************************************************************)
(* Chronicling (pkg/chronicle): Push runs a command again and again and    *)
(* writes its output to the object <suffix>-<ord>, then writes the name of *)
(* that object into the manifest <suffix>, then deletes the object of the  *)
(* round before.  A Push that ends with an error, or whose container dies, *)
(* is started anew and counts from 0.  Pull reads the manifest and then    *)
(* the object it names, while the pushing goes on.                         *)
(***************************************************************************)
EXTENDS Integers, FiniteSets

CONSTANTS
  MaxOrd,       \* a Push makes the rounds 0..MaxOrd
  MaxRestarts   \* how often Push is started anew

ASSUME MaxOrdAssumption == MaxOrd \in Nat

Ords == 0 .. MaxOrd

VARIABLES
  azure,     \* whether a profile was read that keeps the objects in Azure
  objects,   \* the data objects: what is in them
  manifest,  \* the ord the manifest names, or -1
  push,      \* Push: where it is, and i
  restarts,  \* how often it was started anew
  loose,     \* whether a deletion failed or a round was skipped
  pull       \* Pull: where it is, the ord it read, what it got

chronicleVars == <<azure, objects, manifest, push, restarts, loose, pull>>

ChronicleInit ==
  /\ azure = FALSE
  /\ objects = [o \in Ords |-> "none"] /\ manifest = -1
  /\ push = [at |-> "profile", ord |-> 0]
  /\ restarts = 0 /\ loose = FALSE
  /\ pull = [at |-> "idle", ord |-> -1, got |-> "none"]

GoTo(place) == push' = [push EXCEPT !.at = place]

\* push: without a profile there is nothing to do this time.  A profile or an
\* environment that cannot be read is an error.
readProfile ==
  /\ push.at = "profile"
  /\ \/ GoTo("write") /\ azure' \in {azure, TRUE} /\ UNCHANGED loose
     \/ GoTo("error") /\ UNCHANGED <<azure, loose>>
     \/ GoTo("sleep") /\ loose' = TRUE /\ UNCHANGED azure
  /\ UNCHANGED <<objects, manifest, restarts, pull>>

\* A fault: the outcome of the command is not looked at.
writeOutputRegardless ==
  /\ push.at = "write"
  /\ \/ \E data \in {"whole", "partial"} :
          /\ objects' = [objects EXCEPT ![push.ord] = data]
          /\ GoTo("manifest")
     \/ GoTo("error") /\ UNCHANGED objects
  /\ UNCHANGED <<azure, manifest, restarts, loose, pull>>

\* The output is written while the command runs: an output that ends early is
\* an object like any other, and it is cmd.Wait that tells.  What goes to Azure
\* is what the first Read of the pipe gives, and nobody tells that more follows.
writeOutput ==
  /\ push.at = "write"
  /\ \/ \E data \in {"whole", "partial"} :
          /\ objects' = [objects EXCEPT ![push.ord] = data]
          /\ GoTo(IF data = "whole" THEN "manifest" ELSE "error")
     \/ /\ azure /\ objects' = [objects EXCEPT ![push.ord] = "partial"]
        /\ GoTo("manifest")
     \/ GoTo("error") /\ UNCHANGED objects
  /\ UNCHANGED <<azure, manifest, restarts, loose, pull>>

writeManifest ==
  /\ push.at = "manifest"
  /\ \/ manifest' = push.ord /\ GoTo("delete")
     \/ GoTo("error") /\ UNCHANGED manifest
  /\ UNCHANGED <<azure, objects, restarts, loose, pull>>

\* A fault: the object of this round is deleted.
deleteThis ==
  /\ push.at = "delete"
  /\ LET prev == push.ord IN
     \/ /\ objects' = [o \in Ords |-> IF o = prev THEN "none" ELSE objects[o]]
        /\ UNCHANGED loose
     \/ prev \in Ords /\ objects[prev] # "none" /\ loose' = TRUE /\ UNCHANGED objects
  /\ GoTo("sleep")
  /\ UNCHANGED <<azure, manifest, restarts, pull>>

\* A fault: the object of the round before the previous one is deleted.
deleteBeforePrevious ==
  /\ push.at = "delete"
  /\ LET prev == push.ord - 2 IN
     \/ /\ objects' = [o \in Ords |-> IF o = prev THEN "none" ELSE objects[o]]
        /\ UNCHANGED loose
     \/ prev \in Ords /\ objects[prev] # "none" /\ loose' = TRUE /\ UNCHANGED objects
  /\ GoTo("sleep")
  /\ UNCHANGED <<azure, manifest, restarts, pull>>

\* The error of this deletion is dropped.  (It deletes what begins with the name,
\* also the objects of ten rounds that an earlier Push may have left; that of
\* this round, which the manifest names, does not begin with it.)
deletePrevious ==
  /\ push.at = "delete"
  /\ LET prev == push.ord - 1 IN
     \/ /\ objects' = [o \in Ords |-> IF o = prev THEN "none" ELSE objects[o]]
        /\ UNCHANGED loose
     \/ prev \in Ords /\ objects[prev] # "none" /\ loose' = TRUE /\ UNCHANGED objects
  /\ GoTo("sleep")
  /\ UNCHANGED <<azure, manifest, restarts, pull>>

nextRound ==
  /\ push.at = "sleep" /\ push.ord < MaxOrd
  /\ push' = [at |-> "profile", ord |-> push.ord + 1]
  /\ UNCHANGED <<azure, objects, manifest, restarts, loose, pull>>

\* Push has returned an error, or died, or was stopped, and is started anew.
restart ==
  /\ restarts < MaxRestarts
  /\ push' = [at |-> "profile", ord |-> 0] /\ restarts' = restarts + 1
  /\ UNCHANGED <<azure, objects, manifest, loose, pull>>

\* Pull: an error of this first reading is dropped, and leaves no name to read.
pullManifest ==
  /\ pull.at = "idle"
  /\ \E ord \in {manifest, -1} : pull' = [at |-> "named", ord |-> ord, got |-> "none"]
  /\ UNCHANGED <<azure, objects, manifest, push, restarts, loose>>

pullData ==
  /\ pull.at = "named"
  /\ pull' = IF pull.ord \in Ords /\ objects[pull.ord] # "none"
             THEN [pull EXCEPT !.at = "done", !.got = objects[pull.ord]]
             ELSE [pull EXCEPT !.at = "failed"]
  /\ UNCHANGED <<azure, objects, manifest, push, restarts, loose>>

ChronicleNext ==
  \/ readProfile \/ writeOutput \/ writeManifest \/ deletePrevious \/ nextRound
  \/ restart \/ pullManifest \/ pullData

ChronicleSpec == ChronicleInit /\ [][ChronicleNext]_chronicleVars

---------------------------------------------------------------------------

\* The manifest never names an object that is not there, whatever fails and
\* whenever Push is started anew: the data is written before the manifest and
\* deleted after it.
ManifestNamesData == manifest # -1 => objects[manifest] # "none"

\* A Pull that succeeds has the whole output of a command that succeeded, as
\* long as Push was not started anew (then it writes over the object that the
\* manifest names when it comes to that round again) and the objects are not
\* kept in Azure (where the output may be cut without an error).  A Pull that
\* overlaps a round may fail, and returns nothing else.
PullIsWhole == pull.at = "done" /\ restarts = 0 /\ ~azure => pull.got = "whole"

\* Not more than the object of this round and of the one before are loose,
\* unless a deletion failed, a round was skipped or Push was started anew.
OldDataIsDeleted ==
  restarts = 0 /\ ~loose => Cardinality({o \in Ords : objects[o] # "none"}) <= 2

=============================================================================
