---------------------------- MODULE ReconcileLoop ----------------------------
(***************************************************************************)
(* reconcile.ActionSet (pkg/reconcile/reconcile.go) on top of poll.Wait    *)
(* (pkg/poll/poll.go): Get the object, validate it, apply the mutation,    *)
(* validate again, Update.  The API server refuses an Update made from a   *)
(* stale copy; the loop then sleeps and starts over.  Any other error, and *)
(* a context that is done while the loop sleeps, ends the call.            *)
(*                                                                         *)
(* The mutation is arbitrary, so that what is shown here holds for every   *)
(* closure the controller and the progress tracker pass in.                *)
(***************************************************************************)
EXTENDS Naturals

CONSTANTS
    Callers, Objects, Valid, F,   \* as in AtomicReconcile
    MaxEdits                      \* bound: changes made by anybody else

ASSUME LoopAssumption ==
    /\ Valid \subseteq Objects
    /\ F \in [Callers -> [Objects -> Objects]]
    /\ MaxEdits \in Nat

VARIABLES
    obj,       \* the object in the API server
    version,   \* its resourceVersion
    pc,        \* where each call is
    copy,      \* the object each call has read
    copyVer,   \* the resourceVersion of that copy
    cancelled, \* the callers whose context is done
    edits

server == <<obj, version>>
local  == <<copy, copyVer>>
vars   == <<server, pc, local, cancelled, edits>>

Steps == {"get", "update", "sleep", "ok", "err"}

Init ==
    /\ obj \in Objects
    /\ version = 0
    /\ pc = [c \in Callers |-> "get"]
    /\ copy = [c \in Callers |-> obj]
    /\ copyVer = [c \in Callers |-> 0]
    /\ cancelled = {}
    /\ edits = 0

Goto(c, step) == pc' = [pc EXCEPT ![c] = step]

\* The Get, the two validations and the mutation in between.
Get(c) ==
    /\ pc[c] = "get" /\ c \notin cancelled
    /\ copy' = [copy EXCEPT ![c] = obj]
    /\ copyVer' = [copyVer EXCEPT ![c] = version]
    /\ Goto(c, IF obj \in Valid /\ F[c][obj] \in Valid THEN "update" ELSE "err")
    /\ UNCHANGED <<server, cancelled, edits>>

\* Mutant: the Update carries no resourceVersion, and overwrites.
UpdateBlind(c) ==
    /\ pc[c] = "update" /\ c \notin cancelled
    /\ obj' = F[c][copy[c]]
    /\ version' = IF obj' = obj THEN version ELSE version + 1
    /\ Goto(c, "ok") \/ Goto(c, "err")
    /\ UNCHANGED <<local, cancelled, edits>>

\* The server stores an Update made from the current version and tells the
\* caller, unless the reply is lost.  One that changes nothing keeps the version.
UpdateStored(c) ==
    /\ pc[c] = "update" /\ c \notin cancelled
    /\ copyVer[c] = version
    /\ obj' = F[c][copy[c]]
    /\ version' = IF obj' = obj THEN version ELSE version + 1
    /\ Goto(c, "ok") \/ Goto(c, "err")
    /\ UNCHANGED <<local, cancelled, edits>>

\* A conflict: poll.Wait sleeps before the next attempt.
UpdateConflict(c) ==
    /\ pc[c] = "update" /\ c \notin cancelled
    /\ copyVer[c] # version
    /\ Goto(c, "sleep")
    /\ UNCHANGED <<server, local, cancelled, edits>>

\* A request fails for any other reason: a context that is done, the network,
\* the object is gone.
RequestFails(c) ==
    /\ pc[c] \in {"get", "update"}
    /\ Goto(c, "err")
    /\ UNCHANGED <<server, local, cancelled, edits>>

\* Mutant: the next attempt sends the old copy again.
WakeWithOldCopy(c) ==
    /\ pc[c] = "sleep"
    /\ \/ Goto(c, "update")
       \/ c \in cancelled /\ Goto(c, "err")
    /\ UNCHANGED <<server, local, cancelled, edits>>

\* The backoff timer fires, or the context is done: select takes either.
Wake(c) ==
    /\ pc[c] = "sleep"
    /\ \/ Goto(c, "get")
       \/ c \in cancelled /\ Goto(c, "err")
    /\ UNCHANGED <<server, local, cancelled, edits>>

\* The context of a call is cancelled, as when the ActionSet is deleted.
Cancel(c) ==
    /\ c \notin cancelled
    /\ cancelled' = cancelled \cup {c}
    /\ UNCHANGED <<server, pc, local, edits>>

\* A writer that does not use the loop: the owner, or a plain Update.
Edit ==
    /\ edits < MaxEdits
    /\ edits' = edits + 1
    /\ obj' \in Objects
    /\ version' = version + 1
    /\ UNCHANGED <<pc, local, cancelled>>

Step(c) == Get(c) \/ UpdateStored(c) \/ UpdateConflict(c) \/ Wake(c)

Next == Edit \/ \E c \in Callers : Step(c) \/ RequestFails(c) \/ Cancel(c)

Spec == Init /\ [][Next]_vars

\* Goroutines run, the server answers, the backoff timer fires; a request fails
\* for certain only if its context is done.
FairSpec ==
    /\ Spec
    /\ \A c \in Callers :
         /\ WF_vars(Step(c))
         /\ WF_vars(c \in cancelled /\ RequestFails(c))

-----------------------------------------------------------------------------
(* Properties *)

\* The type invariant.
TypeOK ==
    /\ obj \in Objects
    /\ version \in Nat
    /\ pc \in [Callers -> Steps]
    /\ copy \in [Callers -> Objects]
    /\ copyVer \in [Callers -> Nat]
    /\ cancelled \subseteq Callers
    /\ edits \in 0..MaxEdits

\* What makes the version check work: a copy of the current version is the
\* current object, and no copy is from the future.
CopyIsCurrent ==
    \A c \in Callers :
        /\ copyVer[c] <= version
        /\ copyVer[c] = version => copy[c] = obj

\* The loop implements the atomic operation: reading, mutating and writing
\* while others write is never visible as more than one step.
Outcome(step) == IF step \in {"ok", "err"} THEN step ELSE "none"

Atomic == INSTANCE AtomicReconcile WITH
    outcome <- [c \in Callers |-> Outcome(pc[c])]

ImplementsAtomic == Atomic!Spec

\* Every call returns: a conflict means that some other writer got through.
EveryCallReturns == \A c \in Callers : <>(pc[c] \in {"ok", "err"})

=============================================================================
