--------------------------- MODULE AtomicReconcile ---------------------------
(***************************************************************************)
(* What reconcile.ActionSet promises its callers: the mutation a caller    *)
(* passes in is applied to the stored object in one indivisible step, at   *)
(* most once, and only if the object is valid before and after it.         *)
(***************************************************************************)
EXTENDS Naturals

CONSTANTS
    Callers,   \* the callers of reconcile.ActionSet
    Objects,   \* the contents the stored ActionSet can have
    Valid,     \* the contents validate.ActionSet accepts
    F,         \* F[c]: the mutation of caller c
    MaxEdits   \* bound: changes made by anybody else

VARIABLES
    obj,       \* the stored object
    outcome,   \* what each call has returned: "none", "ok" or "err"
    edits

vars == <<obj, outcome, edits>>

Init ==
    /\ obj \in Objects
    /\ outcome = [c \in Callers |-> "none"]
    /\ edits = 0

\* The mutation takes effect; a lost reply still turns into an error.
Apply(c) ==
    /\ outcome[c] = "none"
    /\ obj \in Valid /\ F[c][obj] \in Valid
    /\ obj' = F[c][obj]
    /\ \E r \in {"ok", "err"} : outcome' = [outcome EXCEPT ![c] = r]
    /\ UNCHANGED edits

\* The call fails and has changed nothing.
Refuse(c) ==
    /\ outcome[c] = "none"
    /\ outcome' = [outcome EXCEPT ![c] = "err"]
    /\ UNCHANGED <<obj, edits>>

\* Somebody else changes the object.
Interfere ==
    /\ edits < MaxEdits
    /\ edits' = edits + 1
    /\ obj' \in Objects
    /\ UNCHANGED outcome

Next == Interfere \/ \E c \in Callers : Apply(c) \/ Refuse(c)

Spec == Init /\ [][Next]_vars

=============================================================================
