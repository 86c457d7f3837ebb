-------------------------- MODULE ActionSetContract --------------------------
(***************************************************************************)
(* What the owner of an ActionSet may rely on: the life cycle of its       *)
(* state, and which phases have been executed at each point of it.  Every  *)
(* phase is executed at most once, after the phases before it and only     *)
(* once the ActionSet runs; it becomes complete only when all phases have  *)
(* been executed, and never leaves failed.                                 *)
(***************************************************************************)
EXTENDS Naturals

CONSTANT Specs

VARIABLES
    spec,    \* the actions of the ActionSet
    state,   \* its Status.State, "none" before it has a status
    ran      \* the phases executed so far, as pairs of action and position

vars == <<spec, state, ran>>

AllPhases ==
    UNION {{a} \X DOMAIN spec[a].phases : a \in DOMAIN spec}

Init ==
    /\ spec \in Specs
    /\ state = "none"
    /\ ran = {}

\* The ActionSet gets its initial status, or is found to be unusable.
Prepare ==
    /\ state = "none"
    /\ state' \in {"pending", "failed"}
    /\ UNCHANGED <<spec, ran>>

Start ==
    /\ state = "pending"
    /\ state' = "running"
    /\ UNCHANGED <<spec, ran>>

\* A phase is executed.  The failure of one action does not stop the others.
Run(a, i) ==
    /\ state \in {"running", "failed"}
    /\ <<a, i>> \in AllPhases \ ran
    /\ \A j \in DOMAIN spec[a].phases : j < i => <<a, j>> \in ran
    /\ ran' = ran \cup {<<a, i>>}
    /\ UNCHANGED <<spec, state>>

Complete ==
    /\ state = "running"
    /\ ran = AllPhases
    /\ state' = "complete"
    /\ UNCHANGED <<spec, ran>>

\* A failure may be found after the last phase, when the ActionSet is already
\* complete: a deferPhase or the artifacts of another action.
Fail ==
    /\ state \in {"running", "complete"}
    /\ state' = "failed"
    /\ UNCHANGED <<spec, ran>>

Next ==
    \/ Prepare \/ Start \/ Complete \/ Fail
    \/ \E a \in DOMAIN spec : \E i \in DOMAIN spec[a].phases : Run(a, i)

Spec == Init /\ [][Next]_vars

=============================================================================
