----------------------------- MODULE MCProgress -----------------------------
(* Instances of PhaseProgress for TLC. *)
EXTENDS PhaseProgress

Phase(n, f) == [name |-> n, func |-> f]

\* Two actions with phase names and functions of their own; the two phases of
\* the first use the same function.
OwnFunctions == <<<<Phase("p", "f"), Phase("q", "f")>>, <<Phase("r", "h")>>>>

\* The same action of a blueprint for two objects.
SameBlueprint == <<<<Phase("p", "f")>>, <<Phase("p", "f")>>>>

\* One phase each.
OnePhase == <<<<Phase("p", "f")>>, <<Phase("r", "h")>>>>

SmallSettings ==
    {[plan |-> OwnFunctions, faults |-> {"exec"}],
     [plan |-> OnePhase, faults |-> {"params", "render", "exec"}],
     [plan |-> SameBlueprint, faults |-> {"api"}]}

=============================================================================
