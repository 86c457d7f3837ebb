----------------------------- MODULE MCReconcile -----------------------------
(* Instances of ReconcileLoop for TLC. *)
EXTENDS ReconcileLoop, FiniteSets

CONSTANTS c1, c2, c3

\* The object is the set of those whose change it contains.  c3 does not use
\* the loop; a third change makes the object invalid.
SetObjects == SUBSET {c1, c2, c3}
SetValid   == {o \in SetObjects : Cardinality(o) < 3}
AddCaller  == [c \in Callers |-> [o \in Objects |-> o \cup {c}]]

=============================================================================
