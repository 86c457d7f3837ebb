--------------------------- MODULE ReconcileProofs ---------------------------
(***************************************************************************)
(* Proofs about ReconcileLoop, for any set of callers, any mutations, any  *)
(* notion of validity and any number of interfering writes.                *)
(***************************************************************************)
EXTENDS ReconcileLoop, TLAPS

\* A copy that is about to be written was found valid, as was its mutation.
CopyIsValid ==
    \A c \in Callers : pc[c] = "update" =>
        copy[c] \in Valid /\ F[c][copy[c]] \in Valid

\* The inductive invariant of the loop: a copy whose version is current is the
\* stored object, and what is about to be written was validated.
Inv == TypeOK /\ CopyIsCurrent /\ CopyIsValid

LEMMA InitInv == Init => Inv
BY LoopAssumption DEF Init, Inv, TypeOK, CopyIsCurrent, CopyIsValid, Steps

LEMMA NextInv == Inv /\ [Next]_vars => Inv'
<1> SUFFICES ASSUME Inv, [Next]_vars PROVE Inv'
  OBVIOUS
<1> USE LoopAssumption DEF Inv, TypeOK, CopyIsCurrent, CopyIsValid, Steps,
                           Goto, server, local
<1>1. CASE Edit
  BY <1>1 DEF Edit
<1>2. ASSUME NEW c \in Callers, Get(c) PROVE Inv'
  BY <1>2 DEF Get
<1>3. ASSUME NEW c \in Callers, UpdateStored(c) PROVE Inv'
  <2>1. copy[c] = obj /\ obj' = F[c][obj] /\ obj' \in Objects
    BY <1>3 DEF UpdateStored
  <2>2. CASE obj' = obj
    BY <1>3, <2>2 DEF UpdateStored
  <2>3. CASE obj' # obj
    <3>1. version' = version + 1
      BY <1>3, <2>3 DEF UpdateStored
    <3>2. \A d \in Callers : copyVer'[d] < version'
      BY <1>3, <3>1 DEF UpdateStored
    <3> QED
      BY <1>3, <2>1, <3>1, <3>2 DEF UpdateStored
  <2> QED
    BY <2>2, <2>3
<1>4. ASSUME NEW c \in Callers, UpdateConflict(c) PROVE Inv'
  BY <1>4 DEF UpdateConflict
<1>5. ASSUME NEW c \in Callers, RequestFails(c) PROVE Inv'
  BY <1>5 DEF RequestFails
<1>6. ASSUME NEW c \in Callers, Wake(c) PROVE Inv'
  BY <1>6 DEF Wake
<1>7. ASSUME NEW c \in Callers, Cancel(c) PROVE Inv'
  BY <1>7 DEF Cancel
<1>8. CASE UNCHANGED vars
  BY <1>8 DEF vars
<1> QED
  BY <1>1, <1>2, <1>3, <1>4, <1>5, <1>6, <1>7, <1>8 DEF Next, Step

\* In every behaviour of the loop a copy with the current resourceVersion is the
\* current object: the version check of Update detects every lost update.
THEOREM CopyIsCurrentHolds == Spec => []CopyIsCurrent
<1>1. Spec => []Inv
  BY InitInv, NextInv, PTL DEF Spec
<1> QED
  BY <1>1, PTL DEF Inv

-----------------------------------------------------------------------------

LEMMA StepImplements == Inv /\ [Next]_vars => [Atomic!Next]_(Atomic!vars)
<1> SUFFICES ASSUME Inv, [Next]_vars
             PROVE  Atomic!Next \/ UNCHANGED Atomic!vars
  BY DEF Atomic!vars
<1> USE DEF Inv, TypeOK, Steps, Goto, Outcome, Atomic!vars, server, local
<1>1. CASE Edit
  BY <1>1 DEF Edit, Atomic!Next, Atomic!Interfere
<1>2. ASSUME NEW c \in Callers, Get(c) PROVE Atomic!Next \/ UNCHANGED Atomic!vars
  <2>1. CASE obj \in Valid /\ F[c][obj] \in Valid
    BY <1>2, <2>1 DEF Get
  <2>2. CASE ~(obj \in Valid /\ F[c][obj] \in Valid)
    <3>1. Atomic!Refuse(c)
      BY <1>2, <2>2 DEF Get, Atomic!Refuse
    <3> QED
      BY <3>1 DEF Atomic!Next
  <2> QED
    BY <2>1, <2>2
<1>3. ASSUME NEW c \in Callers, UpdateStored(c) PROVE Atomic!Next \/ UNCHANGED Atomic!vars
  <2>1. copy[c] = obj /\ obj \in Valid /\ F[c][obj] \in Valid /\ obj' = F[c][obj]
    BY <1>3 DEF UpdateStored, CopyIsCurrent, CopyIsValid
  <2>2. Atomic!Apply(c)
    BY <1>3, <2>1 DEF UpdateStored, Atomic!Apply
  <2> QED
    BY <2>2 DEF Atomic!Next
<1>4. ASSUME NEW c \in Callers, UpdateConflict(c) PROVE Atomic!Next \/ UNCHANGED Atomic!vars
  BY <1>4 DEF UpdateConflict
<1>5. ASSUME NEW c \in Callers, RequestFails(c) PROVE Atomic!Next \/ UNCHANGED Atomic!vars
  <2>1. Atomic!Refuse(c)
    BY <1>5 DEF RequestFails, Atomic!Refuse
  <2> QED
    BY <2>1 DEF Atomic!Next
<1>6. ASSUME NEW c \in Callers, Wake(c) PROVE Atomic!Next \/ UNCHANGED Atomic!vars
  <2>1. CASE pc' = [pc EXCEPT ![c] = "get"]
    BY <1>6, <2>1 DEF Wake
  <2>2. CASE pc' = [pc EXCEPT ![c] = "err"]
    <3>1. Atomic!Refuse(c)
      BY <1>6, <2>2 DEF Wake, Atomic!Refuse
    <3> QED
      BY <3>1 DEF Atomic!Next
  <2> QED
    BY <1>6, <2>1, <2>2 DEF Wake
<1>7. ASSUME NEW c \in Callers, Cancel(c) PROVE Atomic!Next \/ UNCHANGED Atomic!vars
  BY <1>7 DEF Cancel
<1>8. CASE UNCHANGED vars
  BY <1>8 DEF vars
<1> QED
  BY <1>1, <1>2, <1>3, <1>4, <1>5, <1>6, <1>7, <1>8 DEF Next, Step

\* The Get / Update loop with optimistic concurrency implements the atomic
\* read-modify-write that the controller's model takes reconcile.ActionSet to
\* be, whatever the mutations are and however often others interfere.
THEOREM LoopImplementsAtomic == Spec => ImplementsAtomic
<1>1. Init => Atomic!Init
  BY DEF Init, Atomic!Init, Outcome
<1>2. Spec => []Inv
  BY InitInv, NextInv, PTL DEF Spec
<1> QED
  BY <1>1, <1>2, StepImplements, PTL DEF Spec, ImplementsAtomic, Atomic!Spec

=============================================================================
