---------------------------- MODULE SharedProofs ----------------------------
(***************************************************************************)
(* A call that no other call disturbs works with its own arguments, for    *)
(* any set of calls and any lengths of their arguments.  The invariant     *)
(* follows a call through its fields: what it has stored is its own while  *)
(* it stores, every field is its own while it loads, and so is everything  *)
(* that it has read.                                                       *)
(***************************************************************************)
EXTENDS SharedFunction, TLAPS

Names(f) == {Stored(f)[i] : i \in 1 .. 5}

Values == [1 .. MaxLength -> {"none"} \cup Calls]

ExecTypes ==
  /\ func \in {"none", "scale", "multi"}
  /\ exec \in [Calls -> [at : {"idle", "store", "load", "done", "failed"}, next : 1 .. 5]]
  /\ used \in [Calls -> Seq(Values)]
  /\ disturbed \subseteq Calls

\* The fields are there once somebody has called.
FieldsThere ==
  /\ \A c \in Calls : exec[c].at # "idle" => func # "none"
  /\ func # "none" => fields \in [Names(func) -> Values]

OwnFields(c) ==
  /\ exec[c].at \in {"idle", "store"} => used[c] = << >>
  /\ exec[c].at = "idle" => exec[c].next = 1
  /\ exec[c].at = "store" /\ c \notin disturbed =>
       \A i \in 1 .. (exec[c].next - 1) : Own(c, Stored(func)[i], fields[Stored(func)[i]])
  /\ exec[c].at = "load" =>
       /\ Len(used[c]) = exec[c].next - 1
       /\ c \notin disturbed => \A x \in Names(func) : Own(c, x, fields[x])
  /\ exec[c].at = "done" => Len(used[c]) = 5
  /\ exec[c].at \in {"load", "done"} /\ c \notin disturbed =>
       \A i \in 1 .. Len(used[c]) : Own(c, Loaded(func)[i], used[c][i])

SharedInv == ExecTypes /\ FieldsThere /\ \A c \in Calls : OwnFields(c)

---------------------------------------------------------------------------

\* Both functions load exactly what they store, and no field is stored twice.
LEMMA StoredAndLoaded ==
  ASSUME NEW f \in {"scale", "multi"}, NEW i \in 1 .. 5
  PROVE /\ Stored(f)[i] \in Names(f)
        /\ Loaded(f)[i] \in Names(f)
        /\ \A j \in 1 .. 5 : Stored(f)[i] = Stored(f)[j] => i = j
  <1>1. i = 1 \/ i = 2 \/ i = 3 \/ i = 4 \/ i = 5
    OBVIOUS
  <1>2. 1 \in 1 .. 5 /\ 2 \in 1 .. 5 /\ 3 \in 1 .. 5 /\ 4 \in 1 .. 5 /\ 5 \in 1 .. 5
    OBVIOUS
  <1>3. Stored(f)[i] \in Names(f)
    BY Zenon DEF Names
  <1>4. \E j \in 1 .. 5 : Loaded(f)[i] = Stored(f)[j]
    <2>1. CASE f = "scale"
      BY <1>1, <1>2, <2>1 DEF Stored, Loaded
    <2>2. CASE f = "multi"
      BY <1>1, <1>2, <2>2 DEF Stored, Loaded
    <2> QED
      BY <2>1, <2>2
  <1>5. Loaded(f)[i] \in Names(f)
    BY <1>4, Zenon DEF Names
  <1>6. ASSUME NEW j \in 1 .. 5, Stored(f)[i] = Stored(f)[j] PROVE i = j
    <2>1. j = 1 \/ j = 2 \/ j = 3 \/ j = 4 \/ j = 5
      OBVIOUS
    <2>2. CASE f = "scale"
      BY <1>1, <1>6, <2>1, <2>2 DEF Stored
    <2>3. CASE f = "multi"
      BY <1>1, <1>6, <2>1, <2>3 DEF Stored
    <2> QED
      BY <2>2, <2>3
  <1> QED
    BY <1>3, <1>5, <1>6

\* Decoding makes a value again, which the call may take for its own.
LEMMA DecodedIsOwn ==
  ASSUME NEW c \in Calls, NEW x, NEW old \in Values
  PROVE Decoded(x, old, c) \in Values /\ Own(c, x, Decoded(x, old, c))
  <1>1. ASSUME NEW k \in 1 .. MaxLength PROVE Decoded(x, old, c)[k] \in {"none"} \cup Calls
    <2>1. old[k] \in {"none"} \cup Calls
      BY DEF Values
    <2>2. Decoded(x, old, c)[k] \in {c, old[k], "none"}
      BY Zenon DEF Decoded
    <2> QED
      BY <2>1, <2>2, Zenon
  <1>2. Decoded(x, old, c) \in Values
    BY <1>1, Zenon DEF Decoded, Values
  <1>3. Own(c, x, Decoded(x, old, c))
    BY Zenon DEF Own, Decoded
  <1> QED
    BY <1>2, <1>3

LEMMA SharedInvInit == SharedInit => SharedInv
  BY DEF SharedInit, SharedInv, ExecTypes, FieldsThere, OwnFields

\* Somebody who only begins has stored nothing yet.
LEMMA BeginStep ==
  ASSUME SharedInv, NEW c \in Calls, BeginCall(c)
  PROVE SharedInv'
  <1> USE DEF SharedInv
  <1>1. exec' \in [Calls -> [at : {"idle", "store", "load", "done", "failed"}, next : 1 .. 5]]
    BY DEF BeginCall, ExecTypes
  <1>2. exec'[c].at = "store" /\ exec'[c].next = 1 /\ used'[c] = << >>
    BY DEF BeginCall, ExecTypes, OwnFields
  <1>3. \A d \in Calls \ {c} : exec'[d] = exec[d] /\ used'[d] = used[d]
    BY DEF BeginCall, ExecTypes
  <1>4. CASE func = "none"
    <2>1. \A d \in Calls \ {c} : exec[d].at = "idle"
      BY <1>4 DEF FieldsThere
    <2>2. func' \in {"scale", "multi"} /\ fields' \in [Names(func') -> Values]
      BY <1>4 DEF BeginCall, Names, Values
    <2>3. ExecTypes' /\ FieldsThere'
      BY <1>1, <2>2 DEF ExecTypes, FieldsThere, BeginCall
    <2>4. ASSUME NEW d \in Calls PROVE OwnFields(d)'
      BY <1>2, <1>3, <2>1 DEF OwnFields
    <2> QED
      BY <2>3, <2>4
  <1>5. CASE func # "none"
    <2>1. func' = func /\ fields' = fields /\ disturbed' = disturbed /\ used' = used
      BY <1>5 DEF BeginCall
    <2>2. ExecTypes' /\ FieldsThere'
      BY <1>1, <1>5, <2>1 DEF ExecTypes, FieldsThere
    <2>3. OwnFields(c)'
      BY <1>2 DEF OwnFields
    <2>4. ASSUME NEW d \in Calls \ {c} PROVE OwnFields(d)'
      BY <1>3, <2>1 DEF OwnFields
    <2> QED
      BY <2>2, <2>3, <2>4
  <1> QED
    BY <1>4, <1>5

\* Whoever stores disturbs everybody who has stored and still has to read.
LEMMA StoreStep ==
  ASSUME SharedInv, NEW c \in Calls, Store(c)
  PROVE SharedInv'
  <1> USE DEF SharedInv
  <1> DEFINE n == exec[c].next
             x == Stored(func)[n]
             new == [fields EXCEPT ![x] = Decoded(x, fields[x], c)]
  <1>1. /\ exec[c].at = "store" /\ func' = func /\ used' = used /\ n \in 1 .. 5
        /\ func \in {"scale", "multi"} /\ used[c] = << >>
    BY DEF Store, ExecTypes, FieldsThere, OwnFields
  <1>2. x \in Names(func) /\ \A j \in 1 .. 5 : Stored(func)[j] = x => j = n
    BY <1>1, StoredAndLoaded
  <1>3. disturbed' = disturbed \cup {d \in Calls \ {c} : Running(d)}
    BY DEF Store
  <1>4. ASSUME NEW d \in Calls \ {c}, exec'[d] = exec[d] PROVE OwnFields(d)'
    <2>1. CASE Running(d)
      BY <1>1, <1>3, <1>4, <2>1 DEF OwnFields
    <2>2. CASE ~Running(d)
      <3>1. exec[d].at \notin {"store", "load"} \/ (exec[d].at = "store" /\ exec[d].next = 1)
        <4>1. exec[d].next \in 1 .. 5
          BY DEF ExecTypes
        <4> QED
          BY <2>2, <4>1, SMT DEF Running
      <3>2. CASE exec[d].at = "store" /\ exec[d].next = 1
        BY <1>1, <1>3, <1>4, <3>2 DEF OwnFields
      <3>3. CASE exec[d].at \notin {"store", "load"}
        <4>1. d \notin disturbed' => d \notin disturbed
          BY <1>3
        <4> QED
          BY <1>1, <1>4, <3>3, <4>1 DEF OwnFields
      <3> QED
        BY <3>1, <3>2, <3>3
    <2> QED
      BY <2>1, <2>2
  <1>5. new \in [Names(func) -> Values] /\ Own(c, x, new[x]) /\ \A y \in Names(func) \ {x} : new[y] = fields[y]
    <2>1. fields \in [Names(func) -> Values]
      BY <1>1 DEF FieldsThere
    <2>2. fields[x] \in Values
      BY <1>2, <2>1, Zenon
    <2> DEFINE value == Decoded(x, fields[x], c)
    <2>3. value \in Values /\ Own(c, x, value)
      BY <2>2, DecodedIsOwn
    <2>4. new = [fields EXCEPT ![x] = value]
      OBVIOUS
    <2> HIDE DEF value, x, new
    <2>5. new[x] = value /\ \A y \in Names(func) \ {x} : new[y] = fields[y]
      BY <1>2, <2>1, <2>4
    <2>6. new \in [Names(func) -> Values]
      BY <2>1, <2>3, <2>4
    <2> QED
      BY <2>3, <2>5, <2>6
  <1> HIDE DEF new
  <1>6. CASE exec' = [exec EXCEPT ![c].at = "failed"] /\ fields' \in {fields, new}
    <2>1. ExecTypes' /\ FieldsThere'
      BY <1>1, <1>3, <1>5, <1>6 DEF ExecTypes, FieldsThere
    <2>2. exec'[c].at = "failed" /\ \A d \in Calls \ {c} : exec'[d] = exec[d]
      BY <1>6 DEF ExecTypes
    <2> QED
      BY <1>4, <2>1, <2>2 DEF OwnFields
  <1>7. CASE /\ fields' = new
             /\ exec' = [exec EXCEPT ![c] = IF n = 5 THEN [at |-> "load", next |-> 1]
                                            ELSE [at |-> "store", next |-> n + 1]]
    <2>1. exec'[c] = IF n = 5 THEN [at |-> "load", next |-> 1] ELSE [at |-> "store", next |-> n + 1]
      BY <1>7 DEF ExecTypes
    <2>2. \A d \in Calls \ {c} : exec'[d] = exec[d]
      BY <1>7 DEF ExecTypes
    <2>3. exec' \in [Calls -> [at : {"idle", "store", "load", "done", "failed"}, next : 1 .. 5]]
      <3>1. exec'[c] \in [at : {"idle", "store", "load", "done", "failed"}, next : 1 .. 5]
        BY <1>1, <2>1
      <3> HIDE DEF n
      <3> QED
        BY <1>7, <2>2, <3>1 DEF ExecTypes
    <2>4. fields' \in [Names(func) -> Values]
      BY <1>5, <1>7
    <2>5. ExecTypes' /\ FieldsThere'
      BY <1>1, <1>3, <2>3, <2>4 DEF ExecTypes, FieldsThere
    <2>6. Own(c, x, fields'[x]) /\ \A y \in Names(func) \ {x} : fields'[y] = fields[y]
      BY <1>5, <1>7
    <2>7. ASSUME c \notin disturbed PROVE \A i \in 1 .. n : Own(c, Stored(func)[i], fields'[Stored(func)[i]])
      <3> SUFFICES ASSUME NEW i \in 1 .. n, i # n PROVE Own(c, Stored(func)[i], fields'[Stored(func)[i]])
        BY <2>6
      <3>1. i \in 1 .. (n - 1) /\ i \in 1 .. 5
        BY <1>1
      <3>2. Stored(func)[i] \in Names(func) \ {x}
        BY <1>1, <1>2, <3>1, StoredAndLoaded
      <3>3. Own(c, Stored(func)[i], fields[Stored(func)[i]])
        BY <1>1, <2>7, <3>1 DEF OwnFields
      <3> QED
        BY <2>6, <3>2, <3>3
    <2>8. OwnFields(c)'
      <3>1. CASE n = 5
        BY <1>1, <1>3, <2>1, <2>7, <3>1 DEF OwnFields, Names
      <3>2. CASE n # 5
        BY <1>1, <1>3, <2>1, <2>7, <3>2 DEF OwnFields
      <3> QED
        BY <3>1, <3>2
    <2> QED
      BY <1>4, <2>2, <2>5, <2>8
  <1> QED
    BY <1>6, <1>7 DEF Store, new

\* A field that is read is its own, so what it has read stays its own.
LEMMA LoadStep ==
  ASSUME SharedInv, NEW c \in Calls, Load(c)
  PROVE SharedInv'
  <1> USE DEF SharedInv
  <1> DEFINE n == exec[c].next
             x == Loaded(func)[n]
  <1>1. /\ exec[c].at = "load" /\ UNCHANGED <<func, fields, disturbed>> /\ n \in 1 .. 5
        /\ func \in {"scale", "multi"} /\ Len(used[c]) = n - 1 /\ used[c] \in Seq(Values)
    BY DEF Load, ExecTypes, FieldsThere, OwnFields
  <1>2. x \in Names(func)
    BY <1>1, StoredAndLoaded
  <1>3. fields[x] \in Values
    BY <1>1, <1>2 DEF FieldsThere
  <1>4. used'[c] = Append(used[c], fields[x]) /\ used' \in [Calls -> Seq(Values)]
    BY <1>1, <1>3 DEF Load, ExecTypes
  <1>5. Len(used'[c]) = n /\ used'[c][n] = fields[x] /\ \A i \in 1 .. (n - 1) : used'[c][i] = used[c][i]
    BY <1>1, <1>3, <1>4
  <1>6. exec'[c] = IF n = 5 THEN [at |-> "done", next |-> n] ELSE [at |-> "load", next |-> n + 1]
    BY <1>1 DEF Load, ExecTypes
  <1>7. \A d \in Calls \ {c} : exec'[d] = exec[d] /\ used'[d] = used[d]
    BY DEF Load, ExecTypes
  <1>8. exec' \in [Calls -> [at : {"idle", "store", "load", "done", "failed"}, next : 1 .. 5]]
    <2>1. exec'[c] \in [at : {"idle", "store", "load", "done", "failed"}, next : 1 .. 5]
      BY <1>1, <1>6
    <2> HIDE DEF n
    <2> QED
      BY <1>7, <2>1 DEF Load, ExecTypes
  <1>9. ExecTypes' /\ FieldsThere'
    BY <1>1, <1>4, <1>8 DEF ExecTypes, FieldsThere
  <1>10. ASSUME c \notin disturbed PROVE \A i \in 1 .. n : Own(c, Loaded(func)[i], used'[c][i])
    <2>1. Own(c, x, fields[x])
      BY <1>1, <1>2, <1>10 DEF OwnFields
    <2>2. \A i \in 1 .. (n - 1) : Own(c, Loaded(func)[i], used[c][i])
      BY <1>1, <1>10 DEF OwnFields
    <2> QED
      BY <1>1, <1>5, <2>1, <2>2
  <1>11. OwnFields(c)'
    <2>1. CASE n = 5
      BY <1>1, <1>5, <1>6, <1>10, <2>1 DEF OwnFields
    <2>2. CASE n # 5
      BY <1>1, <1>5, <1>6, <1>10, <2>2 DEF OwnFields
    <2> QED
      BY <2>1, <2>2
  <1>12. ASSUME NEW d \in Calls \ {c} PROVE OwnFields(d)'
    BY <1>1, <1>7 DEF OwnFields
  <1> QED
    BY <1>9, <1>11, <1>12

\* Whatever set of calls there is, and however long their arguments are, a call
\* during which no other call stores an argument works with all that it gives;
\* what it does not give is empty, unless it is one of the three things that an
\* earlier call leaves behind in a field.
THEOREM UndisturbedCall == SharedSpec => []OwnArgumentsAreUsed
  <1>1. SharedInv /\ [SharedNext]_sharedVars => SharedInv'
    <2> SUFFICES ASSUME SharedInv, [SharedNext]_sharedVars PROVE SharedInv'
      OBVIOUS
    <2>1. CASE UNCHANGED sharedVars
      BY <2>1 DEF sharedVars, SharedInv, ExecTypes, FieldsThere, OwnFields
    <2> QED
      BY <2>1, BeginStep, StoreStep, LoadStep DEF SharedNext
  <1>2. SharedInv => OwnArgumentsAreUsed
    BY DEF SharedInv, OwnFields, OwnArgumentsAreUsed
  <1> QED
    BY <1>1, <1>2, SharedInvInit, PTL DEF SharedSpec

=============================================================================
