--------------------------- MODULE SharedFunction ---------------------------
(***************************************************************************)
(* The functions that are registered once and keep the arguments of a call *)
(* in their fields (pkg/function/scale_workload.go, multi_container_run.go):*)
(* Exec stores the arguments one by one and reads them back one by one.    *)
(* The phases of different actions run in different goroutines, and call   *)
(* the same object.                                                        *)
(*                                                                         *)
(* An argument is a list of elements, a scalar one of length 1.  What is   *)
(* decoded into a field that has a value does not always replace all of it.*)
(***************************************************************************)
EXTENDS Naturals, Sequences

CONSTANTS
  Calls,      \* the calls of Exec
  MaxLength,  \* an argument has at most so many elements
  Given       \* the lengths of the arguments of each call, 0 for one it does not give

ASSUME GivenAssumption ==
  /\ MaxLength \in Nat
  /\ Given \in [Calls -> [commands : 1 .. MaxLength, initCommand : 0 .. MaxLength,
                          storageSizeLimit : 0 .. 1, overrides : 0 .. MaxLength]]

VARIABLES
  func,      \* which of the two functions, or "none" before the first call
  fields,    \* its fields: whose elements are in them
  exec,      \* each call: where it is, and the number of the next field
  used,      \* what each call has read back
  disturbed  \* the calls during which another one has stored an argument

sharedVars == <<func, fields, exec, used, disturbed>>

\* scaleWorkloadFunc.setArgs stores these in this order, after it has read and
\* checked all arguments; multiContainerRunFunc.Exec stores each one as it is
\* read.  (Those of the second that behave alike are one here: "images" stands
\* for all strings, "overrides" for the pod override, labels and annotations.)
Stored(f) == IF f = "scale" THEN <<"kind", "name", "namespace", "replicas", "waitForReady">>
             ELSE <<"images", "commands", "initCommand", "storageSizeLimit", "overrides">>

\* Exec and run read them back in this order; the scaling reads the names twice.
Loaded(f) == IF f = "scale" THEN <<"kind", "namespace", "name", "replicas", "waitForReady">>
             ELSE <<"initCommand", "storageSizeLimit", "images", "commands", "overrides">>

Length(c, x) ==
  IF x \in {"commands", "initCommand", "storageSizeLimit", "overrides"} THEN Given[c][x] ELSE 1

\* The fields in which something of an earlier call may survive.  Decoding into
\* a slice sets its elements and keeps those behind them; the default nil of
\* initCommand sets nothing; the size limit is assigned only if it is given.
Merged == {"commands", "initCommand", "storageSizeLimit"}

SharedInit ==
  /\ func = "none" /\ fields = << >>
  /\ exec = [c \in Calls |-> [at |-> "idle", next |-> 1]]
  /\ used = [c \in Calls |-> << >>] /\ disturbed = {}

BeginCall(c) ==
  /\ exec[c].at = "idle"
  /\ IF func = "none"
     THEN /\ func' \in {"scale", "multi"}
          /\ fields' = [x \in {Stored(func')[i] : i \in 1 .. 5} |-> [k \in 1 .. MaxLength |-> "none"]]
     ELSE UNCHANGED <<func, fields>>
  /\ exec' = [exec EXCEPT ![c].at = "store"]
  /\ UNCHANGED <<used, disturbed>>

\* It has stored an argument, and has still to read one.
Running(c) == exec[c].at \in {"store", "load"} /\ (exec[c].at = "store" => exec[c].next > 1)

\* A fault: every argument is decoded into the field of the object.
DecodedInPlace(x, old, c) ==
  [k \in 1 .. MaxLength |-> IF k <= Length(c, x) THEN c ELSE old[k]]

\* What is in a field after the argument of the call has been stored.
Decoded(x, old, c) ==
  [k \in 1 .. MaxLength |-> IF k <= Length(c, x) THEN c ELSE IF x \in Merged THEN old[k] ELSE "none"]

\* The next argument is stored.  One that cannot be decoded ends the call, in
\* the second function when others, or some elements, are already stored.
Store(c) ==
  /\ exec[c].at = "store"
  /\ LET x == Stored(func)[exec[c].next]
         new == [fields EXCEPT ![x] = Decoded(x, fields[x], c)]
     IN
     \/ /\ fields' = new
        /\ exec' = [exec EXCEPT ![c] = IF exec[c].next = 5 THEN [at |-> "load", next |-> 1]
                                       ELSE [at |-> "store", next |-> exec[c].next + 1]]
     \/ /\ \/ func = "multi" /\ fields' \in {fields, new}
           \/ func = "scale" /\ exec[c].next = 1 /\ fields' = fields
        /\ exec' = [exec EXCEPT ![c].at = "failed"]
  /\ disturbed' = disturbed \cup {d \in Calls \ {c} : Running(d)}
  /\ UNCHANGED <<func, used>>

\* The next field is used.
Load(c) ==
  /\ exec[c].at = "load"
  /\ used' = [used EXCEPT ![c] = Append(@, fields[Loaded(func)[exec[c].next]])]
  /\ exec' = [exec EXCEPT ![c] = IF exec[c].next = 5 THEN [at |-> "done", next |-> 5]
                                 ELSE [at |-> "load", next |-> exec[c].next + 1]]
  /\ UNCHANGED <<func, fields, disturbed>>

SharedNext == \E c \in Calls : BeginCall(c) \/ Store(c) \/ Load(c)

SharedSpec == SharedInit /\ [][SharedNext]_sharedVars

---------------------------------------------------------------------------

\* The value has the elements that the call gives, and no other ones; or, where
\* something of an earlier call may survive, other ones only behind them.
Own(c, x, value) ==
  \A k \in 1 .. MaxLength :
    IF k <= Length(c, x) THEN value[k] = c ELSE x \in Merged \/ value[k] = "none"

\* A call during which no other call stores its arguments works with all that it
\* gives itself, in its place, whatever was called before and however it ended.
\* What it does not give is empty, but for the three things of MultiContainerRun
\* that an earlier call leaves behind: the end of a longer command, the command
\* of the init container and the size limit.
OwnArgumentsAreUsed ==
  \A c \in Calls : exec[c].at = "done" /\ c \notin disturbed =>
    \A i \in 1 .. 5 : Own(c, Loaded(func)[i], used[c][i])

=============================================================================
