----------------------------- MODULE Execution ------------------------------
(***************************************************************************)
(* Runs the operations of module Steps: one operation of Ops, its inputs   *)
(* chosen in Init, a call at a time, while calls fail, the caller's        *)
(* context is cancelled, the goroutines it leaves behind go on, and an     *)
(* operation that failed is run again.                                     *)
(***************************************************************************)
EXTENDS Steps

CONSTANTS
  Ops,        \* the operations: a function from names to operation records
  MaxFaults,  \* how many calls fail that need not
  Attempts    \* how often an operation is run

ASSUME BoundsAssumption == MaxFaults \in Nat /\ Attempts \in Nat \ {0}

VARIABLES
  op,       \* the operation that runs
  given,    \* the arguments it is given
  input,    \* the conditions that hold outside, chosen once
  flags,    \* those and the ones found out by the current attempt
  world,    \* the status of every resource the operation mentions
  pc,       \* the next step
  stack,    \* the deferred calls, the latest first, with their scope
  undo,     \* the rest of the deferred call that runs
  routines, \* the goroutines: the scope they wait for, whether it has ended
  err,      \* the error on its way to the caller, or "none"
  faults,   \* how many more calls may fail
  done,     \* whether the caller's context is cancelled
  lost,     \* resources whose creation was reported as failed and happened
  kept,     \* resources a deferred call could not delete, their service failing
  attempt,  \* the number of the attempt
  outcome   \* "running", or how the attempt ended

vars == <<op, given, input, flags, world, pc, stack, undo, routines, err, faults,
          done, lost, kept, attempt, outcome>>

Body == Ops[op].body
Here == Body[pc]

Holds(s, fl) == s.when \subseteq fl /\ s.unless \cap fl = {}

\* The first step at or after p the code gets to under the flags fl.
From(p, fl) ==
  CHOOSE i \in p .. Len(Body) :
    Holds(Body[i], fl) /\ \A j \in p .. i - 1 : ~Holds(Body[j], fl)

\* The end of the innermost scope around the step p; of the next outer one.
EndAt(p, depth) ==
  CHOOSE i \in p .. Len(Body) :
    /\ Body[i].k = "end" /\ Body[i].d = depth
    /\ \A j \in p .. i - 1 : ~(Body[j].k = "end" /\ Body[j].d = depth)

\* What the call s makes of w when it works as its service documents it.
Result(s, w) ==
  LET is(set) == w[s.r] \in set
      to(status) == [w |-> [w EXCEPT ![s.r] = status], e |-> "none"]
      not(e) == [w |-> w, e |-> e]
  IN CASE s.k = "call" -> not("none")
       [] s.k \in {"do", "part"} -> to("ready")
       [] s.k = "get" -> not(IF is({"absent"}) THEN "nf" ELSE "none")
       [] s.k = "check" -> not(IF is({"ready"}) THEN "none" ELSE "err")
       [] s.k = "make" -> IF is({"absent"}) THEN to("ready") ELSE not("exists")
       [] s.k = "spawn" -> to("creating")
       [] s.k = "create" -> IF is({"absent"}) THEN to("creating") ELSE not("exists")
       [] s.k \in {"ready", "poll"} -> IF is({"creating", "ready"}) THEN to("ready") ELSE not("nf")
       [] s.k = "await" -> IF is({"creating", "ready"}) THEN to("ready") ELSE not("err")
       [] s.k = "drop" -> IF is({"absent"}) THEN not("nf") ELSE to("absent")
       [] s.k = "delete" -> IF is({"absent"}) THEN not("nf") ELSE to("deleting")
       [] s.k = "gone" -> IF is({"absent", "deleting"}) THEN to("absent") ELSE not("err")
       [] s.k = "arg" -> not(IF s.must \subseteq given THEN "none" ELSE "missing")
       [] s.k = "accept" -> not(IF s.must \subseteq given /\ given \subseteq s.reads
                                THEN "none" ELSE "rejected")

Leaf == Effects \cup {"call", "arg", "accept"}
Remote(s) == s.k \notin {"arg", "accept"}

\* What a call that reports success may have done instead: what is written is cut
\* short, what is waited for is not ready yet.
Instead(s) ==
  IF s.k = "part" THEN {[world EXCEPT ![s.r] = "partial"]}
  ELSE IF s.k = "poll" /\ Result(s, world).e = "none" THEN {world} ELSE {}

\* What the caller of s may see: the answer; an error of the connection, with
\* or without the effect; and only errors once its context is cancelled.
Answers(s) ==
  LET r == Result(s, world)
      answer(w, e, f) == [w |-> w, e |-> e, f |-> f]
  IN IF Remote(s) /\ done /\ s.ctx = "caller"
     THEN {answer(world, "err", 0)}
     ELSE {answer(r.w, r.e, 0)} \cup {answer(w, "none", 0) : w \in Instead(s)} \cup
          {answer(w, "err", 1) : w \in IF Remote(s) /\ faults > 0 THEN {world, r.w} ELSE {}}

Fresh(o, present) ==
  [n \in Names(Ops[o].body) |-> IF n \in present THEN "ready" ELSE "absent"]

\* The sets of arguments a blueprint may give: everything, what is required,
\* what is required less one, and what is required and one the code reads.
Givings(o) ==
  LET all == Reads(Ops[o].body)  least == Ops[o].need
  IN {Ops[o].take, least} \cup {least \ {a} : a \in least} \cup {least \cup {a} : a \in all}

\* Faults are explored with all arguments given; the other choices of the
\* arguments are explored without faults.
Init ==
  /\ op \in DOMAIN Ops
  /\ input \in Ops[op].cond
  /\ \E present \in SUBSET Ops[op].maybe :
       world = Fresh(op, Ops[op].there \cup present)
  /\ \/ given \in Ops[op].use /\ faults = MaxFaults
     \/ given \in Givings(op) /\ faults = 0
  /\ flags = input \cup given
  /\ pc = From(1, flags)
  /\ stack = << >> /\ undo = << >> /\ routines = {} /\ err = "none" /\ done = FALSE
  /\ lost = {} /\ kept = {} /\ attempt = 1 /\ outcome = "running"

\* A call of the operation returns: the next step, or with its error to the
\* end of the function.
Execute ==
  /\ outcome = "running" /\ undo = << >> /\ Here.k \in Leaf
  /\ \E a \in Answers(Here) :
       /\ world' = a.w
       /\ faults' = faults - a.f
       /\ err' = a.e
       /\ pc' = IF a.e = "none" THEN From(pc + 1, flags) ELSE EndAt(pc, Here.d)
       /\ lost' = IF a.e # "none" /\ a.w # world /\ Here.k \in {"make", "create", "spawn", "do", "part"}
                  THEN lost \cup {Here.r} ELSE lost
  /\ UNCHANGED <<op, given, input, flags, stack, undo, routines, done, kept, attempt, outcome>>

\* The defer statement.
Register ==
  /\ outcome = "running" /\ undo = << >> /\ Here.k = "defer"
  /\ stack' = <<[d |-> Here.d, steps |-> Here.undo]>> \o stack
  /\ pc' = From(pc + 1, flags)
  /\ UNCHANGED <<op, given, input, flags, world, undo, routines, err, faults, done,
                 lost, kept, attempt, outcome>>

\* The go statement.
Start ==
  /\ outcome = "running" /\ undo = << >> /\ Here.k = "go"
  /\ routines' = routines \cup {[d |-> IF Here.flag = "caller" THEN 0 ELSE Here.d,
                                 free |-> FALSE, steps |-> Here.undo]}
  /\ pc' = From(pc + 1, flags)
  /\ UNCHANGED <<op, given, input, flags, world, stack, undo, err, faults, done, lost,
                 kept, attempt, outcome>>

\* return nil, and return of an error the code makes itself.
Leave ==
  /\ outcome = "running" /\ undo = << >> /\ Here.k \in {"return", "fail"}
  /\ err' = IF Here.k = "fail" THEN CHOOSE c \in Here.catches : TRUE ELSE "none"
  /\ pc' = EndAt(pc, Here.d)
  /\ UNCHANGED <<op, given, input, flags, world, stack, undo, routines, faults, done,
                 lost, kept, attempt, outcome>>

\* A nil dereference ends the process: no deferred call of it does its work, and
\* no goroutine.
Crash ==
  /\ outcome = "running" /\ undo = << >> /\ Here.k = "panic"
  /\ outcome' = "panic"
  /\ UNCHANGED <<op, given, input, flags, world, pc, stack, undo, routines, err,
                 faults, done, lost, kept, attempt>>

Pending == stack # << >> /\ Head(stack).d = Here.d

\* A function with deferred calls ends: the latest of them starts.
Unwind ==
  /\ outcome = "running" /\ undo = << >> /\ Here.k = "end" /\ Pending
  /\ undo' = Head(stack).steps
  /\ stack' = Tail(stack)
  /\ UNCHANGED <<op, given, input, flags, world, pc, routines, err, faults, done,
                 lost, kept, attempt, outcome>>

\* A step of a deferred call: its error is logged and the call is over, unless
\* the code goes on with the result it did not get.
Cleanup ==
  /\ outcome = "running" /\ undo # << >>
  /\ IF ~Holds(Head(undo), flags)
     THEN undo' = Tail(undo) /\ UNCHANGED <<world, faults, kept, outcome>>
     ELSE \E a \in Answers(Head(undo)) :
            /\ world' = a.w
            /\ faults' = faults - a.f
            /\ undo' = IF a.e = "none" THEN Tail(undo) ELSE << >>
            /\ kept' = IF a.f = 1 THEN kept \cup {Head(undo).r} ELSE kept
            /\ outcome' = IF a.e # "none" /\ Head(undo).flag = "unchecked"
                          THEN "panic" ELSE outcome
  /\ UNCHANGED <<op, given, input, flags, pc, stack, routines, err, done, lost, attempt>>

\* A function ends: its caller goes on, or passes the error on.  The context of
\* its goroutines is cancelled.
End ==
  /\ outcome = "running" /\ undo = << >> /\ Here.k = "end" /\ ~Pending
  /\ routines' = {[g EXCEPT !.free = @ \/ g.d = Here.d] : g \in routines}
  /\ IF pc = Len(Body)
     THEN /\ outcome' = IF err = "none" THEN "ok" ELSE "error"
          /\ UNCHANGED <<pc, err, flags>>
     ELSE LET caught == err \in Here.catches
              fl == IF caught THEN flags \cup {Here.flag} ELSE flags \ {Here.flag}
          IN /\ flags' = fl
             /\ err' = IF caught THEN "none" ELSE err
             /\ pc' = IF err' = "none" THEN From(pc + 1, fl)
                                       ELSE EndAt(pc + 1, Here.d - 1)
             /\ UNCHANGED outcome
  /\ UNCHANGED <<op, given, input, world, stack, undo, faults, done, lost, kept, attempt>>

\* The goroutines whose context has ended.
Loose == {g \in routines : g.free \/ done}

\* A step of one of them, while the operation runs or after it has returned: an
\* error is logged and the goroutine ends.
Continue ==
  /\ outcome # "panic"
  /\ \E g \in Loose :
       \E a \in Answers(Head(g.steps)) :
         /\ world' = a.w
         /\ faults' = faults - a.f
         /\ routines' = (routines \ {g}) \cup
              IF a.e = "none" /\ Len(g.steps) > 1
              THEN {[g EXCEPT !.steps = Tail(@)]} ELSE {}
         /\ kept' = IF a.f = 1 THEN kept \cup {Head(g.steps).r} ELSE kept
  /\ UNCHANGED <<op, given, input, flags, pc, stack, undo, err, done, lost, attempt,
                 outcome>>

\* The caller gives up: its context is cancelled or its deadline passes.
Cancel ==
  /\ outcome = "running" /\ ~done /\ faults > 0
  /\ done' = TRUE
  /\ faults' = faults - 1
  /\ UNCHANGED <<op, given, input, flags, world, pc, stack, undo, routines, err, lost,
                 kept, attempt, outcome>>

\* The resources to which the operation gives names of its own making.
Generated == {Body[i].r : i \in {j \in DOMAIN Body : Body[j].k = "spawn" /\ Holds(Body[j], flags)}}

\* The operation failed and is run again on what it left behind; nothing goes
\* wrong this time.  A name generated anew names nothing yet, so that a goroutine
\* of the first attempt cannot meet the second: they are left to end first.
Retry ==
  /\ outcome = "error" /\ attempt < Attempts /\ given \in Ops[op].use /\ Loose = {}
  /\ routines' = {}
  /\ attempt' = attempt + 1 /\ outcome' = "running"
  /\ flags' = input \cup given /\ pc' = From(1, flags') /\ err' = "none"
  /\ faults' = 0 /\ done' = FALSE
  /\ LET fresh == Generated
     IN world' = [r \in DOMAIN world |-> IF r \in fresh THEN "absent" ELSE world[r]]
  /\ UNCHANGED <<op, given, input, stack, undo, lost, kept>>

Next ==
  \/ Execute \/ Register \/ Start \/ Leave \/ Crash \/ Unwind \/ Cleanup \/ End
  \/ Continue \/ Cancel \/ Retry

Spec == Init /\ [][Next]_vars
=============================================================================
