------------------------------- MODULE Steps --------------------------------
(***************************************************************************)
(* The vocabulary in which the operations of Kanister are written down.    *)
(*                                                                         *)
(* An operation (a Kanister function, a method of a block storage          *)
(* provider, a command of kanctl) is a sequence of STEPS: the calls the Go *)
(* code makes that can fail or that change something outside the process,  *)
(* in the order the code makes them, under the conditions of the code.     *)
(* What a call works on is a RESOURCE, a name with one of five statuses.   *)
(* Calls that only compute are left out; consecutive calls that can fail   *)
(* but change nothing are one step, named for what they do.                *)
(*                                                                         *)
(* Every operator below returns a sequence of steps, so that a Go function *)
(* is the concatenation of what it calls.  Module Execution runs them.     *)
(***************************************************************************)
EXTENDS Naturals, Sequences, FiniteSets

LOCAL INSTANCE SequencesExt

\* absent: does not exist.  creating: exists, not usable yet.  ready: exists
\* and is usable.  partial: exists and looks complete, but part of it is missing.
\* deleting: its deletion was accepted and has not finished.
Status == {"absent", "creating", "ready", "partial", "deleting"}

\* The classes of errors the code tells apart: nf (not found), exists (already
\* there), missing (an argument the function insists on is not given), rejected
\* (the arguments are not the supported ones), password (of a repository, wrong),
\* err (everything else).
AnyError == {"nf", "exists", "missing", "rejected", "password", "err"}

\* A step: what it does (k), to which resource (r), under which context (ctx),
\* when (the flags in `when' are set and none of `unless' is), how deep in
\* function scopes (d); for a deferred call its steps (undo), for the end of a
\* scope the errors it turns into a flag; for the reading of arguments, which
\* ones must be given.
Step(k, r) ==
  [k |-> k, r |-> r, ctx |-> "caller", when |-> {}, unless |-> {}, d |-> 0,
   undo |-> << >>, catches |-> {}, flag |-> "", must |-> {}, reads |-> {}]

\* The kinds of steps that concern a resource.
Effects == {"do", "part", "get", "check", "make", "spawn", "create", "ready",
            "poll", "await", "drop", "delete", "gone"}

Call(what)  == <<Step("call", what)>>     \* may fail, changes nothing
Do(r)       == <<Step("do", r)>>          \* an effect that can be repeated
Part(r)     == <<Step("part", r)>>        \* the same, perhaps cut short unnoticed
Get(r)      == <<Step("get", r)>>         \* fails with nf when r is absent
Check(r)    == <<Step("check", r)>>       \* fails unless r is usable
Make(r)     == <<Step("make", r)>>        \* created at once, or exists
Spawn(r)    == <<Step("spawn", r)>>       \* created under a generated name
Create(r)   == <<Step("create", r)>>      \* creation accepted, or exists
Ready(r)    == <<Step("ready", r)>>       \* waits until r is usable
Poll(r)     == <<Step("poll", r)>>        \* the same, by a report that may be early
Await(r)    == <<Step("await", r)>>       \* the same, and r may come into being
Drop(r)     == <<Step("drop", r)>>        \* deleted at once, or nf
Delete(r)   == <<Step("delete", r)>>      \* deletion accepted, or nf
Gone(r)     == <<Step("gone", r)>>        \* waits until r does not exist
Panic       == <<Step("panic", "nil")>>   \* a nil pointer is dereferenced
Return      == <<Step("return", "")>>     \* return nil from the scope
Fail(class) == <<[Step("fail", "") EXCEPT !.catches = {class}]>>
Arg(must)   == <<[Step("arg", "") EXCEPT !.must = must, !.reads = must]>>
OptArg(may) == <<[Step("arg", "") EXCEPT !.reads = may]>>

\* defer func() { steps }: run when the function returns, errors are logged.
Defer(steps) == <<[Step("defer", "") EXCEPT !.undo = steps]>>

\* go func() { <-ctx.Done(); steps }: a goroutine nobody waits for.  Its context
\* ends with the function's own, which defers cancel(), or with the caller's.
Go(steps) == <<[Step("go", "") EXCEPT !.undo = steps]>>
GoUntilCancelled(steps) == <<[Step("go", "") EXCEPT !.undo = steps, !.flag = "caller"]>>

\* In a deferred call: the code uses the result without a look at the error.
Unchecked(steps) == [i \in DOMAIN steps |-> [steps[i] EXCEPT !.flag = "unchecked"]]

\* The same steps under context.Background() instead of the caller's context.
Background(steps) ==
  [i \in DOMAIN steps |-> [steps[i] EXCEPT !.ctx = "background"]]

When(f, steps) ==
  [i \in DOMAIN steps |-> [steps[i] EXCEPT !.when = @ \cup {f}]]

Unless(f, steps) ==
  [i \in DOMAIN steps |-> [steps[i] EXCEPT !.unless = @ \cup {f}]]

Deeper(steps) == [i \in DOMAIN steps |-> [steps[i] EXCEPT !.d = @ + 1]]

\* The body of a Go function: its deferred calls run at its end, on success,
\* on error and on an early return alike.
Scope(steps) == Deeper(steps \o <<Step("end", "")>>)

\* if err := steps; err is one of classes { flag } else if err != nil { return err }
Attempt(flag, classes, steps) ==
  Deeper(steps \o <<[Step("end", "") EXCEPT !.catches = classes, !.flag = flag]>>)

\* if err := steps; err != nil { log } and the function goes on.
Tolerate(classes, steps) == Attempt("tolerated", classes, steps)

\* The same steps on the resources of x: every resource under a name of its own.
Of(x, steps) ==
  LET own(s) == IF s.k \in Effects THEN [s EXCEPT !.r = @ \o x] ELSE s
  IN [i \in DOMAIN steps |->
        [own(steps[i]) EXCEPT !.undo = [j \in DOMAIN @ |-> own(@[j])]]]

\* for _, x := range xs { body(x) }
ForEach(body(_), xs) == FlattenSeq([i \in DOMAIN xs |-> body(xs[i])])

\* The resources a sequence of steps mentions.
Names(steps) ==
  UNION {IF s.k \in Effects THEN {s.r}
         ELSE {u.r : u \in {t \in {s.undo[j] : j \in DOMAIN s.undo} : t.k \in Effects}} :
         s \in {steps[i] : i \in DOMAIN steps}}

\* An operation: what it may find outside, as sets of conditions (cond), the
\* resources that exist when it starts (there) or may exist (maybe), the
\* arguments it requires and accepts, the choices of arguments a blueprint makes
\* (use), and its steps.
Operation(cond, there, maybe, body) ==
  [cond |-> cond, there |-> there, maybe |-> maybe,
   need |-> {}, take |-> {}, use |-> {{}}, body |-> Scope(body)]

\* A Kanister function: CheckRequiredArgs and CheckSupportedArgs come first.
Function(need, may, f) ==
  [f EXCEPT !.need = need, !.take = need \cup may, !.use = {need \cup may},
             !.body = Deeper(<<[Step("accept", "") EXCEPT !.must = need, !.reads = need \cup may]>>) \o @]

\* The same function, of whose arguments a blueprint gives all but one of the
\* sets of without.
Without(without, f) == [f EXCEPT !.use = {f.take \ w : w \in without}]

\* The arguments the steps read.
Reads(steps) == UNION {steps[i].reads : i \in DOMAIN steps}

=============================================================================
