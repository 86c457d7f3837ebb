------------------------------- MODULE FanOut -------------------------------
(***************************************************************************)
(* The functions that do the same for every volume or pod, in a goroutine  *)
(* each (pkg/function): createVolumeSnapshot appends to two shared slices  *)
(* under a WaitGroup; backupDataAll and restoreDataAll send an error and a *)
(* result through two channels; execAll sends the error, and appends its   *)
(* output to a shared string afterwards.  kanctl's verifyParams sends the  *)
(* messages of six checks through one channel that is closed at the end.   *)
(***************************************************************************)
EXTENDS Naturals, Sequences, FiniteSets

CONSTANT Jobs    \* the volumes, pods or checks

VARIABLES
  kind,     \* which of the functions: "none" before the call
  gstate,   \* where each goroutine is
  seen,     \* what a goroutine read of the shared slice it appends to
  bad,      \* the jobs that failed
  errors,   \* errChan, or errstrings
  results,  \* outChan, or PVCData, or output
  got,      \* what the function has collected: errors, outputs, and whether it
            \* could not make sense of the latter
  result    \* "running", "ok" or "error"

fanVars == <<kind, gstate, seen, bad, errors, results, got, result>>

FanInit ==
  /\ kind = "none" /\ gstate = [j \in Jobs |-> "none"] /\ seen = [j \in Jobs |-> << >>]
  /\ bad = {} /\ errors = << >> /\ results = << >>
  /\ got = [errs |-> 0, outs |-> {}, unparsed |-> FALSE] /\ result = "running"

\* The function starts all goroutines; which of them will fail is open.
Launch ==
  /\ kind = "none"
  /\ kind' \in {"volumes", "backup", "restore", "exec", "verify"}
  /\ gstate' = [j \in Jobs |-> "work"]
  /\ UNCHANGED <<seen, bad, errors, results, got, result>>

\* A goroutine has done its work.
Work(j) ==
  /\ gstate[j] = "work"
  /\ \E failed \in BOOLEAN : bad' = IF failed THEN bad \cup {j} ELSE bad
  /\ gstate' = [gstate EXCEPT ![j] = "report"]
  /\ UNCHANGED <<kind, seen, errors, results, got, result>>

\* createVolumeSnapshot: x = append(x, y) reads the slice and stores a longer
\* one; two of them at the same time keep one of the two elements.  So does
\* output = output + stdout in execAll.  (The words of a slice or a string that
\* is stored by two at once may be mixed; they are stored as one here.)
ReadSlice(j) ==
  /\ \/ kind = "volumes" /\ gstate[j] = "report"
     \/ kind = "exec" /\ gstate[j] = "output"
  /\ seen' = [seen EXCEPT ![j] = IF kind = "volumes" /\ j \in bad THEN errors ELSE results]
  /\ gstate' = [gstate EXCEPT ![j] = "store"]
  /\ UNCHANGED <<kind, bad, errors, results, got, result>>

StoreSlice(j) ==
  /\ gstate[j] = "store"
  /\ IF kind = "volumes" /\ j \in bad THEN errors' = Append(seen[j], j) /\ UNCHANGED results
                  ELSE results' = Append(seen[j], j) /\ UNCHANGED errors
  /\ gstate' = [gstate EXCEPT ![j] = "done"]
  /\ UNCHANGED <<kind, seen, bad, got, result>>

\* wg.Wait(), then the errors are looked at.
Collect ==
  /\ kind = "volumes" /\ result = "running" /\ \A j \in Jobs : gstate[j] = "done"
  /\ got' = [got EXCEPT !.errs = Len(errors), !.outs = {results[i] : i \in DOMAIN results}]
  /\ result' = IF errors # << >> THEN "error" ELSE "ok"
  /\ UNCHANGED <<kind, gstate, seen, bad, errors, results>>

\* backupDataAll, restoreDataAll, execAll: the error, or nil, is sent first.
\* The channels have room for all.
SendError(j) ==
  /\ kind \in {"backup", "restore", "exec"} /\ gstate[j] = "report" /\ Len(errors) < Cardinality(Jobs)
  /\ errors' = Append(errors, j)
  /\ gstate' = [gstate EXCEPT ![j] = "output"]
  /\ UNCHANGED <<kind, seen, bad, results, got, result>>

SendOutput(j) ==
  /\ kind \in {"backup", "restore"} /\ gstate[j] = "output" /\ Len(results) < Cardinality(Jobs)
  /\ results' = Append(results, j)
  /\ gstate' = [gstate EXCEPT ![j] = "done"]
  /\ UNCHANGED <<kind, seen, bad, errors, got, result>>

\* The error that is received next is the last one.
IsLast == Len(errors) = 1 /\ \A j \in Jobs : gstate[j] \notin {"work", "report"}

\* backupDataAll files an output under the name of its pod.  restoreDataAll
\* merges the outputs, and what an earlier one has under the same keys is
\* overwritten.
MergedOutputs(outs, j) ==
  {(outs \ same) \cup {j} : same \in IF kind = "restore" THEN SUBSET outs ELSE {{}}}

\* A fault: only the last error counts.
ReceivePairLast ==
  /\ kind \in {"backup", "restore"} /\ result = "running" /\ errors # << >> /\ results # << >>
  /\ \E outs \in MergedOutputs(got.outs, Head(results)) :
       got' = IF Head(errors) \in bad THEN [got EXCEPT !.errs = @ + 1] ELSE [got EXCEPT !.outs = outs]
  /\ errors' = Tail(errors) /\ results' = Tail(results)
  /\ result' = IF ~IsLast THEN "running" ELSE IF Head(errors) \in bad THEN "error" ELSE "ok"
  /\ UNCHANGED <<kind, gstate, seen, bad>>

\* err := <-errChan; output := <-outChan: an output is dropped for an error,
\* whichever goroutine the two came from.
ReceivePair ==
  /\ kind \in {"backup", "restore"} /\ result = "running" /\ errors # << >> /\ results # << >>
  /\ \E outs \in MergedOutputs(got.outs, Head(results)) :
       got' = IF Head(errors) \in bad THEN [got EXCEPT !.errs = @ + 1] ELSE [got EXCEPT !.outs = outs]
  /\ errors' = Tail(errors) /\ results' = Tail(results)
  /\ result' = IF ~IsLast THEN "running" ELSE IF got'.errs > 0 THEN "error" ELSE "ok"
  /\ UNCHANGED <<kind, gstate, seen, bad>>

\* execAll receives the errors only, and then parses the output it finds, which
\* may fail.
ReceiveError ==
  /\ kind = "exec" /\ result = "running" /\ errors # << >>
  /\ LET errs == got.errs + (IF Head(errors) \in bad THEN 1 ELSE 0) IN
     \E unparsed \in {FALSE, IsLast /\ errs = 0} :
       /\ got' = [errs |-> errs, unparsed |-> unparsed,
                  outs |-> IF IsLast THEN {results[i] : i \in DOMAIN results} ELSE {}]
       /\ result' = IF ~IsLast THEN "running" ELSE IF errs > 0 \/ unparsed THEN "error" ELSE "ok"
  /\ errors' = Tail(errors)
  /\ UNCHANGED <<kind, gstate, seen, bad, results>>

\* verifyParams: a check sends a message for each thing it does not find, into
\* a channel without a buffer, and one goroutine closes it when all are done.
SendMessage(j) ==
  /\ kind = "verify" /\ gstate[j] = "report"
  /\ IF j \in bad THEN /\ errors = << >> /\ result = "running"
                       /\ errors' = <<j>>
                  ELSE UNCHANGED errors
  /\ gstate' = [gstate EXCEPT ![j] = "done"]
  /\ UNCHANGED <<kind, seen, bad, results, got, result>>

\* A fault: the first message ends the receiving.
ReceiveFirstMessage ==
  /\ kind = "verify" /\ result = "running"
  /\ \/ errors # << >> /\ errors' = << >> /\ got' = [got EXCEPT !.errs = @ + 1] /\ result' = "error"
     \/ /\ errors = << >> /\ \A j \in Jobs : gstate[j] = "done"
        /\ result' = IF got.errs > 0 THEN "error" ELSE "ok"
        /\ UNCHANGED <<errors, got>>
  /\ UNCHANGED <<kind, gstate, seen, bad, results>>

ReceiveMessage ==
  /\ kind = "verify" /\ result = "running"
  /\ \/ errors # << >> /\ errors' = << >> /\ got' = [got EXCEPT !.errs = @ + 1] /\ UNCHANGED result
     \/ /\ errors = << >> /\ \A j \in Jobs : gstate[j] = "done"
        /\ result' = IF got.errs > 0 THEN "error" ELSE "ok"
        /\ UNCHANGED <<errors, got>>
  /\ UNCHANGED <<kind, gstate, seen, bad, results>>

FanStep ==
  \/ Collect \/ ReceivePair \/ ReceiveError \/ ReceiveMessage
  \/ \E j \in Jobs : Work(j) \/ ReadSlice(j) \/ StoreSlice(j) \/ SendError(j)
                     \/ SendOutput(j) \/ SendMessage(j)
FanNext == Launch \/ FanStep

\* Every goroutine is scheduled, and its request to the cluster is answered.
FanFairness == WF_fanVars(FanStep)

---------------------------------------------------------------------------

\* The outcome of no goroutine is lost on the way: the function reports success
\* exactly if every goroutine has succeeded (and the output of execAll could be
\* parsed), even where the goroutines append to the slice of errors without a
\* lock, and where the error of one is received together with the output of
\* another.  A success of backupDataAll has the backup of every pod.  One of
\* createVolumeSnapshot or restoreDataAll has that of one volume or pod at
\* least: PVCData is appended to without a lock, and the outputs of the pods may
\* have the same keys.
ResultsAreCollected ==
  result # "running" =>
    /\ result = "ok" <=> bad = {} /\ ~got.unparsed
    /\ kind = "backup" /\ result = "ok" => got.outs = Jobs
    /\ kind \in {"volumes", "restore"} /\ result = "ok" => got.outs # {}

\* The function returns, and no goroutine is left blocked on a channel.
FanOutEnds == (kind # "none") ~> (result # "running" /\ \A j \in Jobs : gstate[j] = "done")

=============================================================================
