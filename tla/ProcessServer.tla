--------------------------- MODULE ProcessServer ----------------------------
(***************************************************************************)
(* The process server of kando (pkg/kanx/server.go): it starts commands,   *)
(* lists them and streams the files their output goes to.  The handlers of *)
(* the requests and the goroutine that waits for each command run          *)
(* concurrently; the pids are the kernel's, which gives a pid again only   *)
(* after the command has been waited for.                                  *)
(*                                                                         *)
(* The map of the processes has no lock.  What the Go runtime makes of a   *)
(* request that reads it during a write, or of two writes at once, is one  *)
(* of three: nothing happens, entries are not found or lost, or it ends    *)
(* the process.                                                            *)
(***************************************************************************)
EXTENDS Naturals

CONSTANTS
  Commands,   \* the commands, numbers in the order in which they are started
  Pids,       \* the pids of the kernel
  Readers,    \* the calls of Stdout or Stderr
  MaxOutput   \* a command writes at most so often

VARIABLES
  processes,  \* processServiceServer.processes: pid -> command, or 0
  command,    \* of each command: where it is, its pid, what it wrote, how it
              \* ended, and the error that is kept
  reader,     \* of each call: what it streams, how far, where it is
  server,     \* "up", "stopping", "stopped" or "crashed"
  overlapped  \* whether two commands were entered into the map at the same time

kanxVars == <<processes, command, reader, server, overlapped>>

KanxInit ==
  /\ processes = [pid \in Pids |-> 0]
  /\ command = [c \in Commands |-> [at |-> "new", pid |-> "none", out |-> 0,
                                    ended |-> "no", err |-> FALSE]]
  /\ reader = [r \in Readers |-> [at |-> "idle", of |-> 0, pos |-> 0, late |-> FALSE]]
  /\ server = "up" /\ overlapped = FALSE

\* The command runs, or has ended, and was not waited for.
Unreaped(c) == command[c].at \in {"started", "entering", "running"}

\* A request writes to the map.
Writing == \E c \in Commands : command[c].at = "entering"

\* The process of the server is there.
ServerIsUp == server \in {"up", "stopping"}

\* It ends, and with it the requests and the goroutines.
CrashServer ==
  /\ server' = "crashed" /\ processes' = [pid \in Pids |-> 0]
  /\ reader' = [r \in Readers |-> [at |-> "failed", of |-> 0, pos |-> 0, late |-> FALSE]]

\* cmd.Start: the command runs under a pid no command has that is still to be
\* waited for.  When it cannot be started its two temporary files remain.
Start(c) ==
  /\ server = "up" /\ command[c].at = "new"
  /\ \A d \in Commands : d < c => command[d].at # "new"
  /\ \/ \E pid \in Pids :
          /\ \A d \in Commands : command[d].pid = pid => ~Unreaped(d)
          /\ command' = [command EXCEPT ![c].at = "started", ![c].pid = pid]
     \/ command' = [command EXCEPT ![c].at = "failed"]
  /\ UNCHANGED <<processes, reader, server, overlapped>>

\* CreateProcesses begins to enter the command into the map.
Enter(c) ==
  /\ ServerIsUp /\ command[c].at = "started"
  /\ command' = [command EXCEPT ![c].at = "entering"]
  /\ overlapped' = (overlapped \/ Writing)
  /\ UNCHANGED <<processes, reader, server>>

\* A fault: an entry that is there is not replaced.
RegisterOnce(c) ==
  /\ ServerIsUp /\ command[c].at = "entering"
  /\ processes' = [processes EXCEPT ![command[c].pid] = IF @ = 0 THEN c ELSE @]
  /\ command' = [command EXCEPT ![c].at = "running"]
  /\ UNCHANGED <<reader, server, overlapped>>

\* It has entered it, starts the goroutine that waits for it and returns the
\* pid.  Once two were entered at the same time any entry may be lost.
Register(c) ==
  /\ ServerIsUp /\ command[c].at = "entering"
  /\ command' = [command EXCEPT ![c].at = "running"]
  /\ \/ /\ \E lost \in IF overlapped THEN SUBSET Pids ELSE {{}} :
            processes' = [pid \in Pids |-> IF pid \in lost THEN 0
                                           ELSE IF pid = command[c].pid THEN c ELSE processes[pid]]
        /\ UNCHANGED <<reader, server>>
     \/ overlapped /\ CrashServer
  /\ UNCHANGED overlapped

\* The command itself, and the goroutines that copy its output into the files.
Write(c) ==
  /\ ServerIsUp /\ Unreaped(c) /\ command[c].out < MaxOutput
  /\ command' = [command EXCEPT ![c].out = @ + 1]
  /\ UNCHANGED <<processes, reader, server, overlapped>>

\* cmd.Wait returns when the command has ended and its output is in the files.
Wait(c) ==
  /\ ServerIsUp /\ command[c].at = "running"
  /\ \E how \in {"succeeded", "failed"} :
       command' = [command EXCEPT ![c].at = "waited", ![c].ended = how]
  /\ UNCHANGED <<processes, reader, server, overlapped>>

\* Its error is kept.
KeepError(c) ==
  /\ ServerIsUp /\ command[c].at = "waited"
  /\ command' = [command EXCEPT ![c].at = "recorded", ![c].err = command[c].ended = "failed"]
  /\ UNCHANGED <<processes, reader, server, overlapped>>

\* The files are closed, then doneCh.
CloseDone(c) ==
  /\ ServerIsUp /\ command[c].at = "recorded"
  /\ command' = [command EXCEPT ![c].at = "done"]
  /\ UNCHANGED <<processes, reader, server, overlapped>>

\* Stdout and Stderr look the pid up and open the file.
Open(r, pid) ==
  /\ server = "up" /\ reader[r].at = "idle"
  /\ \/ \E c \in {processes[pid]} \cup {x \in {0} : Writing} :
          /\ reader' = [reader EXCEPT ![r] =
               IF c = 0 THEN [@ EXCEPT !.at = "notFound"]
               ELSE [at |-> "read", of |-> c, pos |-> 0, late |-> command[c].at = "done"]]
          /\ UNCHANGED <<processes, server>>
     \/ Writing /\ CrashServer
  /\ UNCHANGED <<command, overlapped>>

\* A fault: the stream ends with the command, before what is left is read.
ReadUnlessDone(r) ==
  /\ ServerIsUp /\ reader[r].at = "read"
  /\ LET out == command[reader[r].of].out IN
     \/ out > reader[r].pos /\ reader' = [reader EXCEPT ![r].pos = out]
     \/ out > reader[r].pos /\ reader' = [reader EXCEPT ![r].at = "failed"]
     \/ command[reader[r].of].at = "done" /\ reader' = [reader EXCEPT ![r].at = "ended"]
     \/ out = reader[r].pos /\ reader' = [reader EXCEPT ![r].at = "check"]
  /\ UNCHANGED <<processes, command, server, overlapped>>

\* streamOutput: what is read is sent, until there is nothing to read; the
\* client may be gone by then.
ReadFrom(r) ==
  /\ ServerIsUp /\ reader[r].at = "read"
  /\ LET out == command[reader[r].of].out IN
     \/ out > reader[r].pos /\ reader' = [reader EXCEPT ![r].pos = out]
     \/ out > reader[r].pos /\ reader' = [reader EXCEPT ![r].at = "failed"]
     \/ out = reader[r].pos /\ reader' = [reader EXCEPT ![r].at = "check"]
  /\ UNCHANGED <<processes, command, server, overlapped>>

\* A fault: the end of the command is not noticed.
CheckNothing(r) ==
  /\ ServerIsUp /\ reader[r].at = "check"
  /\ reader' = [reader EXCEPT ![r].at = "read"]
  /\ UNCHANGED <<processes, command, server, overlapped>>

\* Nothing was read: the stream ends if the command is done.
CheckDone(r) ==
  /\ ServerIsUp /\ reader[r].at = "check"
  /\ reader' = [reader EXCEPT ![r].at = IF command[reader[r].of].at = "done" THEN "ended" ELSE "read"]
  /\ UNCHANGED <<processes, command, server, overlapped>>

\* processToProto: what a listing says of a command.
processToProto(c) ==
  IF command[c].at # "done" THEN "RUNNING" ELSE IF command[c].err THEN "FAILED" ELSE "SUCCEEDED"

\* ListProcesses sends processToProto of every entry, which changes nothing,
\* unless it meets a write.
ListProcesses ==
  /\ server = "up" /\ Writing /\ CrashServer
  /\ UNCHANGED <<command, overlapped>>

\* A signal, or the end of the context: GracefulStop takes no more requests and
\* waits for those there are.
Stop ==
  /\ server = "up" /\ server' = "stopping"
  /\ UNCHANGED <<processes, command, reader, overlapped>>

Stopped ==
  /\ server = "stopping"
  /\ \A r \in Readers : reader[r].at \notin {"read", "check"}
  /\ \A c \in Commands : command[c].at \notin {"started", "entering"}
  /\ server' = "stopped"
  /\ UNCHANGED <<processes, command, reader, overlapped>>

KanxNext ==
  \/ Stop \/ Stopped \/ ListProcesses
  \/ \E c \in Commands : \/ Start(c) \/ Enter(c) \/ Register(c) \/ Write(c)
                          \/ Wait(c) \/ KeepError(c) \/ CloseDone(c)
  \/ \E r \in Readers : ReadFrom(r) \/ CheckDone(r)
  \/ \E r \in Readers, pid \in Pids : Open(r, pid)

\* The goroutines run, the commands end; nobody has to call or to stop the server.
KanxFairness ==
  /\ WF_kanxVars(Stopped)
  /\ WF_kanxVars(\E c \in Commands : \/ Enter(c) \/ Register(c) \/ Wait(c)
                                      \/ KeepError(c) \/ CloseDone(c))
  /\ \A r \in Readers : WF_kanxVars(ReadFrom(r) \/ CheckDone(r))

---------------------------------------------------------------------------

\* Whoever asks for a pid learns about its own command: while a command that
\* was announced to its client runs, its pid finds it and no other one, although
\* pids are used again, unless two commands were ever entered into the map at
\* the same time.  Even then a command that is listed as ended has ended, and
\* the way it is listed: the error is stored before doneCh is closed.
ListingIsTrue ==
  /\ \A c \in Commands : command[c].at = "running" /\ ServerIsUp /\ ~overlapped =>
       processes[command[c].pid] = c
  /\ \A c \in Commands :
       /\ processToProto(c) = "SUCCEEDED" => command[c].ended = "succeeded"
       /\ processToProto(c) = "FAILED" => command[c].ended = "failed"

\* A stream that was opened after the command had ended has sent all of the
\* output when it ends.  (One that was opened before may lose what the command
\* writes between an empty read and the look at doneCh.)
LateStreamIsComplete ==
  \A r \in Readers : reader[r].at = "ended" /\ reader[r].late => reader[r].pos = command[reader[r].of].out

\* A server that is told to stop stops, when the commands whose output is being
\* read come to an end; or a race on the map has ended it before.
StopIsReached == (server = "stopping") ~> (server \in {"stopped", "crashed"})

=============================================================================
