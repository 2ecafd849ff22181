--------------------------- MODULE SystemCommand ----------------------------
(***************************************************************************)
(* Util.runSystemCommand: pdf2htmlEX or the cluster program is started as  *)
(* a child process; the program waits for it to end, and only then reads   *)
(* what it printed.  What the child prints goes through pipes of limited   *)
(* capacity: a child that finds one full waits for a reader.  Nobody ever  *)
(* reads the child's errors.                                               *)
(*                                                                         *)
(* The names of the specification begin with Command, so that a module may *)
(* extend this one and that of a program that runs commands.               *)
(***************************************************************************)
EXTENDS Naturals

CONSTANTS Capacity,   (* what a pipe holds *)
          MaxOutput   (* bound: what the child prints to either stream *)

ASSUME CapacityAssumption == Capacity \in Nat \ {0}
ASSUME MaxOutputAssumption == MaxOutput \in Nat

Streams == {"stdout", "stderr"}

VARIABLES
  parent,    (* "ready", "waiting", "reading", "returned" *)
  child,     (* "none", "running", "exited" *)
  total,     (* what this child prints to each stream over its life *)
  toWrite,   (* what it has still to print *)
  pipe,      (* what stands in each pipe *)
  output     (* what the program has read *)

commandVars == <<parent, child, total, toWrite, pipe, output>>

-----------------------------------------------------------------------------

CommandInit ==
  /\ parent = "ready" /\ child = "none"
  /\ total \in [Streams -> 0 .. MaxOutput]
  /\ toWrite = total
  /\ pipe = [s \in Streams |-> 0]
  /\ output = 0

Exec ==
  /\ parent = "ready"
  /\ parent' = "waiting" /\ child' = "running"
  /\ UNCHANGED <<total, toWrite, pipe, output>>

\* The child prints part of what is left, as much as fits or less.
Write(s, n) ==
  /\ child = "running"
  /\ n <= toWrite[s] /\ n + pipe[s] <= Capacity
  /\ toWrite' = [toWrite EXCEPT ![s] = @ - n]
  /\ pipe' = [pipe EXCEPT ![s] = @ + n]
  /\ UNCHANGED <<parent, child, total, output>>

Exit ==
  /\ child = "running"
  /\ \A s \in Streams : toWrite[s] = 0
  /\ child' = "exited"
  /\ UNCHANGED <<parent, total, toWrite, pipe, output>>

(* A plausible slip: the wait is left out. *)
WaitForNothing ==
  /\ parent = "waiting"
  /\ parent' = "reading"
  /\ UNCHANGED <<child, total, toWrite, pipe, output>>

WaitFor ==
  /\ parent = "waiting" /\ child = "exited"
  /\ parent' = "reading"
  /\ UNCHANGED <<child, total, toWrite, pipe, output>>

(* A plausible slip: a line replaces the ones before. *)
ReadLastLines(n) ==
  /\ parent = "reading"
  /\ n <= pipe["stdout"]
  /\ pipe' = [pipe EXCEPT !["stdout"] = @ - n]
  /\ output' = n
  /\ UNCHANGED <<parent, child, total, toWrite>>

\* Some lines of the child's output.
ReadLines(n) ==
  /\ parent = "reading"
  /\ n <= pipe["stdout"]
  /\ pipe' = [pipe EXCEPT !["stdout"] = @ - n]
  /\ output' = output + n
  /\ UNCHANGED <<parent, child, total, toWrite>>

(* A plausible slip: an answer is taken for the whole answer. *)
ReturnEarly ==
  /\ parent = "reading" /\ child = "exited"
  /\ parent' = "returned"
  /\ UNCHANGED <<child, total, toWrite, pipe, output>>

(* A plausible slip: the end is taken to come when both pipes are empty. *)
ReturnWhenBothEmpty ==
  /\ parent = "reading" /\ child = "exited"
  /\ \A s \in Streams : pipe[s] = 0
  /\ parent' = "returned"
  /\ UNCHANGED <<child, total, toWrite, pipe, output>>

\* The end of the stream: nothing is left in the pipe and nobody can write to it.
Return ==
  /\ parent = "reading" /\ child = "exited"
  /\ pipe["stdout"] = 0
  /\ parent' = "returned"
  /\ UNCHANGED <<child, total, toWrite, pipe, output>>

Emit == \E s \in Streams : \E n \in 1 .. Capacity : Write(s, n)
ChildStep == Emit \/ Exit
ParentStep == WaitFor \/ (\E n \in 1 .. Capacity : ReadLines(n)) \/ Return

CommandNext == Exec \/ ChildStep \/ ParentStep

CommandSpec == CommandInit /\ [][CommandNext]_commandVars

\* Both processes are scheduled; nothing is assumed of when the command is started.
FairCommandSpec == CommandSpec /\ WF_commandVars(ChildStep) /\ WF_commandVars(ParentStep)

-----------------------------------------------------------------------------

\* The state keeps its type, and whatever the child prints is still to be printed,
\* in a pipe, or read.
CommandTypeOK ==
  /\ parent \in {"ready", "waiting", "reading", "returned"}
  /\ child \in {"none", "running", "exited"}
  /\ total \in [Streams -> Nat] /\ toWrite \in [Streams -> Nat]
  /\ pipe \in [Streams -> 0 .. Capacity]
  /\ output \in Nat
  /\ toWrite["stdout"] + pipe["stdout"] + output = total["stdout"]
  /\ toWrite["stderr"] + pipe["stderr"] = total["stderr"]

\* What is returned is all the child printed (the loop ends at the end of the stream).
OutputWhole == parent = "returned" => output = total["stdout"]

\* Reading starts only after a child whose every stream fits a pipe: as waitFor comes
\* first, a command that prints more never returns.
ReadsOnlyWhatFits ==
  parent \in {"reading", "returned"} => \A s \in Streams : total[s] <= Capacity

\* A command whose streams fit their pipes returns.
FitsReturns ==
  parent = "waiting" /\ (\A s \in Streams : total[s] <= Capacity) ~> parent = "returned"
=============================================================================
