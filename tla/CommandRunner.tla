---------------------------- MODULE CommandRunner --------------------------
(***************************************************************************)
(* run_command of win_cmd_wrapper.c, with MyCreatePipeEx and               *)
(* ReadFileTimeout: a child process whose standard error is a pipe.  The   *)
(* pipe is read only after the child has ended, once, for 10 ms.           *)
(*                                                                         *)
(* The children, netsh and route, are external.  They do what they are     *)
(* asked and exit with 0 in silence, or complain: with an exit code, with  *)
(* text, or with both.                                                     *)
(***************************************************************************)
EXTENDS Integers

CONSTANTS
  Routes, Commands,
  PipeSize,    \* what the pipe holds: 4096 bytes in units of a message
  MaxText,     \* bound: the longest complaint of a child
  MaxFaults    \* bound: failing calls and children

VARIABLES
  table, faults, cmd, answer,  \* as in CommandPromise
  pc,          \* where run_command is; cmd is what it was called with
  before,      \* history: table, faults and cmd before it was called
  child,       \* the process: "none", "running", "writing", "exited"
  exit_code,
  toWrite,     \* text that the child has still to write
  stdErr,      \* text in the pipe
  chBuf,       \* text was read
  pending,     \* the read has timed out and is still on its way
  open         \* handles that the service holds

vars == <<table, faults, cmd, answer, pc, before, child, exit_code, toWrite, stdErr, chBuf,
          pending, open>>

P == INSTANCE CommandPromise

ASSUME RunnerConstantsOK ==
  Commands \subseteq [verb : {"add", "delete"}, route : Routes] /\ {PipeSize, MaxText, MaxFaults} \subseteq Nat

Goto(from, to) == pc = from /\ pc' = to
Fault == faults < MaxFaults /\ faults' = faults + 1

\* A new pipe and an empty buffer for a new command.
BeginCommand ==
  /\ Goto("idle", "MyCreatePipeEx")
  /\ cmd' \in Commands
  /\ before' = [table |-> table, faults |-> faults, cmd |-> cmd]
  /\ child' = "none" /\ exit_code' = 0 /\ toWrite' = 0 /\ stdErr' = 0 /\ chBuf' = FALSE
  /\ UNCHANGED <<table, faults, answer, pending, open>>

\* A call before the child fails: -1 at once, with what was opened left open.
ReturnEarly(from) ==
  /\ Goto(from, "idle") /\ Fault /\ answer' = -1
  /\ UNCHANGED <<table, cmd, before, child, exit_code, toWrite, stdErr, chBuf, pending, open>>

CreatePipe ==
  \/ ReturnEarly("MyCreatePipeEx")
  \/ /\ Goto("MyCreatePipeEx", "SetHandleInformation") /\ open' = open + 2
     /\ UNCHANGED <<table, faults, answer, cmd, before, child, exit_code, toWrite, stdErr, chBuf, pending>>

SetHandleInformation ==
  \/ ReturnEarly("SetHandleInformation")
  \/ /\ Goto("SetHandleInformation", "CreateProcess")
     /\ UNCHANGED <<table, faults, answer, cmd, before, child, exit_code, toWrite, stdErr, chBuf, pending, open>>

CreateProcess ==
  \/ ReturnEarly("CreateProcess")
  \/ /\ Goto("CreateProcess", "WaitForSingleObject") /\ child' = "running" /\ open' = open + 2
     /\ UNCHANGED <<table, faults, answer, cmd, before, exit_code, toWrite, stdErr, chBuf, pending>>

\* A complaint has an exit code, a text, or both.
Complains ==
  /\ exit_code' \in {0, 1} /\ toWrite' \in 0..MaxText
  /\ exit_code' # 0 \/ toWrite' > 0

\* The child does its work, or does not.
ChildWorks ==
  /\ child = "running" /\ child' = "writing"
  /\ \/ /\ P!Able(cmd, table) /\ table' = P!After(cmd, table)
        /\ exit_code' = 0 /\ toWrite' = 0 /\ UNCHANGED faults
     \/ ~P!Able(cmd, table) /\ UNCHANGED <<table, faults>> /\ Complains
     \/ P!Able(cmd, table) /\ table' \in {table, P!After(cmd, table)} /\ Fault /\ Complains
  /\ UNCHANGED <<answer, pc, cmd, before, stdErr, chBuf, pending, open>>

\* It writes its text as far as the pipe has room for it, and ends when all is written.
ChildWrites ==
  /\ child = "writing"
  /\ \/ /\ toWrite > 0 /\ stdErr < PipeSize
        /\ toWrite' = toWrite - 1 /\ stdErr' = stdErr + 1 /\ UNCHANGED child
     \/ toWrite = 0 /\ child' = "exited" /\ UNCHANGED <<toWrite, stdErr>>
  /\ UNCHANGED <<table, faults, answer, pc, cmd, before, exit_code, chBuf, pending, open>>

WaitForChild ==
  /\ Goto("WaitForSingleObject", "ReadFileTimeout") /\ child = "exited"
  /\ UNCHANGED <<table, faults, answer, cmd, before, child, exit_code, toWrite, stdErr, chBuf, pending, open>>

\* Mutant: the read is waited for without a limit.
ReadStdErr_Infinite ==
  /\ Goto("ReadFileTimeout", "CloseHandle")
  /\ \/ stdErr > 0 /\ chBuf' = TRUE /\ stdErr' = 0 /\ UNCHANGED faults
     \/ Fault /\ UNCHANGED <<chBuf, stdErr>>
  /\ UNCHANGED <<table, answer, cmd, before, child, exit_code, toWrite, pending, open>>

\* ReadFileTimeout: text that is there is read at once.  Otherwise the read is pending (the
\* service itself holds the other end open) and ten milliseconds later it is left so.
\* Without an event nothing is read at all.
ReadStdErr ==
  /\ Goto("ReadFileTimeout", "CloseHandle")
  /\ \/ stdErr > 0 /\ chBuf' = TRUE /\ stdErr' = 0 /\ UNCHANGED <<pending, faults>>
     \/ stdErr = 0 /\ pending' = TRUE /\ UNCHANGED <<chBuf, stdErr, faults>>
     \/ Fault /\ UNCHANGED <<chBuf, stdErr, pending>>
  /\ UNCHANGED <<table, answer, cmd, before, child, exit_code, toWrite, open>>

\* Mutant: text on the standard error is not taken for a failure.
ExitCode_Only == exit_code

\* An exit code 0 with text on the standard error is a failure.
ExitCode == IF exit_code = 0 /\ chBuf THEN -1 ELSE exit_code

\* Mutant: the pipe's handles are kept, for the next command to use.
EndCommand_KeepsPipe ==
  /\ Goto("CloseHandle", "idle")
  /\ open' = open - 2 /\ answer' = ExitCode
  /\ UNCHANGED <<table, faults, cmd, before, child, exit_code, toWrite, stdErr, chBuf, pending>>

\* Closing the pipe's other end ends the pending read.
EndCommand ==
  /\ Goto("CloseHandle", "idle")
  /\ open' = open - 4 /\ pending' = FALSE /\ answer' = ExitCode
  /\ UNCHANGED <<table, faults, cmd, before, child, exit_code, toWrite, stdErr, chBuf>>

Init ==
  /\ table \in SUBSET Routes /\ faults = 0 /\ answer = 0
  /\ pc = "idle" /\ cmd \in Commands /\ before = [table |-> table, faults |-> 0, cmd |-> cmd]
  /\ child = "none" /\ exit_code = 0 /\ toWrite = 0 /\ stdErr = 0
  /\ chBuf = FALSE /\ pending = FALSE /\ open = 0

Service == CreatePipe \/ SetHandleInformation \/ CreateProcess \/ WaitForChild \/ ReadStdErr \/ EndCommand
Child == ChildWorks \/ ChildWrites
Next == BeginCommand \/ Service \/ Child

\* The service's thread and the child run when they can.
Spec == Init /\ [][Next]_vars /\ WF_vars(Service) /\ WF_vars(Child)
---------------------------------------------------------------------------
(* Properties. *)

\* Every variable keeps its type: the locals of run_command and what the child has done.
RunnerTypeOK ==
  /\ table \subseteq Routes /\ faults \in 0..MaxFaults /\ answer \in {0, 1, -1}
  /\ pc \in {"idle", "MyCreatePipeEx", "SetHandleInformation", "CreateProcess",
             "WaitForSingleObject", "ReadFileTimeout", "CloseHandle"}
  /\ cmd \in Commands /\ before \in [table : SUBSET Routes, faults : 0..MaxFaults, cmd : Commands]
  /\ child \in {"none", "running", "writing", "exited"}
  /\ exit_code \in {0, 1} /\ toWrite \in 0..MaxText /\ stdErr \in 0..PipeSize
  /\ {chBuf, pending} \subseteq BOOLEAN /\ open \in 0..(2 * MaxFaults + 4)

\* run_command with its pipe, its child and its failures implements the atomic command that
\* configure_routing and reset_routing are written against.  A command in progress maps to
\* the state before it.
Returned == pc = "idle"
Promise == INSTANCE CommandPromise WITH
  table  <- IF Returned THEN table ELSE before.table,
  faults <- IF Returned THEN faults ELSE before.faults,
  cmd    <- IF Returned THEN cmd ELSE before.cmd
KeepsPromise == Promise!Spec

\* A command that comes to its end closes what it has opened; one that fails before the child
\* exists leaks the two ends of the pipe and nothing more.  None leaves a read behind
\* that could still write into its buffer.
LeavesLittleBehind == Returned => open <= 2 * faults /\ ~pending

\* run_command waits for its child without a limit and before it reads: it returns unless
\* the child has more to say than the pipe holds.
CommandReturns ==
  pc = "MyCreatePipeEx" ~> Returned \/ (stdErr = PipeSize /\ toWrite > 0)
===========================================================================
