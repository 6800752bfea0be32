------------------------ MODULE CommandRunnerProofs ------------------------
(***************************************************************************)
(* Theorems about run_command, for any routes and commands, any size of    *)
(* the pipe, and any number of failures: types, handles, and that every    *)
(* step is a step of the atomic command of CommandPromise or none at all.  *)
(***************************************************************************)
EXTENDS CommandRunner, TLAPS

Starting == {"MyCreatePipeEx", "SetHandleInformation", "CreateProcess"}
Waiting == {"WaitForSingleObject", "ReadFileTimeout", "CloseHandle"}

\* Handles that this command has open where it is.
Held == IF pc \in Waiting THEN 4 ELSE IF pc \in {"SetHandleInformation", "CreateProcess"} THEN 2 ELSE 0

\* The types, but for the flags and for the number of handles, which Handles bounds.
Types ==
  /\ table \subseteq Routes /\ faults \in 0..MaxFaults /\ answer \in {0, 1, -1}
  /\ pc \in {"idle"} \cup Starting \cup Waiting
  /\ cmd \in Commands /\ before \in [table : SUBSET Routes, faults : 0..MaxFaults, cmd : Commands]
  /\ child \in {"none", "running", "writing", "exited"}
  /\ exit_code \in {0, 1} /\ toWrite \in 0..MaxText /\ stdErr \in 0..PipeSize

Flags == chBuf \in BOOLEAN /\ pending \in BOOLEAN

Handles ==
  /\ open \in Nat /\ Held <= open /\ open <= 2 * faults + Held
  /\ pending => pc = "CloseHandle"

\* How the child and the command advance together.
Progress ==
  /\ before.faults <= faults
  /\ child = "none" <=> pc \in Starting
  /\ child = "exited" => toWrite = 0
  /\ child \in {"none", "running"} => table = before.table /\ stdErr = 0 /\ ~chBuf

Silent == exit_code = 0 /\ toWrite = 0 /\ stdErr = 0 /\ ~chBuf
Complained == exit_code # 0 \/ toWrite > 0 \/ stdErr > 0 \/ chBuf

\* What was complained about is still to be read, or was, or its reading has failed: that is
\* one failure more than the n there were without it.
Heard(n) ==
  /\ pc # "CloseHandle" => Complained
  /\ pc = "CloseHandle" => exit_code # 0 \/ chBuf \/ faults > n

\* What the child has done with the table, and how it can be told.
Outcome ==
  \/ P!Able(cmd, before.table) /\ table = P!After(cmd, before.table) /\ Silent
  \/ ~P!Able(cmd, before.table) /\ table = before.table /\ Heard(before.faults)
  \/ /\ P!Able(cmd, before.table) /\ table \in {before.table, P!After(cmd, before.table)}
     /\ faults > before.faults /\ Heard(before.faults + 1)

RunnerInv ==
  /\ Types /\ Handles
  /\ child \in {"running", "writing"} => pc = "WaitForSingleObject"
  /\ pc # "idle" => Progress /\ (child \in {"writing", "exited"} => Outcome)

USE DEF Starting, Waiting

LEMMA AfterIsTable ==
  ASSUME NEW c \in Commands, NEW t \in SUBSET Routes
  PROVE  P!After(c, t) \in SUBSET Routes
BY RunnerConstantsOK DEF P!After

LEMMA FlagsAreBoolean == Spec => []Flags
<1>1. Init => Flags
  BY DEF Init, Flags
<1>2. Flags /\ [Next]_vars => Flags'
  <2> SUFFICES ASSUME Flags, [Next]_vars PROVE Flags'
    OBVIOUS
  <2>1. CASE BeginCommand
    BY <2>1 DEF BeginCommand, Flags
  <2>2. ASSUME NEW from \in Starting, ReturnEarly(from) PROVE Flags'
    BY <2>2 DEF ReturnEarly, Flags
  <2>3. CASE CreatePipe \/ SetHandleInformation \/ CreateProcess
    BY <2>2, <2>3 DEF CreatePipe, SetHandleInformation, CreateProcess, Flags
  <2>4. CASE ChildWorks \/ ChildWrites \/ WaitForChild
    BY <2>4 DEF ChildWorks, ChildWrites, WaitForChild, Flags
  <2>5. CASE ReadStdErr
    BY <2>5 DEF ReadStdErr, Flags
  <2>6. CASE EndCommand
    BY <2>6 DEF EndCommand, Flags
  <2>7. CASE UNCHANGED vars
    BY <2>7 DEF vars, Flags
  <2> QED BY <2>1, <2>3, <2>4, <2>5, <2>6, <2>7 DEF Next, Service, Child
<1> QED BY <1>1, <1>2, PTL DEF Spec

LEMMA InitInv == Init => RunnerInv
<1> SUFFICES ASSUME Init PROVE RunnerInv
  OBVIOUS
<1>1. Types
  BY RunnerConstantsOK DEF Init, Types
<1>2. Handles /\ pc = "idle" /\ child = "none"
  BY DEF Init, Handles, Held
<1> QED BY <1>1, <1>2 DEF RunnerInv

LEMMA BeginInv == RunnerInv /\ BeginCommand => RunnerInv'
BY RunnerConstantsOK DEF RunnerInv, BeginCommand, Goto, Types, Handles, Held, Progress

LEMMA ReturnEarlyInv ==
  ASSUME NEW from \in Starting
  PROVE  RunnerInv /\ ReturnEarly(from) => RunnerInv'
BY RunnerConstantsOK DEF RunnerInv, ReturnEarly, Goto, Fault, Types, Handles, Held, Progress

LEMMA StartInv == RunnerInv /\ (CreatePipe \/ SetHandleInformation \/ CreateProcess) => RunnerInv'
<1> SUFFICES ASSUME RunnerInv, CreatePipe \/ SetHandleInformation \/ CreateProcess PROVE RunnerInv'
  OBVIOUS
<1>1. CASE CreatePipe
  BY <1>1, ReturnEarlyInv, RunnerConstantsOK
  DEF CreatePipe, RunnerInv, Goto, Types, Handles, Held, Progress
<1>2. CASE SetHandleInformation
  BY <1>2, ReturnEarlyInv, RunnerConstantsOK
  DEF SetHandleInformation, RunnerInv, Goto, Types, Handles, Held, Progress
<1>3. CASE CreateProcess
  BY <1>3, ReturnEarlyInv, RunnerConstantsOK
  DEF CreateProcess, RunnerInv, Goto, Types, Handles, Held, Progress
<1> QED BY <1>1, <1>2, <1>3

LEMMA ChildWorksInv == RunnerInv /\ ChildWorks => RunnerInv'
<1> SUFFICES ASSUME RunnerInv, ChildWorks PROVE RunnerInv'
  OBVIOUS
<1> USE RunnerConstantsOK DEF ChildWorks, RunnerInv
<1>1. Types'
  BY AfterIsTable DEF Types, Complains, Fault
<1>2. Handles'
  BY DEF Types, Handles, Held, Fault
<1>3. Progress' /\ Outcome'
  BY DEF Types, Progress, Outcome, Silent, Heard, Complained, Complains, Fault
<1> QED BY <1>1, <1>2, <1>3

LEMMA ChildWritesInv == RunnerInv /\ ChildWrites => RunnerInv'
<1> SUFFICES ASSUME RunnerInv, ChildWrites PROVE RunnerInv'
  OBVIOUS
<1> USE RunnerConstantsOK DEF ChildWrites, RunnerInv
<1>1. Types' /\ Handles'
  BY DEF Types, Handles, Held
<1>2. Progress' /\ Outcome'
  BY DEF Types, Progress, Outcome, Silent, Heard, Complained
<1> QED BY <1>1, <1>2

LEMMA WaitInv == RunnerInv /\ WaitForChild => RunnerInv'
BY RunnerConstantsOK
DEF WaitForChild, RunnerInv, Goto, Types, Handles, Held, Progress, Outcome, Silent, Heard, Complained

LEMMA ReadInv == RunnerInv /\ ReadStdErr => RunnerInv'
<1> SUFFICES ASSUME RunnerInv, ReadStdErr PROVE RunnerInv'
  OBVIOUS
<1> USE RunnerConstantsOK DEF ReadStdErr, RunnerInv, Goto
<1>1. Types' /\ Handles'
  BY DEF Types, Handles, Held, Fault
<1>2. Progress' /\ Outcome'
  BY DEF Types, Progress, Outcome, Silent, Heard, Complained, Fault
<1> QED BY <1>1, <1>2

LEMMA EndInv == RunnerInv /\ EndCommand => RunnerInv'
BY RunnerConstantsOK DEF RunnerInv, EndCommand, ExitCode, Goto, Types, Handles, Held, Progress

LEMMA NextInv == RunnerInv /\ [Next]_vars => RunnerInv'
<1> SUFFICES ASSUME RunnerInv, [Next]_vars PROVE RunnerInv'
  OBVIOUS
<1>1. CASE UNCHANGED vars
  BY <1>1 DEF vars, RunnerInv, Types, Handles, Held, Progress, Outcome, Silent, Heard, Complained
<1>2. CASE Next
  BY <1>2, BeginInv, StartInv, ChildWorksInv, ChildWritesInv, WaitInv, ReadInv, EndInv
  DEF Next, Service, Child
<1> QED BY <1>1, <1>2

LEMMA RunnerInvariant == Spec => []RunnerInv
BY InitInv, NextInv, PTL DEF Spec

---------------------------------------------------------------------------

\* The locals of run_command and the state of its child keep their types, and the service never
\* holds more than four handles for a command and two for every call that has failed.
THEOREM RunnerTypesCorrect == Spec => []RunnerTypeOK
<1>1. RunnerInv /\ Flags => RunnerTypeOK
  <2> SUFFICES ASSUME RunnerInv, Flags PROVE RunnerTypeOK
    OBVIOUS
  <2>1. {chBuf, pending} \subseteq BOOLEAN
    BY DEF Flags
  <2>2. open \in 0..(2 * MaxFaults + 4)
    BY RunnerConstantsOK DEF RunnerInv, Types, Handles, Held
  <2> QED BY <2>1, <2>2 DEF RunnerInv, Types, RunnerTypeOK
<1> QED BY <1>1, RunnerInvariant, FlagsAreBoolean, PTL

\* Between two commands only handles of pipes that a failed call has left are open, and no
\* read of a pipe is pending (the early returns of win_cmd_wrapper.c, lines 43, 47 and 85).
THEOREM LittleIsLeftBehind == Spec => []LeavesLittleBehind
<1>1. RunnerInv => LeavesLittleBehind
  BY RunnerConstantsOK DEF RunnerInv, Types, Handles, Held, LeavesLittleBehind, Returned
<1> QED BY <1>1, RunnerInvariant, PTL

---------------------------------------------------------------------------
(* The refinement. *)

Abstract == <<IF Returned THEN table ELSE before.table, IF Returned THEN faults ELSE before.faults,
              IF Returned THEN cmd ELSE before.cmd, answer>>

LEMMA InitRefines == Init => Promise!Init
BY DEF Init, Returned, Promise!Init

LEMMA ReturnEarlyRefines ==
  ASSUME NEW from \in Starting
  PROVE  RunnerInv /\ ReturnEarly(from) => Promise!Command(cmd)
BY RunnerConstantsOK
DEF RunnerInv, ReturnEarly, Goto, Fault, Types, Progress, Returned, Promise!Command,
    Promise!Truthful, Promise!Faulty, Promise!Able, Promise!After

LEMMA EndRefines == RunnerInv /\ EndCommand => Promise!Command(cmd)
<1> SUFFICES ASSUME RunnerInv, EndCommand PROVE Promise!Command(cmd)
  OBVIOUS
<1>1. Types /\ Progress /\ Outcome /\ pc = "CloseHandle" /\ pc' = "idle" /\ child = "exited"
  BY DEF RunnerInv, EndCommand, Goto, Types, Progress
<1>2. UNCHANGED <<table, faults, cmd>> /\ answer' = ExitCode
  BY DEF EndCommand
<1>3. Promise!Truthful(cmd) \/ Promise!Faulty(cmd)
  BY <1>1, <1>2, RunnerConstantsOK
  DEF Types, Progress, Outcome, Silent, Heard, ExitCode, Returned,
      P!Able, P!After, Promise!Truthful, Promise!Faulty, Promise!Able, Promise!After
<1>4. answer' \in {0, 1, -1} /\ faults \in Nat /\ faults >= before.faults
  BY <1>1, <1>2, RunnerConstantsOK DEF Types, Progress, ExitCode
<1> QED BY <1>1, <1>2, <1>3, <1>4 DEF Returned, Promise!Command

LEMMA NextRefines == RunnerInv /\ [Next]_vars => [Promise!Next]_Abstract
<1> SUFFICES ASSUME RunnerInv, [Next]_vars PROVE [Promise!Next]_Abstract
  OBVIOUS
<1>0. cmd \in Commands
  BY DEF RunnerInv, Types
<1>1. CASE UNCHANGED vars
  BY <1>1 DEF vars, Abstract, Returned
<1>2. CASE BeginCommand
  BY <1>2 DEF BeginCommand, Goto, Abstract, Returned
<1>3. CASE CreatePipe \/ SetHandleInformation \/ CreateProcess
  <2>1. CASE \E from \in Starting : ReturnEarly(from)
    BY <2>1, <1>0, ReturnEarlyRefines DEF Promise!Next
  <2>2. CASE ~\E from \in Starting : ReturnEarly(from)
    BY <1>3, <2>2 DEF CreatePipe, SetHandleInformation, CreateProcess, Goto, Abstract, Returned
  <2> QED BY <2>1, <2>2
<1>4. CASE Child
  <2>1. pc # "idle" /\ UNCHANGED <<pc, before, answer, cmd>>
    BY <1>4 DEF Child, ChildWorks, ChildWrites, RunnerInv
  <2> QED BY <2>1 DEF Abstract, Returned
<1>5. CASE WaitForChild \/ ReadStdErr
  BY <1>5 DEF WaitForChild, ReadStdErr, Goto, Abstract, Returned
<1>6. CASE EndCommand
  BY <1>6, <1>0, EndRefines DEF Promise!Next
<1> QED BY <1>1, <1>2, <1>3, <1>4, <1>5, <1>6 DEF Next, Service

\* run_command implements the atomic command of CommandPromise: every step of its pipe, its
\* child and its failures is a stutter, but for the return, which answers the truth about the
\* table or counts a failure.
THEOREM RunnerKeepsPromise == Spec => KeepsPromise
<1>1. Init => Promise!Init
  BY InitRefines
<1>2. RunnerInv /\ [Next]_vars => [Promise!Next]_Abstract
  BY NextRefines
<1> QED BY <1>1, <1>2, RunnerInvariant, PTL DEF Spec, KeepsPromise, Promise!Spec, Abstract
===========================================================================
