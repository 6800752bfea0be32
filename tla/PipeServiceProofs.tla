------------------------- MODULE PipeServiceProofs -------------------------
(***************************************************************************)
(* Theorems about the service's process and its pipe, for any number of    *)
(* clients, instances, calls, starts and failures.                         *)
(***************************************************************************)
EXTENDS PipeService, TLAPS

MainStates == {"none", "RegisterServiceCtrlHandler", "CreateThread", "run_message_loop",
               "GetMessage", "pipe_exit_loop", "WaitForSingleObject", "returned"}
ListenerStates == {"none", "while", "CreateNamedPipe", "ConnectNamedPipe", "CreateThread", "ended"}
WorkerStates == {"none", "ReadFile", "callback", "hang-up", "WriteFile", "DisconnectNamedPipe"}
CallStates == {"idle", "WaitNamedPipe", "CreateFile", "WriteFile", "ReadFile", "CloseHandle"}

\* The types that the arguments below rest on.
Places ==
  /\ main \in MainStates /\ listener \in ListenerStates
  /\ pipe \in Instances \cup {NoPipe}
  /\ inst \in [Instances -> {"none", "listening", "connected", "closing"}]
  /\ worker \in [Instances -> WorkerStates]
  /\ call \in [Callers -> CallStates]

\* The accept loop has an instance in its hands between creating it and passing it on; what
\* listens is that one, and there is none before the loop is started.
Hands ==
  /\ pipe # NoPipe <=> listener \in {"ConnectNamedPipe", "CreateThread"}
  /\ ~process => main = "none" /\ listener = "none"
  /\ main \in {"none", "RegisterServiceCtrlHandler", "CreateThread"} => listener = "none"
  /\ \A i \in Instances : inst[i] = "listening" => pipe = i /\ listener = "ConnectNamedPipe"

OwnerInv == Places /\ Hands /\ InstancesHaveOneOwner

\* The accept loop will not listen any more.
Deaf == listener # "CreateNamedPipe" /\ \A i \in Instances : inst[i] # "listening"

\* How far the wake-up call has come, and what it has made sure of.  Once it has seen an instance
\* that listens, the loop, which finds the flag raised, creates no other.
WakeUp ==
  /\ main \in {"pipe_exit_loop", "WaitForSingleObject"} => exitFlag
  /\ call[Self] # "idle" => main = "pipe_exit_loop"
  /\ call[Self] # "ReadFile"
  /\ call[Self] = "CreateFile" => listener # "CreateNamedPipe"
  /\ call[Self] \in {"WriteFile", "CloseHandle"} => Deaf
  /\ main \in {"pipe_exit_loop", "WaitForSingleObject"} /\ call[Self] = "idle" /\ ~noPipe => Deaf

WakeInv == OwnerInv /\ WakeUp

USE PipeConstantsOK DEF MainStates, ListenerStates, WorkerStates, CallStates, Callers

LEMMA InitInv == Init => WakeInv
BY DEF Init, WakeInv, OwnerInv, Places, Hands, InstancesHaveOneOwner, WakeUp

\* One lemma per part of the program; each step keeps the owners, and then the wake-up call.

LEMMA ProcessInv == WakeInv /\ (StartService \/ StopControl \/ ProcessExits) => WakeInv'
<1> SUFFICES ASSUME WakeInv, StartService \/ StopControl \/ ProcessExits PROVE WakeInv'
  OBVIOUS
<1> USE DEF WakeInv, OwnerInv, Places, Hands, InstancesHaveOneOwner, WakeUp, Deaf, svcVars, pipeVars, callVars
<1>1. CASE StartService
  BY <1>1 DEF StartService
<1>2. CASE StopControl
  BY <1>2 DEF StopControl
<1>3. CASE ProcessExits
  BY <1>3 DEF ProcessExits
<1> QED BY <1>1, <1>2, <1>3

LEMMA MainInv == WakeInv /\ Main => WakeInv'
<1> SUFFICES ASSUME WakeInv, Main PROVE WakeInv'
  OBVIOUS
<1> USE DEF MainGoto, WakeInv, OwnerInv, Places, Hands, InstancesHaveOneOwner, WakeUp, Deaf,
            svcVars, pipeVars, callVars
<1>1. CASE Register
  BY <1>1 DEF Register
<1>2. CASE CreateServerThread
  BY <1>2 DEF CreateServerThread
<1>3. CASE EnterMessageLoop
  BY <1>3 DEF EnterMessageLoop
<1>4. CASE LeaveMessageLoop
  BY <1>4 DEF LeaveMessageLoop
<1>5. CASE EndExitLoop
  BY <1>5 DEF EndExitLoop
<1>6. CASE JoinListener
  BY <1>6 DEF JoinListener
<1> QED BY <1>1, <1>2, <1>3, <1>4, <1>5, <1>6 DEF Main

LEMMA ListenerInv == WakeInv /\ Listener => WakeInv'
<1> SUFFICES ASSUME WakeInv, Listener PROVE WakeInv'
  OBVIOUS
<1> USE DEF ListenerGoto, WakeInv, OwnerInv, Places, Hands, InstancesHaveOneOwner, WakeUp, Deaf,
            svcVars, pipeVars, callVars
<1>1. CASE CheckFlag
  BY <1>1 DEF CheckFlag
<1>2. CASE CreateNamedPipe
  <2>1. (\E i \in Instances : inst[i] = "none") => NewInstance \in Instances /\ inst[NewInstance] = "none"
    BY DEF NewInstance
  <2> QED BY <1>2, <2>1 DEF CreateNamedPipe
<1>3. CASE ConnectNamedPipe
  BY <1>3 DEF ConnectNamedPipe, CloseInstance
<1>4. CASE CreateClientThread
  BY <1>4 DEF CreateClientThread, CloseInstance
<1> QED BY <1>1, <1>2, <1>3, <1>4 DEF Listener

LEMMA WorkerInv ==
  ASSUME NEW i \in Instances
  PROVE  WakeInv /\ Worker(i) => WakeInv'
<1> SUFFICES ASSUME WakeInv, Worker(i) PROVE WakeInv'
  OBVIOUS
<1> USE DEF WorkerGoto, WakeInv, OwnerInv, Places, Hands, InstancesHaveOneOwner, WakeUp, Deaf,
            svcVars, pipeVars, callVars
<1>1. CASE WorkerReads(i)
  BY <1>1 DEF WorkerReads
<1>2. CASE WorkerExecutes(i) \/ WorkerResets(i)
  BY <1>2 DEF WorkerExecutes, WorkerResets
<1>3. CASE WorkerWrites(i)
  BY <1>3 DEF WorkerWrites
<1>4. CASE WorkerEnds(i)
  BY <1>4 DEF WorkerEnds, CloseInstance
<1> HIDE DEF WorkerGoto, WakeInv, OwnerInv, Places, Hands, InstancesHaveOneOwner, WakeUp, Deaf,
            svcVars, pipeVars, callVars
<1> QED BY <1>1, <1>2, <1>3, <1>4 DEF Worker

LEMMA CallInv ==
  ASSUME NEW c \in Callers
  PROVE  WakeInv /\ (BeginCall(c) \/ Call(c) \/ ClientDies(c)) => WakeInv'
<1> SUFFICES ASSUME WakeInv, BeginCall(c) \/ Call(c) \/ ClientDies(c) PROVE WakeInv'
  OBVIOUS
<1> USE DEF CallGoto, WakeInv, OwnerInv, Places, Hands, InstancesHaveOneOwner, WakeUp, Deaf,
            svcVars, pipeVars, callVars
<1>1. CASE BeginCall(c)
  BY <1>1 DEF BeginCall
<1>2. CASE WaitNamedPipe(c)
  <2>1. CASE /\ \E i \in Instances : inst[i] = "listening"
             /\ CallGoto(c, "WaitNamedPipe", "CreateFile") /\ UNCHANGED noPipe
    BY <1>2, <2>1 DEF WaitNamedPipe
  <2>2. CASE /\ \A i \in Instances : inst[i] = "none"
             /\ CallGoto(c, "WaitNamedPipe", "idle") /\ noPipe' = (noPipe \/ c = Self)
    <3>1. c = Self => WakeUp'
      BY <1>2, <2>2 DEF WaitNamedPipe
    <3>2. c # Self => WakeUp'
      BY <1>2, <2>2 DEF WaitNamedPipe
    <3>3. OwnerInv'
      BY <1>2, <2>2 DEF WaitNamedPipe
    <3> QED BY <3>1, <3>2, <3>3
  <2> QED BY <1>2, <2>1, <2>2 DEF WaitNamedPipe
<1>3. CASE OpenPipe(c)
  BY <1>3 DEF OpenPipe
<1>4. CASE WriteMessage(c)
  BY <1>4 DEF WriteMessage
<1>5. CASE ReadAnswer(c)
  BY <1>5 DEF ReadAnswer
<1>6. CASE EndCall(c)
  BY <1>6 DEF EndCall, CloseConnection, Connection
<1>7. CASE ClientDies(c)
  BY <1>7 DEF ClientDies, CloseConnection, Connection
<1> QED BY <1>1, <1>2, <1>3, <1>4, <1>5, <1>6, <1>7 DEF Call

LEMMA NextInv == WakeInv /\ [Next]_vars => WakeInv'
<1> SUFFICES ASSUME WakeInv, [Next]_vars PROVE WakeInv'
  OBVIOUS
<1>1. CASE UNCHANGED vars
  BY <1>1 DEF vars, svcVars, pipeVars, callVars, WakeInv, OwnerInv, Places, Hands,
              InstancesHaveOneOwner, WakeUp, Deaf
<1>2. CASE Next
  BY <1>2, ProcessInv, MainInv, ListenerInv, WorkerInv, CallInv DEF Next
<1> QED BY <1>1, <1>2

LEMMA WakeInvariant == Spec => []WakeInv
BY InitInv, NextInv, PTL DEF Spec

---------------------------------------------------------------------------
(* The types of the other variables. *)

Flags ==
  /\ process \in BOOLEAN /\ quit \in BOOLEAN
  /\ exitFlag \in BOOLEAN /\ noPipe \in BOOLEAN

Values ==
  /\ status \in {"START_PENDING", "RUNNING", "STOPPED"}
  /\ peer \in [Instances -> Callers \cup {NoOne}]
  /\ request \in [Instances -> {"none", "short", "long"}]
  /\ calls \in [Callers -> 0..MaxCalls] /\ starts \in 0..MaxStarts /\ faults \in 0..MaxFaults

Replies == reply \in [Instances -> BOOLEAN]

LEMMA FlagsStep == Flags /\ Replies /\ [Next]_vars => Flags' /\ Replies'
<1> SUFFICES ASSUME Flags, Replies, [Next]_vars PROVE Flags' /\ Replies'
  OBVIOUS
<1> USE DEF Flags, Replies, svcVars, pipeVars, callVars
<1>1. CASE StartService \/ StopControl \/ ProcessExits
  BY <1>1 DEF StartService, StopControl, ProcessExits
<1>2. CASE Main
  BY <1>2
  DEF Main, Register, CreateServerThread, EnterMessageLoop, LeaveMessageLoop, EndExitLoop, JoinListener
<1>3. CASE Listener
  BY <1>3
  DEF Listener, CheckFlag, CreateNamedPipe, ConnectNamedPipe, CreateClientThread, CloseInstance
<1>4. ASSUME NEW i \in Instances, Worker(i) PROVE Flags' /\ Replies'
  BY <1>4
  DEF Worker, WorkerReads, WorkerExecutes, WorkerResets, WorkerWrites, WorkerEnds, CloseInstance
<1>5. ASSUME NEW c \in Callers, BeginCall(c) \/ ClientDies(c) PROVE Flags' /\ Replies'
  BY <1>5 DEF BeginCall, ClientDies
<1>6. ASSUME NEW c \in Callers, Call(c) PROVE Flags' /\ Replies'
  <2>1. CASE WaitNamedPipe(c)
    BY <2>1 DEF WaitNamedPipe
  <2>2. CASE ReadAnswer(c)
    BY <2>2 DEF ReadAnswer
  <2>3. CASE OpenPipe(c) \/ WriteMessage(c) \/ EndCall(c)
    BY <2>3 DEF OpenPipe, WriteMessage, EndCall
  <2> QED BY <1>6, <2>1, <2>2, <2>3 DEF Call
<1>7. CASE UNCHANGED vars
  BY <1>7 DEF vars
<1> QED BY <1>1, <1>2, <1>3, <1>4, <1>5, <1>6, <1>7 DEF Next

LEMMA ValuesStep == Values /\ [Next]_vars => Values'
<1> SUFFICES ASSUME Values, [Next]_vars PROVE Values'
  OBVIOUS
<1> USE DEF Values, Fault, svcVars, pipeVars, callVars
<1>1. CASE StartService \/ StopControl \/ ProcessExits
  BY <1>1 DEF StartService, StopControl, ProcessExits
<1>2. CASE Main
  BY <1>2
  DEF Main, Register, CreateServerThread, EnterMessageLoop, LeaveMessageLoop, EndExitLoop, JoinListener
<1>3. CASE Listener
  BY <1>3
  DEF Listener, CheckFlag, CreateNamedPipe, ConnectNamedPipe, CreateClientThread, CloseInstance
<1>4. ASSUME NEW i \in Instances, Worker(i) PROVE Values'
  BY <1>4
  DEF Worker, WorkerReads, WorkerExecutes, WorkerResets, WorkerWrites, WorkerEnds, CloseInstance
<1>5. ASSUME NEW c \in Callers, BeginCall(c) \/ ClientDies(c) PROVE Values'
  BY <1>5 DEF BeginCall, ClientDies
<1>6. ASSUME NEW c \in Callers, Call(c) PROVE Values'
  BY <1>6 DEF Call, WaitNamedPipe, OpenPipe, WriteMessage, ReadAnswer, EndCall
<1>7. CASE UNCHANGED vars
  BY <1>7 DEF vars
<1> QED BY <1>1, <1>2, <1>3, <1>4, <1>5, <1>6, <1>7 DEF Next

\* The globals of pipe_service.c, the instances of its pipe and the locals of its threads and
\* callers keep their types, whatever fails: the accept loop never has a handle in its hands
\* that is not an instance.
THEOREM PipeTypesCorrect == Spec => []PipeTypeOK
<1>1. Init => Flags /\ Replies /\ Values
  <2>1. Init => Flags
    BY DEF Init, Flags
  <2>2. Init => Replies
    BY DEF Init, Replies
  <2>3. Init => Values
    BY DEF Init, Values
  <2> QED BY <2>1, <2>2, <2>3
<1>2. WakeInv /\ Flags /\ Replies /\ Values => PipeTypeOK
  <2> SUFFICES ASSUME WakeInv, Flags, Replies, Values PROVE PipeTypeOK
    OBVIOUS
  <2>1. {process, quit, exitFlag, noPipe} \subseteq BOOLEAN
    BY DEF Flags
  <2> QED BY <2>1 DEF WakeInv, OwnerInv, Places, Replies, Values, PipeTypeOK
<1> QED BY <1>1, <1>2, FlagsStep, ValuesStep, WakeInvariant, PTL DEF Spec

---------------------------------------------------------------------------

\* Whichever call fails and whoever is stopped or dies, an instance of the pipe is the accept
\* loop's or one client thread's (pipe_infinite_loop, client_thread): none leaks, none is
\* closed twice.
THEOREM InstancesAlwaysHaveOneOwner == Spec => []InstancesHaveOneOwner
<1>1. WakeInv => InstancesHaveOneOwner
  BY DEF WakeInv, OwnerInv
<1> QED BY <1>1, WakeInvariant, PTL

\* When service_main joins the accept loop, the loop is not, and will not be, waiting for a client,
\* unless the wake-up call came before there was an instance (pipe_exit_loop, pipe_service.c:72).
THEOREM StopAlwaysWakesListener == Spec => []StopWakesListener
<1>1. WakeInv => StopWakesListener
  <2> SUFFICES ASSUME WakeInv, main = "WaitForSingleObject", ~noPipe,
                      listener = "ConnectNamedPipe", inst[pipe] = "listening"
               PROVE  FALSE
    BY DEF StopWakesListener
  <2>1. call[Self] = "idle" /\ pipe \in Instances
    BY DEF WakeInv, OwnerInv, Places, Hands, WakeUp
  <2> QED BY <2>1 DEF WakeInv, WakeUp, Deaf
<1> QED BY <1>1, WakeInvariant, PTL
=============================================================================
