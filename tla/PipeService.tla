----------------------------- MODULE PipeService ---------------------------
(***************************************************************************)
(* The routing service as a process (pipe_service.c), and its callers      *)
(* (comm_with_named_pipe.c): service_main, the thread that accepts         *)
(* clients, a thread and an instance of the pipe per client, the service   *)
(* control manager that starts and stops it, and the connection that the   *)
(* service makes to itself to end the accept loop.                         *)
(*                                                                         *)
(* What a request does is RouteService; here a callback takes its time and *)
(* returns.  Windows ends the process, with all of its threads, some time  *)
(* after STOPPED has been reported: StartServiceCtrlDispatcher returns     *)
(* then, and main with it.                                                 *)
(***************************************************************************)
EXTENDS Naturals

CONSTANTS
  Clients,     \* processes that call comm_with_named_pipe
  Self,        \* service_main, which calls it to wake its own accept loop
  NoOne,       \* an instance that nobody has connected to
  Instances,   \* instances of the pipe (bound; the code asks for as many as Windows has)
  NoPipe,      \* the accept loop has none in its hands
  MaxCalls,    \* bound: calls of each client
  MaxStarts,   \* bound: starts of the service
  MaxFaults    \* bound: failing system calls

VARIABLES
  process,   \* the service's process runs
  status,    \* the state last reported to the service control manager
  main,      \* where service_main is
  quit,      \* WM_QUIT is in its message queue
  exitFlag,  \* pipe_exit_flag
  noPipe,    \* history: the wake-up call found no pipe to connect to
  listener,  \* where pipe_infinite_loop is
  pipe,      \* the instance it has in its hands
  inst,      \* each instance: "none", "listening", "connected", "closing" (the client's end is closed)
  peer,      \* who has connected to it
  request,   \* the message in it: "none", "short", or "long" (more than BUFSIZE)
  reply,     \* an answer is in it
  worker,    \* where the client_thread that serves it is
  call,      \* where each caller is in comm_with_named_pipe
  calls, starts, faults

svcVars == <<process, status, main, quit, exitFlag, noPipe>>
pipeVars == <<inst, peer, request, reply>>
callVars == <<call, calls>>
vars == <<svcVars, listener, pipe, pipeVars, worker, callVars, starts, faults>>

Callers == Clients \cup {Self}

ASSUME PipeConstantsOK ==
  /\ Self \notin Clients /\ NoOne \notin Callers /\ NoPipe \notin Instances
  /\ {MaxCalls, MaxStarts, MaxFaults} \subseteq Nat

Fault == faults < MaxFaults /\ faults' = faults + 1

---------------------------------------------------------------------------
(* service_main *)

MainGoto(from, to) == process /\ main = from /\ main' = to

\* Windows starts the process; its globals are as the program has them.
StartService ==
  /\ ~process /\ starts < MaxStarts /\ starts' = starts + 1
  /\ process' = TRUE /\ status' = "START_PENDING" /\ main' = "RegisterServiceCtrlHandler"
  /\ quit' = FALSE /\ exitFlag' = FALSE /\ noPipe' = FALSE /\ listener' = "none"
  /\ UNCHANGED <<pipe, pipeVars, worker, callVars, faults>>

\* Without a control handler service_main returns and nothing is ever reported.
Register ==
  /\ \/ MainGoto("RegisterServiceCtrlHandler", "CreateThread") /\ status' = "RUNNING" /\ UNCHANGED faults
     \/ MainGoto("RegisterServiceCtrlHandler", "returned") /\ Fault /\ UNCHANGED status
  /\ UNCHANGED <<process, quit, exitFlag, noPipe, listener, pipe, pipeVars, worker, callVars, starts>>

CreateServerThread ==
  /\ \/ /\ MainGoto("CreateThread", "run_message_loop") /\ listener' = "while"
        /\ UNCHANGED <<status, faults>>
     \/ /\ MainGoto("CreateThread", "returned") /\ Fault
        /\ status' = "STOPPED" /\ UNCHANGED listener
  /\ UNCHANGED <<process, quit, exitFlag, noPipe, pipe, pipeVars, worker, callVars, starts>>

\* The first GetMessage gives the thread its message queue.
EnterMessageLoop ==
  /\ MainGoto("run_message_loop", "GetMessage")
  /\ UNCHANGED <<process, status, quit, exitFlag, noPipe, listener, pipe, pipeVars, worker,
                 callVars, starts, faults>>

\* Mutant: the flag is raised after the wake-up call.
LeaveMessageLoop_NoFlag ==
  /\ MainGoto("GetMessage", "pipe_exit_loop") /\ quit
  /\ call' = [call EXCEPT ![Self] = "WaitNamedPipe"]
  /\ UNCHANGED <<process, status, quit, exitFlag, noPipe, listener, pipe, pipeVars, worker, calls, starts, faults>>

\* WM_QUIT ends the loop; pipe_exit_loop raises the flag, then calls its own pipe.
LeaveMessageLoop ==
  /\ MainGoto("GetMessage", "pipe_exit_loop") /\ quit
  /\ exitFlag' = TRUE
  /\ call' = [call EXCEPT ![Self] = "WaitNamedPipe"]
  /\ UNCHANGED <<process, status, quit, noPipe, listener, pipe, pipeVars, worker, calls, starts, faults>>

EndExitLoop ==
  /\ MainGoto("pipe_exit_loop", "WaitForSingleObject") /\ call[Self] = "idle"
  /\ UNCHANGED <<process, status, quit, exitFlag, noPipe, listener, pipe, pipeVars, worker,
                 callVars, starts, faults>>

JoinListener ==
  /\ MainGoto("WaitForSingleObject", "returned") /\ listener = "ended"
  /\ UNCHANGED <<process, status, quit, exitFlag, noPipe, listener, pipe, pipeVars, worker,
                 callVars, starts, faults>>

\* service_control_handler: STOP and SHUTDOWN are accepted once RUNNING is reported.  The
\* message is lost when service_main has no queue yet.
StopControl ==
  /\ process /\ status = "RUNNING"
  /\ quit' = (main = "GetMessage")
  /\ status' = "STOPPED"
  /\ UNCHANGED <<process, main, exitFlag, noPipe, listener, pipe, pipeVars, worker, callVars, starts, faults>>

\* The dispatcher returns, and main: the process ends under whatever its threads were doing.
ProcessExits ==
  /\ process /\ status = "STOPPED"
  /\ process' = FALSE /\ main' = "none" /\ listener' = "none" /\ pipe' = NoPipe
  /\ inst' = [i \in Instances |-> "none"] /\ peer' = [i \in Instances |-> NoOne]
  /\ request' = [i \in Instances |-> "none"] /\ reply' = [i \in Instances |-> FALSE]
  /\ worker' = [i \in Instances |-> "none"]
  /\ call' = [call EXCEPT ![Self] = "idle"]
  /\ UNCHANGED <<status, quit, exitFlag, noPipe, calls, starts, faults>>

---------------------------------------------------------------------------
(* pipe_infinite_loop *)

ListenerGoto(from, to) == listener = from /\ listener' = to

\* The server's end of an instance is closed: it is gone, with what is in it.
CloseInstance(i) ==
  /\ inst' = [inst EXCEPT ![i] = "none"]
  /\ peer' = [peer EXCEPT ![i] = NoOne]
  /\ request' = [request EXCEPT ![i] = "none"]
  /\ reply' = [reply EXCEPT ![i] = FALSE]

CheckFlag ==
  /\ ListenerGoto("while", IF exitFlag THEN "ended" ELSE "CreateNamedPipe")
  /\ UNCHANGED <<svcVars, pipe, pipeVars, worker, callVars, starts, faults>>

\* Which of the free ones it is makes no difference.
NewInstance == CHOOSE i \in Instances : inst[i] = "none"

\* Mutant: the handle is not compared with INVALID_HANDLE_VALUE.
CreateNamedPipe_Unchecked ==
  /\ ListenerGoto("CreateNamedPipe", "ConnectNamedPipe")
  /\ \/ /\ \E i \in Instances : inst[i] = "none"
        /\ pipe' = NewInstance /\ inst' = [inst EXCEPT ![NewInstance] = "listening"]
        /\ UNCHANGED faults
     \/ Fault /\ pipe' = "INVALID_HANDLE_VALUE" /\ UNCHANGED inst
  /\ UNCHANGED <<svcVars, peer, request, reply, worker, callVars, starts>>

\* pipe_create; a failure ends the loop for good.
CreateNamedPipe ==
  /\ \/ /\ ListenerGoto("CreateNamedPipe", "ConnectNamedPipe")
        /\ \E i \in Instances : inst[i] = "none"
        /\ pipe' = NewInstance /\ inst' = [inst EXCEPT ![NewInstance] = "listening"]
        /\ UNCHANGED faults
     \/ ListenerGoto("CreateNamedPipe", "ended") /\ Fault /\ UNCHANGED <<inst, pipe>>
  /\ UNCHANGED <<svcVars, peer, request, reply, worker, callVars, starts>>

\* Mutant: an instance that could not be connected is not closed.
ConnectNamedPipe_Leaks ==
  /\ \/ ListenerGoto("ConnectNamedPipe", "CreateThread") /\ inst[pipe] = "connected" /\ UNCHANGED pipe
     \/ ListenerGoto("ConnectNamedPipe", "while") /\ inst[pipe] = "closing" /\ pipe' = NoPipe
  /\ UNCHANGED <<svcVars, pipeVars, worker, callVars, starts, faults>>

\* It returns when somebody has connected, before or after the call; it fails if the client
\* is gone again, and the loop goes on with another instance.
ConnectNamedPipe ==
  /\ \/ /\ ListenerGoto("ConnectNamedPipe", "CreateThread") /\ inst[pipe] = "connected"
        /\ UNCHANGED <<pipe, pipeVars>>
     \/ /\ ListenerGoto("ConnectNamedPipe", "while") /\ inst[pipe] = "closing"
        /\ CloseInstance(pipe) /\ pipe' = NoPipe
  /\ UNCHANGED <<svcVars, worker, callVars, starts, faults>>

\* The instance passes into the hands of its thread, or is closed.
CreateClientThread ==
  /\ ListenerGoto("CreateThread", "while") /\ pipe' = NoPipe
  /\ \/ worker' = [worker EXCEPT ![pipe] = "ReadFile"] /\ UNCHANGED <<pipeVars, faults>>
     \/ Fault /\ CloseInstance(pipe) /\ UNCHANGED worker
  /\ UNCHANGED <<svcVars, callVars, starts>>

---------------------------------------------------------------------------
(* client_thread *)

WorkerGoto(i, from, to) == worker[i] = from /\ worker' = [worker EXCEPT ![i] = to]

\* ReadFile returns a message; one longer than the buffer fails (ERROR_MORE_DATA) and is
\* taken for a client that is gone, like a closed pipe.
WorkerReads(i) ==
  /\ \/ request[i] = "short" /\ WorkerGoto(i, "ReadFile", "callback")
     \/ request[i] = "long" /\ WorkerGoto(i, "ReadFile", "hang-up")
     \/ request[i] = "none" /\ inst[i] = "closing" /\ WorkerGoto(i, "ReadFile", "hang-up")
  /\ request' = [request EXCEPT ![i] = "none"]
  /\ UNCHANGED <<svcVars, listener, pipe, inst, peer, reply, callVars, starts, faults>>

\* svc_message_handler: FALSE if the request asked the thread to end.
WorkerExecutes(i) ==
  /\ \E to \in {"WriteFile", "DisconnectNamedPipe"} : WorkerGoto(i, "callback", to)
  /\ UNCHANGED <<svcVars, listener, pipe, pipeVars, callVars, starts, faults>>

WorkerResets(i) ==
  /\ WorkerGoto(i, "hang-up", "DisconnectNamedPipe")
  /\ UNCHANGED <<svcVars, listener, pipe, pipeVars, callVars, starts, faults>>

WorkerWrites(i) ==
  /\ \/ /\ WorkerGoto(i, "WriteFile", "ReadFile") /\ inst[i] = "connected"
        /\ reply' = [reply EXCEPT ![i] = TRUE]
     \/ WorkerGoto(i, "WriteFile", "DisconnectNamedPipe") /\ inst[i] = "closing" /\ UNCHANGED reply
  /\ UNCHANGED <<svcVars, listener, pipe, inst, peer, request, callVars, starts, faults>>

\* Mutant: a thread that was asked to end leaves the pipe open.
WorkerEnds_NoClose(i) ==
  /\ WorkerGoto(i, "DisconnectNamedPipe", "none")
  /\ reply[i] => inst[i] = "closing"
  /\ UNCHANGED <<svcVars, listener, pipe, pipeVars, callVars, starts, faults>>

\* FlushFileBuffers waits for the client to read what it was sent.
WorkerEnds(i) ==
  /\ WorkerGoto(i, "DisconnectNamedPipe", "none")
  /\ reply[i] => inst[i] = "closing"
  /\ CloseInstance(i)
  /\ UNCHANGED <<svcVars, listener, pipe, callVars, starts, faults>>

---------------------------------------------------------------------------
(* comm_with_named_pipe *)

CallGoto(c, from, to) == call[c] = from /\ call' = [call EXCEPT ![c] = to]

\* The connection of c, while the server has not closed it.
Connection(c) == {i \in Instances : peer[i] = c /\ inst[i] = "connected"}

\* CloseHandle: the server's thread can still read what was written.
CloseConnection(c) ==
  inst' = [i \in Instances |-> IF i \in Connection(c) THEN "closing" ELSE inst[i]]

BeginCall(c) ==
  /\ c # Self /\ calls[c] < MaxCalls /\ calls' = [calls EXCEPT ![c] = @ + 1]
  /\ CallGoto(c, "idle", "WaitNamedPipe")
  /\ UNCHANGED <<svcVars, listener, pipe, pipeVars, worker, starts, faults>>

\* Mutant: the caller waits for a pipe also when the service is not there.
WaitNamedPipe_ForAny(c) ==
  /\ \E i \in Instances : inst[i] = "listening"
  /\ CallGoto(c, "WaitNamedPipe", "CreateFile")
  /\ UNCHANGED <<process, status, main, quit, exitFlag, noPipe, listener, pipe, pipeVars, worker, calls, starts, faults>>

\* WaitNamedPipe waits without limits for an instance that listens, as long as there is
\* an instance at all; when there is none it fails.
WaitNamedPipe(c) ==
  /\ \/ /\ \E i \in Instances : inst[i] = "listening"
        /\ CallGoto(c, "WaitNamedPipe", "CreateFile")
        /\ UNCHANGED noPipe
     \/ /\ \A i \in Instances : inst[i] = "none"
        /\ CallGoto(c, "WaitNamedPipe", "idle")
        /\ noPipe' = (noPipe \/ c = Self)
  /\ UNCHANGED <<process, status, main, quit, exitFlag, listener, pipe, pipeVars, worker, calls, starts, faults>>

\* CreateFile connects, unless another caller was faster or the service is gone.
OpenPipe(c) ==
  /\ \/ \E i \in Instances :
          /\ inst[i] = "listening" /\ inst' = [inst EXCEPT ![i] = "connected"]
          /\ peer' = [peer EXCEPT ![i] = c]
          /\ CallGoto(c, "CreateFile", "WriteFile")
     \/ /\ \A i \in Instances : inst[i] # "listening"
        /\ CallGoto(c, "CreateFile", "idle") /\ UNCHANGED <<inst, peer>>
  /\ UNCHANGED <<svcVars, listener, pipe, request, reply, worker, calls, starts, faults>>

\* The message is written, or the server has closed the connection.  The service does not
\* wait for the answer to its own.
WriteMessage(c) ==
  /\ \/ \E i \in Connection(c), size \in {"short", "long"} :
          /\ c = Self => size = "short"
          /\ request' = [request EXCEPT ![i] = size]
          /\ CallGoto(c, "WriteFile", IF c = Self THEN "CloseHandle" ELSE "ReadFile")
     \/ Connection(c) = {} /\ CallGoto(c, "WriteFile", "CloseHandle") /\ UNCHANGED request
  /\ UNCHANGED <<svcVars, listener, pipe, inst, peer, reply, worker, calls, starts, faults>>

\* The answer comes, or the connection breaks.
ReadAnswer(c) ==
  /\ CallGoto(c, "ReadFile", "CloseHandle")
  /\ \A i \in Connection(c) : reply[i]
  /\ reply' = [i \in Instances |-> reply[i] /\ i \notin Connection(c)]
  /\ UNCHANGED <<svcVars, listener, pipe, inst, peer, request, worker, calls, starts, faults>>

EndCall(c) ==
  /\ CallGoto(c, "CloseHandle", "idle")
  /\ CloseConnection(c)
  /\ UNCHANGED <<svcVars, listener, pipe, peer, request, reply, worker, calls, starts, faults>>

\* A client dies, and its handles with it.
ClientDies(c) ==
  /\ c # Self /\ call[c] # "idle" /\ call' = [call EXCEPT ![c] = "idle"]
  /\ CloseConnection(c)
  /\ UNCHANGED <<svcVars, listener, pipe, peer, request, reply, worker, calls, starts, faults>>

---------------------------------------------------------------------------

Main == Register \/ CreateServerThread \/ EnterMessageLoop \/ LeaveMessageLoop \/ EndExitLoop \/ JoinListener
Listener == CheckFlag \/ CreateNamedPipe \/ ConnectNamedPipe \/ CreateClientThread
Worker(i) == WorkerReads(i) \/ WorkerExecutes(i) \/ WorkerResets(i) \/ WorkerWrites(i) \/ WorkerEnds(i)
Call(c) == WaitNamedPipe(c) \/ OpenPipe(c) \/ WriteMessage(c) \/ ReadAnswer(c) \/ EndCall(c)

Init ==
  /\ process = FALSE /\ status = "STOPPED" /\ main = "none"
  /\ quit = FALSE /\ exitFlag = FALSE /\ noPipe = FALSE
  /\ listener = "none" /\ pipe = NoPipe
  /\ inst = [i \in Instances |-> "none"] /\ peer = [i \in Instances |-> NoOne]
  /\ request = [i \in Instances |-> "none"] /\ reply = [i \in Instances |-> FALSE]
  /\ worker = [i \in Instances |-> "none"]
  /\ call = [c \in Callers |-> "idle"] /\ calls = [c \in Callers |-> 0]
  /\ starts = 0 /\ faults = 0

Next ==
  \/ StartService \/ Main \/ StopControl \/ ProcessExits
  \/ Listener
  \/ \E i \in Instances : Worker(i)
  \/ \E c \in Callers : BeginCall(c) \/ Call(c) \/ ClientDies(c)

\* Threads and calls that can go on do; a stopped service's process ends.  Nobody need
\* start or stop the service, call it, or die.
Fairness ==
  /\ WF_vars(Main) /\ WF_vars(ProcessExits) /\ WF_vars(Listener)
  /\ \A i \in Instances : WF_vars(Worker(i))
  /\ \A c \in Callers : WF_vars(Call(c))

Spec == Init /\ [][Next]_vars /\ Fairness
---------------------------------------------------------------------------
(* Properties. *)

\* Every variable keeps its type: the globals of pipe_service.c and the locals of its threads.
PipeTypeOK ==
  /\ {process, quit, exitFlag, noPipe} \subseteq BOOLEAN
  /\ status \in {"START_PENDING", "RUNNING", "STOPPED"}
  /\ main \in {"none", "RegisterServiceCtrlHandler", "CreateThread", "run_message_loop",
               "GetMessage", "pipe_exit_loop", "WaitForSingleObject", "returned"}
  /\ listener \in {"none", "while", "CreateNamedPipe", "ConnectNamedPipe", "CreateThread", "ended"}
  /\ pipe \in Instances \cup {NoPipe}
  /\ inst \in [Instances -> {"none", "listening", "connected", "closing"}]
  /\ peer \in [Instances -> Callers \cup {NoOne}]
  /\ request \in [Instances -> {"none", "short", "long"}] /\ reply \in [Instances -> BOOLEAN]
  /\ worker \in [Instances -> {"none", "ReadFile", "callback", "hang-up", "WriteFile",
                               "DisconnectNamedPipe"}]
  /\ call \in [Callers -> {"idle", "WaitNamedPipe", "CreateFile", "WriteFile", "ReadFile",
                           "CloseHandle"}]
  /\ calls \in [Callers -> 0..MaxCalls] /\ starts \in 0..MaxStarts /\ faults \in 0..MaxFaults

\* Whichever call fails, an instance of the pipe is in exactly one pair of hands, the accept
\* loop's or a client thread's: none is leaked, and none is closed by two.
InstancesHaveOneOwner ==
  \A i \in Instances :
    /\ inst[i] # "none" <=> pipe = i \/ worker[i] # "none"
    /\ ~(pipe = i /\ worker[i] # "none")

\* service_main joins an accept loop that will end, although the wake-up call can lose its
\* instance to a client and fail: the client wakes the loop as well.  The one exception is a
\* wake-up call that comes before the loop has created an instance, when no other is left.
StopWakesListener ==
  main = "WaitForSingleObject" /\ ~noPipe =>
    ~(listener = "ConnectNamedPipe" /\ inst[pipe] = "listening")

\* A service that reports RUNNING and whose accept loop has not failed comes back to listen,
\* whatever its clients do.
ServiceListens ==
  main = "GetMessage" ~> (listener = "ended" \/ main # "GetMessage" \/ \E i \in Instances : inst[i] = "listening")

\* No call is stuck in one of its two waits without limits, whatever fails, stops or dies.
CallsReturn ==
  \A c \in Callers : call[c] = "WaitNamedPipe" ~> call[c] = "idle"
===========================================================================
