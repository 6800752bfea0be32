-------------------------- MODULE NetChangeMonitor ------------------------
(***************************************************************************)
(* net_change_monitor.c: a thread that waits for address changes until its *)
(* exit event is set.  A monitor is a net_change_ctx; `Monitors` are the   *)
(* places calloc can return, reused once freed.                            *)
(***************************************************************************)
EXTENDS Naturals

CONSTANT Monitors

VARIABLES
  thread,     \* what the monitor's thread does; "none" when the context is not allocated
  exitEvent,  \* hEventExit is signalled
  addrEvent   \* the event given to NotifyAddrChange is signalled

monitorVars == <<thread, exitEvent, addrEvent>>

\* The thread runs in these states: asleep, about to register, waiting for an event.
Running == {"sleep", "register", "wait"}

\* "unborn": the context is allocated but CreateThread failed; "exited": it returned.
ThreadStates == Running \cup {"none", "unborn", "exited"}

MonitorInit ==
  /\ thread    = [m \in Monitors |-> "none"]
  /\ exitEvent = [m \in Monitors |-> FALSE]
  /\ addrEvent = [m \in Monitors |-> FALSE]

MonitorTypeOK ==
  /\ thread    \in [Monitors -> ThreadStates]
  /\ exitEvent \in [Monitors -> BOOLEAN]
  /\ addrEvent \in [Monitors -> BOOLEAN]

\* net_status_start_monitor: both events start unsignalled.
net_status_start_monitor(m, created) ==
  /\ thread[m] = "none"
  /\ thread'    = [thread EXCEPT ![m] = IF created THEN "sleep" ELSE "unborn"]
  /\ exitEvent' = [exitEvent EXCEPT ![m] = FALSE]
  /\ addrEvent' = [addrEvent EXCEPT ![m] = FALSE]

\* net_status_stop_monitor, its first half: SetEvent(hEventExit).
SignalExit(m) ==
  exitEvent' = [exitEvent EXCEPT ![m] = TRUE] /\ UNCHANGED <<thread, addrEvent>>

\* Mutant: the context is dropped without waiting for the thread.
JoinAndFree_Detached(m) == m \in Monitors /\ UNCHANGED monitorVars

\* Its second half: the thread has ended, so its handle is signalled; free the context.  A
\* context freed meanwhile is freed once more (undefined in C; the process goes on here).
JoinAndFree(m) ==
  /\ thread[m] \in {"exited", "none"}
  /\ thread' = [thread EXCEPT ![m] = "none"]
  /\ UNCHANGED <<exitEvent, addrEvent>>

Goto(m, from, to) == thread[m] = from /\ thread' = [thread EXCEPT ![m] = to]

(***************************************************************************)
(* net_monitor_thread_proc                                                 *)
(***************************************************************************)
\* Sleep(2000) is over.
WakeUp(m) == Goto(m, "sleep", "register") /\ UNCHANGED <<exitEvent, addrEvent>>

\* Mutant: the loop clears the exit event before it waits.
Register_ClearsExit(m) ==
  /\ Goto(m, "register", "wait")
  /\ addrEvent' = [addrEvent EXCEPT ![m] = FALSE]
  /\ exitEvent' = [exitEvent EXCEPT ![m] = FALSE]

\* A new event, registered with NotifyAddrChange.
Register(m) ==
  /\ Goto(m, "register", "wait")
  /\ addrEvent' = [addrEvent EXCEPT ![m] = FALSE]
  /\ UNCHANGED exitEvent

\* NotifyAddrChange failed: the thread leaves its loop.
RegisterFails(m) == Goto(m, "register", "exited") /\ UNCHANGED <<exitEvent, addrEvent>>

\* WaitForMultipleObjects returns the first signalled event: an address change comes
\* before the exit event.  The thread calls the notification and registers again.
OnAddrChange(m) ==
  addrEvent[m] /\ Goto(m, "wait", "register") /\ UNCHANGED <<exitEvent, addrEvent>>

\* The exit event resets itself; the thread returns.
OnExit(m) ==
  /\ exitEvent[m] /\ ~addrEvent[m]
  /\ Goto(m, "wait", "exited")
  /\ exitEvent' = [exitEvent EXCEPT ![m] = FALSE]
  /\ UNCHANGED addrEvent

\* The system reports an address change to the monitors that are registered.
AddressesChange ==
  /\ addrEvent' = [m \in Monitors |-> addrEvent[m] \/ thread[m] = "wait"]
  /\ UNCHANGED <<thread, exitEvent>>
===========================================================================
