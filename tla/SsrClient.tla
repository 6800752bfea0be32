----------------------------- MODULE SsrClient ----------------------------
(***************************************************************************)
(* The client that ssrWin starts and stops for the selected server         *)
(* (run_ssr_client.c, overtls.c, socks_hub.c, proxy_settings.c): the UI    *)
(* thread, a thread that runs the SOCKS5 proxy (the ssr library, or        *)
(* overtls.dll), a thread that runs the HTTP proxy in front of it          *)
(* (socks_hub.dll), the two loaded libraries and the system's proxy        *)
(* setting.                                                                *)
(*                                                                         *)
(* The loops of the libraries are external: each reports its port once it  *)
(* listens, or that it does not, or returns without a report; it returns   *)
(* after it has been asked to stop, or by itself.  The code looks at few   *)
(* of the calls that can fail, and waits without limits for what may then  *)
(* never happen: unheard says that this has happened in the run.  (A       *)
(* CreateEvent that fails, after which a wait returns at once, is left     *)
(* out.)                                                                   *)
(***************************************************************************)
EXTENDS Naturals

CONSTANTS
  Port,     \* a port somebody listens on
  NoPort    \* port 0

ASSUME SsrConstantsOK == Port # NoPort

VARIABLES
  ui,        \* where the UI thread is
  quitting,  \* the window is being destroyed
  ctx,       \* the fields of ssr_client_ctx; alive: it is allocated
  client,    \* what SsrClientThread does
  http,      \* what HttpProxyThread does
  overTls,   \* hOverTls: overtls.dll is loaded
  socksHub,  \* hSocksHub: socks_hub.dll is loaded
  sysProxy,  \* the system's proxy setting names the HTTP proxy
  unheard    \* in this run something has failed, and nobody looks at it

ssrVars == <<ui, quitting, ctx, client, http, overTls, socksHub, sysProxy, unheard>>

\* "created": not in its loop yet; "loop"; "ending": asked to stop, or failed; "exited".
ThreadStates == {"none", "created", "loop", "ending", "exited"}
UiStates == {"idle", "wait S5 port", "wait HTTP port", "join failed client", "running",
             "join client", "join HTTP proxy", "ended"}

Context == [alive : BOOLEAN, bOverTlsDll : BOOLEAN, is_overtls : BOOLEAN, change : BOOLEAN,
            state : {"NULL", "live"}, error : BOOLEAN,
            s5Event : BOOLEAN, s5Port : {Port, NoPort},
            httpEvent : BOOLEAN, httpPort : {Port, NoPort}]

\* calloc(1, sizeof(*ctx)), for a server and the options of the moment.
NewContext(dll, tls, change) ==
  [alive |-> TRUE, bOverTlsDll |-> dll, is_overtls |-> tls, change |-> change,
   state |-> "NULL", error |-> FALSE,
   s5Event |-> FALSE, s5Port |-> NoPort, httpEvent |-> FALSE, httpPort |-> NoPort]

Freed == [NewContext(FALSE, FALSE, FALSE) EXCEPT !.alive = FALSE]

\* The server is reached through overtls.dll, rather than the ssr library.
ByOverTls == ctx.bOverTlsDll /\ ctx.is_overtls

UiGoto(from, to) == ui = from /\ ui' = to

\* What a thread is once CreateThread has been called for it.
Created(made) == IF made THEN "created" ELSE "none"

\* ssr_run_loop_shutdown, over_tls_client_stop and socks_hub_stop: the loop is to end.  A library
\* that exports no such function is asked nothing.
AskToStop(t, exported) == IF t = "loop" /\ exported THEN "ending" ELSE t

---------------------------------------------------------------------------
(* ssr_client_begin_run, on the UI thread. *)

\* Mutant: the context is allocated without being zeroed.
BeginRun_Malloc(from, change) ==
  /\ UiGoto(from, "wait S5 port")
  /\ \E dll, tls, made \in BOOLEAN :
       /\ overTls => dll
       /\ overTls' = dll
       /\ ctx' = [NewContext(dll, tls, change) EXCEPT !.state = "uninitialized"]
       /\ client' = Created(made) /\ unheard' = ~made
  /\ quitting' = FALSE
  /\ UNCHANGED <<http, socksHub, sysProxy>>

\* The ports are free; the context, overtls.dll if it is there, and the client's thread.
BeginRun(from, change) ==
  /\ UiGoto(from, "wait S5 port")
  /\ \E dll, tls, made \in BOOLEAN :
       /\ overTls => dll
       /\ overTls' = dll
       /\ ctx' = NewContext(dll, tls, change)
       /\ client' = Created(made) /\ unheard' = ~made
  /\ quitting' = FALSE
  /\ UNCHANGED <<http, socksHub, sysProxy>>

\* With an occupied port nothing happens.
BeginRunRefused == ui = "idle" /\ UNCHANGED ssrVars

\* The program is started and runs no client.
StartIdle ==
  /\ UiGoto("ended", "idle") /\ quitting' = FALSE
  /\ UNCHANGED <<ctx, client, http, overTls, socksHub, sysProxy, unheard>>

\* hEvtS5Port is signalled.  With overtls no error is looked for.
AfterS5Port ==
  /\ ui = "wait S5 port" /\ ctx.s5Event
  /\ \/ /\ ctx.error /\ ~ByOverTls
        /\ ui' = "join failed client"
        /\ UNCHANGED <<ctx, client, http, overTls, socksHub, unheard>>
     \/ /\ ~ctx.error \/ ByOverTls
        /\ ui' = "wait HTTP port" /\ socksHub' = TRUE
        /\ \E made \in BOOLEAN : http' = Created(made) /\ unheard' = (unheard \/ ~made)
        /\ UNCHANGED <<ctx, client, overTls>>
     \/ \* socks_hub.dll is missing: DebugBreak ends the process.
        /\ (~ctx.error \/ ByOverTls) /\ ~socksHub
        /\ ui' = "ended" /\ ctx' = Freed /\ client' = "none"
        /\ overTls' = FALSE
        /\ UNCHANGED <<http, socksHub, unheard>>
  /\ UNCHANGED <<quitting, sysProxy>>

\* Mutant: a failed start keeps overtls.dll.
JoinFailedClient_KeepsDll ==
  /\ UiGoto("join failed client", "idle")
  /\ client = "exited" /\ client' = "none" /\ ctx' = Freed
  /\ UNCHANGED <<quitting, http, overTls, socksHub, sysProxy, unheard>>

\* The client's thread has ended after an error: everything is undone.
JoinFailedClient ==
  /\ UiGoto("join failed client", "idle")
  /\ client = "exited" /\ client' = "none"
  /\ overTls' = (overTls /\ ~ctx.bOverTlsDll)
  /\ ctx' = Freed
  /\ UNCHANGED <<quitting, http, socksHub, sysProxy, unheard>>

\* hEvtHttpPort is signalled: switch the system's proxy on or off.
AfterHttpPort ==
  /\ UiGoto("wait HTTP port", "running")
  /\ ctx.httpEvent
  /\ sysProxy' = (ctx.change /\ ctx.httpPort # NoPort)
  /\ UNCHANGED <<quitting, ctx, client, http, overTls, socksHub, unheard>>

---------------------------------------------------------------------------
(* ssr_client_terminate, on the UI thread. *)

\* The client's loop is asked to end: by a function of overtls.dll, or by one that is always there.
StopClient ==
  \E exported \in BOOLEAN :
    /\ exported \/ ByOverTls
    /\ client' = AskToStop(client, exported) /\ unheard' = (unheard \/ ~exported)

\* Mutant: overtls.dll is unloaded before its thread is joined.
Terminate_UnloadsFirst(quit) ==
  /\ UiGoto("running", "join client")
  /\ quitting' = quit
  /\ StopClient
  /\ overTls' = FALSE
  /\ UNCHANGED <<ctx, http, socksHub, sysProxy>>

\* The user stops the client, or destroys the window.
Terminate(quit) ==
  /\ UiGoto("running", "join client")
  /\ quitting' = quit
  /\ StopClient
  /\ UNCHANGED <<ctx, http, overTls, socksHub, sysProxy>>

\* The client's thread has ended; the HTTP proxy's loop is asked to end.
JoinClient ==
  /\ UiGoto("join client", "join HTTP proxy")
  /\ client = "exited" /\ client' = "none"
  /\ overTls' = (overTls /\ ~ctx.bOverTlsDll)
  /\ \E exported \in BOOLEAN : http' = AskToStop(http, exported) /\ unheard' = (unheard \/ ~exported)
  /\ UNCHANGED <<quitting, ctx, socksHub, sysProxy>>

\* Its thread has ended too: unload, free, and restore the system's proxy.
JoinHttpProxy ==
  /\ UiGoto("join HTTP proxy", IF quitting THEN "ended" ELSE "idle")
  /\ http = "exited" /\ http' = "none"
  /\ socksHub' = FALSE /\ sysProxy' = FALSE
  /\ ctx' = Freed
  /\ UNCHANGED <<quitting, client, overTls, unheard>>

\* The window is destroyed while no client runs.
Quit ==
  /\ UiGoto("idle", "ended")
  /\ quitting' = TRUE
  /\ UNCHANGED <<ctx, client, http, overTls, socksHub, sysProxy, unheard>>

---------------------------------------------------------------------------
(* SsrClientThread *)

\* Its callback stores the port and wakes the UI thread.
ReportS5(c, port) == [c EXCEPT !.s5Port = port, !.s5Event = TRUE]

\* over_tls_client_run, ssr_run_loop_begin: the library's run returns and has reported nothing.
ClientSaysNothing ==
  /\ client = "created" /\ client' = "exited" /\ unheard' = TRUE
  /\ UNCHANGED <<ui, quitting, ctx, http, overTls, socksHub, sysProxy>>

\* Mutant: a failure of overtls_run_loop_begin is not reported.
OverTlsBegins_Silent ==
  /\ client = "created" /\ ByOverTls
  /\ \/ client' = "loop" /\ ctx' = ReportS5(ctx, Port)
     \/ client' = "exited" /\ UNCHANGED ctx
  /\ UNCHANGED <<ui, quitting, http, overTls, socksHub, sysProxy, unheard>>

\* overtls_run_loop_begin listens, or fails before it has a loop: port 0 is reported.
OverTlsBegins ==
  /\ client = "created" /\ ByOverTls
  /\ \E ok \in BOOLEAN :
       /\ client' = IF ok THEN "loop" ELSE "exited"
       /\ ctx' = ReportS5(ctx, IF ok THEN Port ELSE NoPort)
  /\ UNCHANGED <<ui, quitting, http, overTls, socksHub, sysProxy, unheard>>

\* Mutant: ssr_feedback_state does not store the state.
SsrBegins_NoState ==
  /\ client = "created" /\ ~ByOverTls
  /\ \E ok \in BOOLEAN, port \in {Port, NoPort} :
       /\ client' = IF ok THEN "loop" ELSE "ending"
       /\ ctx' = [ReportS5(ctx, port) EXCEPT !.error = ~ok]
  /\ UNCHANGED <<ui, quitting, http, overTls, socksHub, sysProxy, unheard>>

\* ssr_run_loop_begin reports its state; with an error it goes on to return.  The port is 0 when
\* getsockname fails, whether there is an error or not.
SsrBegins ==
  /\ client = "created" /\ ~ByOverTls
  /\ \E ok \in BOOLEAN, port \in {Port, NoPort} :
       /\ client' = IF ok THEN "loop" ELSE "ending"
       /\ ctx' = [ReportS5(ctx, port) EXCEPT !.state = "live", !.error = ~ok]
  /\ UNCHANGED <<ui, quitting, http, overTls, socksHub, sysProxy, unheard>>

\* The loop returns.  (What becomes of the library's state then is the library's.)
ClientReturns ==
  /\ client = "ending" /\ client' = "exited"
  /\ UNCHANGED <<ui, quitting, ctx, http, overTls, socksHub, sysProxy, unheard>>

---------------------------------------------------------------------------
(* HttpProxyThread *)

\* socks_hub_run_loop_begin listens, or fails before it has a loop: port 0 is reported.
HttpProxyBegins ==
  /\ http = "created"
  /\ \E ok \in BOOLEAN :
       /\ http' = IF ok THEN "loop" ELSE "exited"
       /\ ctx' = [ctx EXCEPT !.httpPort = IF ok THEN Port ELSE NoPort, !.httpEvent = TRUE]
  /\ UNCHANGED <<ui, quitting, client, overTls, socksHub, sysProxy, unheard>>

\* socks_hub_run returns and has reported nothing.
HttpProxySaysNothing ==
  /\ http = "created" /\ http' = "exited" /\ unheard' = TRUE
  /\ UNCHANGED <<ui, quitting, ctx, client, overTls, socksHub, sysProxy>>

HttpProxyReturns ==
  /\ http = "ending" /\ http' = "exited"
  /\ UNCHANGED <<ui, quitting, ctx, client, overTls, socksHub, sysProxy, unheard>>

\* A loop returns although nobody has asked it to.
LoopReturns ==
  /\ \/ client = "loop" /\ client' = "exited" /\ UNCHANGED http
     \/ http = "loop" /\ http' = "exited" /\ UNCHANGED client
  /\ UNCHANGED <<ui, quitting, ctx, overTls, socksHub, sysProxy, unheard>>

---------------------------------------------------------------------------

UiStep ==
  \/ AfterS5Port \/ JoinFailedClient \/ AfterHttpPort \/ JoinClient \/ JoinHttpProxy
ClientStep == OverTlsBegins \/ SsrBegins \/ ClientSaysNothing \/ ClientReturns
HttpStep == HttpProxyBegins \/ HttpProxySaysNothing \/ HttpProxyReturns

\* The process ends under its threads; the system's setting outlives it.
Killed ==
  /\ ui # "ended" /\ ui' = "ended"
  /\ ctx' = Freed /\ client' = "none" /\ http' = "none"
  /\ overTls' = FALSE /\ socksHub' = FALSE
  /\ UNCHANGED <<quitting, sysProxy, unheard>>

SsrInit ==
  /\ ui = "ended" /\ quitting = FALSE
  /\ ctx = Freed
  /\ client = "none" /\ http = "none"
  /\ overTls = FALSE /\ socksHub = FALSE /\ sysProxy = FALSE
  /\ unheard = FALSE

---------------------------------------------------------------------------
(* Properties. *)

\* Every variable keeps its type: the fields of ssr_client_ctx and the globals.
SsrTypeOK ==
  /\ ui \in UiStates /\ ctx \in Context
  /\ client \in ThreadStates /\ http \in ThreadStates
  /\ {quitting, overTls, socksHub, sysProxy, unheard} \subseteq BOOLEAN

\* The threads use the context, and run the code of the libraries: both outlive them, however a
\* start fails, whoever returns first and whatever is asked to stop.
ThreadsHaveTheirCode ==
  /\ client \in {"created", "loop", "ending"} => ctx.alive /\ (ByOverTls => overTls)
  /\ http \in {"created", "loop", "ending"} => ctx.alive /\ socksHub

\* HttpProxyThread asserts that there is a SOCKS5 port to put its proxy in front of
\* (run_ssr_client.c:225).  Nobody looks at the port that is reported, so it does not hold.
HttpProxyHasAServer == http = "created" => ctx.s5Port # NoPort

\* ssr_client_terminate asserts that there is no state to shut down with overtls, and needs
\* the one that the library reported otherwise.
StateCanBeShutDown ==
  ui = "running" => ctx.state = IF ByOverTls THEN "NULL" ELSE "live"

\* The UI thread waits without limits for the other two: it comes back from each of its waits,
\* unless a thread could not be created, a library has returned without a report, or a library
\* has nothing to be asked to stop with.
UiComesBack ==
  ui \in UiStates \ {"idle", "running", "ended"} ~> unheard \/ ui \in {"idle", "running", "ended"}
===========================================================================
