------------------------ MODULE ClientThreadsProofs -----------------------
(***************************************************************************)
(* Theorems about the client that the main window starts and stops         *)
(* (SsrClient within MainWindow), for any servers, any number of dialogs,  *)
(* commands and starts of the program.                                     *)
(***************************************************************************)
EXTENDS MainWindow, TLAPS

Begun == {"loop", "ending", "exited"}

\* Between ssr_client_begin_run and the join of its threads the context is allocated; overtls.dll
\* is loaded as the context says, until its thread is joined, and socks_hub.dll from the start of
\* the HTTP proxy until its thread is joined.
Nothing ==
  /\ client = "none" /\ http = "none" /\ ctx.alive = FALSE /\ overTls = FALSE /\ socksHub = FALSE
OnlyClient ==
  /\ http = "none"
  /\ ctx.alive = TRUE /\ overTls = ctx.bOverTlsDll /\ socksHub = FALSE
Both ==
  /\ client \in Begun
  /\ ctx.alive = TRUE /\ overTls = ctx.bOverTlsDll /\ socksHub = TRUE
OnlyHttp ==
  /\ client = "none" /\ http \in Begun
  /\ ctx.alive = TRUE /\ overTls = FALSE /\ socksHub = TRUE

\* Where the UI thread is tells which threads there can be: it waits in vain for one that could
\* not be created.
Phase ==
  /\ ui \in {"idle", "ended"} => Nothing
  /\ ui \in {"wait S5 port", "join failed client"} => OnlyClient
  /\ ui \in {"wait HTTP port", "running", "join client"} => Both
  /\ ui \in {"running", "join client"} => http \in {"loop", "exited"}
  /\ ui = "join HTTP proxy" => OnlyHttp

\* The client is one of overtls.dll, as ByOverTls has it.
OverTls == ctx.bOverTlsDll = TRUE /\ ctx.is_overtls = TRUE

\* What the two threads have reported: nothing before they have begun, and perhaps nothing at all.
Reports ==
  /\ ctx.s5Event = FALSE => ctx.state = "NULL"
  /\ ctx.s5Event = TRUE => ctx.state = IF OverTls THEN "NULL" ELSE "live"
  /\ client = "created" => ctx.s5Event = FALSE
  /\ ui = "wait S5 port" /\ client = "none" => ctx.s5Event = FALSE
  /\ ui \in {"wait HTTP port", "running", "join client"} => ctx.s5Event = TRUE
  /\ http \in {"none", "created"} => ctx.httpEvent = FALSE
  /\ ui = "wait HTTP port" => http # "ending"

\* Where no client runs the system's proxy is on only if a process was killed with it.
Switch ==
  ui \notin {"running", "join client", "join HTTP proxy"} /\ sysProxy = TRUE => history.killed = TRUE

\* The window is being destroyed only behind a running client or when there is none.
Quitting == quitting = TRUE => ui \in {"join client", "join HTTP proxy", "ended"}

Types == ui \in UiStates /\ ctx \in Context /\ client \in ThreadStates /\ http \in ThreadStates
ThreadsInv == Types /\ Phase /\ Reports /\ Switch /\ Quitting

\* The options that a start is given, and the history with its fields.
Recorded ==
  /\ options \in OptionsType /\ registry.options \in OptionsType
  /\ history = [deleted |-> history.deleted, killed |-> history.killed,
                saved |-> history.saved, last |-> history.last]

\* What MainWindow does to the client.
SsrStep ==
  \/ \E from \in {"idle", "ended"}, change \in BOOLEAN : BeginRun(from, change)
  \/ StartIdle \/ Killed \/ Quit
  \/ \E quit \in BOOLEAN : Terminate(quit)
  \/ UiStep \/ ClientStep \/ HttpStep \/ LoopReturns

\* A kill that leaves the system's proxy on is recorded, for good.
KillRecorded == history.killed = TRUE \/ (Killed /\ sysProxy = TRUE) => history'.killed = TRUE

USE SsrConstantsOK
USE DEF Begun, Nothing, OnlyClient, Both, OnlyHttp, OverTls, Phase, Reports, Switch, Quitting, Types,
        UiStates, ThreadStates, Context, NewContext, Freed, ByOverTls, UiGoto, AskToStop, ReportS5, Created

LEMMA BeginInv ==
  ASSUME ThreadsInv, KillRecorded, NEW from \in {"idle", "ended"}, NEW change \in BOOLEAN
  PROVE  BeginRun(from, change) \/ StartIdle \/ Killed \/ Quit => ThreadsInv'
<1>1. CASE BeginRun(from, change)
  <2>1. PICK dll \in BOOLEAN, tls \in BOOLEAN : overTls' = dll /\ ctx' = NewContext(dll, tls, change)
    BY <1>1 DEF BeginRun
  <2>2. NewContext(dll, tls, change) \in Context
    OBVIOUS
  <2>3. ui' = "wait S5 port" /\ client' \in {"created", "none"} /\ http' = http /\ socksHub' = socksHub
        /\ sysProxy' = sysProxy /\ quitting' = FALSE /\ Nothing
    BY <1>1 DEF BeginRun, ThreadsInv
  <2>4. Types'
    BY ZenonT(40), <2>1, <2>2, <2>3 DEF ThreadsInv
  <2>5. Phase'
    BY <2>1, <2>3
  <2>6. Reports'
    BY <2>1, <2>3
  <2>7. Switch' /\ Quitting'
    BY <2>1, <2>3, <1>1 DEF ThreadsInv, KillRecorded, BeginRun
  <2> QED BY <2>4, <2>5, <2>6, <2>7 DEF ThreadsInv
<1>2. CASE StartIdle \/ Quit
  <2>1. Types'
    BY <1>2 DEF ThreadsInv, StartIdle, Quit
  <2>2. Phase'
    BY <1>2 DEF ThreadsInv, StartIdle, Quit
  <2>3. Reports'
    BY <1>2 DEF ThreadsInv, StartIdle, Quit
  <2>4. Switch'
    BY <1>2 DEF ThreadsInv, StartIdle, Quit, KillRecorded
  <2>5. Quitting'
    BY <1>2 DEF ThreadsInv, StartIdle, Quit
  <2> QED BY <2>1, <2>2, <2>3, <2>4, <2>5 DEF ThreadsInv
<1>3. CASE Killed
  BY <1>3 DEF ThreadsInv, Killed, KillRecorded
<1> QED BY <1>1, <1>2, <1>3

LEMMA UiInv ==
  ASSUME ThreadsInv, KillRecorded, NEW quit \in BOOLEAN
  PROVE  Terminate(quit) \/ UiStep => ThreadsInv'
<1>1. CASE Terminate(quit)
  BY <1>1 DEF ThreadsInv, Terminate, StopClient, KillRecorded
<1>2. CASE AfterS5Port
  BY <1>2 DEF ThreadsInv, AfterS5Port, KillRecorded
<1>3. CASE JoinFailedClient
  BY <1>3 DEF ThreadsInv, JoinFailedClient, KillRecorded
<1>4. CASE AfterHttpPort
  BY <1>4 DEF ThreadsInv, AfterHttpPort, KillRecorded
<1>5. CASE JoinClient
  <2>1. Types'
    BY ZenonT(40), <1>5 DEF ThreadsInv, JoinClient
  <2>0. overTls' = FALSE
    BY <1>5 DEF ThreadsInv, JoinClient
  <2>2. Phase'
    <3>1. http' \in Begun /\ client' = "none" /\ ctx'.alive = TRUE /\ socksHub' = TRUE
      BY <1>5 DEF ThreadsInv, JoinClient
    <3>2. ui' = "join HTTP proxy"
      BY <1>5 DEF JoinClient
    <3> QED BY <2>0, <3>1, <3>2
  <2>3. Reports'
    BY <1>5 DEF ThreadsInv, JoinClient
  <2>4. Switch'
    BY <1>5 DEF ThreadsInv, JoinClient, KillRecorded
  <2>5. Quitting'
    BY <1>5 DEF ThreadsInv, JoinClient
  <2> QED BY <2>1, <2>2, <2>3, <2>4, <2>5 DEF ThreadsInv
<1>6. CASE JoinHttpProxy
  BY <1>6 DEF ThreadsInv, JoinHttpProxy, KillRecorded
<1> QED BY <1>1, <1>2, <1>3, <1>4, <1>5, <1>6 DEF UiStep

LEMMA ThreadInv ==
  ASSUME ThreadsInv, KillRecorded
  PROVE  ClientStep \/ HttpStep \/ LoopReturns => ThreadsInv'
<1>1. CASE OverTlsBegins
  <2>1. Types'
    BY <1>1 DEF ThreadsInv, OverTlsBegins
  <2>2. Phase'
    BY <1>1 DEF ThreadsInv, OverTlsBegins
  <2>3. Reports'
    BY <1>1 DEF ThreadsInv, OverTlsBegins
  <2>4. Switch' /\ Quitting'
    BY <1>1 DEF ThreadsInv, OverTlsBegins, KillRecorded
  <2> QED BY <2>1, <2>2, <2>3, <2>4 DEF ThreadsInv
<1>2. CASE SsrBegins
  <2>1. Types'
    BY ZenonT(40), <1>2 DEF ThreadsInv, SsrBegins
  <2>2. Phase'
    BY <1>2 DEF ThreadsInv, SsrBegins
  <2>3. Reports'
    BY <1>2 DEF ThreadsInv, SsrBegins
  <2>4. Switch'
    BY <1>2 DEF ThreadsInv, SsrBegins, KillRecorded
  <2>5. Quitting'
    BY <1>2 DEF ThreadsInv, SsrBegins
  <2> QED BY <2>1, <2>2, <2>3, <2>4, <2>5 DEF ThreadsInv
<1>3. CASE ClientReturns
  BY <1>3 DEF ThreadsInv, ClientReturns, KillRecorded
<1>4. CASE HttpProxyBegins
  BY <1>4 DEF ThreadsInv, HttpProxyBegins, KillRecorded
<1>5. CASE HttpProxyReturns
  BY <1>5 DEF ThreadsInv, HttpProxyReturns, KillRecorded
<1>6. CASE ClientSaysNothing
  BY <1>6 DEF ThreadsInv, ClientSaysNothing, KillRecorded
<1>7. CASE HttpProxySaysNothing
  BY <1>7 DEF ThreadsInv, HttpProxySaysNothing, KillRecorded
<1>8. CASE LoopReturns
  BY <1>8 DEF ThreadsInv, LoopReturns, KillRecorded
<1> QED BY <1>1, <1>2, <1>3, <1>4, <1>5, <1>6, <1>7, <1>8 DEF ClientStep, HttpStep

LEMMA StutterTypes == Types /\ UNCHANGED ssrVars => Types'
BY DEF ssrVars

LEMMA StutterInv ==
  ASSUME ThreadsInv, KillRecorded, UNCHANGED ssrVars
  PROVE  ThreadsInv'
<1>1. Types'
  BY StutterTypes DEF ThreadsInv
<1>2. Reports /\ UNCHANGED ssrVars => Reports'
  BY DEF ssrVars
<1>3. Phase /\ UNCHANGED ssrVars => Phase'
  BY DEF ssrVars
<1>4. Switch /\ Quitting /\ UNCHANGED ssrVars => Switch' /\ Quitting'
  BY DEF ssrVars, KillRecorded
<1> QED BY <1>1, <1>2, <1>3, <1>4 DEF ThreadsInv

LEMMA SsrStepInv ==
  ASSUME ThreadsInv, KillRecorded, [SsrStep]_ssrVars
  PROVE  ThreadsInv'
BY BeginInv, UiInv, ThreadInv, StutterInv DEF SsrStep

---------------------------------------------------------------------------

WindowInv == ThreadsInv /\ Recorded

LEMMA InitInv == Init => WindowInv
<1> SUFFICES ASSUME Init PROVE WindowInv
  OBVIOUS
<1>1. Types
  BY DEF Init, SsrInit
<1>2. Phase /\ Reports /\ Switch /\ Quitting
  BY DEF Init, SsrInit
<1>3. Recorded
  BY DEF Init, Recorded, OptionsType, DefaultOptions
<1> QED BY <1>1, <1>2, <1>3 DEF WindowInv, ThreadsInv

\* Each action of MainWindow is one of the client's, or leaves it alone.
IsSsrStep == [SsrStep]_ssrVars /\ KillRecorded /\ Recorded'

LEMMA KeptStep ==
  ASSUME WindowInv, UNCHANGED <<ssrVars, options, registry, history>>
  PROVE  IsSsrStep
BY DEF IsSsrStep, WindowInv, Recorded, KillRecorded, Killed, ssrVars

\* The handlers of the list, of the menu and of the dialogs.
LEMMA HandlerStep ==
  ASSUME WindowInv,
         \/ Click \/ SelectServer \/ NewRecord \/ Import \/ ViewDetails \/ DeleteItem \/ ShowServer
         \/ ExportServer \/ OpenOptions \/ Press \/ Return \/ ExportDies
  PROVE  IsSsrStep
<1> USE DEF KeepClient, dialogVars, diskVars, listVars
<1>1. CASE Click \/ SelectServer \/ NewRecord \/ Import \/ OpenOptions
  BY <1>1, KeptStep DEF Click, SelectServer, NewRecord, Import, OpenOptions
<1>2. CASE ViewDetails \/ DeleteItem \/ ShowServer \/ ExportServer
  BY <1>2, KeptStep DEF ViewDetails, DeleteItem, ShowServer, ExportServer, ForRow
<1>3. CASE Return
  <2>1. UNCHANGED <<ssrVars, options, registry>>
    BY <1>3 DEF Return
  <2>2. \/ history' = history
        \/ history' = [history EXCEPT !.deleted = TRUE]
    BY <1>3 DEF Return, NewRecordReturns, DeleteItemReturns, OtherReturns
  <2> QED BY <2>1, <2>2 DEF IsSsrStep, WindowInv, Recorded, KillRecorded, Killed, ssrVars
<1>4. CASE Press
  <2>1. PICK k \in DOMAIN dialogs : PressDetails(k) \/ PressOptions(k) \/ PressOther(k)
    BY <1>4 DEF Press
  <2>2. CASE PressDetails(k) \/ PressOther(k)
    BY <2>2, KeptStep DEF PressDetails, PressOther
  <2>3. CASE PressOptions(k)
    <3>1. CASE Killed /\ ProcessDies
      BY <3>1 DEF IsSsrStep, WindowInv, SsrStep, Recorded, KillRecorded, ProcessDies
    <3>2. CASE UNCHANGED <<ssrVars, registry, history>> /\ (options' \in OptionsType \/ UNCHANGED options)
      BY <3>2 DEF IsSsrStep, WindowInv, Recorded, KillRecorded, Killed, ssrVars
    <3> QED BY <2>3, <3>1, <3>2 DEF PressOptions
  <2> QED BY <2>1, <2>2, <2>3
<1>5. CASE ExportDies
  BY <1>5 DEF ExportDies, IsSsrStep, WindowInv, SsrStep, Recorded, KillRecorded, ProcessDies
<1> QED BY <1>1, <1>2, <1>3, <1>4, <1>5

LEMMA RunStep == WindowInv /\ (Run \/ Stop) => IsSsrStep
<1> SUFFICES ASSUME WindowInv, Run \/ Stop PROVE IsSsrStep
  OBVIOUS
<1> USE DEF dialogVars, diskVars, listVars
<1>1. CASE Run
  <2>1. CASE Killed /\ ProcessDies
    BY <2>1 DEF IsSsrStep, WindowInv, SsrStep, Recorded, KillRecorded, ProcessDies
  <2>2. CASE BeginRun("idle", options.change_inet_opts) /\ UNCHANGED <<options, registry, history>>
    <3>1. options.change_inet_opts \in BOOLEAN
      BY DEF WindowInv, Recorded, OptionsType
    <3>2. SsrStep
      BY <2>2, <3>1 DEF SsrStep
    <3>3. ~Killed
      BY <2>2 DEF BeginRun, Killed
    <3> QED BY <2>2, <3>2, <3>3 DEF IsSsrStep, WindowInv, Recorded, KillRecorded
  <2>3. CASE BeginRunRefused /\ UNCHANGED <<options, registry, history>>
    BY <2>3, KeptStep DEF BeginRunRefused
  <2> QED BY <1>1, <2>1, <2>2, <2>3 DEF Run
<1>2. CASE Stop
  <2>1. ~Killed
    BY <1>2 DEF Stop, Terminate, Killed
  <2> QED BY <1>2, <2>1 DEF Stop, IsSsrStep, SsrStep, WindowInv, Recorded, KillRecorded
<1> QED BY <1>1, <1>2

LEMMA LifeStep == WindowInv /\ (Create \/ Destroy \/ DestroyEnds \/ Kill) => IsSsrStep
<1> SUFFICES ASSUME WindowInv, Create \/ Destroy \/ DestroyEnds \/ Kill PROVE IsSsrStep
  OBVIOUS
<1> USE DEF dialogVars, diskVars, listVars
<1>1. CASE Create
  <2>1. /\ options' = registry.options /\ registry' = registry
        /\ history' = [history EXCEPT !.saved = FALSE, !.last = <<>>, !.deleted = FALSE]
        /\ BeginRun("ended", registry.options.change_inet_opts) \/ StartIdle
    BY <1>1 DEF Create
  <2>2. SsrStep
    <3>1. registry.options.change_inet_opts \in BOOLEAN
      BY DEF WindowInv, Recorded, OptionsType
    <3> QED BY <2>1, <3>1 DEF SsrStep
  <2>3. ~Killed
    BY <2>1 DEF BeginRun, StartIdle, Killed
  <2> QED BY <2>1, <2>2, <2>3 DEF IsSsrStep, WindowInv, Recorded, KillRecorded
<1>2. CASE Destroy
  <2>1. /\ UNCHANGED <<registry, options, ssrVars>>
        /\ history' = history \/ history' = [history EXCEPT !.saved = TRUE, !.last = Servers(List)]
    BY <1>2 DEF Destroy, SaveAll
  <2>2. ~Killed
    BY <2>1 DEF Killed, ssrVars
  <2> QED BY <2>1, <2>2 DEF IsSsrStep, WindowInv, Recorded, KillRecorded
<1>4. CASE DestroyEnds
  <2>1. SaveRegistry /\ UNCHANGED <<options, history>> /\ (Terminate(TRUE) \/ Quit)
    BY <1>4 DEF DestroyEnds
  <2>2. SsrStep
    BY <2>1 DEF SsrStep
  <2>3. Killed /\ sysProxy = TRUE => history.killed = TRUE
    BY <2>1 DEF Terminate, Quit, Killed, WindowInv, ThreadsInv
  <2>4. registry'.options \in OptionsType
    BY <2>1 DEF SaveRegistry
  <2> QED BY <2>1, <2>2, <2>3, <2>4 DEF IsSsrStep, WindowInv, Recorded, KillRecorded
<1>3. CASE Kill
  BY <1>3 DEF Kill, IsSsrStep, WindowInv, SsrStep, Recorded, KillRecorded, ProcessDies
<1> QED BY <1>1, <1>2, <1>3, <1>4

LEMMA ProceedStep == WindowInv /\ (UiProceeds \/ ClientProceeds \/ HttpProceeds \/ LoopGivesUp) => IsSsrStep
<1> SUFFICES ASSUME WindowInv, UiProceeds \/ ClientProceeds \/ HttpProceeds \/ LoopGivesUp PROVE IsSsrStep
  OBVIOUS
<1> USE DEF dialogVars, diskVars, listVars, guiVars
<1>1. CASE ClientProceeds \/ HttpProceeds \/ LoopGivesUp
  <2>1. UNCHANGED <<ui, options, registry, history>> /\ SsrStep
    BY <1>1 DEF ClientProceeds, HttpProceeds, LoopGivesUp, SsrStep, ClientStep, HttpStep, OverTlsBegins, SsrBegins,
                ClientSaysNothing, ClientReturns, HttpProxyBegins, HttpProxySaysNothing, HttpProxyReturns, LoopReturns
  <2> QED BY <2>1 DEF IsSsrStep, WindowInv, Recorded, KillRecorded, Killed
<1>2. CASE UiProceeds
  <2>1. CASE ProcessDies
    BY <1>2, <2>1 DEF UiProceeds, ProcessDies, IsSsrStep, SsrStep, WindowInv, Recorded, KillRecorded
  <2>2. CASE UNCHANGED <<options, registry, history>>
    <3>1. ASSUME Killed, sysProxy = TRUE PROVE history.killed = TRUE
      <4>1. ui' = "ended" /\ sysProxy' = sysProxy
        BY <3>1 DEF Killed
      <4>2. ~JoinHttpProxy
        BY <3>1, <4>1 DEF JoinHttpProxy
      <4>3. AfterS5Port
        BY <1>2, <4>1, <4>2 DEF UiProceeds, UiStep, JoinFailedClient, AfterHttpPort, JoinClient
      <4> QED BY <3>1, <4>3 DEF AfterS5Port, WindowInv, ThreadsInv
    <3> QED BY <1>2, <2>2, <3>1 DEF UiProceeds, IsSsrStep, SsrStep, WindowInv, Recorded, KillRecorded
  <2> QED BY <1>2, <2>1, <2>2 DEF UiProceeds
<1> QED BY <1>1, <1>2

LEMMA NextInv == WindowInv /\ [Next]_vars => WindowInv'
<1> SUFFICES ASSUME WindowInv, [Next]_vars PROVE WindowInv'
  OBVIOUS
<1>1. IsSsrStep
  BY HandlerStep, RunStep, LifeStep, ProceedStep, KeptStep DEF Next, vars, guiVars, diskVars
<1>2. ThreadsInv'
  BY <1>1, SsrStepInv DEF WindowInv, IsSsrStep
<1> QED BY <1>1, <1>2 DEF WindowInv, IsSsrStep

LEMMA WindowInvariant == Spec => []WindowInv
BY InitInv, NextInv, PTL DEF Spec

---------------------------------------------------------------------------

Flags == quitting \in BOOLEAN /\ overTls \in BOOLEAN /\ socksHub \in BOOLEAN /\ sysProxy \in BOOLEAN
         /\ unheard \in BOOLEAN

LEMMA FlagsStep == Flags /\ [SsrStep]_ssrVars => Flags'
<1> SUFFICES ASSUME Flags, [SsrStep]_ssrVars PROVE Flags'
  OBVIOUS
<1>1. ASSUME NEW from \in {"idle", "ended"}, NEW change \in BOOLEAN, BeginRun(from, change) PROVE Flags'
  BY <1>1 DEF BeginRun, Flags
<1>2. CASE StartIdle \/ Killed \/ Quit
  BY <1>2 DEF StartIdle, Killed, Quit, Flags
<1>3. ASSUME NEW quit \in BOOLEAN, Terminate(quit) PROVE Flags'
  BY <1>3 DEF Terminate, StopClient, Flags
<1>4. CASE AfterS5Port
  BY <1>4 DEF AfterS5Port, Flags
<1>5. CASE JoinFailedClient \/ JoinClient
  BY <1>5 DEF JoinFailedClient, JoinClient, Flags
<1>6. CASE AfterHttpPort
  BY <1>6 DEF AfterHttpPort, Flags
<1>7. CASE JoinHttpProxy
  BY <1>7 DEF JoinHttpProxy, Flags
<1>8. CASE ClientStep \/ HttpStep \/ LoopReturns
  BY <1>8 DEF ClientStep, HttpStep, OverTlsBegins, SsrBegins, ClientSaysNothing, ClientReturns, HttpProxyBegins,
              HttpProxySaysNothing, HttpProxyReturns, LoopReturns, Flags
<1>9. CASE UNCHANGED ssrVars
  BY <1>9 DEF ssrVars, Flags
<1> QED BY <1>1, <1>2, <1>3, <1>4, <1>5, <1>6, <1>7, <1>8, <1>9 DEF SsrStep, UiStep

\* The variables of the client keep their types: the fields of ssr_client_ctx, the two threads
\* and the globals of overtls.c and socks_hub.c.
THEOREM ClientTypesCorrect == Spec => []SsrTypeOK
<1>1. Init => Flags
  BY DEF Init, SsrInit, Flags
<1>2. WindowInv /\ Flags /\ [Next]_vars => Flags'
  <2>1. WindowInv /\ [Next]_vars => [SsrStep]_ssrVars
    BY HandlerStep, RunStep, LifeStep, ProceedStep, KeptStep DEF Next, vars, guiVars, diskVars, IsSsrStep
  <2> QED BY <2>1, FlagsStep
<1>3. WindowInv /\ Flags => SsrTypeOK
  BY DEF WindowInv, ThreadsInv, Flags, SsrTypeOK
<1> QED BY <1>1, <1>2, <1>3, WindowInvariant, PTL DEF Spec

\* The threads never run without their context or without the code of the libraries they are in
\* (ssr_client_terminate and the failed start of ssr_client_begin_run).
THEOREM ThreadsAlwaysHaveTheirCode == Spec => []ThreadsHaveTheirCode
<1>1. WindowInv => ThreadsHaveTheirCode
  BY DEF WindowInv, ThreadsInv, ThreadsHaveTheirCode
<1> QED BY <1>1, WindowInvariant, PTL

\* While the client runs there is the state that ssr_client_terminate shuts down, and none with
\* overtls, as its assertion says (run_ssr_client.c:144).
THEOREM StateCanAlwaysBeShutDown == Spec => []StateCanBeShutDown
<1>1. WindowInv => StateCanBeShutDown
  BY DEF WindowInv, ThreadsInv, StateCanBeShutDown
<1> QED BY <1>1, WindowInvariant, PTL

\* Between two runs, and when the program has ended, nothing of the client is left, after every
\* failure and every exit (run_ssr_client.c:104-165).
THEOREM IdleIsAlwaysClean == Spec => []IdleMeansClean
<1>1. WindowInv => IdleMeansClean
  BY DEF WindowInv, ThreadsInv, IdleMeansClean
<1> QED BY <1>1, WindowInvariant, PTL
=============================================================================
