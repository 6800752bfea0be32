------------------------- MODULE OneClientProofs --------------------------
(***************************************************************************)
(* What RouteService keeps when no two clients are connected at once, the  *)
(* way ssrWin uses it: with two, MCRouteService_two_clients shows that it  *)
(* fails.  TypeCorrect does not need this assumption.                      *)
(***************************************************************************)
EXTENDS RouteServiceProofs

\* One thread at a time works on router_info.
OneClient == Clients # {} /\ \A c, d \in Clients : c = d

---------------------------------------------------------------------------
(* The DNS block. *)

ConfigurePcs ==
  InBegin \cup {"configure_routing", "begin_smart_dns_block", "enum_adapter_info", "begin_clear",
                "configure_clear", "add_ipv4_redirect", "stop_routing_ipv6", "add_or_update_proxy_route",
                "add_or_update_reserved_subnet_bypass", "configured", "net_status_start_monitor"}
ResetPcs ==
  {"remove_ipv4_redirect", "start_routing_ipv6", "delete_proxy_route",
   "remove_reserved_subnet_bypass", "end_smart_dns_block", "reset_clear", "ZeroMemory"}

\* Which request a thread executes, by where it is.  The address of a proxy has been
\* checked before the block begins.
RequestAt(c) ==
  /\ pc[c] \in ConfigurePcs => req[c].action = "configureRouting"
  /\ pc[c] \in InBegin \cup {"begin_smart_dns_block", "enum_adapter_info"} => req[c].proxy # NoProxy
  /\ pc[c] \in ResetPcs => req[c].action = "resetRouting"
  /\ ~req[c].reply => req[c].action = "resetRouting"

\* The handle is the one open session, but for the time between its close and its clearing.  A
\* session gets its filters one after the other; the thread that opens it completes or closes it.
SessionAt(c) ==
  /\ open = IF pc[c] \in InClear THEN {} ELSE {engine} \ {NoSession}
  /\ pc[c] = "FwpmEngineOpen0" => engine = NoSession
  /\ pc[c] = "FwpmFilterAdd0_2" => engine \in blocks
  /\ pc[c] \notin InBegin => \A s \in open : s \in blocks /\ allows[s] # {}

\* The session against router_info and the thread: it stands without a stored proxy only while
\* it is being opened; it has been closed when router_info is cleared, after a reset, and when
\* a configure has failed.
BlockAt(c) ==
  /\ open # {} => router.proxy # NoProxy \/ pc[c] \in InBegin \cup {"enum_adapter_info"}
  /\ pc[c] = "ZeroMemory" => open = {}
  /\ pc[c] = "Reply" /\ req[c].action = "resetRouting" => open = {} /\ router.proxy = NoProxy
  /\ pc[c] \in {"net_status_start_monitor", "Reply"} /\ req[c].action = "configureRouting"
       /\ result[c] = -1 => open = {}

BlockInv == \A c \in Clients : RequestAt(c) /\ SessionAt(c) /\ BlockAt(c)

\* The invariant holds when the service starts.
LEMMA BlockInit == Init => BlockInv
  BY ConstantsOK
  DEF Init, DnsInit, BlockInv, RequestAt, SessionAt, BlockAt, ConfigurePcs, ResetPcs, InBegin, BeginCalls,
      InClear, Hangup

\* With one client the invariant has to be shown for the thread that takes a step only.
LEMMA BlockOne ==
  ASSUME OneClient, NEW c \in Clients, RequestAt(c)', SessionAt(c)', BlockAt(c)'
  PROVE  BlockInv'
  BY DEF OneClient, BlockInv

\* A step that moves the thread and leaves the DNS block alone: which calls it may not enter.
LEMMA SessionKept ==
  ASSUME TypeOK, NEW c \in Clients, SessionAt(c), UNCHANGED dnsVars, NEW l,
         pc' = [pc EXCEPT ![c] = l],
         pc[c] \notin InClear, l \notin InClear \cup {"FwpmEngineOpen0", "FwpmFilterAdd0_2"},
         pc[c] \in InBegin => l \in InBegin
  PROVE  SessionAt(c)'
  <1>1. pc'[c] = l
    BY DEF TypeOK, ClientTypeOK
  <1>2. UNCHANGED <<open, engine, blocks, allows>>
    BY DEF dnsVars
  <1>3. QED BY <1>1, <1>2 DEF SessionAt

\* The pipe and the dispatch on the action.
LEMMA BlockDispatch ==
  ASSUME OneClient, TypeOK, BlockInv, NEW c \in Clients,
         \/ Connect(c) \/ ClientLost(c) \/ ReadFile(c) \/ Reply(c) \/ StopMonitor(c)
         \/ WaitForThread(c) \/ HandleConfigure(c) \/ HandleReset(c) \/ HandleOther(c)
  PROVE  BlockInv'
  <1> USE DEF GotoPc, EnterLoop
  <1>1. SessionAt(c)'
    <2> DEFINE Pipe == {"closed", "ReadFile", "net_status_stop_monitor", "WaitForThread", "handle_request",
                        "configure_routing", "remove_ipv4_redirect", "end_smart_dns_block", "Reply"}
    <2>1. UNCHANGED dnsVars
      BY DEF Connect, ClientLost, ReadFile, Reply, StopMonitor, WaitForThread, HandleConfigure,
             HandleReset, HandleOther
    <2>2. SessionAt(c)
      BY DEF BlockInv
    <2>3. CASE ClientLost(c)
      BY <2>1, <2>2, <2>3 DEF ClientLost, SessionAt, dnsVars
    <2>4. CASE ~ClientLost(c)
      <3>1. pc[c] \in Pipe /\ \E l \in Pipe : pc' = [pc EXCEPT ![c] = l]
        BY <2>4 DEF Connect, ReadFile, Reply, StopMonitor, WaitForThread, HandleConfigure, HandleReset,
                    HandleOther
      <3>2. QED BY <2>1, <2>2, <3>1, SessionKept DEF InClear, InBegin, BeginCalls
    <2>5. QED BY <2>3, <2>4
  <1> SUFFICES RequestAt(c)' /\ BlockAt(c)'
    BY <1>1, BlockOne
  <1> USE ConstantsOK
      DEF TypeOK, ClientTypeOK, RouterType, BlockInv, RequestAt, BlockAt, ConfigurePcs, ResetPcs,
          InBegin, BeginCalls, SetResult, dnsVars
  <1>2. CASE Connect(c) \/ ClientLost(c)
    BY <1>2 DEF Connect, ClientLost
  <1>3. CASE ReadFile(c)
    <2>1. PICK r \in Requests \cup {Hangup} : req' = [req EXCEPT ![c] = r]
      BY <1>3 DEF ReadFile
    <2>2. ~r.reply => r.action = "resetRouting"
      BY DEF Hangup
    <2>3. /\ pc[c] = "ReadFile" /\ pc' = [pc EXCEPT ![c] = "net_status_stop_monitor"]
          /\ UNCHANGED <<open, router>>
      BY <1>3 DEF ReadFile
    <2>4. req'[c] = r
      BY <2>1
    <2>5. RequestAt(c)'
      BY <2>2, <2>3, <2>4
    <2>6. BlockAt(c)'
      BY <2>3
    <2>7. QED BY <2>5, <2>6
  <1>4. CASE Reply(c)
    BY <1>4 DEF Reply
  <1>5. CASE StopMonitor(c) \/ WaitForThread(c)
    BY <1>5 DEF StopMonitor, WaitForThread
  <1>6. CASE HandleConfigure(c) \/ HandleOther(c)
    <2>1. /\ pc[c] = "handle_request" /\ UNCHANGED <<open, req>> /\ router'.proxy = router.proxy
          /\ \/ req[c].action = "configureRouting" /\ pc' = [pc EXCEPT ![c] = "configure_routing"]
             \/ req[c].action = "other" /\ pc' = [pc EXCEPT ![c] = "Reply"]
      BY <1>6 DEF HandleConfigure, HandleOther
    <2>2. QED BY <2>1
  <1>7. CASE HandleReset(c)
    <2>1. /\ pc[c] = "handle_request" /\ req[c].action = "resetRouting" /\ UNCHANGED <<open, req>>
          /\ router'.proxy = router.proxy
          /\ \/ router.proxy = NoProxy /\ pc' = [pc EXCEPT ![c] = "Reply"]
             \/ router.proxy # NoProxy
                  /\ \E l \in {"end_smart_dns_block", "remove_ipv4_redirect"} : pc' = [pc EXCEPT ![c] = l]
      BY <1>7 DEF HandleReset
    <2>2. QED BY <2>1, <1>1 DEF SessionAt, InClear
  <1>8. QED BY <1>2, <1>3, <1>4, <1>5, <1>6, <1>7

\* FindGateway keeps the device, stores the request's proxy, and either leaves with the code 0
\* or enters the loops with a gateway that is not the device's own: a device that is not
\* found is down and has no routes.
LEMMA FindGatewaySteps ==
  ASSUME TypeOK, DownInv, NEW c \in Clients, FindGateway(c)
  PROVE  /\ router'.tap = router.tap /\ router'.proxy = req[c].proxy
         /\ \/ pc' = [pc EXCEPT ![c] = "configured"] /\ UNCHANGED best
            \/ /\ pc' = [pc EXCEPT ![c] = "add_ipv4_redirect"]
               /\ step' = [step EXCEPT ![c] = FirstTry]
               /\ router'.gateway = best'[c]
               /\ router.tap \in Taps => best'[c].iface # router.tap
  <1>0. PICK found \in BOOLEAN : /\ ~found => router.tap \notin Taps \/ router.tap \in down
                                 /\ FoundGateway(c, found)
    BY DEF FindGateway
  <1> DEFINE tapIf == IF found THEN router.tap ELSE router.tapIf
             own   == IF found THEN AdapterHop[router.tap] ELSE NoHop
             hop   == CASE own # NoHop                           -> own
                        [] own = NoHop /\ router.tapHop # NoHop -> router.tapHop
                        [] OTHER                                 -> req[c].hop
             known == [router EXCEPT !.proxy = req[c].proxy, !.tapIf = tapIf, !.tapHop = hop]
             rows  == get_system_ipv4_gateway(tapIf)
  <1>1. \/ /\ pc' = [pc EXCEPT ![c] = "configured"]
           /\ router' = known /\ UNCHANGED best
        \/ /\ pc' = [pc EXCEPT ![c] = "add_ipv4_redirect"]
           /\ step' = [step EXCEPT ![c] = FirstTry]
           /\ \E g \in rows : router' = [known EXCEPT !.gateway = g] /\ best' = [best EXCEPT ![c] = g]
    BY <1>0 DEF FoundGateway, Break, GotoPc, EnterLoop
  <1>2. router \in RouterType /\ DOMAIN best = Clients
    BY DEF TypeOK, ClientTypeOK
  <1>3. \A g \in rows : g.iface # tapIf /\ g.iface \notin down
    BY DEF get_system_ipv4_gateway, DownInv
  <1> HIDE DEF tapIf, hop, rows
  <1>4. known.tap = router.tap /\ known.proxy = req[c].proxy
    BY <1>2 DEF RouterType
  <1>5. ASSUME NEW g
        PROVE  LET r == [known EXCEPT !.gateway = g]
               IN  r.tap = router.tap /\ r.proxy = req[c].proxy /\ r.gateway = g
    BY <1>2 DEF RouterType
  <1> HIDE DEF known
  <1>6. router.tap \in Taps => tapIf = router.tap \/ router.tap \in down
    BY <1>0 DEF tapIf
  <1>7. CASE pc' = [pc EXCEPT ![c] = "configured"] /\ router' = known /\ UNCHANGED best
    BY <1>4, <1>7
  <1>8. ASSUME NEW g \in rows, router' = [known EXCEPT !.gateway = g], best' = [best EXCEPT ![c] = g]
        PROVE  /\ router'.tap = router.tap /\ router'.proxy = req[c].proxy
               /\ router'.gateway = best'[c]
               /\ router.tap \in Taps => best'[c].iface # router.tap
    <2>1. best'[c] = g
      BY <1>2, <1>8
    <2>2. QED BY <1>3, <1>5, <1>6, <1>8, <2>1
  <1>9. QED BY <1>1, <1>7, <1>8

\* begin_smart_dns_block, call by call.
LEMMA BlockBegin ==
  ASSUME OneClient, TypeOK, BlockInv, NEW c \in Clients,
         \/ CheckEngine(c) \/ EngineOpen(c) \/ SubLayerAdd(c) \/ AddBlockFilter(c)
         \/ AddWhitelistFilter(c) \/ BlockFails(c) \/ EndBegin(c)
  PROVE  BlockInv'
  <1> USE ConstantsOK
      DEF TypeOK, ClientTypeOK, DnsTypeOK, RouterType, BlockInv, RequestAt, SessionAt, BlockAt,
          ConfigurePcs, ResetPcs, InBegin, BeginCalls, InClear, GotoPc, SetResult, BlockStep
  <1>1. CASE CheckEngine(c)
    <2>1. /\ pc[c] = "begin_smart_dns_block" /\ UNCHANGED <<dnsVars, router, req>>
          /\ \/ pc' = [pc EXCEPT ![c] = "enum_adapter_info"]
             \/ engine = NoSession /\ pc' = [pc EXCEPT ![c] = "FwpmEngineOpen0"]
      BY <1>1 DEF CheckEngine
    <2>2. QED BY <2>1, BlockOne DEF dnsVars
  <1>2. CASE EngineOpen(c)
    <2>1. PICK s \in Sessions : engine' = s /\ open' = open \cup {s}
      BY <1>2 DEF EngineOpen, FwpmEngineOpen0
    <2>2. /\ pc[c] = "FwpmEngineOpen0" /\ pc' = [pc EXCEPT ![c] = "FwpmSubLayerAdd0"]
          /\ UNCHANGED <<router, req>>
      BY <1>2 DEF EngineOpen
    <2>3. open = {} /\ s # NoSession
      BY <2>2
    <2>4. pc'[c] = "FwpmSubLayerAdd0" /\ open' = {engine'}
      BY <2>1, <2>2, <2>3
    <2>5. SessionAt(c)'
      BY <2>1, <2>3, <2>4
    <2>6. RequestAt(c)' /\ BlockAt(c)'
      BY <2>2, <2>4
    <2>7. QED BY <2>5, <2>6, BlockOne
  <1>3. CASE SubLayerAdd(c)
    BY <1>3, BlockOne DEF SubLayerAdd, FwpmSubLayerAdd0, dnsVars
  <1>4. CASE AddBlockFilter(c)
    BY <1>4, BlockOne DEF AddBlockFilter, BlockPort53
  <1>5. CASE AddWhitelistFilter(c)
    <2>0. /\ pc[c] = "FwpmFilterAdd0_2" /\ pc' = [pc EXCEPT ![c] = "enum_adapter_info"]
          /\ UNCHANGED <<engine, open, blocks, router, req>>
          /\ engine \in open
          /\ allows' = [allows EXCEPT ![engine] = @ \cup {req[c].tap}]
      <3> HIDE DEF TypeOK, BlockInv
      <3> QED BY <1>5 DEF AddWhitelistFilter, WhitelistTap
    <2>1. open = {engine} /\ engine \in blocks
      <3> HIDE DEF TypeOK, RequestAt, SessionAt, BlockAt
      <3>1. SessionAt(c)
        OBVIOUS
      <3> HIDE DEF BlockInv
      <3>2. open = {engine} \ {NoSession} /\ engine \in blocks
        BY <2>0, <3>1 DEF SessionAt
      <3> QED BY <2>0, <3>2
    <2>2. allows'[engine] # {}
      BY <2>0
    <2>3. pc'[c] = "enum_adapter_info"
      BY <2>0
    <2>4. SessionAt(c)'
      BY <2>0, <2>1, <2>2, <2>3
    <2>5. RequestAt(c)' /\ BlockAt(c)'
      BY <2>0, <2>1, <2>3
    <2>6. QED BY <2>4, <2>5, BlockOne
  <1>6. CASE BlockFails(c)
    BY <1>6, BlockOne DEF BlockFails, dnsVars
  <1>7. CASE EndBegin(c)
    <2>1. /\ pc[c] = "begin_failed" /\ pc' = [pc EXCEPT ![c] = "begin_clear"]
          /\ UNCHANGED <<engine, router, req>> /\ open' = open \ {engine}
      BY <1>7 DEF EndBegin, EndStep, FwpmEngineClose0
    <2>2. open' = {}
      BY <2>1
    <2>3. QED BY ZenonT(40), <2>1, <2>2, BlockOne
  <1>8. QED BY <1>1, <1>2, <1>3, <1>4, <1>5, <1>6, <1>7

\* The rest of configure_routing but for its loops.
LEMMA BlockConfigure ==
  ASSUME OneClient, TypeOK, DownInv, BlockInv, NEW c \in Clients,
         CheckRequest(c) \/ ClearHandle(c) \/ FindGateway(c) \/ EndConfigure(c) \/ StartMonitor(c)
  PROVE  BlockInv'
  <1> USE ConstantsOK
      DEF TypeOK, ClientTypeOK, DnsTypeOK, RouterType, BlockInv, RequestAt, SessionAt, BlockAt,
          ConfigurePcs, ResetPcs, InBegin, BeginCalls, InClear, GotoPc, SetResult
  <1>1. CASE CheckRequest(c)
    BY <1>1, BlockOne DEF CheckRequest, Break, dnsVars
  <1>2. CASE ClearHandle(c)
    <2>1. /\ engine' = NoSession /\ UNCHANGED <<open, blocks, allows, router, req, result>>
          /\ pc[c] \in InClear
          /\ \/ pc[c] = "begin_clear" /\ pc' = [pc EXCEPT ![c] = "configured"]
             \/ pc[c] = "configure_clear" /\ pc' = [pc EXCEPT ![c] = "net_status_start_monitor"]
             \/ pc[c] = "reset_clear" /\ pc' = [pc EXCEPT ![c] = "ZeroMemory"]
      BY <1>2 DEF ClearHandle, EndStep, ForgetEngine
    <2>2. QED BY <2>1, BlockOne
  <1>3. CASE FindGateway(c)
    <2>1. router'.proxy = req[c].proxy
      BY <1>3, FindGatewaySteps
    <2>2. /\ pc[c] = "enum_adapter_info" /\ UNCHANGED <<dnsVars, req>>
          /\ \E l \in {"configured", "add_ipv4_redirect"} : pc' = [pc EXCEPT ![c] = l]
      BY <1>3 DEF FindGateway, FoundGateway, Break, EnterLoop
    <2>3. SessionAt(c)'
      BY <2>2, SessionKept
    <2>4. RequestAt(c)' /\ BlockAt(c)'
      BY <2>1, <2>2 DEF dnsVars
    <2>5. QED BY <2>3, <2>4, BlockOne
  <1>4. CASE EndConfigure(c)
    <2>1. /\ pc[c] = "configured" /\ UNCHANGED <<router, req, result, engine>>
          /\ \/ result[c] # 0 /\ pc' = [pc EXCEPT ![c] = "configure_clear"] /\ open' = open \ {engine}
             \/ result[c] = 0 /\ pc' = [pc EXCEPT ![c] = "net_status_start_monitor"] /\ UNCHANGED dnsVars
      BY <1>4 DEF EndConfigure, EndStep, FwpmEngineClose0, dnsVars
    <2>2. QED BY <2>1, BlockOne DEF dnsVars
  <1>5. CASE StartMonitor(c)
    <2>1. router'.proxy = router.proxy
      BY <1>5 DEF StartMonitor
    <2>2. QED BY <1>5, <2>1, BlockOne DEF StartMonitor, dnsVars
  <1>6. QED BY <1>1, <1>2, <1>3, <1>4, <1>5

\* The loops over the routes, and the end of a reset.
LEMMA BlockLoops ==
  ASSUME OneClient, TypeOK, BlockInv, NEW c \in Clients,
         \/ add_ipv4_redirect(c) \/ stop_routing_ipv6(c) \/ add_or_update_proxy_route(c)
         \/ add_or_update_reserved_subnet_bypass(c)
         \/ remove_ipv4_redirect(c) \/ start_routing_ipv6(c) \/ delete_proxy_route(c)
         \/ remove_reserved_subnet_bypass(c) \/ EndReset(c) \/ ForgetRouter(c)
  PROVE  BlockInv'
  <1> USE DEF TypeOK, ClientTypeOK, DnsTypeOK, RouterType, BlockInv, RequestAt, SessionAt, BlockAt,
              ConfigurePcs, ResetPcs, InBegin, BeginCalls, InClear
  <1>1. CASE add_ipv4_redirect(c) \/ stop_routing_ipv6(c) \/ add_or_update_proxy_route(c)
               \/ add_or_update_reserved_subnet_bypass(c)
    <2> DEFINE Install4 == {"add_ipv4_redirect", "stop_routing_ipv6", "add_or_update_proxy_route",
                            "add_or_update_reserved_subnet_bypass"}
    <2>1. /\ pc[c] \in Install4
          /\ \E l \in Install4 \cup {"configured"} : pc' = [pc EXCEPT ![c] = l]
          /\ UNCHANGED <<dnsVars, router, req>>
      BY <1>1
      DEF add_ipv4_redirect, stop_routing_ipv6, add_or_update_proxy_route,
          add_or_update_reserved_subnet_bypass, InstallLoop
    <2>2. QED BY <2>1, BlockOne DEF dnsVars
  <1>2. CASE remove_ipv4_redirect(c) \/ start_routing_ipv6(c) \/ delete_proxy_route(c)
               \/ remove_reserved_subnet_bypass(c)
    <2> DEFINE Remove4 == {"remove_ipv4_redirect", "start_routing_ipv6", "delete_proxy_route",
                           "remove_reserved_subnet_bypass"}
    <2>1. /\ pc[c] \in Remove4
          /\ \E l \in Remove4 \cup {"end_smart_dns_block"} : pc' = [pc EXCEPT ![c] = l]
          /\ UNCHANGED <<dnsVars, router, req>>
      BY <1>2
      DEF remove_ipv4_redirect, start_routing_ipv6, delete_proxy_route,
          remove_reserved_subnet_bypass, AfterRemoval
    <2>2. QED BY <2>1, BlockOne DEF dnsVars
  <1>3. CASE EndReset(c)
    BY <1>3, BlockOne DEF EndReset, EndStep, FwpmEngineClose0, GotoPc
  <1>4. CASE ForgetRouter(c)
    BY <1>4, BlockOne DEF ForgetRouter, ZeroRouter, GotoPc, dnsVars
  <1>5. QED BY <1>1, <1>2, <1>3, <1>4

\* The invariant of the DNS block, for one client.
LEMMA BlockInvariant == ASSUME OneClient PROVE Spec => []BlockInv
  <1>1. TypeOK /\ DownInv /\ BlockInv /\ [Next]_vars => BlockInv'
    <2> SUFFICES ASSUME TypeOK, DownInv, BlockInv, [Next]_vars PROVE BlockInv'
      OBVIOUS
    <2>1. CASE UNCHANGED <<dnsVars, router, pc, req, result>>
      BY <2>1 DEF BlockInv, RequestAt, SessionAt, BlockAt, dnsVars
    <2>2. ASSUME NEW c \in Clients, Connect(c) \/ ClientLost(c) \/ ReadFile(c) \/ Handler(c)
          PROVE  BlockInv'
      BY <2>2, OneClient, BlockDispatch, BlockBegin, BlockConfigure, BlockLoops DEF Handler
    <2>3. QED
      BY <2>1, <2>2 DEF Next, MonitorThread, NetworkChanges, vars, clientVars
  <1>2. QED BY <1>1, BlockInit, TypeCorrect, DownInvariant, PTL DEF Spec

\* A reset always lifts the DNS block: handle_request does not take it for the reset of an
\* idle service while a session is open, and no session is open whose handle is lost.
THEOREM DnsBlockIsLiftable == ASSUME OneClient PROVE Spec => []DnsBlockLiftable
  <1>1. BlockInv => DnsBlockLiftable
    BY DEF OneClient, BlockInv, SessionAt, BlockAt, DnsBlockLiftable
  <1>2. QED BY <1>1, BlockInvariant, PTL

\* With one client a session never stands with one of its filters only, and a handle that
\* begin_smart_dns_block finds is that of a complete block, whatever call failed before.
THEOREM DnsBlockIsWhole == ASSUME OneClient PROVE Spec => []DnsBlockWhole
  <1>1. BlockInv => DnsBlockWhole
    BY DEF OneClient, BlockInv, SessionAt, DnsBlockWhole
  <1>2. QED BY <1>1, BlockInvariant, PTL

\* A configureRouting that is answered with an error has lifted the DNS block, wherever in
\* begin_smart_dns_block or after it the failure was.
THEOREM FailureLiftsTheDnsBlock == ASSUME OneClient PROVE Spec => []FailureLiftsDnsBlock
  <1>1. BlockInv => FailureLiftsDnsBlock
    BY DEF BlockInv, BlockAt, FailureLiftsDnsBlock, Answers
  <1>2. QED BY <1>1, BlockInvariant, PTL
---------------------------------------------------------------------------
(* The monitor. *)

\* A monitor's thread lives, or has ended and waits to be joined.
Alive(m) == thread[m] \in Running \cup {"exited"}

\* The monitor that lives is router_info's, and none does while a request is executed; the
\* one a thread joins, or finds when the next request comes, has not been freed.
MonitorAt(c) ==
  /\ pc[c] \notin Executing /\ router.monitor # NoMonitor => thread[router.monitor] # "none"
  /\ pc[c] \in Executing => \A m \in Monitors : ~Alive(m)
  /\ \A m \in Monitors : Alive(m) => m = router.monitor
  /\ pc[c] = "WaitForThread" => ctx[c] = router.monitor /\ ctx[c] \in Monitors /\ Alive(ctx[c])

MonitorInv == \A c \in Clients : MonitorAt(c)

\* The invariant holds when the service starts.
LEMMA MonitorInvInit == Init => MonitorInv
  BY DEF Init, MonitorInit, MonitorInv, MonitorAt, Alive, Running, ZeroRouter, Executing

\* With one client the invariant has to be shown for the thread that takes a step only.
LEMMA MonitorOne ==
  ASSUME OneClient, NEW c \in Clients, MonitorAt(c)'
  PROVE  MonitorInv'
  BY DEF OneClient, MonitorInv

\* The stop of the old monitor and the start of the next.
LEMMA MonitorStopStart ==
  ASSUME OneClient, TypeOK, MonitorInv, NEW c \in Clients,
         StopMonitor(c) \/ WaitForThread(c) \/ StartMonitor(c)
  PROVE  MonitorInv'
  <1> USE ConstantsOK
      DEF TypeOK, ClientTypeOK, MonitorTypeOK, RouterType, MonitorInv, MonitorAt, Alive, Running,
          ThreadStates, GotoPc
  <1>1. CASE StopMonitor(c)
    <2>1. UNCHANGED <<thread, router>>
      BY <1>1 DEF StopMonitor, SignalExit, monitorVars
    <2>2. CASE router.monitor # NoMonitor /\ thread[router.monitor] # "unborn"
      <3>1. /\ pc' = [pc EXCEPT ![c] = "WaitForThread"] /\ ctx' = [ctx EXCEPT ![c] = router.monitor]
            /\ pc[c] = "net_status_stop_monitor"
        BY <1>1, <2>2 DEF StopMonitor
      <3>2. QED BY <2>1, <2>2, <3>1, MonitorOne DEF Executing
    <2>3. CASE router.monitor = NoMonitor \/ thread[router.monitor] = "unborn"
      <3>1. /\ pc' = [pc EXCEPT ![c] = "handle_request"] /\ UNCHANGED ctx
            /\ pc[c] = "net_status_stop_monitor"
        BY <1>1, <2>3 DEF StopMonitor
      <3>2. QED BY <2>1, <2>3, <3>1, MonitorOne
    <2>4. QED BY <2>2, <2>3
  <1>2. CASE WaitForThread(c)
    <2>1. /\ thread' = [thread EXCEPT ![ctx[c]] = "none"] /\ UNCHANGED router
          /\ pc[c] = "WaitForThread" /\ pc' = [pc EXCEPT ![c] = "handle_request"]
      BY <1>2 DEF WaitForThread, JoinAndFree
    <2>2. \A m \in Monitors : ~Alive(m)'
      BY <2>1
    <2>3. QED BY <2>1, <2>2, MonitorOne DEF Executing, Labels
  <1>3. CASE StartMonitor(c)
    <2>1. PICK m \in Monitors, t \in {"sleep", "unborn"} :
            /\ thread' = [thread EXCEPT ![m] = t] /\ router' = [router EXCEPT !.monitor = m]
            /\ pc[c] = "net_status_start_monitor" /\ pc' = [pc EXCEPT ![c] = "Reply"]
      BY <1>3 DEF StartMonitor, net_status_start_monitor
    <2>2. \A n \in Monitors : Alive(n)' => n = m
      <3>1. pc[c] \in Executing
        BY <2>1 DEF Executing, Labels
      <3>2. \A n \in Monitors : ~Alive(n)
        BY <3>1
      <3>3. \A n \in Monitors : n # m => thread'[n] = thread[n]
        BY <2>1
      <3>4. QED BY <3>2, <3>3
    <2>3. QED BY <2>1, <2>2, MonitorOne DEF Executing
  <1>4. QED BY <1>1, <1>2, <1>3

\* Between the stop and the start the monitors are left alone.
LEMMA MonitorExecuting ==
  ASSUME OneClient, TypeOK, MonitorInv, NEW c \in Clients, UNCHANGED thread,
         pc[c] \in Executing, pc'[c] # "WaitForThread",
         pc'[c] \in Executing \/ router'.monitor = NoMonitor
  PROVE  MonitorInv'
  BY MonitorOne DEF MonitorInv, MonitorAt, Alive, Running

\* The handlers that neither stop nor start a monitor run between the two.
LEMMA MonitorHandler ==
  ASSUME OneClient, TypeOK, MonitorInv, NEW c \in Clients, Handler(c)
  PROVE  MonitorInv'
  <1> USE DEF TypeOK, ClientTypeOK, monitorVars, GotoPc, EnterLoop, Break, BlockStep, Executing, Labels
  <1>1. CASE StopMonitor(c) \/ WaitForThread(c) \/ StartMonitor(c)
    BY <1>1, MonitorStopStart
  <1>2. CASE HandleConfigure(c) \/ HandleReset(c) \/ HandleOther(c) \/ ForgetRouter(c)
    <2>1. CASE HandleConfigure(c) \/ HandleReset(c) \/ HandleOther(c)
      <3>1. router'.monitor = NoMonitor
        BY <2>1 DEF HandleConfigure, HandleReset, HandleOther, RouterType
      <3>2. QED BY <2>1, <3>1, MonitorExecuting DEF HandleConfigure, HandleReset, HandleOther
    <2>2. CASE ForgetRouter(c)
      BY <2>2, MonitorExecuting DEF ForgetRouter, ZeroRouter
    <2>3. QED BY <1>2, <2>1, <2>2
  <1>3. CASE \/ CheckRequest(c) \/ CheckEngine(c) \/ EngineOpen(c) \/ SubLayerAdd(c)
             \/ AddBlockFilter(c) \/ AddWhitelistFilter(c) \/ BlockFails(c) \/ EndBegin(c)
             \/ ClearHandle(c) \/ FindGateway(c) \/ EndConfigure(c) \/ EndReset(c)
    <2> USE DEF EndStep
    <2>1. UNCHANGED thread
      BY <1>3
      DEF CheckRequest, CheckEngine, EngineOpen, SubLayerAdd, AddBlockFilter, AddWhitelistFilter,
          BlockFails, EndBegin, ClearHandle, FindGateway, FoundGateway, EndConfigure, EndReset
    <2>2. CASE CheckRequest(c) \/ CheckEngine(c) \/ FindGateway(c)
      <3>1. pc[c] \in Executing /\ \E l \in Executing : pc' = [pc EXCEPT ![c] = l]
        BY <2>2 DEF CheckRequest, CheckEngine, FindGateway, FoundGateway
      <3>2. QED BY SMTT(30), <2>1, <3>1, MonitorExecuting
    <2>3. CASE EngineOpen(c) \/ SubLayerAdd(c) \/ AddBlockFilter(c) \/ AddWhitelistFilter(c) \/ BlockFails(c)
      <3>1. pc[c] \in Executing /\ \E l \in Executing : pc' = [pc EXCEPT ![c] = l]
        BY <2>3 DEF EngineOpen, SubLayerAdd, AddBlockFilter, AddWhitelistFilter, BlockFails, BeginCalls
      <3>2. QED BY <2>1, <3>1, MonitorExecuting
    <2>4. CASE EndBegin(c) \/ ClearHandle(c) \/ EndConfigure(c) \/ EndReset(c)
      <3>1. pc[c] \in Executing /\ \E l \in Executing : pc' = [pc EXCEPT ![c] = l]
        BY <2>4 DEF EndBegin, ClearHandle, EndConfigure, EndReset
      <3>2. QED BY <2>1, <3>1, MonitorExecuting
    <2>5. QED BY <1>3, <2>2, <2>3, <2>4
  <1>4. CASE add_ipv4_redirect(c) \/ stop_routing_ipv6(c) \/ add_or_update_proxy_route(c)
               \/ add_or_update_reserved_subnet_bypass(c)
    <2>1. /\ pc[c] \in Executing /\ UNCHANGED thread
          /\ \E l \in Executing : pc' = [pc EXCEPT ![c] = l]
      BY <1>4
      DEF add_ipv4_redirect, stop_routing_ipv6, add_or_update_proxy_route,
          add_or_update_reserved_subnet_bypass, InstallLoop
    <2>2. QED BY <2>1, MonitorExecuting
  <1>5. CASE remove_ipv4_redirect(c) \/ start_routing_ipv6(c) \/ delete_proxy_route(c)
               \/ remove_reserved_subnet_bypass(c)
    <2>1. /\ pc[c] \in Executing /\ UNCHANGED thread
          /\ \E l \in Executing : pc' = [pc EXCEPT ![c] = l]
      BY <1>5
      DEF remove_ipv4_redirect, start_routing_ipv6, delete_proxy_route,
          remove_reserved_subnet_bypass, AfterRemoval
    <2>2. QED BY <2>1, MonitorExecuting
  <1>6. CASE Reply(c)
    <2>1. UNCHANGED thread /\ router'.monitor = router.monitor
          /\ pc[c] = "Reply" /\ pc'[c] \in {"closed", "ReadFile"}
      BY <1>6 DEF Reply, RouterType
    <2>2. QED BY <2>1, MonitorOne DEF MonitorInv, MonitorAt, Alive
  <1>7. QED BY <1>1, <1>2, <1>3, <1>4, <1>5, <1>6 DEF Handler

\* The monitor's own steps: a thread that lives goes on or ends.
LEMMA MonitorThreadStep ==
  ASSUME TypeOK, MonitorInv, NEW m \in Monitors, MonitorThread(m)
  PROVE  MonitorInv'
  <1>1. /\ thread[m] \in Running
        /\ \E t \in Running \cup {"exited"} : thread' = [thread EXCEPT ![m] = t]
    BY DEF MonitorThread, WakeUp, Register, RegisterFails, OnAddrChange, OnExit, Goto, Running
  <1>2. \A n \in Monitors : /\ Alive(n)' <=> Alive(n)
                            /\ thread'[n] = "none" <=> thread[n] = "none"
    BY <1>1 DEF TypeOK, MonitorTypeOK, Alive, Running
  <1>3. UNCHANGED <<router, pc, ctx>>
    BY DEF MonitorThread, clientVars
  <1>4. router.monitor \in Monitors \cup {NoMonitor} /\ \A c \in Clients : ctx[c] \in Monitors \cup {NoMonitor}
    BY DEF TypeOK, RouterType, ClientTypeOK
  <1>5. QED BY <1>2, <1>3, <1>4 DEF MonitorInv, MonitorAt

\* The invariant of the monitors, for one client.
LEMMA MonitorInvariant == ASSUME OneClient PROVE Spec => []MonitorInv
  <1>1. TypeOK /\ MonitorInv /\ [Next]_vars => MonitorInv'
    <2> SUFFICES ASSUME TypeOK, MonitorInv, [Next]_vars PROVE MonitorInv'
      OBVIOUS
    <2>1. CASE UNCHANGED <<thread, router, pc, ctx>>
      BY <2>1 DEF MonitorInv, MonitorAt, Alive
    <2>2. ASSUME NEW c \in Clients, Connect(c) \/ ReadFile(c)
          PROVE  MonitorInv'
      <3>1. /\ UNCHANGED <<thread, router>> /\ pc[c] \in {"closed", "ReadFile"}
            /\ pc'[c] \in {"ReadFile", "net_status_stop_monitor"}
        BY <2>2 DEF Connect, ReadFile, GotoPc, monitorVars, TypeOK, ClientTypeOK
      <3>2. QED BY <3>1, OneClient, MonitorOne DEF MonitorInv, MonitorAt, Alive, Executing
    <2>3. ASSUME NEW c \in Clients, Handler(c)
          PROVE  MonitorInv'
      BY <2>3, OneClient, MonitorHandler
    <2>4. ASSUME NEW m \in Monitors, MonitorThread(m)
          PROVE  MonitorInv'
      BY <2>4, MonitorThreadStep
    <2>5. QED
      BY <2>1, <2>2, <2>3, <2>4
      DEF Next, ClientLost, NetworkChanges, AddressesChange, vars, clientVars, monitorVars
  <1>2. QED BY <1>1, MonitorInvInit, TypeCorrect, PTL DEF Spec

\* The notification never runs beside a request: the old monitor has been joined before
\* router_info is changed, and the next one is started after the last change.
THEOREM MonitorIsQuiescent == ASSUME OneClient PROVE Spec => []MonitorQuiescent
  <1>1. MonitorInv => MonitorQuiescent
    BY DEF MonitorInv, MonitorAt, Alive, MonitorQuiescent
  <1>2. QED BY <1>1, MonitorInvariant, PTL

\* No monitor's thread is lost: router_info keeps the one that lives until it is joined.
THEOREM NoMonitorIsStray == ASSUME OneClient PROVE Spec => []NoStrayMonitor
  <1>1. MonitorInv => NoStrayMonitor
    BY DEF OneClient, MonitorInv, MonitorAt, Alive, NoStrayMonitor
  <1>2. QED BY <1>1, MonitorInvariant, PTL

\* With one client the assertion of net_status_stop_monitor holds: no thread joins a monitor
\* that has been freed.
THEOREM StopOwnsTheMonitor == ASSUME OneClient PROVE Spec => []StopOwnsMonitor
  <1>1. MonitorInv => StopOwnsMonitor
    BY DEF MonitorInv, MonitorAt, Alive, Running, StopOwnsMonitor
  <1>2. QED BY <1>1, MonitorInvariant, PTL
---------------------------------------------------------------------------
(* The routes.  The invariants come in four parts: what a configureRouting  *)
(* has stored and chosen, how far its loops have come, where the bypass     *)
(* routes leave, and what a reset still finds.                              *)

InstallPcs ==
  {"add_ipv4_redirect", "stop_routing_ipv6", "add_or_update_proxy_route",
   "add_or_update_reserved_subnet_bypass"}
BeginPcs == InBegin \cup {"begin_smart_dns_block", "enum_adapter_info"}
BeforeGateway ==
  BeginPcs \cup {"net_status_stop_monitor", "WaitForThread", "handle_request", "configure_routing"}

\* A configureRouting has ended with the code 0, and the next request has not been read.
Finished(c) ==
  /\ result[c] = 0
  /\ \/ pc[c] \in {"configured", "net_status_start_monitor"}
     \/ pc[c] = "Reply" /\ req[c].action = "configureRouting"

\* It has found a gateway, too.
Succeeded(c) == Finished(c) /\ best[c] # NoGateway

\* The thread's gateway is found once per request; the device, the proxy and the gateway that
\* the loops use are this request's, and the DNS block stands.
GatewayAt(c) ==
  /\ pc[c] \in BeforeGateway => best[c] = NoGateway
  /\ pc[c] \in BeginPcs \cup InstallPcs \/ Finished(c) => router.tap \in Taps
  /\ pc[c] \in InstallPcs => router.gateway = best[c] /\ router.proxy = req[c].proxy
  /\ pc[c] \in InstallPcs \/ Finished(c) => req[c].proxy \in Proxies
  /\ pc[c] \in {"begin_failed", "begin_clear", "configure_clear"} => result[c] = -1
  /\ pc[c] \in {"enum_adapter_info"} \cup InstallPcs \/ Finished(c) => open # {}

GatewayInv == \A c \in Clients : GatewayAt(c)

\* The command that redirects a range has been answered with 0, unless the device is lost.
Tunnelled(c, i) ==
  router.tap \in lost[c] \/ Answered(Route(IPV4_SUBNETS[i], router.tap, router.tapHop))
Blocked6(j) == Answered(Route(IPV6_SUBNETS[j], Loopback, NoHop))

\* The loops have installed what is before their counter, and all of the tables before theirs.
TunnelAt(c) ==
  /\ pc[c] = "add_ipv4_redirect" => \A i \in DOMAIN IPV4_SUBNETS : i < step[c].i => Tunnelled(c, i)
  /\ pc[c] \in InstallPcs \ {"add_ipv4_redirect"} \/ Succeeded(c) =>
       \A i \in DOMAIN IPV4_SUBNETS : Tunnelled(c, i)
  /\ pc[c] = "stop_routing_ipv6" => \A j \in DOMAIN IPV6_SUBNETS : j < step[c].i => Blocked6(j)
  /\ pc[c] \in InstallPcs \ {"add_ipv4_redirect", "stop_routing_ipv6"} \/ Succeeded(c) =>
       \A j \in DOMAIN IPV6_SUBNETS : Blocked6(j)

TunnelInv == \A c \in Clients : TunnelAt(c)

\* A destination leaves by the gateway that the thread has found, unless that is lost.
Bypasses(c, d) == best[c].iface \in lost[c] \/ Answered(Route(d, best[c].iface, best[c].hop))

\* The same for the proxy and the reserved ranges.
BypassAt(c) ==
  /\ pc[c] = "add_or_update_reserved_subnet_bypass" \/ Succeeded(c) => Bypasses(c, req[c].proxy)
  /\ pc[c] = "add_or_update_reserved_subnet_bypass" =>
       \A i \in DOMAIN IPV4_RESERVED_SUBNETS : i < step[c].i => Bypasses(c, IPV4_RESERVED_SUBNETS[i])
  /\ Succeeded(c) => \A i \in DOMAIN IPV4_RESERVED_SUBNETS : Bypasses(c, IPV4_RESERVED_SUBNETS[i])

BypassInv == \A c \in Clients : BypassAt(c)

\* There is one TAP device.
OneDevice == \A s, t \in Taps : s = t

Traces4 == \E i \in DOMAIN IPV4_SUBNETS : Redirected(i)
Traces6 == \E j \in DOMAIN IPV6_SUBNETS : IPv6Blocked(j)

\* The first entry of the table that a loop at `label` has not deleted yet.
Low(c, label) == IF pc[c] = label THEN step[c].i ELSE 1

\* Where the redirects stand: all that the loop has counted, without a gap from the first one
\* that has not been deleted, none after the loop that deletes them, and none once router_info
\* has no proxy or no device.
RedirectsAt(c) ==
  /\ Traces4 => router.tap \in Taps /\ router.proxy # NoProxy
  /\ pc[c] = "add_ipv4_redirect" => \A j \in DOMAIN IPV4_SUBNETS : j < step[c].i => Redirected(j)
  /\ \A i \in DOMAIN IPV4_SUBNETS : Redirected(i) =>
       /\ Low(c, "remove_ipv4_redirect") <= i
       /\ \A j \in Low(c, "remove_ipv4_redirect")..i : Redirected(j)
  /\ pc[c] \in ResetPcs \ {"remove_ipv4_redirect"} => ~Traces4
  /\ pc[c] = "Reply" /\ req[c].action = "resetRouting" => ~Traces4

\* The same for the IPv6 routes.
IPv6BlockAt(c) ==
  /\ Traces6 => router.tap \in Taps /\ router.proxy # NoProxy
  /\ pc[c] = "stop_routing_ipv6" => \A j \in DOMAIN IPV6_SUBNETS : j < step[c].i => IPv6Blocked(j)
  /\ \A i \in DOMAIN IPV6_SUBNETS : IPv6Blocked(i) =>
       /\ Low(c, "start_routing_ipv6") <= i
       /\ \A j \in Low(c, "start_routing_ipv6")..i : IPv6Blocked(j)
  /\ pc[c] \in ResetPcs \ {"remove_ipv4_redirect", "start_routing_ipv6"} => ~Traces6
  /\ pc[c] = "Reply" /\ req[c].action = "resetRouting" => ~Traces6

\* Redirects leave by a TAP device.
RedirectsByTap == \A r \in table : r.dest \in Range(IPV4_SUBNETS) => r.iface \in Taps

RecoverInv ==
  /\ RedirectsByTap
  /\ astray \/ \A c \in Clients : RedirectsAt(c) /\ IPv6BlockAt(c)

\* The invariants have to be shown for the thread that takes a step only.
LEMMA RouteOne ==
  ASSUME OneClient, NEW c \in Clients
  PROVE  /\ GatewayAt(c)' => GatewayInv'
         /\ TunnelAt(c)' => TunnelInv'
         /\ BypassAt(c)' => BypassInv'
  BY DEF OneClient, GatewayInv, TunnelInv, BypassInv

---------------------------------------------------------------------------
(* What a configureRouting has stored and chosen. *)

LEMMA GatewayInit == Init => GatewayInv
  BY DEF Init, GatewayInv, GatewayAt, BeforeGateway, BeginPcs, InBegin, BeginCalls, InstallPcs,
         Finished

\* The pipe and the dispatch on the action.
LEMMA GatewayDispatch ==
  ASSUME OneClient, TypeOK, BlockInv, GatewayInv, NEW c \in Clients,
         \/ Connect(c) \/ ClientLost(c) \/ ReadFile(c) \/ Reply(c) \/ StopMonitor(c)
         \/ WaitForThread(c) \/ HandleConfigure(c) \/ HandleReset(c) \/ HandleOther(c)
  PROVE  GatewayInv'
  <1> USE DEF TypeOK, ClientTypeOK, RouterType, GatewayInv, GatewayAt, BeforeGateway, BeginPcs,
              InBegin, BeginCalls, InstallPcs, Finished, GotoPc, EnterLoop, SetResult, dnsVars
  <1>1. CASE Connect(c) \/ ClientLost(c)
    BY <1>1, RouteOne DEF Connect, ClientLost
  <1>2. CASE ReadFile(c)
    BY <1>2, RouteOne DEF ReadFile
  <1>3. CASE Reply(c)
    BY <1>3, RouteOne DEF Reply
  <1>4. CASE StopMonitor(c) \/ WaitForThread(c)
    BY <1>4, RouteOne DEF StopMonitor, WaitForThread
  <1>5. CASE HandleConfigure(c) \/ HandleOther(c)
    BY <1>5, RouteOne DEF HandleConfigure, HandleOther
  <1>6. CASE HandleReset(c)
    BY <1>6, RouteOne DEF HandleReset
  <1>7. QED BY <1>1, <1>2, <1>3, <1>4, <1>5, <1>6

\* configure_routing but for its loops.
LEMMA GatewayConfigure ==
  ASSUME OneClient, TypeOK, DownInv, BlockInv, GatewayInv, NEW c \in Clients,
         \/ CheckRequest(c) \/ CheckEngine(c) \/ EngineOpen(c) \/ SubLayerAdd(c) \/ AddBlockFilter(c)
         \/ AddWhitelistFilter(c) \/ BlockFails(c) \/ EndBegin(c) \/ ClearHandle(c) \/ FindGateway(c)
         \/ EndConfigure(c) \/ StartMonitor(c)
  PROVE  GatewayInv'
  <1> USE DEF TypeOK, ClientTypeOK, RouterType, GatewayInv, GatewayAt, BeforeGateway, BeginPcs,
              InBegin, BeginCalls, InstallPcs, Finished, GotoPc, EnterLoop, SetResult, Break, BlockStep,
              EndStep, Codes
  <1>1. CASE CheckRequest(c)
    BY SMTT(30), <1>1, RouteOne DEF CheckRequest, Request
  <1>2. CASE CheckEngine(c)
    <2>1. engine # NoSession => open # {}
      <3>1. pc[c] = "begin_smart_dns_block"
        BY <1>2 DEF CheckEngine
      <3>2. open = {engine} \ {NoSession}
        BY <3>1 DEF BlockInv, SessionAt, InClear
      <3>3. QED BY <3>2
    <2>2. /\ pc[c] = "begin_smart_dns_block" /\ UNCHANGED <<open, router, req, best>>
          /\ \/ pc' = [pc EXCEPT ![c] = "enum_adapter_info"] /\ engine # NoSession
             \/ pc' = [pc EXCEPT ![c] = "FwpmEngineOpen0"]
      BY <1>2 DEF CheckEngine, dnsVars
    <2>3. pc'[c] \in {"enum_adapter_info", "FwpmEngineOpen0"} /\ (pc'[c] = "enum_adapter_info" => open' # {})
      BY <2>1, <2>2
    <2>4. QED BY <2>2, <2>3, RouteOne
  <1>3. CASE EngineOpen(c) \/ SubLayerAdd(c) \/ AddBlockFilter(c)
    BY <1>3, RouteOne DEF EngineOpen, SubLayerAdd, AddBlockFilter
  <1>4. CASE AddWhitelistFilter(c)
    BY <1>4, RouteOne DEF AddWhitelistFilter, WhitelistTap
  <1>5. CASE BlockFails(c) \/ EndBegin(c)
    BY <1>5, RouteOne DEF BlockFails, EndBegin
  <1>6. CASE ClearHandle(c)
    <2>1. pc[c] = "reset_clear" => req[c].action = "resetRouting"
      BY DEF BlockInv, RequestAt, ResetPcs
    <2>2. QED BY <1>6, <2>1, RouteOne DEF ClearHandle, ForgetEngine
  <1>7. CASE FindGateway(c)
    <2>1. req[c].proxy \in Proxies
      BY ZenonT(40), <1>7 DEF FindGateway, FoundGateway, BlockInv, RequestAt, Request
    <2>2. router.tap \in Taps /\ open # {} /\ best[c] = NoGateway /\ UNCHANGED <<open, req>>
      BY <1>7 DEF FindGateway, FoundGateway, dnsVars
    <2>3. router'.tap = router.tap /\ router'.proxy = req[c].proxy
      BY FindGatewaySteps, <1>7
    <2>4. CASE pc' = [pc EXCEPT ![c] = "configured"]
      BY <2>1, <2>2, <2>3, <2>4, RouteOne
    <2>5. CASE pc' = [pc EXCEPT ![c] = "add_ipv4_redirect"] /\ router'.gateway = best'[c]
      BY <2>1, <2>2, <2>3, <2>5, RouteOne
    <2>6. QED BY SMTT(30), <2>4, <2>5, <1>7, FindGatewaySteps
  <1>8. CASE EndConfigure(c)
    <2>1. /\ pc[c] = "configured" /\ UNCHANGED <<router, req, result>>
          /\ \/ result[c] # 0 /\ pc' = [pc EXCEPT ![c] = "configure_clear"]
             \/ result[c] = 0 /\ pc' = [pc EXCEPT ![c] = "net_status_start_monitor"] /\ UNCHANGED open
      BY <1>8 DEF EndConfigure, dnsVars
    <2>2. QED BY <2>1, RouteOne
  <1>9. CASE StartMonitor(c)
    <2>1. router'.tap = router.tap
      BY <1>9 DEF StartMonitor
    <2>2. QED BY <1>9, <2>1, RouteOne DEF StartMonitor, dnsVars
  <1>10. QED BY <1>1, <1>2, <1>3, <1>4, <1>5, <1>6, <1>7, <1>8, <1>9

\* The loops over the routes, and the end of a reset.
LEMMA GatewayLoops ==
  ASSUME OneClient, TypeOK, BlockInv, GatewayInv, NEW c \in Clients,
         \/ add_ipv4_redirect(c) \/ stop_routing_ipv6(c) \/ add_or_update_proxy_route(c)
         \/ add_or_update_reserved_subnet_bypass(c)
         \/ remove_ipv4_redirect(c) \/ start_routing_ipv6(c) \/ delete_proxy_route(c)
         \/ remove_reserved_subnet_bypass(c) \/ EndReset(c) \/ ForgetRouter(c)
  PROVE  GatewayInv'
  <1> USE DEF TypeOK, ClientTypeOK, GatewayInv, GatewayAt, BeforeGateway, BeginPcs,
              InBegin, BeginCalls, InstallPcs, Finished, dnsVars
  <1>1. CASE add_ipv4_redirect(c) \/ stop_routing_ipv6(c) \/ add_or_update_proxy_route(c)
               \/ add_or_update_reserved_subnet_bypass(c)
    <2>1. /\ pc[c] \in InstallPcs
          /\ \E l \in InstallPcs \cup {"configured"} : pc' = [pc EXCEPT ![c] = l]
          /\ UNCHANGED <<dnsVars, router, req, best>>
      BY <1>1
      DEF add_ipv4_redirect, stop_routing_ipv6, add_or_update_proxy_route,
          add_or_update_reserved_subnet_bypass, InstallLoop
    <2>2. QED BY SMTT(30), <2>1, RouteOne
  <1>2. CASE remove_ipv4_redirect(c) \/ start_routing_ipv6(c) \/ delete_proxy_route(c)
               \/ remove_reserved_subnet_bypass(c)
    <2> DEFINE Remove4 == {"remove_ipv4_redirect", "start_routing_ipv6", "delete_proxy_route",
                           "remove_reserved_subnet_bypass"}
    <2>1. /\ pc[c] \in Remove4
          /\ \E l \in Remove4 \cup {"end_smart_dns_block"} : pc' = [pc EXCEPT ![c] = l]
      BY <1>2
      DEF remove_ipv4_redirect, start_routing_ipv6, delete_proxy_route,
          remove_reserved_subnet_bypass, AfterRemoval
    <2>2. QED BY <2>1, RouteOne
  <1>3. CASE EndReset(c)
    BY <1>3, RouteOne DEF EndReset, EndStep, GotoPc
  <1>4. CASE ForgetRouter(c)
    <2>1. req[c].action = "resetRouting"
      BY <1>4 DEF ForgetRouter, GotoPc, BlockInv, RequestAt, ResetPcs
    <2>2. QED BY <1>4, <2>1, RouteOne DEF ForgetRouter, GotoPc
  <1>5. QED BY <1>1, <1>2, <1>3, <1>4

LEMMA GatewayInvariant == ASSUME OneClient PROVE Spec => []GatewayInv
  <1>1. TypeOK /\ DownInv /\ BlockInv /\ GatewayInv /\ [Next]_vars => GatewayInv'
    <2> SUFFICES ASSUME TypeOK, DownInv, BlockInv, GatewayInv, [Next]_vars PROVE GatewayInv'
      OBVIOUS
    <2>1. CASE UNCHANGED <<dnsVars, router, pc, req, result, best>>
      BY <2>1 DEF GatewayInv, GatewayAt, Finished, dnsVars
    <2>2. ASSUME NEW c \in Clients, Connect(c) \/ ClientLost(c) \/ ReadFile(c) \/ Handler(c)
          PROVE  GatewayInv'
      BY <2>2, OneClient, GatewayDispatch, GatewayConfigure, GatewayLoops DEF Handler
    <2>3. QED
      BY <2>1, <2>2 DEF Next, MonitorThread, NetworkChanges, vars, clientVars
  <1>2. QED BY <1>1, GatewayInit, TypeCorrect, DownInvariant, BlockInvariant, PTL DEF Spec
---------------------------------------------------------------------------
(* What the commands and the network do to the routes. *)

Range4 == Range(IPV4_SUBNETS)
Range6 == Range(IPV6_SUBNETS)

\* A step touches neither the redirects nor the IPv6 routes, ...
SameTunnel == \A q : q.dest \in Range4 \cup Range6 => (q \in table' <=> q \in table)

\* ... or leaves what has been answered for them.
KeepsTunnel == \A q : q.dest \in Range4 \cup Range6 /\ Answered(q) => Answered(q)'

\* An installation that is answered with 0 leaves its route or remembers that it does not; it
\* takes nothing away but, with "route change", a route to the same destination; and it
\* adds nothing else.
LEMMA InstallEffect ==
  ASSUME NEW cmd, NEW r, NEW code, Install(cmd, r, code)
  PROVE  /\ code = 0 => r \in table' \cup unmade'
         /\ \A q \in table' : q \in table \/ q = r
         /\ \A q \in table : q.dest # r.dest \/ q = r \/ cmd # "route_change" => q \in table'
         /\ \A q \in unmade : q \in table' \cup unmade'
         /\ \A q \in unmade' : q \in unmade \/ (q = r /\ code = 0)
         /\ r \in unmade' /\ r.dest \in Range4 \cup Range6 => astray'
         /\ astray => astray'
  <1>1. /\ \A q \in table' : q \in table \/ q = r
        /\ \A q \in table : q.dest # r.dest \/ q = r \/ cmd # "route_change" => q \in table'
    <2> USE DEF run_command
    <2>1. CASE cmd = "netsh_add" /\ NetshAdd(r, code)
      BY <2>1 DEF NetshAdd
    <2>2. CASE cmd = "netsh_set" /\ NetshSet(r, code)
      BY <2>2 DEF NetshSet
    <2>3. CASE cmd = "route_change" /\ RouteChange(r, code)
      BY <2>3 DEF RouteChange, To
    <2>4. QED BY <2>1, <2>2, <2>3 DEF Install
  <1>2. /\ unmade' = (unmade \cup (IF code = 0 THEN {r} ELSE {})) \ table'
        /\ astray' = (astray \/ (r \in unmade' /\ r.dest \in Range4 \cup Range6))
    BY DEF Install, Range4, Range6
  <1>3. /\ code = 0 => r \in table' \cup unmade'
        /\ \A q \in unmade : q \in table' \cup unmade'
    BY <1>2
  <1>4. \A q \in unmade' : q \in unmade \/ (q = r /\ code = 0)
    BY <1>2
  <1>5. (r \in unmade' /\ r.dest \in Range4 \cup Range6 => astray') /\ (astray => astray')
    BY <1>2
  <1>6. QED BY <1>1, <1>3, <1>4, <1>5

\* A deletion takes away nothing else than it is asked to; unless something is remembered as
\* gone astray, it takes all of it, and is answered with 0 exactly if that is something.
LEMMA DeleteEffect ==
  ASSUME NEW gone, NEW code \in Codes, Delete(gone, code)
  PROVE  /\ \A q \in table' : q \in table
         /\ \A q \in table : q \notin gone => q \in table'
         /\ gone = {} => UNCHANGED table
         /\ astray' \/ table' = table \ gone \/ gone = {}
         /\ gone # {} => astray' \/ code = 0
         /\ astray => astray'
         /\ UNCHANGED unmade
  <1>1. /\ \A q \in table' : q \in table
        /\ \A q \in table : q \notin gone => q \in table'
        /\ gone = {} => UNCHANGED table
        /\ table' = table \ gone \/ UNCHANGED table
    BY DEF Delete, run_command
  <1>2. astray' = (astray \/ (gone # {} /\ (code # 0 \/ UNCHANGED table))) /\ UNCHANGED unmade
    BY DEF Delete
  <1>3. QED BY <1>1, <1>2

\* The ranges of the tunnel are not those of other routes.
LEMMA Apart ==
  /\ DefaultDest \notin Range4 \cup Range6
  /\ \A p \in Proxies : p \notin Range4 \cup Range6
  /\ \A i \in DOMAIN IPV4_RESERVED_SUBNETS : IPV4_RESERVED_SUBNETS[i] \notin Range4 \cup Range6
  /\ \A i \in DOMAIN IPV4_SUBNETS : IPV4_SUBNETS[i] \in Range4 /\ IPV4_SUBNETS[i] \notin Range6
  /\ \A j \in DOMAIN IPV6_SUBNETS : IPV6_SUBNETS[j] \in Range6 /\ IPV6_SUBNETS[j] \notin Range4
  BY RoutesApart DEF Range4, Range6, Range

\* An installation to another destination touches no route of the tunnel.
LEMMA InstallOutside ==
  ASSUME NEW cmd, NEW r, NEW code, Install(cmd, r, code), r.dest \notin Range4 \cup Range6
  PROVE  SameTunnel /\ KeepsTunnel /\ (RedirectsByTap => RedirectsByTap')
  BY InstallEffect DEF SameTunnel, KeepsTunnel, Answered, RedirectsByTap, Range4

\* Nor does a deletion.
LEMMA DeleteOutside ==
  ASSUME NEW gone, NEW code \in Codes, Delete(gone, code),
         \A q \in gone : q.dest \notin Range4 \cup Range6
  PROVE  SameTunnel
  BY DeleteEffect DEF SameTunnel

\* A deletion adds no redirect.
LEMMA DeleteByTap ==
  ASSUME NEW gone, NEW code \in Codes, Delete(gone, code), RedirectsByTap
  PROVE  RedirectsByTap'
  BY DeleteEffect DEF RedirectsByTap

\* The network adds default routes only; what it takes away is one, or left by an adapter that
\* the threads remember as lost.
LEMMA NetworkEffect ==
  ASSUME TypeOK, NetworkChanges
  PROVE  /\ \A q \in table' : q \in table \/ q.dest = DefaultDest
         /\ \A q \in table : \/ q \in table' \/ q.dest = DefaultDest
                             \/ q.iface \in Adapters /\ \A c \in Clients : q.iface \in lost'[c]
         /\ \A c \in Clients : lost[c] \subseteq lost'[c]
         /\ UNCHANGED unmade
  <1>1. UNCHANGED unmade /\ DOMAIN lost = Clients
    BY DEF NetworkChanges, TypeOK, NetTypeOK
  <1>2. CASE \E a \in Adapters : table' = {r \in table : r.iface # a}
                                /\ lost' = [c \in Clients |-> lost[c] \cup {a}]
    BY <1>1, <1>2
  <1>3. CASE \E a \in down : table' = table \cup DefaultRoutes(a) /\ UNCHANGED lost
    BY <1>1, <1>3 DEF DefaultRoutes, Route
  <1>4. CASE \E g \in Gateways :
               LET default == Route(DefaultDest, g.iface, g.hop)
               IN table' \in {table \cup {default}, table \ {default}} /\ UNCHANGED lost
    BY <1>1, <1>4 DEF Route
  <1>5. QED BY <1>2, <1>3, <1>4 DEF NetworkChanges

\* It touches no route of the tunnel but those of a TAP device that goes down.
LEMMA NetworkTunnel ==
  ASSUME TypeOK, NetworkChanges, UNCHANGED router, NEW c \in Clients
  PROVE  /\ \A i \in DOMAIN IPV4_SUBNETS : Tunnelled(c, i) => Tunnelled(c, i)'
         /\ \A j \in DOMAIN IPV6_SUBNETS : Blocked6(j) => Blocked6(j)'
  <1>1. ASSUME NEW i \in DOMAIN IPV4_SUBNETS, Tunnelled(c, i)
        PROVE  Tunnelled(c, i)'
    <2> DEFINE r == Route(IPV4_SUBNETS[i], router.tap, router.tapHop)
    <2>1. r.dest # DefaultDest /\ r.iface = router.tap
      BY Apart DEF Route
    <2>2. CASE router.tap \in lost[c]
      BY <2>2, NetworkEffect DEF Tunnelled
    <2>3. CASE Answered(r)
      BY <2>1, <2>3, NetworkEffect DEF Tunnelled, Answered
    <2>4. QED BY <1>1, <2>2, <2>3 DEF Tunnelled
  <1>2. ASSUME NEW j \in DOMAIN IPV6_SUBNETS, Blocked6(j)
        PROVE  Blocked6(j)'
    <2> DEFINE r == Route(IPV6_SUBNETS[j], Loopback, NoHop)
    <2>1. r.dest # DefaultDest /\ r.iface = Loopback
      BY Apart DEF Route
    <2>2. Loopback \notin Adapters
      BY RoutesApart DEF Adapters
    <2>3. QED BY <1>2, <2>1, <2>2, NetworkEffect DEF Blocked6, Answered
  <1>3. QED BY <1>1, <1>2

\* It adds no redirect.
LEMMA NetworkByTap ==
  ASSUME TypeOK, NetworkChanges, RedirectsByTap
  PROVE  RedirectsByTap'
  BY NetworkEffect, Apart DEF RedirectsByTap, Range4

\* What has been answered for the tunnel still is after a step that keeps it.
LEMMA TunnelKept ==
  ASSUME KeepsTunnel, router'.tap = router.tap, router'.tapHop = router.tapHop,
         NEW c \in Clients, lost'[c] = lost[c]
  PROVE  /\ \A i \in DOMAIN IPV4_SUBNETS : Tunnelled(c, i) => Tunnelled(c, i)'
         /\ \A j \in DOMAIN IPV6_SUBNETS : Blocked6(j) => Blocked6(j)'
  <1>1. ASSUME NEW i \in DOMAIN IPV4_SUBNETS, Tunnelled(c, i)
        PROVE  Tunnelled(c, i)'
    <2>1. Route(IPV4_SUBNETS[i], router.tap, router.tapHop).dest \in Range4
      BY Apart DEF Route
    <2>2. QED BY <1>1, <2>1 DEF KeepsTunnel, Tunnelled, Route
  <1>2. ASSUME NEW j \in DOMAIN IPV6_SUBNETS, Blocked6(j)
        PROVE  Blocked6(j)'
    <2>1. Route(IPV6_SUBNETS[j], Loopback, NoHop).dest \in Range6
      BY Apart DEF Route
    <2>2. QED BY <1>2, <2>1 DEF KeepsTunnel, Blocked6, Route
  <1>3. QED BY <1>1, <1>2

\* The commands of the first two loops keep it.
LEMMA NetshKeeps ==
  ASSUME NEW cmd, NEW r, NEW code, Install(cmd, r, code), cmd # "route_change"
  PROVE  KeepsTunnel
  BY InstallEffect DEF KeepsTunnel, Answered

\* A loop's counter points into its table.
LEMMA LoopIndex ==
  ASSUME TypeOK, NEW c \in Clients
  PROVE  /\ step[c].i \in Nat \ {0} /\ step[c].try \in {1, 2}
         /\ pc[c] \in {"add_ipv4_redirect", "remove_ipv4_redirect"} => step[c].i \in DOMAIN IPV4_SUBNETS
         /\ pc[c] \in {"stop_routing_ipv6", "start_routing_ipv6"} => step[c].i \in DOMAIN IPV6_SUBNETS
         /\ pc[c] = "add_or_update_reserved_subnet_bypass" => step[c].i \in DOMAIN IPV4_RESERVED_SUBNETS
         /\ pc[c] = "add_or_update_proxy_route" => step[c].i = 1
  <1>1. step[c] \in Steps /\ step[c].i <= LoopLength(pc[c])
    BY DEF TypeOK, ClientTypeOK, IndexOK, Steps
  <1>2. QED BY <1>1, Lengths DEF LoopLength, Steps

---------------------------------------------------------------------------
(* How far the loops have come. *)

LEMMA TunnelInit == Init => TunnelInv
  BY DEF Init, TunnelInv, TunnelAt, InstallPcs, Succeeded, Finished

\* Outside the loops and the success there is nothing to show.
LEMMA TunnelIdle ==
  ASSUME OneClient, NEW c \in Clients, pc'[c] \notin InstallPcs, ~Succeeded(c)'
  PROVE  TunnelInv'
  BY RouteOne DEF TunnelAt, InstallPcs

\* Everything that is not part of the loops or after them.
LEMMA TunnelElsewhere ==
  ASSUME OneClient, TypeOK, BlockInv, GatewayInv, NEW c \in Clients,
         \/ Connect(c) \/ ReadFile(c) \/ Reply(c) \/ StopMonitor(c) \/ WaitForThread(c)
         \/ HandleConfigure(c) \/ HandleReset(c) \/ HandleOther(c)
         \/ CheckRequest(c) \/ CheckEngine(c) \/ EngineOpen(c) \/ SubLayerAdd(c) \/ AddBlockFilter(c)
         \/ AddWhitelistFilter(c) \/ BlockFails(c) \/ EndBegin(c) \/ ClearHandle(c)
         \/ remove_ipv4_redirect(c) \/ start_routing_ipv6(c) \/ delete_proxy_route(c)
         \/ remove_reserved_subnet_bypass(c) \/ EndReset(c) \/ ForgetRouter(c)
  PROVE  pc'[c] \notin InstallPcs /\ ~Succeeded(c)'
  <1> USE DEF TypeOK, ClientTypeOK, InstallPcs, Succeeded, Finished, GotoPc, EnterLoop, SetResult,
              Break, BlockStep, EndStep
  <1>1. CASE Connect(c) \/ ReadFile(c) \/ Reply(c) \/ StopMonitor(c) \/ WaitForThread(c)
    BY <1>1 DEF Connect, ReadFile, Reply, StopMonitor, WaitForThread
  <1>2. CASE HandleConfigure(c) \/ HandleReset(c) \/ HandleOther(c)
    BY <1>2 DEF HandleConfigure, HandleReset, HandleOther
  <1>3. CASE CheckRequest(c) \/ CheckEngine(c) \/ EngineOpen(c) \/ SubLayerAdd(c) \/ AddBlockFilter(c)
    BY <1>3 DEF CheckRequest, CheckEngine, EngineOpen, SubLayerAdd, AddBlockFilter
  <1>4. CASE AddWhitelistFilter(c) \/ BlockFails(c) \/ EndBegin(c)
    BY <1>4 DEF AddWhitelistFilter, BlockFails, EndBegin
  <1>clear. CASE ClearHandle(c)
    <2>1. pc[c] \in {"begin_clear", "configure_clear"} => result[c] = -1
      BY DEF GatewayInv, GatewayAt
    <2>2. QED BY <1>clear, <2>1 DEF ClearHandle
  <1>5. CASE remove_ipv4_redirect(c) \/ start_routing_ipv6(c) \/ delete_proxy_route(c)
               \/ remove_reserved_subnet_bypass(c)
    <2>1. pc'[c] \in {"remove_ipv4_redirect", "start_routing_ipv6", "delete_proxy_route",
                      "remove_reserved_subnet_bypass", "end_smart_dns_block"}
      BY <1>5
      DEF remove_ipv4_redirect, start_routing_ipv6, delete_proxy_route,
          remove_reserved_subnet_bypass, AfterRemoval
    <2>2. QED BY <2>1
  <1>6. CASE EndReset(c) \/ ForgetRouter(c)
    <2>1. pc'[c] \in {"reset_clear", "Reply"} /\ req'[c].action = "resetRouting"
      BY <1>6 DEF EndReset, ForgetRouter, BlockInv, RequestAt, ResetPcs
    <2>2. QED BY <2>1
  <1>7. QED BY <1>1, <1>2, <1>3, <1>4, <1>clear, <1>5, <1>6

\* The first two loops install the route at their counter before they move it.
LEMMA TunnelRedirect ==
  ASSUME OneClient, TypeOK, TunnelInv, NEW c \in Clients, add_ipv4_redirect(c)
  PROVE  TunnelInv'
  <1> DEFINE cmds == <<"netsh_add", "netsh_set">>
  <1>1. PICK code \in Codes :
          InstallStep(c, "add_ipv4_redirect", RedirectRoutes, cmds, "stop_routing_ipv6", code)
    BY InstallSteps DEF add_ipv4_redirect
  <1>2. UNCHANGED <<router, best, req, lost>> /\ pc[c] = "add_ipv4_redirect"
    BY DEF add_ipv4_redirect, InstallLoop, netVars
  <1>3. PICK i \in DOMAIN IPV4_SUBNETS : i = step[c].i
    BY <1>2, LoopIndex
  <1>try. step[c].try \in {1, 2}
    BY <1>2, LoopIndex
  <1>4. RedirectRoutes[i] = Route(IPV4_SUBNETS[i], router.tap, router.tapHop)
    BY <1>3 DEF RedirectRoutes
  <1>5. Len(RedirectRoutes) = Len(IPV4_SUBNETS)
    BY Lengths DEF RedirectRoutes
  <1>6. Install(cmds[step[c].try], RedirectRoutes[i], code) /\ cmds[step[c].try] # "route_change"
    BY <1>1, <1>3, <1>try DEF InstallStep
  <1>7. code = 0 => Tunnelled(c, i)'
    BY <1>2, <1>4, <1>6, InstallEffect DEF Tunnelled, Answered
  <1>8. KeepsTunnel
    BY <1>6, NetshKeeps
  <1>9. \A k \in DOMAIN IPV4_SUBNETS : k < i => Tunnelled(c, k)'
    BY <1>2, <1>3, <1>8, TunnelKept DEF TunnelInv, TunnelAt
  <1>10. DOMAIN IPV4_SUBNETS = 1..Len(IPV4_SUBNETS) /\ Len(IPV4_SUBNETS) \in Nat
    BY Lengths
  <1>11. /\ DOMAIN pc = Clients /\ DOMAIN step = Clients /\ DOMAIN result = Clients
    BY DEF TypeOK, ClientTypeOK
  <1>12. CASE code = 0 /\ i = Len(IPV4_SUBNETS) /\ pc' = [pc EXCEPT ![c] = "stop_routing_ipv6"]
              /\ step' = [step EXCEPT ![c] = FirstTry]
    <2>1. \A k \in DOMAIN IPV4_SUBNETS : Tunnelled(c, k)'
      BY <1>7, <1>9, <1>10, <1>12
    <2>2. pc'[c] = "stop_routing_ipv6" /\ step'[c].i = 1
      BY <1>11, <1>12 DEF FirstTry
    <2>3. \A j \in DOMAIN IPV6_SUBNETS : ~(j < 1)
      BY Lengths
    <2>4. TunnelAt(c)'
      BY <2>1, <2>2, <2>3 DEF TunnelAt, Succeeded, Finished
    <2>5. QED BY <2>4, RouteOne
  <1>13. CASE code = 0 /\ pc' = [pc EXCEPT ![c] = "add_ipv4_redirect"]
              /\ step' = [step EXCEPT ![c] = [i |-> step[c].i + 1, try |-> 1]]
    <2>1. pc'[c] = "add_ipv4_redirect" /\ step'[c].i = i + 1
      BY <1>3, <1>11, <1>13
    <2>2. \A k \in DOMAIN IPV4_SUBNETS : k < i + 1 => Tunnelled(c, k)'
      BY <1>7, <1>9, <1>3, <1>10, <1>13
    <2>3. TunnelAt(c)'
      BY <2>1, <2>2 DEF TunnelAt, Succeeded, Finished
    <2>4. QED BY <2>3, RouteOne
  <1>14. CASE code = -1 /\ pc' = [pc EXCEPT ![c] = "configured"]
    <2>1. pc'[c] = "configured" /\ result'[c] = -1
      BY <1>1, <1>11, <1>14 DEF InstallStep
    <2>2. QED BY <2>1, TunnelIdle DEF Succeeded, Finished, InstallPcs
  <1>15. CASE code = -1 /\ pc' = [pc EXCEPT ![c] = "add_ipv4_redirect"]
              /\ step' = [step EXCEPT ![c] = [i |-> step[c].i, try |-> 2]]
    <2>1. pc'[c] = "add_ipv4_redirect" /\ step'[c].i = i
      BY <1>3, <1>11, <1>15
    <2>2. TunnelAt(c)'
      BY <1>9, <2>1 DEF TunnelAt, Succeeded, Finished
    <2>3. QED BY <2>2, RouteOne
  <1>16. QED BY <1>1, <1>3, <1>5, <1>12, <1>13, <1>14, <1>15 DEF InstallStep

LEMMA TunnelIPv6 ==
  ASSUME OneClient, TypeOK, TunnelInv, NEW c \in Clients, stop_routing_ipv6(c)
  PROVE  TunnelInv'
  <1> DEFINE cmds == <<"netsh_add", "netsh_set">>
  <1>1. PICK code \in Codes :
          InstallStep(c, "stop_routing_ipv6", IPv6Routes, cmds, "add_or_update_proxy_route", code)
    BY InstallSteps DEF stop_routing_ipv6
  <1>2. UNCHANGED <<router, best, req, lost>> /\ pc[c] = "stop_routing_ipv6"
    BY DEF stop_routing_ipv6, InstallLoop, netVars
  <1>3. PICK i \in DOMAIN IPV6_SUBNETS : i = step[c].i
    BY <1>2, LoopIndex
  <1>try. step[c].try \in {1, 2}
    BY <1>2, LoopIndex
  <1>4. IPv6Routes[i] = Route(IPV6_SUBNETS[i], Loopback, NoHop)
    BY <1>3 DEF IPv6Routes
  <1>5. Len(IPv6Routes) = Len(IPV6_SUBNETS)
    BY Lengths DEF IPv6Routes
  <1>6. Install(cmds[step[c].try], IPv6Routes[i], code) /\ cmds[step[c].try] # "route_change"
    BY <1>1, <1>3, <1>try DEF InstallStep
  <1>7. code = 0 => Blocked6(i)'
    BY <1>2, <1>4, <1>6, InstallEffect DEF Blocked6, Answered
  <1>8. KeepsTunnel
    BY <1>6, NetshKeeps
  <1>9. /\ \A k \in DOMAIN IPV6_SUBNETS : k < i => Blocked6(k)'
        /\ \A k \in DOMAIN IPV4_SUBNETS : Tunnelled(c, k)'
    BY <1>2, <1>3, <1>8, TunnelKept DEF TunnelInv, TunnelAt, InstallPcs
  <1>10. DOMAIN IPV6_SUBNETS = 1..Len(IPV6_SUBNETS) /\ Len(IPV6_SUBNETS) \in Nat
    BY Lengths
  <1>11. /\ DOMAIN pc = Clients /\ DOMAIN step = Clients /\ DOMAIN result = Clients
    BY DEF TypeOK, ClientTypeOK
  <1>12. CASE code = 0 /\ i = Len(IPV6_SUBNETS) /\ pc' = [pc EXCEPT ![c] = "add_or_update_proxy_route"]
    <2>1. \A k \in DOMAIN IPV6_SUBNETS : Blocked6(k)'
      BY <1>7, <1>9, <1>10, <1>12
    <2>2. pc'[c] = "add_or_update_proxy_route"
      BY <1>11, <1>12
    <2>3. TunnelAt(c)'
      BY <1>9, <2>1, <2>2 DEF TunnelAt, Succeeded, Finished
    <2>4. QED BY <2>3, RouteOne
  <1>13. CASE code = 0 /\ pc' = [pc EXCEPT ![c] = "stop_routing_ipv6"]
              /\ step' = [step EXCEPT ![c] = [i |-> step[c].i + 1, try |-> 1]]
    <2>1. pc'[c] = "stop_routing_ipv6" /\ step'[c].i = i + 1
      BY <1>3, <1>11, <1>13
    <2>2. \A k \in DOMAIN IPV6_SUBNETS : k < i + 1 => Blocked6(k)'
      BY <1>7, <1>9, <1>3, <1>10, <1>13
    <2>3. TunnelAt(c)'
      BY <1>9, <2>1, <2>2 DEF TunnelAt, Succeeded, Finished
    <2>4. QED BY <2>3, RouteOne
  <1>14. CASE code = -1 /\ pc' = [pc EXCEPT ![c] = "configured"]
    <2>1. pc'[c] = "configured" /\ result'[c] = -1
      BY <1>1, <1>11, <1>14 DEF InstallStep
    <2>2. QED BY <2>1, TunnelIdle DEF Succeeded, Finished, InstallPcs
  <1>15. CASE code = -1 /\ pc' = [pc EXCEPT ![c] = "stop_routing_ipv6"]
              /\ step' = [step EXCEPT ![c] = [i |-> step[c].i, try |-> 2]]
    <2>1. pc'[c] = "stop_routing_ipv6" /\ step'[c].i = i
      BY <1>3, <1>11, <1>15
    <2>2. TunnelAt(c)'
      BY <1>9, <2>1 DEF TunnelAt, Succeeded, Finished
    <2>3. QED BY <2>2, RouteOne
  <1>16. QED BY <1>1, <1>3, <1>5, <1>12, <1>13, <1>14, <1>15 DEF InstallStep

\* The other two change routes to the proxy and the reserved ranges.
LEMMA BypassOutside ==
  ASSUME TypeOK, GatewayInv, NEW c \in Clients,
         add_or_update_proxy_route(c) \/ add_or_update_reserved_subnet_bypass(c)
  PROVE  /\ SameTunnel /\ KeepsTunnel /\ UNCHANGED <<router, best, req, lost>>
         /\ astray => astray'
         /\ RedirectsByTap => RedirectsByTap'
         /\ pc'[c] \in {"add_or_update_proxy_route", "add_or_update_reserved_subnet_bypass", "configured"}
  <1> DEFINE cmds == <<"route_change", "netsh_add">>
  <1>1. CASE add_or_update_proxy_route(c)
    <2>1. PICK code \in Codes :
            InstallStep(c, "add_or_update_proxy_route", ProxyRoutes, cmds,
                        "add_or_update_reserved_subnet_bypass", code)
      BY <1>1, InstallSteps DEF add_or_update_proxy_route
    <2>2. UNCHANGED <<router, best, req, lost>> /\ pc[c] = "add_or_update_proxy_route"
      BY <1>1 DEF add_or_update_proxy_route, InstallLoop, netVars
    <2>3. ProxyRoutes[step[c].i] = Route(req[c].proxy, router.gateway.iface, router.gateway.hop)
      BY <2>2, LoopIndex DEF ProxyRoutes, GatewayInv, GatewayAt, InstallPcs
    <2>4. ProxyRoutes[step[c].i].dest \notin Range4 \cup Range6
      BY <2>2, <2>3, Apart DEF Route, GatewayInv, GatewayAt, InstallPcs
    <2>5. Install(cmds[step[c].try], ProxyRoutes[step[c].i], code)
      BY <2>1 DEF InstallStep
    <2>6. pc'[c] \in {"add_or_update_proxy_route", "add_or_update_reserved_subnet_bypass", "configured"}
      BY <2>1 DEF InstallStep, TypeOK, ClientTypeOK
    <2>7. QED BY <2>2, <2>4, <2>5, <2>6, InstallOutside, InstallEffect
  <1>2. CASE add_or_update_reserved_subnet_bypass(c)
    <2>1. PICK code \in Codes :
            InstallStep(c, "add_or_update_reserved_subnet_bypass", BypassRoutes, cmds, "configured", code)
      BY <1>2, InstallSteps DEF add_or_update_reserved_subnet_bypass
    <2>2. UNCHANGED <<router, best, req, lost>> /\ pc[c] = "add_or_update_reserved_subnet_bypass"
      BY <1>2 DEF add_or_update_reserved_subnet_bypass, InstallLoop, netVars
    <2>3. step[c].i \in DOMAIN IPV4_RESERVED_SUBNETS
      BY <2>2, LoopIndex
    <2>4. BypassRoutes[step[c].i].dest \notin Range4 \cup Range6
      BY <2>3, Apart DEF BypassRoutes, Route
    <2>5. Install(cmds[step[c].try], BypassRoutes[step[c].i], code)
      BY <2>1 DEF InstallStep
    <2>6. pc'[c] \in {"add_or_update_reserved_subnet_bypass", "configured"}
      BY <2>1 DEF InstallStep, TypeOK, ClientTypeOK
    <2>7. QED BY <2>2, <2>4, <2>5, <2>6, InstallOutside, InstallEffect
  <1>3. QED BY <1>1, <1>2

\* The steps that come after the loops leave the table alone.
LEMMA SuccessFrame ==
  ASSUME TypeOK, NEW c \in Clients, EndConfigure(c) \/ StartMonitor(c)
  PROVE  /\ UNCHANGED <<table, unmade, astray, req, best, lost, result>>
         /\ router'.tap = router.tap /\ router'.tapHop = router.tapHop
         /\ pc'[c] \notin InstallPcs
         /\ Succeeded(c)' => Succeeded(c)
  <1> USE DEF TypeOK, ClientTypeOK, RouterType, InstallPcs, Succeeded, Finished, GotoPc, netVars
  <1>1. CASE EndConfigure(c)
    BY <1>1 DEF EndConfigure, EndStep, tableVars
  <1>2. CASE StartMonitor(c)
    <2>1. router'.tap = router.tap /\ router'.tapHop = router.tapHop
      BY <1>2 DEF StartMonitor
    <2>2. QED BY <1>2, <2>1 DEF StartMonitor
  <1>3. QED BY <1>1, <1>2

LEMMA TunnelHandler ==
  ASSUME OneClient, TypeOK, DownInv, BlockInv, GatewayInv, TunnelInv, NEW c \in Clients,
         Connect(c) \/ ReadFile(c) \/ Handler(c)
  PROVE  TunnelInv'
  <1>1. CASE FindGateway(c)
    <2>1. CASE pc' = [pc EXCEPT ![c] = "configured"] /\ UNCHANGED best
      <3>1. pc'[c] = "configured" /\ best'[c] = NoGateway
        BY <1>1, <2>1 DEF FindGateway, FoundGateway, Break, EnterLoop, GotoPc, GatewayInv, GatewayAt, BeforeGateway,
                          BeginPcs, TypeOK, ClientTypeOK
      <3>2. QED BY <3>1, TunnelIdle DEF Succeeded, InstallPcs
    <2>2. CASE pc' = [pc EXCEPT ![c] = "add_ipv4_redirect"] /\ step' = [step EXCEPT ![c] = FirstTry]
      <3>1. pc'[c] = "add_ipv4_redirect" /\ step'[c].i = 1
        BY <2>2 DEF TypeOK, ClientTypeOK, FirstTry
      <3>2. \A k \in DOMAIN IPV4_SUBNETS : ~(k < 1)
        BY Lengths
      <3>3. TunnelAt(c)'
        BY <3>1, <3>2 DEF TunnelAt, Succeeded, Finished
      <3>4. QED BY <3>3, RouteOne
    <2>3. QED BY <1>1, <2>1, <2>2, FindGatewaySteps
  <1>2. CASE add_ipv4_redirect(c) \/ stop_routing_ipv6(c)
    BY <1>2, TunnelRedirect, TunnelIPv6
  <1>3. CASE add_or_update_proxy_route(c) \/ add_or_update_reserved_subnet_bypass(c)
    <2>1. pc[c] \in InstallPcs \ {"add_ipv4_redirect", "stop_routing_ipv6"}
      BY <1>3
      DEF add_or_update_proxy_route, add_or_update_reserved_subnet_bypass, InstallLoop, InstallPcs
    <2>3. /\ \A i \in DOMAIN IPV4_SUBNETS : Tunnelled(c, i)
          /\ \A j \in DOMAIN IPV6_SUBNETS : Blocked6(j)
      BY <2>1 DEF TunnelInv, TunnelAt
    <2>4. /\ \A i \in DOMAIN IPV4_SUBNETS : Tunnelled(c, i)'
          /\ \A j \in DOMAIN IPV6_SUBNETS : Blocked6(j)'
      BY <1>3, <2>3, BypassOutside, TunnelKept
    <2>5. pc'[c] \notin {"add_ipv4_redirect", "stop_routing_ipv6"}
      BY <1>3, BypassOutside
    <2>6. TunnelAt(c)'
      BY <2>4, <2>5 DEF TunnelAt
    <2>7. QED BY <2>6, RouteOne
  <1>4. CASE EndConfigure(c) \/ StartMonitor(c)
    <2>1. TunnelAt(c)'
      BY <1>4, SuccessFrame DEF TunnelInv, TunnelAt, InstallPcs, Tunnelled, Blocked6, Answered
    <2>2. QED BY <2>1, RouteOne
  <1>5. QED BY <1>1, <1>2, <1>3, <1>4, TunnelElsewhere, TunnelIdle DEF Handler

LEMMA TunnelInvariant == ASSUME OneClient PROVE Spec => []TunnelInv
  <1>1. TypeOK /\ DownInv /\ BlockInv /\ GatewayInv /\ TunnelInv /\ [Next]_vars => TunnelInv'
    <2> SUFFICES ASSUME TypeOK, DownInv, BlockInv, GatewayInv, TunnelInv, [Next]_vars PROVE TunnelInv'
      OBVIOUS
    <2>1. CASE UNCHANGED <<table, unmade, router, pc, req, result, best, step, lost>>
      BY <2>1 DEF TunnelInv, TunnelAt, Succeeded, Finished, Tunnelled, Blocked6, Answered
    <2>2. ASSUME NEW c \in Clients, Connect(c) \/ ReadFile(c) \/ Handler(c)
          PROVE  TunnelInv'
      BY <2>2, OneClient, TunnelHandler
    <2>3. CASE NetworkChanges
      <3>1. UNCHANGED <<router, pc, req, result, best, step>>
        BY <2>3 DEF NetworkChanges, clientVars
      <3>2. SUFFICES ASSUME NEW c \in Clients PROVE TunnelAt(c)'
        BY DEF TunnelInv
      <3>3. TunnelAt(c)
        BY DEF TunnelInv
      <3>4. /\ \A i \in DOMAIN IPV4_SUBNETS : Tunnelled(c, i) => Tunnelled(c, i)'
            /\ \A j \in DOMAIN IPV6_SUBNETS : Blocked6(j) => Blocked6(j)'
        BY <2>3, <3>1, NetworkTunnel
      <3>5. Succeeded(c)' <=> Succeeded(c)
        BY <3>1 DEF Succeeded, Finished
      <3>6. QED BY <3>1, <3>3, <3>4, <3>5 DEF TunnelAt
    <2>4. QED
      BY <2>1, <2>2, <2>3 DEF Next, ClientLost, MonitorThread, vars, clientVars, tableVars, netVars
  <1>2. QED BY <1>1, TunnelInit, TypeCorrect, DownInvariant, BlockInvariant, GatewayInvariant, PTL DEF Spec

\* The answer 0 after a gateway was found means that every command of the tunnel was answered
\* with 0, with any number of routes and of TAP devices, and that the DNS block stands: no
\* failure on the way, no route that an earlier request or the network left or took, makes
\* configure_routing report a tunnel with a hole it could have known of.
THEOREM SuccessMeansTheTunnel == ASSUME OneClient PROVE Spec => []SuccessMeansTunnel
  <1>1. BlockInv /\ GatewayInv /\ TunnelInv => SuccessMeansTunnel
    <2> SUFFICES ASSUME BlockInv, GatewayInv, TunnelInv, NEW c \in Clients,
                        Answers(c, "configureRouting", 0), best[c] # NoGateway
                 PROVE  /\ \E s \in blocks : allows[s] # {}
                        /\ \A i \in DOMAIN IPV6_SUBNETS : Blocked6(i)
                        /\ \A i \in DOMAIN IPV4_SUBNETS : Tunnelled(c, i)
      BY DEF SuccessMeansTunnel, Blocked6, Tunnelled
    <2>1. Succeeded(c) /\ Finished(c) /\ pc[c] = "Reply"
      BY DEF Answers, Succeeded, Finished
    <2>2. \E s \in blocks : allows[s] # {}
      BY <2>1 DEF BlockInv, SessionAt, InBegin, BeginCalls, GatewayInv, GatewayAt
    <2>3. QED BY <2>1, <2>2 DEF TunnelInv, TunnelAt
  <1>2. QED BY <1>1, BlockInvariant, GatewayInvariant, TunnelInvariant, PTL
---------------------------------------------------------------------------
(* Where the proxy and the reserved ranges leave. *)

LEMMA BypassInit == Init => BypassInv
  BY DEF Init, BypassInv, BypassAt, Succeeded, Finished

\* Outside the last loop and the success there is nothing to show.
LEMMA BypassIdle ==
  ASSUME OneClient, NEW c \in Clients,
         pc'[c] # "add_or_update_reserved_subnet_bypass", ~Succeeded(c)'
  PROVE  BypassInv'
  BY RouteOne DEF BypassAt

\* "route change" gives a route to another destination, or the same route once more.
LEMMA BypassKept ==
  ASSUME NEW c \in Clients, NEW cmd, NEW e, NEW code, UNCHANGED <<best, lost>>,
         Install(cmd, Route(e, best[c].iface, best[c].hop), code)
  PROVE  /\ \A d : Bypasses(c, d) => Bypasses(c, d)'
         /\ code = 0 => Bypasses(c, e)'
  BY InstallEffect DEF Bypasses, Answered, Route

\* The two loops install the route at their counter before they move it.
LEMMA BypassProxy ==
  ASSUME OneClient, TypeOK, GatewayInv, BypassInv, NEW c \in Clients, add_or_update_proxy_route(c)
  PROVE  BypassInv'
  <1> DEFINE cmds == <<"route_change", "netsh_add">>
  <1>1. PICK code \in Codes :
          InstallStep(c, "add_or_update_proxy_route", ProxyRoutes, cmds,
                      "add_or_update_reserved_subnet_bypass", code)
    BY InstallSteps DEF add_or_update_proxy_route
  <1>2. UNCHANGED <<router, best, req, lost>> /\ pc[c] = "add_or_update_proxy_route"
    BY DEF add_or_update_proxy_route, InstallLoop, netVars
  <1>3. ProxyRoutes[step[c].i] = Route(req[c].proxy, best[c].iface, best[c].hop)
    BY <1>2, LoopIndex DEF ProxyRoutes, GatewayInv, GatewayAt, InstallPcs
  <1>4. code = 0 => Bypasses(c, req[c].proxy)'
    <2>1. PICK p : p = req[c].proxy
      OBVIOUS
    <2>2. code = 0 => Bypasses(c, p)'
      BY <1>1, <1>2, <1>3, <2>1, BypassKept DEF InstallStep
    <2>3. QED BY <1>2, <2>1, <2>2
  <1>5. DOMAIN pc = Clients /\ DOMAIN step = Clients /\ DOMAIN result = Clients
    BY DEF TypeOK, ClientTypeOK
  <1>6. CASE code = 0 /\ pc' = [pc EXCEPT ![c] = "add_or_update_reserved_subnet_bypass"]
             /\ step' = [step EXCEPT ![c] = FirstTry]
    <2>1. pc'[c] = "add_or_update_reserved_subnet_bypass" /\ step'[c].i = 1
      BY <1>5, <1>6 DEF FirstTry
    <2>2. \A i \in DOMAIN IPV4_RESERVED_SUBNETS : ~(i < 1)
      BY Lengths
    <2>3. BypassAt(c)'
      BY <1>4, <1>6, <2>1, <2>2 DEF BypassAt, Succeeded, Finished
    <2>4. QED BY <2>3, RouteOne
  <1>7. CASE pc' = [pc EXCEPT ![c] = "add_or_update_proxy_route"]
    BY <1>5, <1>7, BypassIdle DEF Succeeded, Finished
  <1>8. CASE code = -1 /\ pc' = [pc EXCEPT ![c] = "configured"]
    <2>1. pc'[c] = "configured" /\ result'[c] = -1
      BY <1>1, <1>5, <1>8 DEF InstallStep
    <2>2. QED BY <2>1, BypassIdle DEF Succeeded, Finished
  <1>9. QED BY <1>1, <1>6, <1>7, <1>8 DEF InstallStep

LEMMA BypassReserved ==
  ASSUME OneClient, TypeOK, GatewayInv, BypassInv, NEW c \in Clients,
         add_or_update_reserved_subnet_bypass(c)
  PROVE  BypassInv'
  <1> DEFINE cmds == <<"route_change", "netsh_add">>
             here == "add_or_update_reserved_subnet_bypass"
  <1>1. PICK code \in Codes : InstallStep(c, here, BypassRoutes, cmds, "configured", code)
    BY InstallSteps DEF add_or_update_reserved_subnet_bypass
  <1>2. UNCHANGED <<router, best, req, lost>> /\ pc[c] = here
    BY DEF add_or_update_reserved_subnet_bypass, InstallLoop, netVars
  <1>3. PICK i \in DOMAIN IPV4_RESERVED_SUBNETS : i = step[c].i
    BY <1>2, LoopIndex
  <1>4. BypassRoutes[i] = Route(IPV4_RESERVED_SUBNETS[i], best[c].iface, best[c].hop)
    BY <1>2 DEF BypassRoutes, GatewayInv, GatewayAt, InstallPcs
  <1>5. /\ \A d : Bypasses(c, d) => Bypasses(c, d)'
        /\ code = 0 => Bypasses(c, IPV4_RESERVED_SUBNETS[i])'
    <2>1. Install(cmds[step[c].try], BypassRoutes[i], code)
      BY <1>1, <1>3 DEF InstallStep
    <2>2. Install(cmds[step[c].try], Route(IPV4_RESERVED_SUBNETS[i], best[c].iface, best[c].hop), code)
      BY <1>4, <2>1
    <2>3. UNCHANGED <<best, lost>>
      BY <1>2
    <2> HIDE DEF cmds
    <2>4. QED BY <2>2, <2>3, BypassKept
  <1>6. /\ Bypasses(c, req[c].proxy)'
        /\ \A k \in DOMAIN IPV4_RESERVED_SUBNETS : k < i => Bypasses(c, IPV4_RESERVED_SUBNETS[k])'
    <2>1. PICK p : p = req[c].proxy
      OBVIOUS
    <2>2. Bypasses(c, p)
      BY <1>2, <2>1 DEF BypassInv, BypassAt
    <2>3. \A k \in DOMAIN IPV4_RESERVED_SUBNETS : k < i => Bypasses(c, IPV4_RESERVED_SUBNETS[k])
      BY <1>2, <1>3 DEF BypassInv, BypassAt
    <2>4. Bypasses(c, req[c].proxy)'
      BY <1>2, <1>5, <2>1, <2>2
    <2>5. QED BY <1>5, <2>3, <2>4
  <1>7. DOMAIN IPV4_RESERVED_SUBNETS = 1..Len(BypassRoutes) /\ Len(BypassRoutes) \in Nat
    BY Lengths DEF BypassRoutes
  <1>8. DOMAIN pc = Clients /\ DOMAIN step = Clients /\ DOMAIN result = Clients
    BY DEF TypeOK, ClientTypeOK
  <1>9. CASE code = 0 /\ i = Len(BypassRoutes) /\ pc' = [pc EXCEPT ![c] = "configured"]
    <2>1. \A k \in DOMAIN IPV4_RESERVED_SUBNETS : Bypasses(c, IPV4_RESERVED_SUBNETS[k])'
      BY <1>5, <1>6, <1>7, <1>9
    <2>2. pc'[c] = "configured"
      BY <1>8, <1>9
    <2>3. BypassAt(c)'
      BY <1>2, <1>6, <2>1, <2>2 DEF BypassAt
    <2>4. QED BY <2>3, RouteOne
  <1>10. CASE code = 0 /\ pc' = [pc EXCEPT ![c] = here]
              /\ step' = [step EXCEPT ![c] = [i |-> step[c].i + 1, try |-> 1]]
    <2>1. pc'[c] = here /\ step'[c].i = i + 1
      BY <1>3, <1>8, <1>10
    <2>2. \A k \in DOMAIN IPV4_RESERVED_SUBNETS : k < i + 1 => Bypasses(c, IPV4_RESERVED_SUBNETS[k])'
      BY <1>5, <1>6, <1>7, <1>10
    <2>3. BypassAt(c)'
      BY <1>2, <1>6, <2>1, <2>2 DEF BypassAt, Succeeded, Finished
    <2>4. QED BY <2>3, RouteOne
  <1>11. CASE code = -1 /\ pc' = [pc EXCEPT ![c] = "configured"]
    <2>1. pc'[c] = "configured" /\ result'[c] = -1
      BY <1>1, <1>8, <1>11 DEF InstallStep
    <2>2. QED BY <2>1, BypassIdle DEF Succeeded, Finished
  <1>12. CASE code = -1 /\ pc' = [pc EXCEPT ![c] = here]
              /\ step' = [step EXCEPT ![c] = [i |-> step[c].i, try |-> 2]]
    <2>1. pc'[c] = here /\ step'[c].i = i
      BY <1>3, <1>8, <1>12
    <2>2. BypassAt(c)'
      BY <1>2, <1>6, <2>1 DEF BypassAt, Succeeded, Finished
    <2>3. QED BY <2>2, RouteOne
  <1>13. QED BY <1>1, <1>3, <1>9, <1>10, <1>11, <1>12 DEF InstallStep

LEMMA BypassHandler ==
  ASSUME OneClient, TypeOK, DownInv, BlockInv, GatewayInv, BypassInv, NEW c \in Clients,
         Connect(c) \/ ReadFile(c) \/ Handler(c)
  PROVE  BypassInv'
  <1>1. CASE FindGateway(c)
    <2>1. CASE pc' = [pc EXCEPT ![c] = "configured"] /\ UNCHANGED best
      <3>1. pc'[c] = "configured" /\ best'[c] = NoGateway
        BY <1>1, <2>1 DEF FindGateway, FoundGateway, Break, EnterLoop, GotoPc, GatewayInv, GatewayAt, BeforeGateway,
                          BeginPcs, TypeOK, ClientTypeOK
      <3>2. QED BY <3>1, BypassIdle DEF Succeeded
    <2>2. CASE pc' = [pc EXCEPT ![c] = "add_ipv4_redirect"]
      <3>1. pc'[c] = "add_ipv4_redirect"
        BY <2>2 DEF TypeOK, ClientTypeOK
      <3>2. QED BY <3>1, BypassIdle DEF Succeeded, Finished
    <2>3. QED BY <1>1, <2>1, <2>2, FindGatewaySteps
  <1>2. CASE add_ipv4_redirect(c)
    <2>1. PICK code \in Codes :
            InstallStep(c, "add_ipv4_redirect", RedirectRoutes, <<"netsh_add", "netsh_set">>,
                        "stop_routing_ipv6", code)
      BY <1>2, InstallSteps DEF add_ipv4_redirect
    <2>2. pc'[c] \in {"add_ipv4_redirect", "stop_routing_ipv6"} \/ (pc'[c] = "configured" /\ result'[c] = -1)
      BY <2>1 DEF InstallStep, TypeOK, ClientTypeOK
    <2>3. QED BY <2>2, BypassIdle DEF Succeeded, Finished
  <1>3. CASE stop_routing_ipv6(c)
    <2>1. PICK code \in Codes :
            InstallStep(c, "stop_routing_ipv6", IPv6Routes, <<"netsh_add", "netsh_set">>,
                        "add_or_update_proxy_route", code)
      BY <1>3, InstallSteps DEF stop_routing_ipv6
    <2>2. pc'[c] \in {"stop_routing_ipv6", "add_or_update_proxy_route"}
            \/ (pc'[c] = "configured" /\ result'[c] = -1)
      BY <2>1 DEF InstallStep, TypeOK, ClientTypeOK
    <2>3. QED BY <2>2, BypassIdle DEF Succeeded, Finished
  <1>4. CASE add_or_update_proxy_route(c) \/ add_or_update_reserved_subnet_bypass(c)
    BY <1>4, BypassProxy, BypassReserved
  <1>5. CASE EndConfigure(c) \/ StartMonitor(c)
    <2>1. BypassAt(c)'
      BY <1>5, SuccessFrame DEF BypassInv, BypassAt, InstallPcs, Bypasses, Answered
    <2>2. QED BY <2>1, RouteOne
  <1>6. QED BY <1>1, <1>2, <1>3, <1>4, <1>5, TunnelElsewhere, BypassIdle DEF Handler, InstallPcs

LEMMA BypassInvariant == ASSUME OneClient PROVE Spec => []BypassInv
  <1>1. TypeOK /\ DownInv /\ BlockInv /\ GatewayInv /\ BypassInv /\ [Next]_vars => BypassInv'
    <2> SUFFICES ASSUME TypeOK, DownInv, BlockInv, GatewayInv, BypassInv, [Next]_vars PROVE BypassInv'
      OBVIOUS
    <2>1. CASE UNCHANGED <<table, unmade, pc, req, result, best, step, lost>>
      BY <2>1 DEF BypassInv, BypassAt, Succeeded, Finished, Bypasses, Answered
    <2>2. ASSUME NEW c \in Clients, Connect(c) \/ ReadFile(c) \/ Handler(c)
          PROVE  BypassInv'
      BY <2>2, OneClient, BypassHandler
    <2>3. CASE NetworkChanges
      <3>1. UNCHANGED <<pc, req, result, best, step>>
        BY <2>3 DEF NetworkChanges, clientVars
      <3>2. ASSUME NEW c \in Clients, NEW d, d # DefaultDest, Bypasses(c, d)
            PROVE  Bypasses(c, d)'
        BY <2>3, <3>1, <3>2, NetworkEffect DEF Bypasses, Answered, Route
      <3>3. SUFFICES ASSUME NEW c \in Clients PROVE BypassAt(c)'
        BY DEF BypassInv
      <3>4. /\ BypassAt(c) /\ (Succeeded(c)' <=> Succeeded(c))
            /\ pc[c] = "add_or_update_reserved_subnet_bypass" \/ Succeeded(c) => req[c].proxy # DefaultDest
        BY <3>1, RoutesApart DEF BypassInv, Succeeded, Finished, GatewayInv, GatewayAt, InstallPcs
      <3>5. \A i \in DOMAIN IPV4_RESERVED_SUBNETS : IPV4_RESERVED_SUBNETS[i] # DefaultDest
        BY RoutesApart DEF Range
      <3>6. QED BY <3>1, <3>2, <3>4, <3>5 DEF BypassAt
    <2>4. QED
      BY <2>1, <2>2, <2>3 DEF Next, ClientLost, MonitorThread, vars, clientVars, tableVars, netVars
  <1>2. QED BY <1>1, BypassInit, TypeCorrect, DownInvariant, BlockInvariant, GatewayInvariant, PTL DEF Spec

\* The gateway a thread uses is not that of a TAP device when there is only one such device:
\* it is the one of the request, and get_system_ipv4_gateway passes over its rows.
OutsideInv ==
  \A c \in Clients : pc[c] \in InstallPcs \/ Succeeded(c) => best[c].iface \notin Taps

LEMMA OutsideInvariant == ASSUME OneClient, OneDevice PROVE Spec => []OutsideInv
  <1>1. Init => OutsideInv
    BY DEF Init, OutsideInv, InstallPcs, Succeeded, Finished
  <1>2. TypeOK /\ DownInv /\ BlockInv /\ GatewayInv /\ OutsideInv /\ [Next]_vars => OutsideInv'
    <2> SUFFICES ASSUME TypeOK, DownInv, BlockInv, GatewayInv, OutsideInv, [Next]_vars PROVE OutsideInv'
      OBVIOUS
    <2>1. CASE UNCHANGED <<pc, req, result, best>>
      BY <2>1 DEF OutsideInv, Succeeded, Finished
    <2>2. ASSUME NEW c \in Clients, pc'[c] \in InstallPcs \/ Succeeded(c)' => best'[c].iface \notin Taps
          PROVE  OutsideInv'
      BY <2>2, OneClient DEF OneClient, OutsideInv
    <2>3. ASSUME NEW c \in Clients, Connect(c) \/ ReadFile(c) \/ Handler(c)
          PROVE  OutsideInv'
      <3>1. CASE FindGateway(c)
        <4>1. CASE pc' = [pc EXCEPT ![c] = "configured"] /\ UNCHANGED best
          <5>1. pc'[c] = "configured" /\ best'[c] = NoGateway
            BY <3>1, <4>1 DEF FindGateway, FoundGateway, Break, EnterLoop, GotoPc, GatewayInv, GatewayAt,
                              BeforeGateway, BeginPcs, TypeOK, ClientTypeOK
          <5>2. QED BY <5>1, <2>2 DEF Succeeded, InstallPcs
        <4>2. CASE router.tap \in Taps => best'[c].iface # router.tap
          <5>1. router.tap \in Taps
            BY <3>1 DEF FindGateway, FoundGateway, Break, EnterLoop, GotoPc, GatewayInv, GatewayAt, BeginPcs
          <5>2. best'[c].iface \notin Taps
            BY <4>2, <5>1, OneDevice DEF OneDevice
          <5>3. QED BY <2>2, <5>2
        <4>3. QED BY <3>1, <4>1, <4>2, FindGatewaySteps
      <3>2. CASE add_ipv4_redirect(c) \/ stop_routing_ipv6(c) \/ add_or_update_proxy_route(c)
                   \/ add_or_update_reserved_subnet_bypass(c)
        <4>1. pc[c] \in InstallPcs /\ UNCHANGED best
          BY <3>2
          DEF add_ipv4_redirect, stop_routing_ipv6, add_or_update_proxy_route,
              add_or_update_reserved_subnet_bypass, InstallLoop, InstallPcs
        <4>2. QED BY SMTT(30), <4>1, <2>2 DEF OutsideInv
      <3>3. CASE EndConfigure(c) \/ StartMonitor(c)
        BY <3>3, <2>2, SuccessFrame DEF OutsideInv
      <3>4. QED BY <2>2, <2>3, <3>1, <3>2, <3>3, OneClient, TunnelElsewhere DEF Handler
    <2>4. QED
      BY <2>1, <2>3 DEF Next, ClientLost, MonitorThread, NetworkChanges, vars, clientVars
  <1>3. QED BY <1>1, <1>2, TypeCorrect, DownInvariant, BlockInvariant, GatewayInvariant, PTL DEF Spec

\* With the answer 0 the proxy and every reserved range leave by the physical gateway that was
\* found, so the tunnel's packets do not enter the tunnel: with one TAP device.  With two the
\* gateway found can be the redirect that an earlier request made for the other device.
THEOREM SuccessMeansTheBypass == ASSUME OneClient, OneDevice PROVE Spec => []SuccessMeansBypass
  <1>1. BypassInv /\ OutsideInv => SuccessMeansBypass
    BY DEF BypassInv, BypassAt, OutsideInv, Succeeded, Finished, Answers, Bypasses,
           SuccessMeansBypass, Range
  <1>2. QED BY <1>1, BypassInvariant, OutsideInvariant, PTL
---------------------------------------------------------------------------
(* What a reset still finds. *)

\* Redirects leave by TAP devices from the start, however many devices there are.
LEMMA ByTapInvariant == ASSUME OneClient PROVE Spec => []RedirectsByTap
  <1>1. Init => RedirectsByTap
    BY Apart DEF Init, RedirectsByTap, Route, Range4
  <1>2. TypeOK /\ GatewayInv /\ RedirectsByTap /\ [Next]_vars => RedirectsByTap'
    <2> SUFFICES ASSUME TypeOK, GatewayInv, RedirectsByTap, [Next]_vars PROVE RedirectsByTap'
      OBVIOUS
    <2>1. CASE UNCHANGED table
      BY <2>1 DEF RedirectsByTap
    <2>2. ASSUME NEW c \in Clients, add_ipv4_redirect(c) PROVE RedirectsByTap'
      <3>1. PICK code : InstallStep(c, "add_ipv4_redirect", RedirectRoutes, <<"netsh_add", "netsh_set">>,
                                    "stop_routing_ipv6", code)
        BY <2>2, InstallSteps DEF add_ipv4_redirect
      <3>2. pc[c] = "add_ipv4_redirect" /\ step[c].i \in DOMAIN IPV4_SUBNETS
        BY <3>1, LoopIndex DEF InstallStep
      <3>3. RedirectRoutes[step[c].i].iface \in Taps
        BY <3>2 DEF RedirectRoutes, Route, GatewayInv, GatewayAt, InstallPcs
      <3>4. QED BY <3>1, <3>3, InstallEffect DEF InstallStep, RedirectsByTap
    <2>3. ASSUME NEW c \in Clients, stop_routing_ipv6(c) PROVE RedirectsByTap'
      <3>1. PICK code : InstallStep(c, "stop_routing_ipv6", IPv6Routes, <<"netsh_add", "netsh_set">>,
                                    "add_or_update_proxy_route", code)
        BY <2>3, InstallSteps DEF stop_routing_ipv6
      <3>2. pc[c] = "stop_routing_ipv6" /\ step[c].i \in DOMAIN IPV6_SUBNETS
        BY <3>1, LoopIndex DEF InstallStep
      <3>3. IPv6Routes[step[c].i].dest \notin Range4
        BY <3>2, Apart DEF IPv6Routes, Route
      <3>4. QED BY <3>1, <3>3, InstallEffect DEF InstallStep, RedirectsByTap, Range4
    <2>4. ASSUME NEW c \in Clients,
                 add_or_update_proxy_route(c) \/ add_or_update_reserved_subnet_bypass(c)
          PROVE  RedirectsByTap'
      BY <2>4, BypassOutside
    <2>5. ASSUME NEW c \in Clients,
                 \/ remove_ipv4_redirect(c) \/ start_routing_ipv6(c) \/ delete_proxy_route(c)
                 \/ remove_reserved_subnet_bypass(c)
          PROVE  RedirectsByTap'
      <3>1. UNCHANGED table \/ \E gone : \E code \in Codes : Delete(gone, code)
        BY <2>5
        DEF remove_ipv4_redirect, start_routing_ipv6, delete_proxy_route,
            remove_reserved_subnet_bypass, NetshDelete, RouteDelete, tableVars
      <3>2. QED BY <3>1, <2>1, DeleteByTap
    <2>6. CASE NetworkChanges
      BY <2>6, NetworkByTap
    <2>7. ASSUME NEW c \in Clients,
                 \/ Connect(c) \/ ClientLost(c) \/ ReadFile(c) \/ Reply(c) \/ StopMonitor(c)
                 \/ WaitForThread(c) \/ HandleConfigure(c) \/ HandleReset(c) \/ HandleOther(c)
          PROVE  RedirectsByTap'
      BY <2>1, <2>7
      DEF Connect, ClientLost, ReadFile, Reply, StopMonitor, WaitForThread, HandleConfigure,
          HandleReset, HandleOther, tableVars
    <2>8. ASSUME NEW c \in Clients,
                 \/ CheckRequest(c) \/ CheckEngine(c) \/ EngineOpen(c) \/ SubLayerAdd(c)
                 \/ AddBlockFilter(c) \/ AddWhitelistFilter(c) \/ BlockFails(c) \/ EndBegin(c)
                 \/ ClearHandle(c) \/ FindGateway(c) \/ EndConfigure(c) \/ StartMonitor(c)
                 \/ EndReset(c) \/ ForgetRouter(c)
          PROVE  RedirectsByTap'
      BY <2>1, <2>8
      DEF CheckRequest, CheckEngine, EngineOpen, SubLayerAdd, AddBlockFilter, AddWhitelistFilter,
          BlockFails, EndBegin, ClearHandle, BlockStep, EndStep, FindGateway, FoundGateway, EndConfigure,
          StartMonitor, EndReset, ForgetRouter, tableVars
    <2>9. QED
      BY <2>1, <2>2, <2>3, <2>4, <2>5, <2>6, <2>7, <2>8
      DEF Next, Handler, MonitorThread, vars, tableVars
  <1>3. QED BY <1>1, <1>2, TypeCorrect, GatewayInvariant, PTL DEF Spec

LEMMA RecoverInit == Init => RecoverInv
  <1> SUFFICES ASSUME Init PROVE RecoverInv
    OBVIOUS
  <1>1. \A r \in table : r.dest \notin Range4 \cup Range6
    BY Apart DEF Init, Route
  <1>2. ~Traces4 /\ ~Traces6
    BY <1>1, Apart DEF Traces4, Traces6, Redirected, IPv6Blocked, Route
  <1>3. RedirectsByTap
    BY <1>1 DEF RedirectsByTap, Range4
  <1>4. \A c \in Clients : pc[c] = "closed"
    BY DEF Init
  <1>5. QED BY <1>2, <1>3, <1>4 DEF RecoverInv, RedirectsAt, IPv6BlockAt, Traces4, Traces6

LEMMA RecoverOne ==
  ASSUME OneClient, NEW c \in Clients, RedirectsByTap',
         astray' \/ (RedirectsAt(c)' /\ IPv6BlockAt(c)')
  PROVE  RecoverInv'
  BY DEF OneClient, RecoverInv

\* A step that touches no route of the tunnel leaves what a reset finds.
LEMMA TracesKept ==
  ASSUME RedirectsByTap, RedirectsByTap', SameTunnel
  PROVE  /\ \A i \in DOMAIN IPV4_SUBNETS : Redirected(i)' <=> Redirected(i)
         /\ \A j \in DOMAIN IPV6_SUBNETS : IPv6Blocked(j)' <=> IPv6Blocked(j)
         /\ Traces4' <=> Traces4
         /\ Traces6' <=> Traces6
  <1>1. ASSUME NEW i \in DOMAIN IPV4_SUBNETS
        PROVE  Redirected(i)' <=> Redirected(i)
    BY Apart DEF Redirected, RedirectsByTap, SameTunnel, Range4
  <1>2. ASSUME NEW j \in DOMAIN IPV6_SUBNETS
        PROVE  IPv6Blocked(j)' <=> IPv6Blocked(j)
    BY Apart DEF IPv6Blocked, SameTunnel, Route
  <1>3. QED BY <1>1, <1>2 DEF Traces4, Traces6

\* While the redirects stay as they are, so does where they stand, while the loop that
\* deletes them has deleted none.
LEMMA RedirectsSame ==
  ASSUME NEW c \in Clients, RedirectsAt(c),
         \A i \in DOMAIN IPV4_SUBNETS : Redirected(i)' <=> Redirected(i),
         Low(c, "remove_ipv4_redirect") = 1, Low(c, "remove_ipv4_redirect")' = 1,
         pc'[c] = "add_ipv4_redirect" => step'[c].i = 1,
         Traces4 => /\ router'.tap \in Taps /\ router'.proxy # NoProxy
                    /\ pc'[c] \notin ResetPcs \ {"remove_ipv4_redirect"}
                    /\ ~(pc'[c] = "Reply" /\ req'[c].action = "resetRouting")
  PROVE  RedirectsAt(c)'
  <1>1. Traces4' <=> Traces4
    BY DEF Traces4
  <1>2. ASSUME NEW i \in DOMAIN IPV4_SUBNETS, Redirected(i)'
        PROVE  1 <= i /\ \A j \in 1..i : Redirected(j)'
    <2>1. i \in 1..Len(IPV4_SUBNETS) /\ DOMAIN IPV4_SUBNETS = 1..Len(IPV4_SUBNETS) /\ Len(IPV4_SUBNETS) \in Nat
      BY Lengths
    <2>2. ASSUME NEW j \in 1..i PROVE Redirected(j)'
      <3>1. j \in DOMAIN IPV4_SUBNETS
        BY <2>1
      <3>2. Redirected(j)
        BY <1>2 DEF RedirectsAt
      <3>3. QED BY <3>1, <3>2
    <2>3. QED BY <2>1, <2>2
  <1>3. /\ Traces4' => router'.tap \in Taps /\ router'.proxy # NoProxy
        /\ pc'[c] \in ResetPcs \ {"remove_ipv4_redirect"} => ~Traces4'
        /\ pc'[c] = "Reply" /\ req'[c].action = "resetRouting" => ~Traces4'
    BY <1>1
  <1>4. \A j \in DOMAIN IPV4_SUBNETS : ~(j < 1)
    BY Lengths
  <1>5. QED BY <1>2, <1>3, <1>4 DEF RedirectsAt

\* The same for the IPv6 routes.
LEMMA IPv6Same ==
  ASSUME NEW c \in Clients, IPv6BlockAt(c),
         \A i \in DOMAIN IPV6_SUBNETS : IPv6Blocked(i)' <=> IPv6Blocked(i),
         Low(c, "start_routing_ipv6") = 1, Low(c, "start_routing_ipv6")' = 1,
         pc'[c] = "stop_routing_ipv6" => step'[c].i = 1,
         Traces6 => /\ router'.tap \in Taps /\ router'.proxy # NoProxy
                    /\ pc'[c] \notin ResetPcs \ {"remove_ipv4_redirect", "start_routing_ipv6"}
                    /\ ~(pc'[c] = "Reply" /\ req'[c].action = "resetRouting")
  PROVE  IPv6BlockAt(c)'
  <1>1. Traces6' <=> Traces6
    BY DEF Traces6
  <1>2. ASSUME NEW i \in DOMAIN IPV6_SUBNETS, IPv6Blocked(i)'
        PROVE  1 <= i /\ \A j \in 1..i : IPv6Blocked(j)'
    <2>1. i \in 1..Len(IPV6_SUBNETS) /\ DOMAIN IPV6_SUBNETS = 1..Len(IPV6_SUBNETS) /\ Len(IPV6_SUBNETS) \in Nat
      BY Lengths
    <2>2. ASSUME NEW j \in 1..i PROVE IPv6Blocked(j)'
      <3>1. j \in DOMAIN IPV6_SUBNETS
        BY <2>1
      <3>2. IPv6Blocked(j)
        BY <1>2 DEF IPv6BlockAt
      <3>3. QED BY <3>1, <3>2
    <2>3. QED BY <2>1, <2>2
  <1>3. /\ Traces6' => router'.tap \in Taps /\ router'.proxy # NoProxy
        /\ pc'[c] \in ResetPcs \ {"remove_ipv4_redirect", "start_routing_ipv6"} => ~Traces6'
        /\ pc'[c] = "Reply" /\ req'[c].action = "resetRouting" => ~Traces6'
    BY <1>1
  <1>4. \A j \in DOMAIN IPV6_SUBNETS : ~(j < 1)
    BY Lengths
  <1>5. QED BY <1>2, <1>3, <1>4 DEF IPv6BlockAt

\* So does one in which the thread is outside the loops of reset_routing before and after, and
\* router_info keeps a device and a proxy if it has them.
LEMMA RecoverStep ==
  ASSUME OneClient, RecoverInv, NEW c \in Clients, RedirectsByTap', SameTunnel, astray => astray',
         router.tap \in Taps /\ router.proxy # NoProxy => router'.tap \in Taps /\ router'.proxy # NoProxy,
         pc[c] \notin ResetPcs, pc'[c] \notin ResetPcs,
         pc'[c] \in {"add_ipv4_redirect", "stop_routing_ipv6"} => step'[c].i = 1,
         ~(pc'[c] = "Reply" /\ req'[c].action = "resetRouting")
  PROVE  RecoverInv'
  <1>1. CASE astray'
    BY <1>1, RecoverOne
  <1>2. CASE ~astray'
    <2>1. RedirectsAt(c) /\ IPv6BlockAt(c) /\ RedirectsByTap
      BY <1>2 DEF RecoverInv
    <2>2. /\ \A i \in DOMAIN IPV4_SUBNETS : Redirected(i)' <=> Redirected(i)
          /\ \A j \in DOMAIN IPV6_SUBNETS : IPv6Blocked(j)' <=> IPv6Blocked(j)
      BY <2>1, TracesKept
    <2>3. RedirectsAt(c)'
      BY <2>1, <2>2, RedirectsSame DEF RedirectsAt, ResetPcs, Low
    <2>4. IPv6BlockAt(c)'
      BY <2>1, <2>2, IPv6Same DEF IPv6BlockAt, ResetPcs, Low
    <2>5. QED BY <2>3, <2>4, RecoverOne
  <1>3. QED BY <1>1, <1>2

\* So does one after these loops, when nothing is left.
LEMMA RecoverGone ==
  ASSUME OneClient, RecoverInv, NEW c \in Clients, RedirectsByTap', SameTunnel, astray => astray',
         pc[c] \in ResetPcs \ {"remove_ipv4_redirect", "start_routing_ipv6"}, pc'[c] \notin InstallPcs
  PROVE  RecoverInv'
  <1>1. CASE astray'
    BY <1>1, RecoverOne
  <1>2. CASE ~astray'
    <2>1. ~Traces4 /\ ~Traces6 /\ RedirectsByTap
      BY <1>2 DEF RecoverInv, RedirectsAt, IPv6BlockAt
    <2>2. ~Traces4' /\ ~Traces6'
      BY <2>1, TracesKept
    <2>3. RedirectsAt(c)' /\ IPv6BlockAt(c)'
      BY <2>2 DEF RedirectsAt, IPv6BlockAt, Traces4, Traces6, InstallPcs
    <2>4. QED BY <2>3, RecoverOne
  <1>3. QED BY <1>1, <1>2

\* The first loop of configure_routing adds a redirect only after those before it.
LEMMA RecoverRedirect ==
  ASSUME OneClient, TypeOK, GatewayInv, RecoverInv, RedirectsByTap', NEW c \in Clients,
         add_ipv4_redirect(c)
  PROVE  RecoverInv'
  <1> DEFINE cmds == <<"netsh_add", "netsh_set">>
  <1>1. PICK code \in Codes :
          InstallStep(c, "add_ipv4_redirect", RedirectRoutes, cmds, "stop_routing_ipv6", code)
    BY InstallSteps DEF add_ipv4_redirect
  <1>2. UNCHANGED <<router, req>> /\ pc[c] = "add_ipv4_redirect"
    BY DEF add_ipv4_redirect, InstallLoop
  <1>3. PICK k \in DOMAIN IPV4_SUBNETS : k = step[c].i
    BY <1>2, LoopIndex
  <1>4. RedirectRoutes[k] = Route(IPV4_SUBNETS[k], router.tap, router.tapHop)
    BY DEF RedirectRoutes
  <1>5. Install(cmds[step[c].try], RedirectRoutes[k], code) /\ cmds[step[c].try] # "route_change"
    BY <1>1, <1>3, LoopIndex DEF InstallStep
  <1>6. /\ \A q \in table : q \in table'
        /\ \A q \in table' : q \in table \/ q = RedirectRoutes[k]
        /\ code = 0 => RedirectRoutes[k] \in table' \cup unmade'
        /\ RedirectRoutes[k] \in unmade' /\ RedirectRoutes[k].dest \in Range4 \cup Range6 => astray'
        /\ astray => astray'
    <2> HIDE DEF cmds
    <2>1. QED BY <1>5, InstallEffect
  <1>7. pc'[c] \in {"add_ipv4_redirect", "stop_routing_ipv6", "configured"}
    BY <1>1 DEF InstallStep, TypeOK, ClientTypeOK
  <1>8. router'.tap \in Taps /\ router'.proxy # NoProxy
    BY <1>2, ConstantsOK DEF GatewayInv, GatewayAt, InstallPcs
  <1>9. CASE ~astray'
    <2>1. RedirectsAt(c) /\ IPv6BlockAt(c)
      BY <1>6, <1>9 DEF RecoverInv
    <2>2. \A i \in DOMAIN IPV4_SUBNETS : Redirected(i) => Redirected(i)'
      BY <1>6 DEF Redirected
    <2>3. \A i \in DOMAIN IPV4_SUBNETS : Redirected(i)' => Redirected(i) \/ i = k
      BY <1>4, <1>6, RoutesApart DEF Redirected, Route, IsInjective
    <2>4. \A j \in DOMAIN IPV4_SUBNETS : j < k => Redirected(j)
      BY <1>2, <1>3, <2>1 DEF RedirectsAt
    <2>5. DOMAIN IPV4_SUBNETS = 1..Len(IPV4_SUBNETS) /\ Len(IPV4_SUBNETS) \in Nat
      BY Lengths
    <2>6. ASSUME NEW i \in DOMAIN IPV4_SUBNETS, Redirected(i)', NEW j \in 1..i
          PROVE  1 <= i /\ Redirected(j)'
      <3>1. j \in DOMAIN IPV4_SUBNETS
        BY <2>5
      <3>2. CASE i = k
        BY <2>2, <2>4, <2>5, <2>6, <3>1, <3>2
      <3>3. CASE Redirected(i)
        <4>1. Redirected(j)
          BY <1>2, <2>1, <3>3 DEF RedirectsAt, Low
        <4>2. QED BY <2>2, <2>5, <3>1, <4>1
      <3>4. QED BY <2>3, <2>6, <3>2, <3>3
    <2>done. code = 0 => Redirected(k)'
      BY <1>4, <1>6, <1>9, Apart DEF Redirected, Route
    <2>next. pc'[c] = "add_ipv4_redirect" => step'[c].i = k \/ (code = 0 /\ step'[c].i = k + 1)
      BY <1>1, <1>3 DEF InstallStep, TypeOK, ClientTypeOK
    <2>7. RedirectsAt(c)'
      <3>1. pc'[c] = "add_ipv4_redirect" => \A j \in DOMAIN IPV4_SUBNETS : j < step'[c].i => Redirected(j)'
        BY <2>2, <2>4, <2>5, <2>done, <2>next
      <3>2. QED BY <1>7, <1>8, <2>5, <2>6, <3>1 DEF RedirectsAt, Low, ResetPcs
    <2>8. \A j \in DOMAIN IPV6_SUBNETS : IPv6Blocked(j)' <=> IPv6Blocked(j)
      BY <1>4, <1>6, Apart DEF IPv6Blocked, Route
    <2>9. IPv6BlockAt(c)'
      <3>1. pc'[c] = "stop_routing_ipv6" => step'[c].i = 1
        BY <1>1 DEF InstallStep, FirstTry, TypeOK, ClientTypeOK
      <3>2. QED BY <1>2, <1>7, <1>8, <2>1, <2>8, <3>1, IPv6Same DEF ResetPcs, Low
    <2>10. QED BY <2>7, <2>9, RecoverOne
  <1>10. QED BY <1>9, RecoverOne

\* So does the second for the IPv6 routes.
LEMMA RecoverIPv6 ==
  ASSUME OneClient, TypeOK, GatewayInv, RecoverInv, RedirectsByTap', NEW c \in Clients,
         stop_routing_ipv6(c)
  PROVE  RecoverInv'
  <1> DEFINE cmds == <<"netsh_add", "netsh_set">>
  <1>1. PICK code \in Codes :
          InstallStep(c, "stop_routing_ipv6", IPv6Routes, cmds, "add_or_update_proxy_route", code)
    BY InstallSteps DEF stop_routing_ipv6
  <1>2. UNCHANGED <<router, req>> /\ pc[c] = "stop_routing_ipv6"
    BY DEF stop_routing_ipv6, InstallLoop
  <1>3. PICK k \in DOMAIN IPV6_SUBNETS : k = step[c].i
    BY <1>2, LoopIndex
  <1>4. IPv6Routes[k] = Route(IPV6_SUBNETS[k], Loopback, NoHop)
    BY DEF IPv6Routes
  <1>5. Install(cmds[step[c].try], IPv6Routes[k], code) /\ cmds[step[c].try] # "route_change"
    BY <1>1, <1>3, LoopIndex DEF InstallStep
  <1>6. /\ \A q \in table : q \in table'
        /\ \A q \in table' : q \in table \/ q = IPv6Routes[k]
        /\ code = 0 => IPv6Routes[k] \in table' \cup unmade'
        /\ IPv6Routes[k] \in unmade' /\ IPv6Routes[k].dest \in Range4 \cup Range6 => astray'
        /\ astray => astray'
    <2> HIDE DEF cmds
    <2>1. QED BY <1>5, InstallEffect
  <1>7. pc'[c] \in {"stop_routing_ipv6", "add_or_update_proxy_route", "configured"}
    BY <1>1 DEF InstallStep, TypeOK, ClientTypeOK
  <1>8. router'.tap \in Taps /\ router'.proxy # NoProxy
    BY <1>2, ConstantsOK DEF GatewayInv, GatewayAt, InstallPcs
  <1>9. CASE ~astray'
    <2>1. RedirectsAt(c) /\ IPv6BlockAt(c)
      BY <1>6, <1>9 DEF RecoverInv
    <2>2. \A i \in DOMAIN IPV6_SUBNETS : IPv6Blocked(i) => IPv6Blocked(i)'
      BY <1>6 DEF IPv6Blocked
    <2>3. \A i \in DOMAIN IPV6_SUBNETS : IPv6Blocked(i)' => IPv6Blocked(i) \/ i = k
      BY <1>4, <1>6, RoutesApart DEF IPv6Blocked, Route, IsInjective
    <2>4. \A j \in DOMAIN IPV6_SUBNETS : j < k => IPv6Blocked(j)
      BY <1>2, <1>3, <2>1 DEF IPv6BlockAt
    <2>5. DOMAIN IPV6_SUBNETS = 1..Len(IPV6_SUBNETS) /\ Len(IPV6_SUBNETS) \in Nat
      BY Lengths
    <2>6. ASSUME NEW i \in DOMAIN IPV6_SUBNETS, IPv6Blocked(i)', NEW j \in 1..i
          PROVE  1 <= i /\ IPv6Blocked(j)'
      <3>1. j \in DOMAIN IPV6_SUBNETS
        BY <2>5
      <3>2. CASE i = k
        BY <2>2, <2>4, <2>5, <2>6, <3>1, <3>2
      <3>3. CASE IPv6Blocked(i)
        <4>1. IPv6Blocked(j)
          BY <1>2, <2>1, <3>3 DEF IPv6BlockAt, Low
        <4>2. QED BY <2>2, <2>5, <3>1, <4>1
      <3>4. QED BY <2>3, <2>6, <3>2, <3>3
    <2>done. code = 0 => IPv6Blocked(k)'
      BY <1>4, <1>6, <1>9, Apart DEF IPv6Blocked, Route
    <2>next. pc'[c] = "stop_routing_ipv6" => step'[c].i = k \/ (code = 0 /\ step'[c].i = k + 1)
      BY <1>1, <1>3 DEF InstallStep, TypeOK, ClientTypeOK
    <2>7. IPv6BlockAt(c)'
      <3>1. pc'[c] = "stop_routing_ipv6" => \A j \in DOMAIN IPV6_SUBNETS : j < step'[c].i => IPv6Blocked(j)'
        BY <2>2, <2>4, <2>5, <2>done, <2>next
      <3>2. QED BY <1>7, <1>8, <2>5, <2>6, <3>1 DEF IPv6BlockAt, Low, ResetPcs
    <2>8. \A j \in DOMAIN IPV4_SUBNETS : Redirected(j)' <=> Redirected(j)
      BY <1>4, <1>6, Apart DEF Redirected, Route
    <2>9. RedirectsAt(c)'
      BY <1>2, <1>7, <1>8, <2>1, <2>8, RedirectsSame DEF ResetPcs, Low
    <2>10. QED BY <2>7, <2>9, RecoverOne
  <1>10. QED BY <1>9, RecoverOne

\* The loop over the redirects goes on only while it deletes, and what it has deleted is gone.
LEMMA RecoverRemove4 ==
  ASSUME OneClient, OneDevice, TypeOK, RecoverInv, RedirectsByTap', NEW c \in Clients,
         remove_ipv4_redirect(c)
  PROVE  RecoverInv'
  <1>1. PICK code \in Codes :
          /\ NetshDelete(IPV4_SUBNETS[step[c].i], router.tap, code)
          /\ AfterRemoval(c, "remove_ipv4_redirect", Len(IPV4_SUBNETS), "start_routing_ipv6",
                          code, code # 0)
    BY DEF remove_ipv4_redirect
  <1>2. UNCHANGED <<router, req>> /\ pc[c] = "remove_ipv4_redirect"
    BY <1>1 DEF remove_ipv4_redirect, AfterRemoval
  <1>3. PICK k \in DOMAIN IPV4_SUBNETS : k = step[c].i
    BY <1>2, LoopIndex
  <1>4. PICK gone : gone = {r \in To(IPV4_SUBNETS[k]) : r.iface = router.tap}
    OBVIOUS
  <1>5. Delete(gone, code)
    BY <1>1, <1>3, <1>4 DEF NetshDelete
  <1>6. DOMAIN IPV4_SUBNETS = 1..Len(IPV4_SUBNETS) /\ Len(IPV4_SUBNETS) \in Nat
    BY Lengths
  <1>7. CASE astray'
    BY <1>7, RecoverOne
  <1>8. CASE ~astray'
    <2>1. ~astray /\ (gone = {} \/ code = 0)
      BY <1>5, <1>8, DeleteEffect
    <2>2. RedirectsAt(c) /\ IPv6BlockAt(c) /\ RedirectsByTap
      BY <2>1 DEF RecoverInv
    <2>3. /\ \A q \in table' : q \in table /\ q \notin gone
          /\ \A q \in table : q \notin gone => q \in table'
      BY <1>5, <1>8, DeleteEffect
    <2>4. ~Redirected(k)'
      <3> SUFFICES ASSUME NEW r \in table', r.dest = IPV4_SUBNETS[k] PROVE FALSE
        BY DEF Redirected
      <3>1. r \in table /\ Redirected(k)
        BY <2>3 DEF Redirected
      <3>2. router.tap \in Taps /\ r.iface \in Taps
        BY <2>2, <3>1, Apart DEF RedirectsAt, Traces4, RedirectsByTap, Range4
      <3>3. r \in gone
        BY <1>4, <3>1, <3>2 DEF OneDevice, To
      <3>4. QED BY <2>3, <3>3
    <2>5. \A i \in DOMAIN IPV4_SUBNETS : i # k => (Redirected(i)' <=> Redirected(i))
      <3>1. \A i \in DOMAIN IPV4_SUBNETS : i # k => IPV4_SUBNETS[i] # IPV4_SUBNETS[k]
        BY RoutesApart DEF IsInjective
      <3>2. \A q \in gone : q.dest = IPV4_SUBNETS[k]
        BY <1>4 DEF To
      <3>3. QED BY <2>3, <3>1, <3>2 DEF Redirected
    <2>6. ASSUME NEW i \in DOMAIN IPV4_SUBNETS, Redirected(i)'
          PROVE  k < i /\ code = 0 /\ \A j \in (k + 1)..i : Redirected(j)'
      <3>1. i # k /\ Redirected(i)
        BY <2>4, <2>5, <2>6
      <3>2. k <= i /\ \A j \in k..i : Redirected(j)
        BY <1>2, <1>3, <2>2, <3>1 DEF RedirectsAt, Low
      <3>3. k < i
        BY <1>6, <3>1, <3>2
      <3>4. code = 0
        <4>1. Redirected(k)
          BY <1>6, <3>2
        <4>2. QED BY <2>1, <2>3, <2>4, <4>1 DEF Redirected
      <3>5. ASSUME NEW j \in (k + 1)..i PROVE Redirected(j)'
        <4>1. j \in DOMAIN IPV4_SUBNETS /\ j # k /\ j \in k..i
          BY <1>6
        <4>2. QED BY <2>5, <3>2, <4>1
      <3>6. QED BY <3>3, <3>4, <3>5
    <2>7. \A j \in DOMAIN IPV6_SUBNETS : IPv6Blocked(j)' <=> IPv6Blocked(j)
      <3>1. \A q \in gone : q.dest \notin Range6
        BY <1>4, Apart DEF To
      <3>2. QED BY <2>3, <3>1, Apart DEF IPv6Blocked, Route
    <2>8. CASE ~(code = 0 /\ k # Len(IPV4_SUBNETS))
      <3>1. pc'[c] = "start_routing_ipv6" /\ step'[c].i = 1
        BY <1>1, <1>3, <2>8 DEF AfterRemoval, TypeOK, ClientTypeOK, FirstTry
      <3>2. ~Traces4'
        BY <1>6, <2>6, <2>8 DEF Traces4
      <3>3. RedirectsAt(c)'
        BY <3>1, <3>2 DEF RedirectsAt, Traces4
      <3>4. IPv6BlockAt(c)'
        BY <1>2, <2>2, <2>7, <3>1, IPv6Same DEF ResetPcs, Low, IPv6BlockAt
      <3>5. QED BY <3>3, <3>4, RecoverOne
    <2>9. CASE code = 0 /\ k # Len(IPV4_SUBNETS)
      <3>1. pc'[c] = "remove_ipv4_redirect" /\ step'[c].i = k + 1
        BY <1>1, <1>3, <2>9 DEF AfterRemoval, TypeOK, ClientTypeOK
      <3>2. Traces4' => router'.tap \in Taps /\ router'.proxy # NoProxy
        BY <1>2, <2>2, <2>4, <2>5 DEF RedirectsAt, Traces4
      <3>3. \A i \in DOMAIN IPV4_SUBNETS : Redirected(i)' =>
              k + 1 <= i /\ \A j \in (k + 1)..i : Redirected(j)'
        BY <1>6, <2>6
      <3>4. RedirectsAt(c)'
        BY <3>1, <3>2, <3>3 DEF RedirectsAt, Low
      <3>5. IPv6BlockAt(c)'
        BY <1>2, <2>2, <2>7, <3>1, IPv6Same DEF ResetPcs, Low, IPv6BlockAt
      <3>6. QED BY <3>4, <3>5, RecoverOne
    <2>10. QED BY <2>8, <2>9
  <1>9. QED BY <1>7, <1>8

\* The same for the loop over the IPv6 routes.
LEMMA RecoverRemove6 ==
  ASSUME OneClient, TypeOK, RecoverInv, RedirectsByTap', NEW c \in Clients, start_routing_ipv6(c)
  PROVE  RecoverInv'
  <1>1. PICK code \in Codes :
          /\ NetshDelete(IPV6_SUBNETS[step[c].i], Loopback, code)
          /\ AfterRemoval(c, "start_routing_ipv6", Len(IPV6_SUBNETS), "delete_proxy_route",
                          code, code # 0)
    BY DEF start_routing_ipv6
  <1>2. UNCHANGED <<router, req>> /\ pc[c] = "start_routing_ipv6"
    BY <1>1 DEF start_routing_ipv6, AfterRemoval
  <1>3. PICK k \in DOMAIN IPV6_SUBNETS : k = step[c].i
    BY <1>2, LoopIndex
  <1>4. PICK gone : gone = {r \in To(IPV6_SUBNETS[k]) : r.iface = Loopback}
    OBVIOUS
  <1>5. Delete(gone, code)
    BY <1>1, <1>3, <1>4 DEF NetshDelete
  <1>6. DOMAIN IPV6_SUBNETS = 1..Len(IPV6_SUBNETS) /\ Len(IPV6_SUBNETS) \in Nat
    BY Lengths
  <1>7. CASE astray'
    BY <1>7, RecoverOne
  <1>8. CASE ~astray'
    <2>1. ~astray /\ (gone = {} \/ code = 0)
      BY <1>5, <1>8, DeleteEffect
    <2>2. RedirectsAt(c) /\ IPv6BlockAt(c) /\ ~Traces4
      BY <1>2, <2>1 DEF RecoverInv, RedirectsAt, ResetPcs
    <2>3. /\ \A q \in table' : q \in table /\ q \notin gone
          /\ \A q \in table : q \notin gone => q \in table'
      BY <1>5, <1>8, DeleteEffect
    <2>4. ~IPv6Blocked(k)'
      BY <1>4, <2>3 DEF IPv6Blocked, Route, To
    <2>5. \A i \in DOMAIN IPV6_SUBNETS : i # k => (IPv6Blocked(i)' <=> IPv6Blocked(i))
      <3>1. \A i \in DOMAIN IPV6_SUBNETS : i # k => IPV6_SUBNETS[i] # IPV6_SUBNETS[k]
        BY RoutesApart DEF IsInjective
      <3>2. \A q \in gone : q.dest = IPV6_SUBNETS[k]
        BY <1>4 DEF To
      <3>3. QED BY <2>3, <3>1, <3>2 DEF IPv6Blocked, Route
    <2>6. ASSUME NEW i \in DOMAIN IPV6_SUBNETS, IPv6Blocked(i)'
          PROVE  k < i /\ code = 0 /\ \A j \in (k + 1)..i : IPv6Blocked(j)'
      <3>1. i # k /\ IPv6Blocked(i)
        BY <2>4, <2>5, <2>6
      <3>2. k <= i /\ \A j \in k..i : IPv6Blocked(j)
        BY <1>2, <1>3, <2>2, <3>1 DEF IPv6BlockAt, Low
      <3>3. k < i
        BY <1>6, <3>1, <3>2
      <3>4. code = 0
        <4>1. IPv6Blocked(k)
          BY <1>6, <3>2
        <4>2. QED BY <2>1, <2>3, <2>4, <4>1 DEF IPv6Blocked
      <3>5. ASSUME NEW j \in (k + 1)..i PROVE IPv6Blocked(j)'
        <4>1. j \in DOMAIN IPV6_SUBNETS /\ j # k /\ j \in k..i
          BY <1>6
        <4>2. QED BY <2>5, <3>2, <4>1
      <3>6. QED BY <3>3, <3>4, <3>5
    <2>7. ~Traces4'
      BY <2>2, <2>3 DEF Traces4, Redirected
    <2>next. pc'[c] \in {"start_routing_ipv6", "delete_proxy_route"}
      BY <1>1 DEF AfterRemoval, TypeOK, ClientTypeOK
    <2>8. RedirectsAt(c)'
      BY <2>7, <2>next DEF RedirectsAt, Traces4
    <2>9. CASE ~(code = 0 /\ k # Len(IPV6_SUBNETS))
      <3>1. ~Traces6'
        BY <1>6, <2>6, <2>9 DEF Traces6
      <3>2. IPv6BlockAt(c)'
        BY <2>next, <3>1 DEF IPv6BlockAt, Traces6
      <3>3. QED BY <2>8, <3>2, RecoverOne
    <2>10. CASE code = 0 /\ k # Len(IPV6_SUBNETS)
      <3>1. pc'[c] = "start_routing_ipv6" /\ step'[c].i = k + 1
        BY <1>1, <1>3, <2>10 DEF AfterRemoval, TypeOK, ClientTypeOK
      <3>2. Traces6' => router'.tap \in Taps /\ router'.proxy # NoProxy
        BY <1>2, <2>2, <2>4, <2>5 DEF IPv6BlockAt, Traces6
      <3>3. \A i \in DOMAIN IPV6_SUBNETS : IPv6Blocked(i)' =>
              k + 1 <= i /\ \A j \in (k + 1)..i : IPv6Blocked(j)'
        BY <1>6, <2>6
      <3>4. IPv6BlockAt(c)'
        BY <3>1, <3>2, <3>3 DEF IPv6BlockAt, Low
      <3>5. QED BY <2>8, <3>4, RecoverOne
    <2>11. QED BY <2>9, <2>10
  <1>9. QED BY <1>7, <1>8

\* The rest of reset_routing deletes no route of the tunnel: "route delete route" names no range.
LEMMA RecoverRest ==
  ASSUME OneClient, TypeOK, RecoverInv, RedirectsByTap', NEW c \in Clients,
         \/ ClearHandle(c) /\ pc[c] = "reset_clear"
         \/ delete_proxy_route(c) \/ remove_reserved_subnet_bypass(c)
         \/ EndReset(c) \/ ForgetRouter(c)
  PROVE  RecoverInv'
  <1>1. /\ pc[c] \in ResetPcs \ {"remove_ipv4_redirect", "start_routing_ipv6"}
        /\ pc'[c] \notin InstallPcs
    BY DEF delete_proxy_route, remove_reserved_subnet_bypass, AfterRemoval, EndReset, EndStep, ClearHandle,
           ForgetRouter, GotoPc, ResetPcs, InstallPcs, TypeOK, ClientTypeOK
  <1>2. UNCHANGED tableVars \/ \E gone : \E code \in Codes :
          Delete(gone, code) /\ (gone = To(WordRoute) \/ (router.proxy # NoProxy /\ gone = To(router.proxy)))
    <2>1. CASE delete_proxy_route(c)
      BY <2>1 DEF delete_proxy_route, RouteDelete
    <2>2. CASE remove_reserved_subnet_bypass(c)
      BY <2>2 DEF remove_reserved_subnet_bypass, RouteDelete
    <2>3. CASE EndReset(c) \/ ForgetRouter(c) \/ ClearHandle(c)
      BY <2>3 DEF EndReset, EndStep, ClearHandle, ForgetRouter
    <2>4. QED BY <2>1, <2>2, <2>3
  <1>3. /\ \A q \in To(WordRoute) : q.dest \notin Range4 \cup Range6
        /\ router.proxy # NoProxy => \A q \in To(router.proxy) : q.dest \notin Range4 \cup Range6
    <2>1. WordRoute \notin Range4 \cup Range6
      BY RoutesApart DEF Destinations, Range4, Range6
    <2>2. router.proxy # NoProxy => router.proxy \notin Range4 \cup Range6
      BY Apart DEF TypeOK, RouterType
    <2>3. QED BY <2>1, <2>2 DEF To
  <1>4. SameTunnel /\ (astray => astray')
    BY <1>2, <1>3, DeleteOutside, DeleteEffect DEF tableVars, SameTunnel
  <1>5. QED BY <1>1, <1>4, RecoverGone

\* A reset that removes nothing finds nothing to remove.
LEMMA RecoverReset ==
  ASSUME OneClient, TypeOK, RecoverInv, RedirectsByTap', NEW c \in Clients, HandleReset(c)
  PROVE  RecoverInv'
  <1>1. /\ UNCHANGED <<table, astray, req>> /\ pc[c] = "handle_request"
        /\ step'[c].i = 1
        /\ router'.tap = router.tap /\ router'.proxy = router.proxy
    BY DEF HandleReset, EnterLoop, GotoPc, FirstTry, tableVars, TypeOK, ClientTypeOK, RouterType
  <1>2. router.proxy # NoProxy /\ router.tap # NoTap => pc'[c] = "remove_ipv4_redirect"
    BY DEF HandleReset, EnterLoop, GotoPc, TypeOK, ClientTypeOK
  <1>3. CASE astray
    BY <1>1, <1>3, RecoverOne
  <1>4. CASE ~astray
    <2>1. RedirectsAt(c) /\ IPv6BlockAt(c)
      BY <1>4 DEF RecoverInv
    <2>2. /\ \A i \in DOMAIN IPV4_SUBNETS : Redirected(i)' <=> Redirected(i)
          /\ \A j \in DOMAIN IPV6_SUBNETS : IPv6Blocked(j)' <=> IPv6Blocked(j)
      BY <1>1 DEF Redirected, IPv6Blocked
    <2>3. Traces4 \/ Traces6 => /\ router'.tap \in Taps /\ router'.proxy # NoProxy
                                /\ pc'[c] = "remove_ipv4_redirect"
      BY <1>1, <1>2, <2>1, ConstantsOK DEF RedirectsAt, IPv6BlockAt
    <2>4. RedirectsAt(c)'
      BY <1>1, <2>1, <2>2, <2>3, RedirectsSame DEF Low
    <2>5. IPv6BlockAt(c)'
      <3>1. Low(c, "start_routing_ipv6") = 1 /\ Low(c, "start_routing_ipv6")' = 1
        BY <1>1 DEF Low
      <3>2. QED BY <1>1, <2>1, <2>2, <2>3, <3>1, IPv6Same
    <2>6. QED BY <2>4, <2>5, RecoverOne
  <1>5. QED BY <1>3, <1>4

\* The rest of handle_request, up to the choice of the gateway and after the loops, leaves the
\* routes alone and forgets no device and no proxy.
LEMMA RecoverQuiet ==
  ASSUME OneClient, TypeOK, DownInv, BlockInv, GatewayInv, RecoverInv, RedirectsByTap', NEW c \in Clients,
         \/ Connect(c) \/ ReadFile(c) \/ Reply(c) \/ StopMonitor(c) \/ WaitForThread(c)
         \/ HandleConfigure(c) \/ HandleOther(c)
         \/ CheckRequest(c) \/ CheckEngine(c) \/ EngineOpen(c) \/ SubLayerAdd(c) \/ AddBlockFilter(c)
         \/ AddWhitelistFilter(c) \/ BlockFails(c) \/ EndBegin(c) \/ FindGateway(c)
         \/ EndConfigure(c) \/ StartMonitor(c) \/ (ClearHandle(c) /\ pc[c] # "reset_clear")
  PROVE  RecoverInv'
  <1> USE DEF GotoPc, ResetPcs, TypeOK, ClientTypeOK, tableVars, BeginCalls
  <1>1. UNCHANGED <<table, astray>>
    BY ZenonT(40) DEF Connect, ReadFile, Reply, StopMonitor, WaitForThread, HandleConfigure, HandleOther,
           CheckRequest, CheckEngine, EngineOpen, SubLayerAdd, AddBlockFilter, AddWhitelistFilter,
           BlockFails, BlockStep, EndBegin, EndStep, ClearHandle, FindGateway, FoundGateway, EndConfigure,
           StartMonitor
  <1>2. pc[c] \notin ResetPcs
    BY DEF Connect, ReadFile, Reply, StopMonitor, WaitForThread, HandleConfigure, HandleOther,
           CheckRequest, CheckEngine, EngineOpen, SubLayerAdd, AddBlockFilter, AddWhitelistFilter,
           BlockFails, BlockStep, EndBegin, EndStep, ClearHandle, Break, EnterLoop, FindGateway,
           FoundGateway, EndConfigure, StartMonitor
  <1>3. /\ pc'[c] \notin ResetPcs
        /\ ~(pc'[c] = "Reply" /\ req'[c].action = "resetRouting")
        /\ pc'[c] \in {"add_ipv4_redirect", "stop_routing_ipv6"} => step'[c].i = 1
    <2>1. CASE Connect(c) \/ ReadFile(c) \/ Reply(c) \/ StopMonitor(c) \/ WaitForThread(c)
      BY <2>1 DEF Connect, ReadFile, Reply, StopMonitor, WaitForThread
    <2>2. CASE HandleConfigure(c) \/ HandleOther(c)
      BY <2>2 DEF HandleConfigure, HandleOther
    <2>3. CASE CheckRequest(c) \/ CheckEngine(c) \/ EngineOpen(c) \/ SubLayerAdd(c) \/ AddBlockFilter(c)
      BY <2>3 DEF CheckRequest, CheckEngine, EngineOpen, SubLayerAdd, AddBlockFilter, BlockStep, Break
    <2>4. CASE AddWhitelistFilter(c) \/ BlockFails(c) \/ EndBegin(c)
      BY <2>4 DEF AddWhitelistFilter, BlockFails, EndBegin, EndStep, BlockStep, Break
    <2>5. CASE FindGateway(c)
      <3>1. \/ pc'[c] = "configured"
            \/ pc'[c] = "add_ipv4_redirect" /\ step'[c].i = 1
        BY <2>5, FindGatewaySteps DEF FirstTry
      <3>2. QED BY <3>1
    <2>6. CASE EndConfigure(c) \/ StartMonitor(c)
      BY <2>6 DEF EndConfigure, EndStep, StartMonitor, BlockInv, RequestAt, ConfigurePcs
    <2>7. CASE ClearHandle(c) /\ pc[c] # "reset_clear"
      BY <2>7 DEF ClearHandle, EndStep
    <2>8. QED BY <2>1, <2>2, <2>3, <2>4, <2>5, <2>6, <2>7
  <1>4. router.tap \in Taps /\ router.proxy # NoProxy => router'.tap \in Taps /\ router'.proxy # NoProxy
    <2> USE DEF RouterType
    <2>1. CASE Connect(c) \/ ReadFile(c) \/ Reply(c) \/ StopMonitor(c) \/ WaitForThread(c)
      BY <2>1 DEF Connect, ReadFile, Reply, StopMonitor, WaitForThread
    <2>2. CASE HandleConfigure(c) \/ HandleOther(c)
      BY <2>2 DEF HandleConfigure, HandleOther
    <2>3. CASE CheckRequest(c)
      BY <2>3 DEF CheckRequest, Request
    <2>4. CASE CheckEngine(c) \/ EngineOpen(c) \/ SubLayerAdd(c) \/ AddBlockFilter(c)
      BY <2>4 DEF CheckEngine, EngineOpen, SubLayerAdd, AddBlockFilter, BlockStep
    <2>5. CASE AddWhitelistFilter(c) \/ BlockFails(c) \/ EndBegin(c) \/ ClearHandle(c)
      BY <2>5 DEF AddWhitelistFilter, BlockFails, EndBegin, ClearHandle, EndStep, BlockStep
    <2>6. CASE FindGateway(c)
      <3>1. req[c].proxy # NoProxy
        BY <2>6 DEF FindGateway, FoundGateway, Break, EnterLoop, BlockInv, RequestAt
      <3>2. QED BY SMTT(30), <2>6, <3>1, FindGatewaySteps
    <2>7. CASE EndConfigure(c) \/ StartMonitor(c)
      BY <2>7 DEF EndConfigure, EndStep, StartMonitor
    <2>8. QED BY <2>1, <2>2, <2>3, <2>4, <2>5, <2>6, <2>7
  <1>5. SameTunnel
    BY <1>1 DEF SameTunnel
  <1>6. QED BY SMTT(30), <1>1, <1>2, <1>3, <1>4, <1>5, RecoverStep

\* A step of the service keeps what a reset finds.
LEMMA RecoverHandler ==
  ASSUME OneClient, OneDevice, TypeOK, DownInv, BlockInv, GatewayInv, RecoverInv, RedirectsByTap',
         NEW c \in Clients, Connect(c) \/ ReadFile(c) \/ Handler(c)
  PROVE  RecoverInv'
  <1>1. CASE add_or_update_proxy_route(c) \/ add_or_update_reserved_subnet_bypass(c)
    <2>1. SameTunnel /\ UNCHANGED router /\ (astray => astray')
      BY <1>1, BypassOutside
    <2>2. pc[c] \notin ResetPcs
      BY <1>1
      DEF add_or_update_proxy_route, add_or_update_reserved_subnet_bypass, InstallLoop, ResetPcs
    <2>3. pc'[c] \in {"add_or_update_proxy_route", "add_or_update_reserved_subnet_bypass", "configured"}
      BY <1>1, BypassOutside
    <2>4. pc'[c] \notin ResetPcs /\ pc'[c] \notin {"Reply", "add_ipv4_redirect", "stop_routing_ipv6"}
      BY <2>3 DEF ResetPcs
    <2>5. QED BY <2>1, <2>2, <2>4, RecoverStep
  <1>2. CASE \/ add_ipv4_redirect(c) \/ stop_routing_ipv6(c)
             \/ remove_ipv4_redirect(c) \/ start_routing_ipv6(c)
    BY <1>2, RecoverRedirect, RecoverIPv6, RecoverRemove4, RecoverRemove6
  <1>3. CASE \/ delete_proxy_route(c) \/ remove_reserved_subnet_bypass(c)
             \/ EndReset(c) \/ ForgetRouter(c) \/ HandleReset(c) \/ (ClearHandle(c) /\ pc[c] = "reset_clear")
    BY <1>3, RecoverRest, RecoverReset
  <1>4. QED BY <1>1, <1>2, <1>3, RecoverQuiet DEF Handler

\* A step of the system moves no thread: while what stands stays, so does where it stands.
LEMMA RedirectsStay ==
  ASSUME TypeOK, NEW c \in Clients, RedirectsAt(c), UNCHANGED <<router, pc, req, step>>,
         \A i \in DOMAIN IPV4_SUBNETS : Redirected(i)' <=> Redirected(i)
  PROVE  RedirectsAt(c)'
  <1>1. Traces4' <=> Traces4
    BY DEF Traces4
  <1>2. /\ Low(c, "remove_ipv4_redirect")' = Low(c, "remove_ipv4_redirect")
        /\ Low(c, "remove_ipv4_redirect") \in Nat \ {0}
    BY LoopIndex DEF Low
  <1>3. ASSUME NEW i \in DOMAIN IPV4_SUBNETS, Redirected(i)', NEW j \in Low(c, "remove_ipv4_redirect")..i
        PROVE  Redirected(j)'
    <2>1. j \in DOMAIN IPV4_SUBNETS
      BY <1>2, Lengths
    <2>2. Redirected(j)
      BY <1>3 DEF RedirectsAt
    <2>3. QED BY <2>1, <2>2
  <1>4. QED BY <1>1, <1>2, <1>3 DEF RedirectsAt

LEMMA IPv6Stays ==
  ASSUME TypeOK, NEW c \in Clients, IPv6BlockAt(c), UNCHANGED <<router, pc, req, step>>,
         \A i \in DOMAIN IPV6_SUBNETS : IPv6Blocked(i)' <=> IPv6Blocked(i)
  PROVE  IPv6BlockAt(c)'
  <1>1. Traces6' <=> Traces6
    BY DEF Traces6
  <1>2. /\ Low(c, "start_routing_ipv6")' = Low(c, "start_routing_ipv6")
        /\ Low(c, "start_routing_ipv6") \in Nat \ {0}
    BY LoopIndex DEF Low
  <1>3. ASSUME NEW i \in DOMAIN IPV6_SUBNETS, IPv6Blocked(i)', NEW j \in Low(c, "start_routing_ipv6")..i
        PROVE  IPv6Blocked(j)'
    <2>1. j \in DOMAIN IPV6_SUBNETS
      BY <1>2, Lengths
    <2>2. IPv6Blocked(j)
      BY <1>3 DEF IPv6BlockAt
    <2>3. QED BY <2>1, <2>2
  <1>4. QED BY <1>1, <1>2, <1>3 DEF IPv6BlockAt

\* The one device takes all redirects with it when it goes down; amid the loop that makes them
\* this is remembered.
LEMMA NetworkRedirects ==
  ASSUME OneDevice, TypeOK, RedirectsByTap, NetworkChanges, ~astray', NEW c \in Clients
  PROVE  \/ \A i \in DOMAIN IPV4_SUBNETS : Redirected(i)' <=> Redirected(i)
         \/ pc[c] # "add_ipv4_redirect" /\ \A i \in DOMAIN IPV4_SUBNETS : ~Redirected(i)'
  <1>0. \A r \in table : r.dest \in Range4 => r.iface \in Taps
    BY DEF RedirectsByTap, Range4
  <1>1. ASSUME NEW a \in Adapters, table' = {r \in table : r.iface # a},
               a \in Taps /\ table' # table => pc[c] # "add_ipv4_redirect"
        PROVE  \/ \A i \in DOMAIN IPV4_SUBNETS : Redirected(i)' <=> Redirected(i)
               \/ pc[c] # "add_ipv4_redirect" /\ \A i \in DOMAIN IPV4_SUBNETS : ~Redirected(i)'
    <2>2. CASE table' = table
      BY <2>2 DEF Redirected
    <2>3. CASE a \in Taps /\ table' # table
      <3>1. \A r \in table' : r.dest \notin Range4
        BY <1>0, <1>1, <2>3 DEF OneDevice
      <3>2. \A i \in DOMAIN IPV4_SUBNETS : ~Redirected(i)'
        BY <3>1, Apart DEF Redirected
      <3>3. QED BY <1>1, <2>3, <3>2
    <2>4. CASE a \notin Taps
      <3>1. \A r \in table : r.dest \in Range4 => r \in table'
        BY <1>0, <1>1, <2>4
      <3>2. \A r \in table' : r \in table
        BY <1>1
      <3>3. \A i \in DOMAIN IPV4_SUBNETS : Redirected(i)' <=> Redirected(i)
        BY <3>1, <3>2, Apart DEF Redirected
      <3>4. QED BY <3>3
    <2>5. QED BY <2>2, <2>3, <2>4
  <1>2. CASE \A r : r.dest # DefaultDest => (r \in table' <=> r \in table)
    BY <1>2, Apart DEF Redirected
  <1>3. \/ \E a \in Adapters : /\ table' = {r \in table : r.iface # a}
                             /\ astray' = (astray \/ (a \in Taps /\ table' # table
                                           /\ \E d \in Clients : pc[d] = "add_ipv4_redirect"))
        \/ \E a \in down : table' = table \cup DefaultRoutes(a)
        \/ \E g \in Gateways :
             LET default == Route(DefaultDest, g.iface, g.hop)
             IN table' \in {table \cup {default}, table \ {default}}
    BY DEF NetworkChanges
  <1>4. CASE \E a \in Adapters : /\ table' = {r \in table : r.iface # a}
                               /\ astray' = (astray \/ (a \in Taps /\ table' # table
                                             /\ \E d \in Clients : pc[d] = "add_ipv4_redirect"))
    BY <1>1, <1>4
  <1>5. CASE \E a \in down : table' = table \cup DefaultRoutes(a)
    BY <1>2, <1>5 DEF DefaultRoutes, Route
  <1>6. CASE \E g \in Gateways :
               LET default == Route(DefaultDest, g.iface, g.hop)
               IN table' \in {table \cup {default}, table \ {default}}
    BY <1>2, <1>6 DEF Route
  <1>7. QED BY <1>3, <1>4, <1>5, <1>6

LEMMA RecoverNetwork ==
  ASSUME OneClient, OneDevice, TypeOK, RecoverInv, RedirectsByTap', NetworkChanges
  PROVE  RecoverInv'
  <1>1. UNCHANGED <<router, pc, req, step>> /\ (astray => astray')
    <2>1. UNCHANGED <<router, pc, req, step>>
      BY DEF NetworkChanges, clientVars
    <2>2. \/ \E a \in Adapters : astray' = (astray \/ (a \in Taps /\ table' # table
                                           /\ \E d \in Clients : pc[d] = "add_ipv4_redirect"))
          \/ UNCHANGED <<lost, astray>>
      BY DEF NetworkChanges
    <2>3. ASSUME astray PROVE astray'
      <3>1. CASE UNCHANGED <<lost, astray>>
        BY <2>3, <3>1
      <3>2. CASE \E a \in Adapters : astray' = (astray \/ (a \in Taps /\ table' # table
                                           /\ \E d \in Clients : pc[d] = "add_ipv4_redirect"))
        BY <2>3, <3>2
      <3>3. QED BY <2>2, <3>1, <3>2
    <2>4. QED BY <2>1, <2>3
  <1>2. PICK c \in Clients : TRUE
    BY DEF OneClient
  <1>3. CASE astray'
    BY <1>3, RecoverOne
  <1>4. CASE ~astray'
    <2>1. RedirectsByTap /\ RedirectsAt(c) /\ IPv6BlockAt(c)
      BY <1>1, <1>4 DEF RecoverInv
    <2>2. \A j \in DOMAIN IPV6_SUBNETS : IPv6Blocked(j)' <=> IPv6Blocked(j)
      <3>1. Loopback \notin Adapters
        BY RoutesApart DEF Adapters
      <3>2. QED BY <3>1, NetworkEffect, Apart DEF IPv6Blocked, Route
    <2>3. RedirectsAt(c)'
      <3>1. CASE \A i \in DOMAIN IPV4_SUBNETS : Redirected(i)' <=> Redirected(i)
        BY <1>1, <2>1, <3>1, RedirectsStay
      <3>2. CASE pc[c] # "add_ipv4_redirect" /\ \A i \in DOMAIN IPV4_SUBNETS : ~Redirected(i)'
        BY <1>1, <3>2 DEF RedirectsAt, Traces4
      <3>3. QED BY <1>4, <2>1, <3>1, <3>2, NetworkRedirects
    <2>4. IPv6BlockAt(c)'
      BY <1>1, <2>1, <2>2, IPv6Stays
    <2>5. QED BY <2>3, <2>4, RecoverOne
  <1>5. QED BY <1>3, <1>4

\* What a reset can find is what it can remove.
LEMMA RecoverInvariant == ASSUME OneClient, OneDevice PROVE Spec => []RecoverInv
  <1>1. TypeOK /\ DownInv /\ BlockInv /\ GatewayInv /\ RecoverInv /\ RedirectsByTap' /\ [Next]_vars
          => RecoverInv'
    <2> SUFFICES ASSUME TypeOK, DownInv, BlockInv, GatewayInv, RecoverInv, RedirectsByTap', [Next]_vars
                 PROVE  RecoverInv'
      OBVIOUS
    <2>1. CASE UNCHANGED <<table, router, astray, pc, req, step>>
      <3>1. /\ \A i \in DOMAIN IPV4_SUBNETS : Redirected(i)' <=> Redirected(i)
            /\ \A j \in DOMAIN IPV6_SUBNETS : IPv6Blocked(j)' <=> IPv6Blocked(j)
        BY <2>1 DEF Redirected, IPv6Blocked
      <3>2. QED BY <2>1, <3>1, RedirectsStay, IPv6Stays DEF RecoverInv
    <2>2. ASSUME NEW c \in Clients, Connect(c) \/ ReadFile(c) \/ Handler(c)
          PROVE  RecoverInv'
      BY <2>2, RecoverHandler
    <2>3. CASE NetworkChanges
      BY <2>3, RecoverNetwork
    <2>4. QED
      BY <2>1, <2>2, <2>3 DEF Next, ClientLost, MonitorThread, vars, clientVars, tableVars
  <1>2. QED
    BY <1>1, RecoverInit, TypeCorrect, DownInvariant, BlockInvariant, GatewayInvariant, ByTapInvariant,
       PTL DEF Spec

\* As long as nothing has gone astray, what configure_routing has left in the table, however it
\* ended, is what a reset will find and remove: router_info still names the one device, holds
\* a proxy, and the routes of each table stand without a gap from its start, so that the loop
\* which stops at the first failure misses none.
THEOREM RoutesAreRecoverable == ASSUME OneClient, OneDevice PROVE Spec => []RoutesRecoverable
  <1>1. RecoverInv => RoutesRecoverable
    <2> SUFFICES ASSUME RecoverInv, ~astray PROVE RoutesRecoverable
      BY DEF RoutesRecoverable
    <2>1. PICK c \in Clients : TRUE
      BY DEF OneClient
    <2>2. RedirectsAt(c) /\ IPv6BlockAt(c) /\ RedirectsByTap
      BY DEF RecoverInv
    <2>3. ASSUME NEW r \in table, r.dest \in Range(IPV4_SUBNETS)
          PROVE  r.iface = router.tap /\ router.proxy # NoProxy
      <3>1. Traces4
        BY <2>3 DEF Traces4, Redirected, Range
      <3>2. r.iface \in Taps /\ router.tap \in Taps /\ router.proxy # NoProxy
        BY <2>2, <2>3, <3>1 DEF RedirectsAt, RedirectsByTap
      <3>3. QED BY <3>2 DEF OneDevice
    <2>4. ASSUME NEW j \in DOMAIN IPV6_SUBNETS, IPv6Blocked(j)
          PROVE  router.tap # NoTap /\ router.proxy # NoProxy
      BY <2>2, <2>4, ConstantsOK DEF IPv6BlockAt, Traces6
    <2>5. CASE pc[c] \notin {"remove_ipv4_redirect", "start_routing_ipv6"}
      <3>1. /\ \A i \in DOMAIN IPV4_SUBNETS : Redirected(i) => \A j \in 1..i : Redirected(j)
            /\ \A i \in DOMAIN IPV6_SUBNETS : IPv6Blocked(i) => \A j \in 1..i : IPv6Blocked(j)
        BY <2>2, <2>5 DEF RedirectsAt, IPv6BlockAt, Low
      <3>2. QED BY <2>3, <2>4, <3>1 DEF RoutesRecoverable
    <2>6. CASE pc[c] \in {"remove_ipv4_redirect", "start_routing_ipv6"}
      BY <2>3, <2>4, <2>6 DEF RoutesRecoverable
    <2>7. QED BY <2>5, <2>6
  <1>2. QED BY <1>1, RecoverInvariant, PTL

\* A client that disappears while its thread waits for it leaves no redirect, no IPv6 block and
\* no DNS block behind, whatever it had asked for, unless something went astray.
THEOREM HangupRestoresTheSystem == ASSUME OneClient, OneDevice PROVE Spec => []HangupRestores
  <1>1. BlockInv /\ RecoverInv => HangupRestores
    <2> SUFFICES ASSUME BlockInv, RecoverInv, NEW c \in Clients, pc[c] = "Reply", ~req[c].reply
                 PROVE  /\ open = {} /\ router.proxy = NoProxy
                        /\ \/ astray
                           \/ /\ \A i \in DOMAIN IPV4_SUBNETS : ~Redirected(i)
                              /\ \A j \in DOMAIN IPV6_SUBNETS : ~IPv6Blocked(j)
      BY DEF HangupRestores
    <2>1. req[c].action = "resetRouting"
      BY DEF BlockInv, RequestAt
    <2>2. open = {} /\ router.proxy = NoProxy
      BY <2>1 DEF BlockInv, BlockAt
    <2>3. astray \/ (~Traces4 /\ ~Traces6)
      BY <2>1 DEF RecoverInv, RedirectsAt, IPv6BlockAt
    <2>4. QED BY <2>2, <2>3 DEF Traces4, Traces6
  <1>2. QED BY <1>1, BlockInvariant, RecoverInvariant, PTL
---------------------------------------------------------------------------
(* The service implements RoutingPromise.                                   *)

\* An error is computed for what is not understood; every route leaves by an interface that
\* NoGateway does not have, so a thread in the loops has found a gateway; and the IPv6 routes
\* lead to the loopback.
FoundAt(c) ==
  /\ pc[c] \notin {"closed", "ReadFile"} /\ req[c].action = "other" => result[c] = -1
  /\ pc[c] \in InstallPcs => best[c].iface # NoGateway.iface

FoundRow(r) ==
  r.iface # NoGateway.iface /\ (r.dest \in Range6 => r = Route(r.dest, Loopback, NoHop))

FoundInv ==
  /\ \A r \in table : FoundRow(r)
  /\ \A c \in Clients : FoundAt(c)

LEMMA FoundDefaults == \A g \in Gateways : FoundRow(Route(DefaultDest, g.iface, g.hop))
  BY RoutesApart, Apart DEF FoundRow, Route

LEMMA FoundInit == Init => FoundInv
  BY FoundDefaults DEF Init, FoundInv, FoundAt, InstallPcs

LEMMA FoundOne ==
  ASSUME OneClient, NEW c \in Clients, FoundAt(c)', \A r \in table' : FoundRow(r)
  PROVE  FoundInv'
  BY DEF OneClient, FoundInv, FoundRow

\* The routes that the loops ask for leave by such interfaces, so the ones they add do.
LEMMA FoundInstall ==
  ASSUME OneClient, TypeOK, BlockInv, GatewayInv, FoundInv, NEW c \in Clients,
         \/ add_ipv4_redirect(c) \/ stop_routing_ipv6(c) \/ add_or_update_proxy_route(c)
         \/ add_or_update_reserved_subnet_bypass(c)
  PROVE  FoundInv'
  <1>1. pc[c] \in InstallPcs /\ UNCHANGED <<best, req>> /\ pc'[c] \in InstallPcs \cup {"configured"}
    BY DEF add_ipv4_redirect, stop_routing_ipv6, add_or_update_proxy_route,
           add_or_update_reserved_subnet_bypass, InstallLoop, InstallPcs, TypeOK, ClientTypeOK
  <1>2. req[c].action = "configureRouting"
    BY <1>1 DEF BlockInv, RequestAt, ConfigurePcs, InstallPcs
  <1>3. FoundAt(c)'
    BY <1>1, <1>2 DEF FoundInv, FoundAt
  <1>4. /\ router.tap # NoGateway.iface /\ Loopback # NoGateway.iface
        /\ router.gateway.iface # NoGateway.iface
    <2>1. router.tap \in Taps /\ router.gateway = best[c] /\ best[c].iface # NoGateway.iface
      BY <1>1 DEF GatewayInv, GatewayAt, FoundInv, FoundAt
    <2>2. QED BY <2>1, RoutesApart
  <1>5. \E r, cmd, code : Install(cmd, r, code) /\ FoundRow(r)
    <2>1. CASE add_ipv4_redirect(c)
      <3>1. PICK code : InstallStep(c, "add_ipv4_redirect", RedirectRoutes, <<"netsh_add", "netsh_set">>,
                                    "stop_routing_ipv6", code)
        BY <2>1, InstallSteps DEF add_ipv4_redirect
      <3>2. step[c].i \in DOMAIN IPV4_SUBNETS
        BY <3>1, LoopIndex DEF InstallStep
      <3>3. FoundRow(RedirectRoutes[step[c].i])
        BY <1>4, <3>2, Apart DEF RedirectRoutes, Route, FoundRow
      <3>4. QED BY <3>1, <3>3 DEF InstallStep
    <2>2. CASE stop_routing_ipv6(c)
      <3>1. PICK code : InstallStep(c, "stop_routing_ipv6", IPv6Routes, <<"netsh_add", "netsh_set">>,
                                    "add_or_update_proxy_route", code)
        BY <2>2, InstallSteps DEF stop_routing_ipv6
      <3>2. step[c].i \in DOMAIN IPV6_SUBNETS
        BY <3>1, LoopIndex DEF InstallStep
      <3>3. FoundRow(IPv6Routes[step[c].i])
        BY <1>4, <3>2 DEF IPv6Routes, Route, FoundRow
      <3>4. QED BY <3>1, <3>3 DEF InstallStep
    <2>3. CASE add_or_update_proxy_route(c)
      <3>1. PICK code : InstallStep(c, "add_or_update_proxy_route", ProxyRoutes,
                                    <<"route_change", "netsh_add">>,
                                    "add_or_update_reserved_subnet_bypass", code)
        BY <2>3, InstallSteps DEF add_or_update_proxy_route
      <3>2. step[c].i = 1
        BY <3>1, LoopIndex DEF InstallStep
      <3>3. router.proxy \in Proxies
        BY <1>1 DEF GatewayInv, GatewayAt
      <3>4. FoundRow(ProxyRoutes[step[c].i])
        BY <1>4, <3>2, <3>3, Apart DEF ProxyRoutes, Route, FoundRow
      <3>5. QED BY <3>1, <3>4 DEF InstallStep
    <2>4. CASE add_or_update_reserved_subnet_bypass(c)
      <3>1. PICK code : InstallStep(c, "add_or_update_reserved_subnet_bypass", BypassRoutes,
                                    <<"route_change", "netsh_add">>, "configured", code)
        BY <2>4, InstallSteps DEF add_or_update_reserved_subnet_bypass
      <3>2. step[c].i \in DOMAIN IPV4_RESERVED_SUBNETS
        BY <3>1, LoopIndex DEF InstallStep
      <3>3. FoundRow(BypassRoutes[step[c].i])
        BY <1>4, <3>2, Apart DEF BypassRoutes, Route, FoundRow
      <3>4. QED BY <3>1, <3>3 DEF InstallStep
    <2>5. QED BY <2>1, <2>2, <2>3, <2>4
  <1>6. \A r \in table' : FoundRow(r)
    BY <1>5, InstallEffect DEF FoundInv
  <1>7. QED BY <1>3, <1>6, FoundOne

\* FindGateway takes a row of the table.
LEMMA FoundByRow ==
  ASSUME OneClient, TypeOK, BlockInv, FoundInv, NEW c \in Clients, FindGateway(c)
  PROVE  FoundInv'
  <1>1. UNCHANGED <<table, req>> /\ pc[c] = "enum_adapter_info"
    BY DEF FindGateway, FoundGateway, Break, EnterLoop, GotoPc, tableVars
  <1>2. req[c].action = "configureRouting"
    BY <1>1 DEF BlockInv, RequestAt, ConfigurePcs
  <1>3. \/ pc' = [pc EXCEPT ![c] = "configured"]
        \/ \E tapIf : \E g \in get_system_ipv4_gateway(tapIf) : best' = [best EXCEPT ![c] = g]
    BY DEF FindGateway, FoundGateway, Break, EnterLoop, GotoPc
  <1>4. CASE pc' = [pc EXCEPT ![c] = "configured"]
    BY <1>1, <1>2, <1>4, FoundOne DEF FoundInv, FoundAt, InstallPcs, TypeOK, ClientTypeOK
  <1>5. CASE \E tapIf : \E g \in get_system_ipv4_gateway(tapIf) : best' = [best EXCEPT ![c] = g]
    <2>1. best'[c].iface # NoGateway.iface
      <3>1. PICK g : /\ \E tapIf : g \in get_system_ipv4_gateway(tapIf)
                     /\ best' = [best EXCEPT ![c] = g]
        BY <1>5
      <3>2. \E r \in table : g.iface = r.iface
        BY <3>1 DEF get_system_ipv4_gateway
      <3>3. best'[c] = g
        BY <3>1 DEF TypeOK, ClientTypeOK
      <3>4. QED BY <3>2, <3>3 DEF FoundInv, FoundRow
    <2>2. QED BY <1>1, <1>2, <2>1, FoundOne DEF FoundInv, FoundAt
  <1>6. QED BY <1>3, <1>4, <1>5

\* The steps that compute no gateway and add no route.
LEMMA FoundQuiet ==
  ASSUME OneClient, TypeOK, BlockInv, FoundInv, NEW c \in Clients,
         \A r \in table' : r \in table,
         pc'[c] \notin InstallPcs,
         \/ pc'[c] \in {"closed", "ReadFile"}
         \/ req'[c].action # "other"
         \/ result'[c] = -1
  PROVE  FoundInv'
  BY FoundOne DEF FoundInv, FoundAt

LEMMA FoundHandler ==
  ASSUME OneClient, TypeOK, BlockInv, GatewayInv, FoundInv, NEW c \in Clients,
         Connect(c) \/ ReadFile(c) \/ Handler(c)
  PROVE  FoundInv'
  <1> USE DEF GotoPc, SetResult, TypeOK, ClientTypeOK, tableVars
  <1>1. CASE Connect(c) \/ ReadFile(c) \/ Reply(c)
    BY <1>1, FoundQuiet DEF Connect, ReadFile, Reply, InstallPcs
  <1>2. CASE StopMonitor(c) \/ WaitForThread(c) \/ HandleOther(c)
    BY <1>2, FoundQuiet DEF StopMonitor, WaitForThread, HandleOther, FoundInv, FoundAt, InstallPcs
  <1>3. CASE HandleConfigure(c)
    BY <1>3, FoundQuiet DEF HandleConfigure, InstallPcs
  <1>4. CASE HandleReset(c)
    BY <1>4, FoundQuiet DEF HandleReset, EnterLoop, InstallPcs
  <1>5. CASE FindGateway(c)
    BY <1>5, FoundByRow
  <1>6. CASE \/ CheckRequest(c) \/ CheckEngine(c) \/ EngineOpen(c) \/ SubLayerAdd(c) \/ AddBlockFilter(c)
             \/ AddWhitelistFilter(c) \/ BlockFails(c) \/ EndBegin(c) \/ EndConfigure(c)
             \/ StartMonitor(c) \/ (ClearHandle(c) /\ pc[c] # "reset_clear")
    <2>1. UNCHANGED <<table, req>> /\ pc[c] \in ConfigurePcs /\ pc'[c] \notin InstallPcs
      BY <1>6
      DEF CheckRequest, CheckEngine, EngineOpen, SubLayerAdd, AddBlockFilter, AddWhitelistFilter,
          BlockFails, EndBegin, ClearHandle, EndStep, BlockStep, Break, EndConfigure, StartMonitor,
          ConfigurePcs, InBegin, BeginCalls, InstallPcs
    <2>2. QED BY <2>1, FoundQuiet DEF BlockInv, RequestAt
  <1>7. CASE \/ add_ipv4_redirect(c) \/ stop_routing_ipv6(c) \/ add_or_update_proxy_route(c)
             \/ add_or_update_reserved_subnet_bypass(c)
    BY <1>7, FoundInstall
  <1>8. CASE \/ remove_ipv4_redirect(c) \/ start_routing_ipv6(c) \/ delete_proxy_route(c)
             \/ remove_reserved_subnet_bypass(c)
    <2>1. UNCHANGED table \/ \E gone : \E code \in Codes : Delete(gone, code)
      BY <1>8
      DEF remove_ipv4_redirect, start_routing_ipv6, delete_proxy_route,
          remove_reserved_subnet_bypass, NetshDelete, RouteDelete
    <2>2. UNCHANGED req /\ pc[c] \in ResetPcs /\ pc'[c] \in ResetPcs
      BY <1>8
      DEF remove_ipv4_redirect, start_routing_ipv6, delete_proxy_route,
          remove_reserved_subnet_bypass, AfterRemoval, ResetPcs
    <2>3. QED BY <2>1, <2>2, FoundQuiet, DeleteEffect DEF BlockInv, RequestAt, ResetPcs, InstallPcs
  <1>9. CASE EndReset(c) \/ ForgetRouter(c) \/ (ClearHandle(c) /\ pc[c] = "reset_clear")
    BY <1>9, FoundQuiet
    DEF EndReset, ForgetRouter, ClearHandle, EndStep, BlockInv, RequestAt, ResetPcs, InstallPcs
  <1>10. QED BY <1>1, <1>2, <1>3, <1>4, <1>5, <1>6, <1>7, <1>8, <1>9 DEF Handler

LEMMA FoundInvariant == ASSUME OneClient PROVE Spec => []FoundInv
  <1>1. TypeOK /\ BlockInv /\ GatewayInv /\ FoundInv /\ [Next]_vars => FoundInv'
    <2> SUFFICES ASSUME TypeOK, BlockInv, GatewayInv, FoundInv, [Next]_vars PROVE FoundInv'
      OBVIOUS
    <2>1. CASE UNCHANGED <<table, pc, req, result, best>>
      BY <2>1 DEF FoundInv, FoundAt, FoundRow
    <2>2. ASSUME NEW c \in Clients, Connect(c) \/ ReadFile(c) \/ Handler(c)
          PROVE  FoundInv'
      BY <2>2, FoundHandler
    <2>3. CASE NetworkChanges
      <3>1. \A r \in table' : r \in table \/ \E g \in Gateways : r = Route(DefaultDest, g.iface, g.hop)
        BY <2>3 DEF NetworkChanges, DefaultRoutes
      <3>2. \A r \in table' : FoundRow(r)
        BY <3>1, FoundDefaults DEF FoundInv
      <3>3. UNCHANGED <<pc, req, result, best>>
        BY <2>3 DEF NetworkChanges, clientVars
      <3>4. \A c \in Clients : FoundAt(c)'
        BY <3>3 DEF FoundInv, FoundAt
      <3>5. QED BY <3>2, <3>4 DEF FoundInv, FoundRow
    <2>4. QED
      BY <2>1, <2>2, <2>3 DEF Next, ClientLost, MonitorThread, vars, clientVars, tableVars
  <1>2. QED BY <1>1, FoundInit, TypeCorrect, BlockInvariant, GatewayInvariant, PTL DEF Spec

\* The ranges whose routes lead into the tunnel follow from the routes that lead into it.
LEMMA TakenSame == ASSUME SameTunnel PROVE Taken' = Taken
  <1>1. ASSUME NEW d \in Range(IPV4_SUBNETS)
        PROVE  (\E r \in table' : r.dest = d /\ r.iface \in Taps)
                 <=> (\E r \in table : r.dest = d /\ r.iface \in Taps)
    BY DEF SameTunnel, Range4
  <1>2. ASSUME NEW d \in Range(IPV6_SUBNETS)
        PROVE  Route(d, Loopback, NoHop) \in table' <=> Route(d, Loopback, NoHop) \in table
    BY DEF SameTunnel, Range6, Route
  <1>3. QED BY <1>1, <1>2 DEF Taken

\* A step that takes no route of the tunnel away takes no range from it.
LEMMA TakenGrows ==
  ASSUME \A r \in table : r.dest \in Range4 \cup Range6 => r \in table'
  PROVE  Taken \subseteq Taken'
  BY DEF Taken, Range4, Range6, Route

LEMMA TakenShrinks == ASSUME \A r \in table' : r \in table PROVE Taken' \subseteq Taken
  BY DEF Taken

Ranges == Range(IPV4_SUBNETS) \cup Range(IPV6_SUBNETS)

\* A route of the tunnel that stands takes its range.
LEMMA RowTakes ==
  ASSUME RedirectsByTap, \A q \in table : FoundRow(q), NEW r \in table, r.dest \in Ranges
  PROVE  r.dest \in Taken
  <1>1. CASE r.dest \in Range(IPV4_SUBNETS)
    BY <1>1 DEF RedirectsByTap, Taken
  <1>2. CASE r.dest \in Range(IPV6_SUBNETS)
    <2>1. r = Route(r.dest, Loopback, NoHop)
      BY <1>2 DEF FoundRow, Range6
    <2>2. QED BY <1>2, <2>1 DEF Taken
  <1>3. QED BY <1>1, <1>2 DEF Ranges

\* Every range is taken or missed when all commands for the tunnel have been answered with 0,
\* and none is taken when a reset has found nothing left.
LEMMA TakenAll ==
  ASSUME router.tap \in Taps, req[TheClient].tap = router.tap,
         \A i \in DOMAIN IPV4_SUBNETS : Tunnelled(TheClient, i), \A j \in DOMAIN IPV6_SUBNETS : Blocked6(j)
  PROVE  Ranges \subseteq Taken \cup Missed
  <1>1. ASSUME NEW d \in Range(IPV4_SUBNETS)
        PROVE  d \in Taken \cup Missed
    <2>1. PICK i \in DOMAIN IPV4_SUBNETS : d = IPV4_SUBNETS[i]
      BY DEF Range
    <2> DEFINE r == Route(d, router.tap, router.tapHop)
    <2>2. r.dest = d /\ r.iface \in Taps
      BY DEF Route
    <2>3. router.tap \in lost[TheClient] \/ r \in table \/ r \in unmade
      BY <2>1 DEF Tunnelled, Answered
    <2>4. CASE router.tap \in lost[TheClient]
      BY <2>4 DEF Missed
    <2>5. CASE r \in table
      BY <2>2, <2>5 DEF Taken
    <2>6. CASE r \in unmade
      BY <2>2, <2>6 DEF Missed
    <2>7. QED BY <2>3, <2>4, <2>5, <2>6
  <1>2. ASSUME NEW d \in Range(IPV6_SUBNETS)
        PROVE  d \in Taken \cup Missed
    <2>1. PICK j \in DOMAIN IPV6_SUBNETS : d = IPV6_SUBNETS[j]
      BY DEF Range
    <2> DEFINE r == Route(d, Loopback, NoHop)
    <2>2. r.dest = d
      BY DEF Route
    <2>3. r \in table \/ r \in unmade
      BY <2>1 DEF Blocked6, Answered
    <2>4. CASE r \in table
      BY <2>4 DEF Taken
    <2>5. CASE r \in unmade
      BY <2>2, <2>5 DEF Missed
    <2>6. QED BY <2>3, <2>4, <2>5
  <1>3. QED BY <1>1, <1>2 DEF Ranges

LEMMA TakenNone == ASSUME ~Traces4, ~Traces6 PROVE Taken = {}
  BY DEF Taken, Traces4, Traces6, Redirected, IPv6Blocked, Range

LEMMA RangesOnly == Taken \subseteq Ranges /\ Missed \subseteq Ranges
  BY DEF Taken, Missed, Ranges

\* What is known of the service when one of its threads takes a step, ...
ServiceInv ==
  TypeOK /\ DownInv /\ BlockInv /\ GatewayInv /\ TunnelInv /\ RecoverInv /\ FoundInv
\* ... and after it.
AfterInv == RedirectsByTap /\ FoundInv

PromiseVars ==
  <<Asked, IF Asked = "nothing" THEN result[TheClient] ELSE -1, best[TheClient] # NoGateway,
    Taken, Missed, blocks # {}, astray>>

LEMMA TheOnlyClient == ASSUME OneClient, NEW c \in Clients PROVE TheClient = c
  BY DEF OneClient, TheClient

LEMMA PromiseInit == ASSUME OneClient PROVE Init => Promise!Init
  <1> SUFFICES ASSUME Init PROVE Promise!Init
    OBVIOUS
  <1>1. TheClient \in Clients
    BY DEF OneClient, TheClient
  <1>2. Taken = {} /\ Missed = {}
    <2>1. \A r \in table : r.dest \notin Range4 \cup Range6
      BY Apart DEF Init, Route
    <2>2. Taken = {}
      BY <2>1 DEF Taken, Route, Range4, Range6
    <2>3. unmade = {} /\ lost[TheClient] = {}
      BY <1>1 DEF Init
    <2>4. QED BY <2>2, <2>3 DEF Missed
  <1>3. QED BY <1>1, <1>2 DEF Init, DnsInit, Asked, Promise!Init

\* Where nothing that leads to them changes, neither do the ranges.
LEMMA RangesStay ==
  ASSUME UNCHANGED <<table, unmade, req, lost>>
  PROVE  Taken' = Taken /\ Missed' = Missed
  BY DEF Taken, Missed

\* The client comes or goes, or a monitor works.
LEMMA PromiseOther ==
  ASSUME OneClient, TypeOK, UNCHANGED <<table, unmade, lost, req, result, best, blocks, astray>>,
         UNCHANGED pc \/ \E c \in Clients : Connect(c)
  PROVE  UNCHANGED PromiseVars
  <1>1. Asked' = Asked
    <2>1. CASE UNCHANGED pc
      BY <2>1 DEF Asked
    <2>2. ASSUME NEW c \in Clients, Connect(c) PROVE Asked' = Asked
      BY <2>2, TheOnlyClient DEF Asked, Connect, GotoPc, TypeOK, ClientTypeOK
    <2>3. QED BY <2>1, <2>2
  <1>2. QED BY <1>1, RangesStay DEF PromiseVars

\* The thread stops the monitor and dispatches its request.
LEMMA PromiseDispatch ==
  ASSUME OneClient, NEW c \in Clients, pc[c] \notin {"closed", "ReadFile"},
         pc'[c] \notin {"closed", "ReadFile"},
         UNCHANGED <<table, unmade, lost, req, best, blocks, astray>>,
         req[c].action # "nothing"
  PROVE  UNCHANGED PromiseVars
  <1>1. TheClient = c
    BY TheOnlyClient
  <1>2. Taken' = Taken /\ Missed' = Missed
    BY RangesStay
  <1>3. Asked = req[c].action /\ Asked' = Asked
    BY <1>1 DEF Asked
  <1>4. QED BY <1>1, <1>2, <1>3 DEF PromiseVars

\* A device goes down, or the network changes otherwise.
LEMMA PromiseNetwork ==
  ASSUME OneClient, TypeOK, NetworkChanges
  PROVE  Promise!LoseDevice
  <1>1. UNCHANGED <<pc, req, result, best, blocks>>
    BY DEF NetworkChanges, clientVars, dnsVars
  <1>2. TheClient \in Clients
    BY DEF OneClient, TheClient
  <1>3. \A q : q \in table' => q \in table \/ q.dest = DefaultDest
    BY NetworkEffect
  <1>4. Taken' \subseteq Taken
    <2>1. ASSUME NEW d \in Range(IPV4_SUBNETS), NEW r \in table', r.dest = d, r.iface \in Taps
          PROVE  d \in Taken
      <3>1. d # DefaultDest
        BY Apart DEF Range4
      <3>2. r \in table
        BY <1>3, <2>1, <3>1
      <3>3. QED BY <2>1, <3>2 DEF Taken
    <2>2. ASSUME NEW d \in Range(IPV6_SUBNETS), Route(d, Loopback, NoHop) \in table'
          PROVE  d \in Taken
      <3>1. d # DefaultDest /\ Route(d, Loopback, NoHop).dest = d
        BY Apart DEF Range6, Route
      <3>2. Route(d, Loopback, NoHop) \in table
        BY <1>3, <2>2, <3>1
      <3>3. QED BY <3>2 DEF Taken
    <2>3. QED BY <2>1, <2>2 DEF Taken
  <1>5. Taken \subseteq Taken' \cup Range(IPV4_SUBNETS)
    <2>1. ASSUME NEW d \in Range(IPV6_SUBNETS), Route(d, Loopback, NoHop) \in table
          PROVE  d \in Taken'
      <3>1. d # DefaultDest /\ Route(d, Loopback, NoHop).dest = d
            /\ Route(d, Loopback, NoHop).iface \notin Adapters
        BY Apart, RoutesApart DEF Range6, Route, Adapters
      <3>2. Route(d, Loopback, NoHop) \in table'
        BY <2>1, <3>1, NetworkEffect
      <3>3. QED BY <3>2 DEF Taken
    <2>2. QED BY <2>1 DEF Taken
  <1>6. Missed' = Missed \/ Missed' = Missed \cup Range(IPV4_SUBNETS)
    <2>1. UNCHANGED unmade /\ lost[TheClient] \subseteq lost'[TheClient]
      BY <1>2, NetworkEffect
    <2>2. QED BY <1>1, <2>1 DEF Missed
  <1>7. astray => astray'
    <2>1. \/ \E a \in Adapters : astray' = (astray \/ (a \in Taps /\ table' # table
                                           /\ \E d \in Clients : pc[d] = "add_ipv4_redirect"))
          \/ UNCHANGED <<lost, astray>>
      BY DEF NetworkChanges
    <2>2. ASSUME astray PROVE astray'
      <3>1. CASE UNCHANGED <<lost, astray>>
        BY <2>2, <3>1
      <3>2. CASE \E a \in Adapters : astray' = (astray \/ (a \in Taps /\ table' # table
                                           /\ \E d \in Clients : pc[d] = "add_ipv4_redirect"))
        BY <2>2, <3>2
      <3>3. QED BY <2>1, <3>1, <3>2
    <2>3. QED BY <2>2
  <1>8. Asked' = Asked
    BY <1>1 DEF Asked
  <1>9. QED BY <1>1, <1>4, <1>5, <1>6, <1>7, <1>8 DEF Promise!LoseDevice

\* The thread reads a request.
LEMMA PromiseAsk ==
  ASSUME OneClient, TypeOK, NEW c \in Clients, ReadFile(c)
  PROVE  Promise!Ask
  <1> USE DEF TypeOK, ClientTypeOK, GotoPc
  <1>1. TheClient = c
    BY TheOnlyClient
  <1>2. /\ pc[c] = "ReadFile" /\ pc'[c] = "net_status_stop_monitor" /\ best'[c] = NoGateway
        /\ UNCHANGED <<table, unmade, astray, blocks>> /\ lost'[c] = {}
    BY DEF ReadFile, tableVars, dnsVars, NetTypeOK
  <1>3. req'[c].action \in {"configureRouting", "resetRouting", "other"}
    <2>1. PICK r : (r \in Requests \/ r = Hangup) /\ req' = [req EXCEPT ![c] = r]
      BY DEF ReadFile
    <2>2. r \in Request
      BY <2>1, HangupType, ConstantsOK
    <2>3. QED BY <2>1, <2>2 DEF Request
  <1>4. Taken' = Taken
    BY <1>2 DEF Taken
  <1>5. Missed' \subseteq Missed
    BY <1>1, <1>2 DEF Missed
  <1>6. Asked = "nothing" /\ Asked' = req'[c].action
    BY <1>1, <1>2 DEF Asked
  <1>7. Asked' # "nothing"
    BY <1>3, <1>6
  <1>8. QED BY <1>1, <1>2, <1>3, <1>4, <1>5, <1>6, <1>7 DEF Promise!Ask

\* It executes a configureRouting.
LEMMA PromiseConfigure ==
  ASSUME OneClient, ServiceInv, NEW c \in Clients,
         pc[c] \in ConfigurePcs, pc'[c] \notin {"closed", "ReadFile"},
         UNCHANGED req, astray => astray',
         best[c] # NoGateway => best'[c] # NoGateway,
         Taken \subseteq Taken', Missed \subseteq Taken' \cup Missed',
         <<Taken, Missed>>' # <<Taken, Missed>> => pc[c] \in InstallPcs
  PROVE  Promise!Configure
  <1>1. TheClient = c
    BY TheOnlyClient
  <1>2. req[c].action = "configureRouting"
    BY DEF ServiceInv, BlockInv, RequestAt
  <1>3. Asked = "configureRouting" /\ Asked' = "configureRouting"
    BY <1>1, <1>2 DEF Asked, ConfigurePcs, InBegin, BeginCalls
  <1>4. <<Taken, Missed>>' # <<Taken, Missed>> => best[c] # NoGateway /\ blocks # {}
    <2> SUFFICES ASSUME pc[c] \in InstallPcs PROVE best[c] # NoGateway /\ blocks # {}
      OBVIOUS
    <2>1. best[c] # NoGateway
      BY DEF ServiceInv, FoundInv, FoundAt
    <2>2. open # {}
      BY DEF ServiceInv, GatewayInv, GatewayAt
    <2>3. \A s \in open : s \in blocks
      BY DEF ServiceInv, BlockInv, SessionAt, InstallPcs, InBegin, BeginCalls
    <2>4. QED BY <2>1, <2>2, <2>3
  <1>5. Taken' \cup Missed' \subseteq Ranges
    BY DEF Taken, Missed, Ranges
  <1>6. QED BY <1>1, <1>3, <1>4, <1>5 DEF Promise!Configure, Ranges

\* It executes a resetRouting.
LEMMA PromiseReset ==
  ASSUME OneClient, ServiceInv, NEW c \in Clients,
         req[c].action = "resetRouting",
         pc[c] \notin {"closed", "ReadFile"}, pc'[c] \notin {"closed", "ReadFile"},
         UNCHANGED <<req, best, unmade, lost>>, blocks' \subseteq blocks, astray => astray',
         \A r \in table' : r \in table
  PROVE  Promise!Reset
  <1>1. TheClient = c
    BY TheOnlyClient
  <1>2. Asked = "resetRouting" /\ Asked' = "resetRouting"
    BY <1>1 DEF Asked
  <1>3. Taken' \subseteq Taken /\ Missed' = Missed
    BY TakenShrinks DEF Missed
  <1>4. blocks' # {} => blocks # {}
    OBVIOUS
  <1>5. QED BY <1>1, <1>2, <1>3, <1>4 DEF Promise!Reset

\* It answers.
LEMMA PromiseAnswer ==
  ASSUME OneClient, OneDevice, ServiceInv, NEW c \in Clients, Reply(c)
  PROVE  Promise!Answer
  <1> USE DEF ServiceInv
  <1>1. TheClient = c
    BY TheOnlyClient
  <1>2. /\ pc[c] = "Reply" /\ pc'[c] \in {"closed", "ReadFile"}
        /\ UNCHANGED <<table, unmade, lost, astray, open, blocks, req, result, best>>
    BY DEF Reply, GotoPc, tableVars, dnsVars, netVars, TypeOK, ClientTypeOK
  <1>3. Asked = req[c].action /\ Asked' = "nothing"
    BY <1>1, <1>2 DEF Asked
  <1>4. Taken' = Taken /\ Missed' = Missed
    BY <1>2, RangesStay
  <1>5. /\ result[c] \in {0, -1} /\ req[c].action \in {"configureRouting", "resetRouting", "other"}
        /\ req[c].tap \in Taps
    BY DEF TypeOK, ClientTypeOK, Codes, Request
  <1>6. open = {} => blocks = {}
    BY DEF TypeOK, DnsTypeOK
  <1>7. CASE req[c].action = "configureRouting"
    <2>1. result[c] = -1 => blocks = {}
      BY <1>2, <1>6, <1>7 DEF BlockInv, BlockAt
    <2>2. ASSUME result[c] = 0
          PROVE  blocks # {} /\ (best[c] # NoGateway => Ranges \subseteq Taken \cup Missed)
      <3>1. Finished(c)
        BY <1>2, <1>7, <2>2 DEF Finished
      <3>2. router.tap \in Taps /\ open # {}
        BY <3>1 DEF GatewayInv, GatewayAt
      <3>3. \A s \in open : s \in blocks
        BY <1>2 DEF BlockInv, SessionAt, InBegin, BeginCalls
      <3>4. ASSUME best[c] # NoGateway PROVE Ranges \subseteq Taken \cup Missed
        <4>1. Succeeded(c)
          BY <3>1, <3>4 DEF Succeeded
        <4>2. req[c].tap = router.tap
          BY <1>5, <3>2 DEF OneDevice
        <4>3. /\ \A i \in DOMAIN IPV4_SUBNETS : Tunnelled(c, i)
              /\ \A j \in DOMAIN IPV6_SUBNETS : Blocked6(j)
          BY <4>1 DEF TunnelInv, TunnelAt
        <4>4. QED BY <1>1, <3>2, <4>2, <4>3, TakenAll
      <3>5. QED BY <3>2, <3>3, <3>4
    <2>3. QED BY <1>1, <1>2, <1>3, <1>4, <1>5, <1>7, <2>1, <2>2 DEF Promise!Answer, Ranges
  <1>8. CASE req[c].action = "resetRouting"
    <2>1. blocks = {}
      BY <1>2, <1>6, <1>8 DEF BlockInv, BlockAt
    <2>2. astray \/ Taken = {}
      BY <1>2, <1>8, TakenNone DEF RecoverInv, RedirectsAt, IPv6BlockAt
    <2>3. QED BY <1>1, <1>2, <1>3, <1>4, <1>5, <1>8, <2>1, <2>2 DEF Promise!Answer
  <1>9. CASE req[c].action = "other"
    <2>1. result[c] = -1
      BY <1>2, <1>9 DEF FoundInv, FoundAt
    <2>2. QED BY <1>1, <1>2, <1>3, <1>4, <1>9, <2>1 DEF Promise!Answer
  <1>10. QED BY <1>5, <1>7, <1>8, <1>9

\* A step of the loops takes no range back, and what a command has missed is taken or missed.
LEMMA InstallRanges ==
  ASSUME OneClient, ServiceInv, AfterInv', NEW c \in Clients,
         \/ add_ipv4_redirect(c) \/ stop_routing_ipv6(c) \/ add_or_update_proxy_route(c)
         \/ add_or_update_reserved_subnet_bypass(c)
  PROVE  /\ Taken \subseteq Taken'
         /\ Missed \subseteq Taken' \cup Missed'
         /\ astray => astray'
  <1> USE DEF ServiceInv
  <1>1. \E r, cmd : \E code \in Codes : Install(cmd, r, code) /\ (cmd # "route_change" \/ SameTunnel)
    <2>1. CASE add_ipv4_redirect(c) \/ stop_routing_ipv6(c)
      <3> DEFINE cmds == <<"netsh_add", "netsh_set">>
      <3>1. \E here, next, routes : \E code \in Codes : InstallStep(c, here, routes, cmds, next, code)
        BY <2>1, InstallSteps DEF add_ipv4_redirect, stop_routing_ipv6
      <3>2. step[c].try \in {1, 2}
        BY LoopIndex
      <3>3. QED BY <3>1, <3>2 DEF InstallStep
    <2>2. CASE add_or_update_proxy_route(c) \/ add_or_update_reserved_subnet_bypass(c)
      <3> DEFINE cmds == <<"route_change", "netsh_add">>
      <3>1. \E here, next, routes : \E code \in Codes : InstallStep(c, here, routes, cmds, next, code)
        BY <2>2, InstallSteps DEF add_or_update_proxy_route, add_or_update_reserved_subnet_bypass
      <3>2. SameTunnel
        BY <2>2, BypassOutside
      <3>3. QED BY <3>1, <3>2 DEF InstallStep
    <2>3. QED BY <2>1, <2>2
  <1>2. /\ \A r \in table : r.dest \in Range4 \cup Range6 => r \in table'
        /\ \A q \in unmade : q \in table' \cup unmade'
        /\ astray => astray'
    BY SMTT(30), <1>1, InstallEffect DEF SameTunnel
  <1>3. UNCHANGED <<req, lost>>
    BY DEF add_ipv4_redirect, stop_routing_ipv6, add_or_update_proxy_route,
           add_or_update_reserved_subnet_bypass, InstallLoop, netVars
  <1>4. ASSUME NEW q \in unmade, q.dest \in Ranges
        PROVE  q.dest \in Taken' \cup Missed'
    <2>1. CASE q \in unmade'
      BY <1>4, <2>1 DEF Missed, Ranges
    <2>2. CASE q \in table'
      <3>1. RedirectsByTap' /\ \A r \in table' : FoundRow(r)
        BY DEF AfterInv, FoundInv, FoundRow
      <3>2. CASE q.dest \in Range(IPV4_SUBNETS)
        BY <2>2, <3>1, <3>2 DEF RedirectsByTap, Taken
      <3>3. CASE q.dest \in Range(IPV6_SUBNETS)
        <4>1. q = Route(q.dest, Loopback, NoHop)
          BY <2>2, <3>1, <3>3 DEF FoundRow, Range6
        <4>2. QED BY <2>2, <3>3, <4>1 DEF Taken
      <3>4. QED BY <1>4, <3>2, <3>3 DEF Ranges
    <2>3. QED BY <1>2, <2>1, <2>2
  <1>5. Missed \subseteq Taken' \cup Missed'
    <2>1. ASSUME NEW d \in Missed PROVE d \in Taken' \cup Missed'
      <3>1. CASE \E q \in unmade : q.dest = d
        BY <1>4, <2>1, <3>1, RangesOnly
      <3>2. CASE req[TheClient].tap \in lost[TheClient] /\ d \in Range(IPV4_SUBNETS)
        BY <1>3, <3>2 DEF Missed
      <3>3. QED BY <2>1, <3>1, <3>2 DEF Missed
    <2>2. QED BY <2>1
  <1>6. QED BY <1>2, <1>5, TakenGrows

\* A step of configure_routing: the loops only add routes of the tunnel, after DNS is blocked
\* and the gateway is found.
LEMMA PromiseInstall ==
  ASSUME OneClient, ServiceInv, AfterInv', NEW c \in Clients,
         \/ CheckRequest(c) \/ CheckEngine(c) \/ EngineOpen(c) \/ SubLayerAdd(c) \/ AddBlockFilter(c)
         \/ AddWhitelistFilter(c) \/ BlockFails(c) \/ EndBegin(c) \/ FindGateway(c)
         \/ EndConfigure(c) \/ StartMonitor(c) \/ (ClearHandle(c) /\ pc[c] # "reset_clear")
         \/ add_ipv4_redirect(c) \/ stop_routing_ipv6(c) \/ add_or_update_proxy_route(c)
         \/ add_or_update_reserved_subnet_bypass(c)
  PROVE  Promise!Configure
  <1> USE DEF ServiceInv, GotoPc
  <1>1. CASE \/ CheckRequest(c) \/ CheckEngine(c) \/ EngineOpen(c) \/ SubLayerAdd(c) \/ AddBlockFilter(c)
             \/ AddWhitelistFilter(c) \/ BlockFails(c) \/ EndBegin(c) \/ EndConfigure(c)
             \/ StartMonitor(c) \/ (ClearHandle(c) /\ pc[c] # "reset_clear")
    <2>1. /\ UNCHANGED <<table, unmade, lost, req, best, astray>> /\ pc[c] \in ConfigurePcs
          /\ pc'[c] \notin {"closed", "ReadFile"}
      BY ZenonT(40), <1>1
      DEF CheckRequest, CheckEngine, EngineOpen, SubLayerAdd, AddBlockFilter, AddWhitelistFilter,
          BlockFails, EndBegin, ClearHandle, EndStep, BlockStep, Break, EndConfigure, StartMonitor,
          ConfigurePcs, InBegin, BeginCalls, tableVars, netVars, TypeOK, ClientTypeOK
    <2>2. Taken' = Taken /\ Missed' = Missed
      BY <2>1, RangesStay
    <2>3. QED BY <2>1, <2>2, PromiseConfigure
  <1>2. CASE FindGateway(c)
    <2>1. UNCHANGED <<table, unmade, lost, req, astray>> /\ pc[c] = "enum_adapter_info"
      BY <1>2 DEF FindGateway, FoundGateway, Break, EnterLoop, tableVars, netVars
    <2>2. best[c] = NoGateway
      BY <2>1 DEF GatewayInv, GatewayAt, BeforeGateway, BeginPcs
    <2>3. pc'[c] \in {"configured", "add_ipv4_redirect"}
      BY <1>2, FindGatewaySteps DEF TypeOK, ClientTypeOK
    <2>4. Taken' = Taken /\ Missed' = Missed
      BY <2>1, RangesStay
    <2>5. QED BY <2>1, <2>2, <2>3, <2>4, PromiseConfigure DEF ConfigurePcs
  <1>3. CASE \/ add_ipv4_redirect(c) \/ stop_routing_ipv6(c) \/ add_or_update_proxy_route(c)
             \/ add_or_update_reserved_subnet_bypass(c)
    <2>1. /\ UNCHANGED <<req, best>> /\ pc[c] \in InstallPcs
          /\ pc'[c] \notin {"closed", "ReadFile"}
      BY <1>3
      DEF add_ipv4_redirect, stop_routing_ipv6, add_or_update_proxy_route,
          add_or_update_reserved_subnet_bypass, InstallLoop, InstallPcs, TypeOK, ClientTypeOK
    <2>2. pc[c] \in ConfigurePcs
      BY <2>1 DEF ConfigurePcs, InstallPcs
    <2>3. QED BY <1>3, <2>1, <2>2, InstallRanges, PromiseConfigure
  <1>4. QED BY <1>1, <1>2, <1>3

\* A step of reset_routing only deletes routes.
LEMMA PromiseRemove ==
  ASSUME OneClient, ServiceInv, NEW c \in Clients,
         \/ remove_ipv4_redirect(c) \/ start_routing_ipv6(c) \/ delete_proxy_route(c)
         \/ remove_reserved_subnet_bypass(c) \/ EndReset(c) \/ ForgetRouter(c)
         \/ (ClearHandle(c) /\ pc[c] = "reset_clear")
  PROVE  Promise!Reset
  <1> USE DEF ServiceInv, GotoPc
  <1>1. UNCHANGED tableVars \/ \E gone : \E code \in Codes : Delete(gone, code)
    BY DEF remove_ipv4_redirect, start_routing_ipv6, delete_proxy_route, ClearHandle, EndStep,
           remove_reserved_subnet_bypass, NetshDelete, RouteDelete, EndReset, ForgetRouter
  <1>2. /\ UNCHANGED <<req, best, lost>> /\ pc[c] \in ResetPcs
        /\ pc'[c] \in ResetPcs \cup {"Reply"}
        /\ blocks' \subseteq blocks
    BY DEF remove_ipv4_redirect, start_routing_ipv6, delete_proxy_route, ClearHandle, EndStep,
           remove_reserved_subnet_bypass, AfterRemoval, EndReset, ForgetRouter, FwpmEngineClose0,
           ForgetEngine, dnsVars, netVars, ResetPcs, TypeOK, ClientTypeOK
  <1>3. req[c].action = "resetRouting"
    BY <1>2 DEF BlockInv, RequestAt
  <1>4. (\A r \in table' : r \in table) /\ (astray => astray') /\ UNCHANGED unmade
    BY <1>1, DeleteEffect DEF tableVars
  <1>5. QED BY <1>2, <1>3, <1>4, PromiseReset DEF ResetPcs

LEMMA PromiseNext ==
  ASSUME OneClient, OneDevice, ServiceInv, AfterInv', [Next]_vars
  PROVE  Promise!Next \/ UNCHANGED PromiseVars
  <1> USE DEF ServiceInv
  <1>1. CASE UNCHANGED <<table, unmade, lost, pc, req, result, best, blocks, astray>>
    BY <1>1, PromiseOther
  <1>2. CASE NetworkChanges
    BY <1>2, PromiseNetwork DEF Promise!Next
  <1>3. ASSUME NEW c \in Clients, Connect(c) \/ ReadFile(c) \/ Handler(c)
        PROVE  Promise!Next \/ UNCHANGED PromiseVars
    <2>1. CASE Connect(c)
      BY <2>1, PromiseOther DEF Connect, tableVars, dnsVars, netVars
    <2>2. CASE ReadFile(c)
      BY <2>2, PromiseAsk DEF Promise!Next
    <2>3. CASE Reply(c)
      BY <2>3, PromiseAnswer DEF Promise!Next
    <2>4. CASE \/ StopMonitor(c) \/ WaitForThread(c) \/ HandleConfigure(c) \/ HandleReset(c)
               \/ HandleOther(c)
      <3>1. /\ UNCHANGED <<table, unmade, lost, req, best, blocks, astray>>
            /\ pc[c] \notin {"closed", "ReadFile"} /\ pc'[c] \notin {"closed", "ReadFile"}
        BY <2>4
        DEF StopMonitor, WaitForThread, HandleConfigure, HandleReset, HandleOther, GotoPc, EnterLoop,
            tableVars, dnsVars, netVars, TypeOK, ClientTypeOK
      <3>2. req[c].action # "nothing"
        BY DEF TypeOK, ClientTypeOK, Request
      <3>3. QED BY <3>1, <3>2, PromiseDispatch
    <2>5. QED
      BY <1>3, <2>1, <2>2, <2>3, <2>4, PromiseInstall, PromiseRemove DEF Handler, Promise!Next
  <1>4. QED
    BY <1>1, <1>2, <1>3
    DEF Next, ClientLost, MonitorThread, vars, clientVars, tableVars, dnsVars, netVars

\* With one client and one TAP device, for any tables, failures and network changes, every step
\* of the service is a step of what it promises or none.
THEOREM ServiceKeepsPromise == ASSUME OneClient, OneDevice PROVE Spec => KeepsRoutingPromise
  <1>1. Init => Promise!Init
    BY PromiseInit
  <1>2. ServiceInv /\ AfterInv' /\ [Next]_vars => [Promise!Next]_PromiseVars
    BY PromiseNext
  <1>3. Spec => []ServiceInv
    BY TypeCorrect, DownInvariant, BlockInvariant, GatewayInvariant, TunnelInvariant, RecoverInvariant,
       FoundInvariant, PTL DEF ServiceInv
  <1>4. Spec => []AfterInv
    BY ByTapInvariant, FoundInvariant, PTL DEF AfterInv
  <1>5. QED
    BY <1>1, <1>2, <1>3, <1>4, PTL DEF Spec, KeepsRoutingPromise, Promise!Spec, PromiseVars
===========================================================================
