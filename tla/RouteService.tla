--------------------------- MODULE RouteService ---------------------------
(***************************************************************************)
(* The routing service: cmd_handler.c run by the client threads of         *)
(* pipe_service.c.  Each connected client has a thread that reads a        *)
(* request, executes it on the one global router_info and writes a         *)
(* response.  Nothing serialises the threads.  One step is one system      *)
(* call, one command of run_command, or the code between two of them.      *)
(*                                                                         *)
(* The parts live in modules of their own: the routing table, the DNS      *)
(* block and the address-change monitor.                                   *)
(***************************************************************************)
EXTENDS RoutingTable, SmartDnsBlock, NetChangeMonitor

CONSTANTS
  Clients,        \* connections the service can hold at once (bound)
  Taps,           \* names of TAP devices
  NoTap,          \* the empty tapDeviceName
  AdapterHop,     \* each TAP device's own IPv4 gateway, or NoHop
  Hops,           \* gateway addresses a request can carry for its TAP device
  Proxies,        \* addresses of proxy servers
  NoProxy,        \* an empty or unreadable proxyIp
  Gateways,       \* physical default gateways: records [iface, hop]
  NoGateway,      \* no gateway: a record of that shape, not one of them
  NoMonitor,      \* router_info.monitor = NULL
  Requests,       \* what a client can ask for
  MaxNetChanges   \* bound: how often the network changes

VARIABLES
  router,      \* g_router_info
  conn,        \* the client's end of each pipe: "closed", "open" or "lost"
  pc,          \* where each client thread is; named after the C function or call
  req,         \* the request it executes
  result,      \* the code it has computed
  step,        \* the loop it is in: [i: index of the route, try: 1 or 2]
  ctx,         \* the monitor net_status_stop_monitor was called with
  best,        \* tmpGIP.best_row: the gateway configure_routing has found
  netChanges,  \* how often the network has changed
  lost         \* history: adapters that went down since the thread's request was read

clientVars == <<conn, pc, req, result, step, ctx, best>>
netVars == <<netChanges, lost>>
vars == <<tableVars, dnsVars, monitorVars, router, clientVars, netVars>>

---------------------------------------------------------------------------
(* Data. *)

Request == [action : {"configureRouting", "resetRouting", "other"},
            proxy  : Proxies \cup {NoProxy},
            tap    : Taps,
            hop    : Hops,
            reply  : BOOLEAN]

\* The destinations, interfaces and next hops that a route can have, and a gateway.
Destinations == {DefaultDest, NoProxy} \cup Proxies
                  \cup Range(IPV4_SUBNETS) \cup Range(IPV6_SUBNETS) \cup Range(IPV4_RESERVED_SUBNETS)
Ifaces == {g.iface : g \in Gateways \cup {NoGateway}} \cup Taps \cup {NoTap, Loopback}
NextHops == {g.hop : g \in Gateways \cup {NoGateway}} \cup Hops \cup {NoHop}

GatewayType == [iface : Ifaces, hop : NextHops]
RouteType == [dest : Destinations, iface : Ifaces, hop : NextHops]

\* The adapters that can go down, and the default routes of one.
Adapters == {g.iface : g \in Gateways} \cup Taps
DefaultRoutes(a) ==
  {Route(DefaultDest, g.iface, g.hop) : g \in {h \in Gateways : h.iface = a}}

\* The empty values are none of the others, and the tables of subnets are not empty.
ASSUME ConstantsOK ==
  /\ MaxFaults \in Nat /\ MaxNetChanges \in Nat
  /\ Taps # {} /\ NoTap \notin Taps
  /\ Sessions # {} /\ NoSession \notin Sessions
  /\ Hops # {} /\ AdapterHop \in [Taps -> Hops \cup {NoHop}]
  /\ NoProxy \notin Proxies
  /\ NoGateway \notin Gateways /\ Gateways \cup {NoGateway} \subseteq GatewayType
  /\ NoMonitor \notin Monitors
  /\ Requests \subseteq {r \in Request : r.reply}
  /\ \A s \in {IPV4_SUBNETS, IPV6_SUBNETS, IPV4_RESERVED_SUBNETS} : s # <<>> /\ s \in Seq(Range(s))

\* The tables of cmd_handler.c name different ranges, none twice; a proxy is one address and
\* the default route is 0.0.0.0/0, so neither is one of the ranges sent to the tunnel, and no
\* route that bypasses it is the default route; adapters with a default gateway are neither
\* TAP devices nor the loopback; NoGateway is the gateway of no adapter.
ASSUME RoutesApart ==
  /\ IsInjective(IPV4_SUBNETS) /\ IsInjective(IPV6_SUBNETS)
  /\ LET others == {DefaultDest, NoProxy} \cup Proxies \cup Range(IPV4_RESERVED_SUBNETS)
     IN /\ Range(IPV4_SUBNETS) \cap Range(IPV6_SUBNETS) = {}
        /\ (Range(IPV4_SUBNETS) \cup Range(IPV6_SUBNETS)) \cap others = {}
  /\ DefaultDest \notin Proxies \cup Range(IPV4_RESERVED_SUBNETS)
  /\ WordRoute \notin Destinations
  /\ Loopback \notin Taps
  /\ \A g \in Gateways : g.iface \notin Taps \cup {NoTap, Loopback}
  /\ NoGateway.iface \notin Taps \cup {g.iface : g \in Gateways} \cup {Loopback}

\* Mutant: svc_message_handler forgets to fill in the action for a broken pipe.
Hangup_NoAction == [action |-> "other", proxy |-> NoProxy, tap |-> CHOOSE t \in Taps : TRUE,
                    hop |-> CHOOSE h \in Hops : TRUE, reply |-> FALSE]

\* What svc_message_handler makes of a broken pipe: a reset nobody waits for.
Hangup == [action |-> "resetRouting", proxy |-> NoProxy, tap |-> CHOOSE t \in Taps : TRUE,
           hop |-> CHOOSE h \in Hops : TRUE, reply |-> FALSE]

\* g_router_info = { 0 }
ZeroRouter == [tap |-> NoTap, tapHop |-> NoHop, tapIf |-> NoTap, proxy |-> NoProxy,
               gateway |-> NoGateway, monitor |-> NoMonitor, shut_down |-> FALSE]

RouterType == [tap       : Taps \cup {NoTap},
               tapHop    : Hops \cup {NoHop},
               tapIf     : Taps \cup {NoTap},
               proxy     : Proxies \cup {NoProxy},
               gateway   : GatewayType,
               monitor   : Monitors \cup {NoMonitor},
               shut_down : BOOLEAN]

\* Mutant: the loop over IPV4_SUBNETS misses all but the first.
RedirectRoutes_FirstHalf == << Route(IPV4_SUBNETS[1], router.tap, router.tapHop) >>
\* Mutant: the proxy's route gets the TAP device's index and gateway.
ProxyRoutes_IntoTunnel == << Route(router.proxy, router.tap, router.tapHop) >>

\* The routes each step of configure_routing installs, in order.
RedirectRoutes ==
  [i \in DOMAIN IPV4_SUBNETS |-> Route(IPV4_SUBNETS[i], router.tap, router.tapHop)]
IPv6Routes ==
  [i \in DOMAIN IPV6_SUBNETS |-> Route(IPV6_SUBNETS[i], Loopback, NoHop)]
ProxyRoutes ==
  << Route(router.proxy, router.gateway.iface, router.gateway.hop) >>
BypassRoutes ==
  [i \in DOMAIN IPV4_RESERVED_SUBNETS |->
     Route(IPV4_RESERVED_SUBNETS[i], router.gateway.iface, router.gateway.hop)]

\* get_system_ipv4_gateway over the forward table: any row with destination 0 that does
\* not leave by the TAP device of this request, be it a redirect to another TAP device; the
\* metrics, which are not modelled, pick one of them.
get_system_ipv4_gateway(tapIf) ==
  {[iface |-> r.iface, hop |-> r.hop] : r \in {q \in table : q.dest \in ZeroDests /\ q.iface # tapIf}}

---------------------------------------------------------------------------
(* Control. *)

GotoPc(c, from, to) == pc[c] = from /\ pc' = [pc EXCEPT ![c] = to]

\* Mutant: the loops count from 0 as C does, but their routes from 1.
FirstTry_Zero == [i |-> 0, try |-> 1]

FirstTry == [i |-> 1, try |-> 1]

\* Start the loop `to`, at its first route and its first command.
EnterLoop(c, from, to) ==
  GotoPc(c, from, to) /\ step' = [step EXCEPT ![c] = FirstTry]

SetResult(c, code) == result' = [result EXCEPT ![c] = code]

---------------------------------------------------------------------------
(* The pipe: pipe_infinite_loop and client_thread. *)

\* A client connects and gets a thread.
Connect(c) ==
  /\ conn[c] = "closed"
  /\ GotoPc(c, "closed", "ReadFile")
  /\ conn' = [conn EXCEPT ![c] = "open"]
  /\ UNCHANGED <<tableVars, dnsVars, monitorVars, router, req, result, step, ctx, best, netVars>>

\* The client closes its end, or dies, at any time.
ClientLost(c) ==
  /\ conn[c] = "open"
  /\ conn' = [conn EXCEPT ![c] = "lost"]
  /\ UNCHANGED <<tableVars, dnsVars, monitorVars, router, pc, req, result, step, ctx, best, netVars>>

\* Mutant: a failed read is tried again and again instead of being taken for a hang-up.
ReadFile_Retried(c) ==
  /\ conn[c] = "open"
  /\ GotoPc(c, "ReadFile", "net_status_stop_monitor")
  /\ \E r \in Requests : req' = [req EXCEPT ![c] = r]
  /\ SetResult(c, -1)
  /\ best' = [best EXCEPT ![c] = NoGateway]
  /\ lost' = [lost EXCEPT ![c] = {}]
  /\ UNCHANGED <<tableVars, dnsVars, monitorVars, router, conn, step, ctx, netChanges>>

\* ReadFile returns a request, or fails because the client is gone; svc_message_handler
\* and handle_request start.
ReadFile(c) ==
  /\ GotoPc(c, "ReadFile", "net_status_stop_monitor")
  /\ \E r \in IF conn[c] = "open" THEN Requests ELSE {Hangup} : req' = [req EXCEPT ![c] = r]
  /\ SetResult(c, -1)
  /\ best' = [best EXCEPT ![c] = NoGateway]
  /\ lost' = [lost EXCEPT ![c] = {}]
  /\ UNCHANGED <<tableVars, dnsVars, monitorVars, router, conn, step, ctx, netChanges>>

\* The end of svc_message_handler and the rest of the loop in client_thread.  The thread
\* ends after a hang-up, after a request that set shut_down (no response is written), and
\* when the response cannot be written; otherwise it reads the next request.
Reply(c) ==
  LET ends == ~req[c].reply \/ router.shut_down \/ conn[c] = "lost"
  IN /\ GotoPc(c, "Reply", IF ends THEN "closed" ELSE "ReadFile")
     /\ conn' = [conn EXCEPT ![c] = IF ends THEN "closed" ELSE @]
     /\ router' = [router EXCEPT !.shut_down = FALSE]
     /\ UNCHANGED <<tableVars, dnsVars, monitorVars, req, result, step, ctx, best, netVars>>

---------------------------------------------------------------------------
(* handle_request *)

\* net_status_stop_monitor reads pInfo->monitor and signals its exit event.  There may be
\* no monitor, or one without a thread, which is left as it is (the assertion there is
\* compiled out of a release build).
StopMonitor(c) ==
  LET m == router.monitor
      stops == m # NoMonitor /\ thread[m] # "unborn"
  IN /\ GotoPc(c, "net_status_stop_monitor", IF stops THEN "WaitForThread" ELSE "handle_request")
     /\ IF stops THEN ctx' = [ctx EXCEPT ![c] = m] /\ SignalExit(m)
                 ELSE UNCHANGED <<ctx, monitorVars>>
     /\ UNCHANGED <<tableVars, dnsVars, router, conn, req, result, step, best, netVars>>

\* WaitForSingleObject(ctx->hThread, INFINITE) returns, and the context is freed.
WaitForThread(c) ==
  /\ GotoPc(c, "WaitForThread", "handle_request")
  /\ JoinAndFree(ctx[c])
  /\ ctx' = [ctx EXCEPT ![c] = NoMonitor]
  /\ UNCHANGED <<tableVars, dnsVars, router, conn, req, result, step, best, netVars>>

\* handle_request after the stop: dispatch on the action.
HandleConfigure(c) ==
  /\ req[c].action = "configureRouting"
  /\ GotoPc(c, "handle_request", "configure_routing")
  /\ router' = [router EXCEPT !.monitor = NoMonitor]
  /\ UNCHANGED <<tableVars, dnsVars, monitorVars, conn, req, result, step, ctx, best, netVars>>

\* A reset of a service that has no proxy only asks the thread to end; one without a TAP
\* device has no routes to remove.
HandleReset(c) ==
  /\ req[c].action = "resetRouting"
  /\ LET idle == router.proxy = NoProxy
         skip == router.tap = NoTap
     IN /\ EnterLoop(c, "handle_request", CASE idle          -> "Reply"
                                            [] ~idle /\ skip -> "end_smart_dns_block"
                                            [] OTHER         -> "remove_ipv4_redirect")
        /\ router' = [router EXCEPT !.monitor = NoMonitor, !.shut_down = @ \/ idle]
        /\ SetResult(c, IF idle \/ skip THEN 0 ELSE -1)
  /\ UNCHANGED <<tableVars, dnsVars, monitorVars, conn, req, ctx, best, netVars>>

\* Mutant: router_info.monitor is not cleared after the stop.
HandleOther_KeepsMonitor(c) ==
  /\ req[c].action = "other"
  /\ GotoPc(c, "handle_request", "Reply")
  /\ UNCHANGED <<tableVars, dnsVars, monitorVars, router, conn, req, result, step, ctx, best, netVars>>

\* Any other action, and a message that is not JSON: no monitor is started again.
HandleOther(c) ==
  /\ req[c].action = "other"
  /\ GotoPc(c, "handle_request", "Reply")
  /\ router' = [router EXCEPT !.monitor = NoMonitor]
  /\ UNCHANGED <<tableVars, dnsVars, monitorVars, conn, req, result, step, ctx, best, netVars>>

---------------------------------------------------------------------------
(* configure_routing *)

\* Leave configure_routing's do-while block with a code.
Break(c, from, code) == GotoPc(c, from, "configured") /\ SetResult(c, code)

\* An unusable proxyIp ends it; otherwise the TAP device's name is stored at once.
CheckRequest(c) ==
  /\ \/ /\ req[c].proxy = NoProxy
        /\ Break(c, "configure_routing", -1)
        /\ UNCHANGED router
     \/ /\ req[c].proxy # NoProxy
        /\ GotoPc(c, "configure_routing", "begin_smart_dns_block")
        /\ router' = [router EXCEPT !.tap = req[c].tap]
        /\ UNCHANGED result
  /\ UNCHANGED <<tableVars, dnsVars, monitorVars, conn, req, step, ctx, best, netVars>>

BlockStep(c, from, to) ==
  GotoPc(c, from, to) /\ UNCHANGED <<tableVars, monitorVars, router, conn, req, step, ctx, best, netVars>>

\* begin_smart_dns_block takes a handle that is not NULL for a complete block.
CheckEngine(c) ==
  /\ IF engine # NoSession
     THEN BlockStep(c, "begin_smart_dns_block", "enum_adapter_info") /\ SetResult(c, 0)
     ELSE BlockStep(c, "begin_smart_dns_block", "FwpmEngineOpen0") /\ UNCHANGED result
  /\ UNCHANGED dnsVars

EngineOpen(c) ==
  FwpmEngineOpen0 /\ BlockStep(c, "FwpmEngineOpen0", "FwpmSubLayerAdd0") /\ UNCHANGED result

SubLayerAdd(c) ==
  FwpmSubLayerAdd0 /\ BlockStep(c, "FwpmSubLayerAdd0", "FwpmFilterAdd0") /\ UNCHANGED result

AddBlockFilter(c) ==
  BlockPort53 /\ BlockStep(c, "FwpmFilterAdd0", "FwpmFilterAdd0_2") /\ UNCHANGED result

AddWhitelistFilter(c) ==
  WhitelistTap(req[c].tap) /\ BlockStep(c, "FwpmFilterAdd0_2", "enum_adapter_info") /\ SetResult(c, 0)

\* The calls of begin_smart_dns_block that can fail.
BeginCalls == {"FwpmEngineOpen0", "FwpmSubLayerAdd0", "FwpmFilterAdd0", "FwpmFilterAdd0_2"}

\* Mutant: a failure in begin_smart_dns_block leaves what it has installed.
BlockFails_NoCleanup(c) ==
  /\ pc[c] \in BeginCalls /\ Fault
  /\ Break(c, pc[c], -1)
  /\ UNCHANGED <<table, down, unmade, astray, dnsVars, monitorVars, router, conn, req, step, ctx,
                 best, netVars>>

\* One of the calls fails: the device is not listed because it is down, the session is not
\* this thread's alone any more, or the engine refuses.
BlockFails(c) ==
  /\ pc[c] \in BeginCalls
  /\ \/ Fault
     \/ UNCHANGED faults /\ IF pc[c] = "FwpmEngineOpen0" THEN req[c].tap \in down ELSE MayBeRefused
  /\ GotoPc(c, pc[c], "begin_failed")
  /\ SetResult(c, -1)
  /\ UNCHANGED <<table, down, unmade, astray, dnsVars, monitorVars, router, conn, req, step, ctx,
                 best, netVars>>

\* A step of end_smart_dns_block, whoever calls it.
EndStep(c, from, to) ==
  /\ GotoPc(c, from, to)
  /\ UNCHANGED <<tableVars, monitorVars, router, conn, req, result, step, ctx, best, netVars>>

\* ... and end_smart_dns_block removes what was installed.
EndBegin(c) == EndStep(c, "begin_failed", "begin_clear") /\ FwpmEngineClose0

\* Where the calls of end_smart_dns_block return to.
ClearHandle(c) ==
  /\ \/ EndStep(c, "begin_clear", "configured")
     \/ EndStep(c, "configure_clear", "net_status_start_monitor")
     \/ EndStep(c, "reset_clear", "ZeroMemory")
  /\ ForgetEngine

\* The proxy is stored, the TAP device's index and gateway looked up (a next hop already
\* stored is kept), and the system's gateway chosen.  Without one the function leaves
\* with the code 0 of the DNS block.
FoundGateway(c, found) ==
  LET tapIf == IF found THEN router.tap ELSE router.tapIf
      own   == IF found THEN AdapterHop[router.tap] ELSE NoHop
      hop   == CASE own # NoHop                           -> own
                 [] own = NoHop /\ router.tapHop # NoHop -> router.tapHop
                 [] OTHER                                 -> req[c].hop
      known == [router EXCEPT !.proxy = req[c].proxy, !.tapIf = tapIf, !.tapHop = hop]
      rows  == get_system_ipv4_gateway(tapIf)
  IN /\ \/ /\ rows = {}
           /\ Break(c, "enum_adapter_info", 0)
           /\ router' = known
           /\ UNCHANGED <<step, best>>
        \/ /\ EnterLoop(c, "enum_adapter_info", "add_ipv4_redirect")
           /\ \E g \in rows : /\ router' = [known EXCEPT !.gateway = g]
                              /\ best' = [best EXCEPT ![c] = g]
           /\ UNCHANGED result
     /\ UNCHANGED <<tableVars, dnsVars, monitorVars, conn, req, ctx, netVars>>

\* A device that is up is found by enum_adapter_info; one that is down is when it is
\* unplugged, and not when it is disabled, and then its index stays what it was.
FindGateway(c) ==
  \E found \in BOOLEAN : /\ found => router.tap \in Taps
                         /\ ~found => router.tap \notin Taps \/ router.tap \in down
                         /\ FoundGateway(c, found)

(***************************************************************************)
(* The four functions that install routes: for each route the first        *)
(* command, and the second if it fails; when both fail, configure_routing  *)
(* is left with the code.                                                  *)
(***************************************************************************)
InstallLoop(c, here, routes, cmds, next) ==
  /\ pc[c] = here
  /\ \E code \in Codes :
       LET s  == step[c]
           to == CASE code = 0 /\ s.i = Len(routes) -> next
                   [] code # 0 /\ s.try = 2         -> "configured"
                   [] OTHER                         -> here
       IN /\ Install(cmds[s.try], routes[s.i], code)
          /\ SetResult(c, code)
          /\ pc' = [pc EXCEPT ![c] = to]
          /\ step' = [step EXCEPT ![c] = CASE to # here             -> FirstTry
                                           [] to = here /\ code = 0 -> [i |-> s.i + 1, try |-> 1]
                                           [] OTHER                 -> [i |-> s.i, try |-> 2]]
  /\ UNCHANGED <<dnsVars, monitorVars, router, conn, req, ctx, best, netVars>>

add_ipv4_redirect(c) ==
  InstallLoop(c, "add_ipv4_redirect", RedirectRoutes, <<"netsh_add", "netsh_set">>,
              "stop_routing_ipv6")
stop_routing_ipv6(c) ==
  InstallLoop(c, "stop_routing_ipv6", IPv6Routes, <<"netsh_add", "netsh_set">>,
              "add_or_update_proxy_route")
add_or_update_proxy_route(c) ==
  InstallLoop(c, "add_or_update_proxy_route", ProxyRoutes, <<"route_change", "netsh_add">>,
              "add_or_update_reserved_subnet_bypass")
add_or_update_reserved_subnet_bypass(c) ==
  InstallLoop(c, "add_or_update_reserved_subnet_bypass", BypassRoutes,
              <<"route_change", "netsh_add">>, "configured")

\* Mutant: configure_routing does not lift the DNS block when it fails.
EndConfigure_KeepsBlock(c) ==
  EndStep(c, "configured", "net_status_start_monitor") /\ UNCHANGED dnsVars

\* The end of configure_routing: a failure lifts the DNS block.
EndConfigure(c) ==
  IF result[c] # 0 THEN EndStep(c, "configured", "configure_clear") /\ FwpmEngineClose0
                   ELSE EndStep(c, "configured", "net_status_start_monitor") /\ UNCHANGED dnsVars

\* Mutant: handle_request does not store the monitor it has started.
StartMonitor_Dropped(c) ==
  /\ GotoPc(c, "net_status_start_monitor", "Reply")
  /\ \E m \in Monitors : net_status_start_monitor(m, TRUE)
  /\ UNCHANGED <<tableVars, dnsVars, router, conn, req, result, step, ctx, best, netVars>>

\* Back in handle_request: a monitor is started whatever configure_routing returned.
StartMonitor(c) ==
  /\ GotoPc(c, "net_status_start_monitor", "Reply")
  /\ \E m \in Monitors : /\ \/ net_status_start_monitor(m, TRUE) /\ UNCHANGED faults
                            \/ net_status_start_monitor(m, FALSE) /\ Fault
                         /\ router' = [router EXCEPT !.monitor = m]
  /\ UNCHANGED <<table, down, unmade, astray, dnsVars, conn, req, result, step, ctx, best, netVars>>

---------------------------------------------------------------------------
(* reset_routing: every step is taken whatever the one before it returned,  *)
(* and each loop stops at its first failure.                                *)

AfterRemoval(c, here, n, next, code, stop) ==
  LET done == stop \/ step[c].i = n
  IN /\ pc' = [pc EXCEPT ![c] = IF done THEN next ELSE here]
     /\ step' = [step EXCEPT ![c] = IF done THEN FirstTry ELSE [i |-> @.i + 1, try |-> 1]]
     /\ SetResult(c, code)
     /\ UNCHANGED <<dnsVars, monitorVars, router, conn, req, ctx, best, netVars>>

\* Mutant: the loop over IPV4_SUBNETS ends one early.
remove_ipv4_redirect_OneShort(c) ==
  /\ pc[c] = "remove_ipv4_redirect"
  /\ \E code \in Codes :
       /\ NetshDelete(IPV4_SUBNETS[step[c].i], router.tap, code)
       /\ AfterRemoval(c, "remove_ipv4_redirect", Len(IPV4_SUBNETS) - 1, "start_routing_ipv6",
                       code, code # 0)

remove_ipv4_redirect(c) ==
  /\ pc[c] = "remove_ipv4_redirect"
  /\ \E code \in Codes :
       /\ NetshDelete(IPV4_SUBNETS[step[c].i], router.tap, code)
       /\ AfterRemoval(c, "remove_ipv4_redirect", Len(IPV4_SUBNETS), "start_routing_ipv6",
                       code, code # 0)

start_routing_ipv6(c) ==
  /\ pc[c] = "start_routing_ipv6"
  /\ \E code \in Codes :
       /\ NetshDelete(IPV6_SUBNETS[step[c].i], Loopback, code)
       /\ AfterRemoval(c, "start_routing_ipv6", Len(IPV6_SUBNETS), "delete_proxy_route",
                       code, code # 0)

\* Nothing to delete when another thread has cleared the address in the meantime.
delete_proxy_route(c) ==
  /\ pc[c] = "delete_proxy_route"
  /\ \E code \in Codes :
       /\ IF router.proxy = NoProxy THEN code = result[c] /\ UNCHANGED tableVars
                                    ELSE RouteDelete(router.proxy, code)
       /\ AfterRemoval(c, "delete_proxy_route", 1, "remove_reserved_subnet_bypass", code, FALSE)

\* The command line is "route delete route <subnet>": route takes its second word for the
\* destination.  The codes are ignored.
remove_reserved_subnet_bypass(c) ==
  /\ pc[c] = "remove_reserved_subnet_bypass"
  /\ \E code \in Codes : RouteDelete(WordRoute, code)
  /\ AfterRemoval(c, "remove_reserved_subnet_bypass", Len(IPV4_RESERVED_SUBNETS),
                  "end_smart_dns_block", result[c], FALSE)

\* Mutant: reset_routing does not lift the DNS block.
EndReset_KeepsBlock(c) == EndStep(c, "end_smart_dns_block", "ZeroMemory") /\ UNCHANGED dnsVars

EndReset(c) == EndStep(c, "end_smart_dns_block", "reset_clear") /\ FwpmEngineClose0

\* handle_request forgets everything, whatever reset_routing returned.
ForgetRouter(c) ==
  /\ GotoPc(c, "ZeroMemory", "Reply")
  /\ router' = ZeroRouter
  /\ UNCHANGED <<tableVars, dnsVars, monitorVars, conn, req, result, step, ctx, best, netVars>>

---------------------------------------------------------------------------
(* The monitor's thread, and the network. *)

MonitorThread(m) ==
  /\ \/ WakeUp(m) /\ UNCHANGED faults
     \/ Register(m) /\ UNCHANGED faults
     \/ RegisterFails(m) /\ Fault
     \/ OnAddrChange(m) /\ UNCHANGED faults
     \/ OnExit(m) /\ UNCHANGED faults
  /\ UNCHANGED <<table, down, unmade, astray, dnsVars, router, clientVars, netVars>>

\* An adapter, physical or TAP, goes down with all its routes, or comes up with its default
\* routes; or a physical one that is up gains a default route or loses it.  If a TAP device
\* loses its routes while they are being made, the next ones leave a gap behind them.
NetworkChanges ==
  /\ netChanges < MaxNetChanges
  /\ netChanges' = netChanges + 1
  /\ \/ \E a \in Adapters \ down :
          /\ down' = down \cup {a}
          /\ table' = {r \in table : r.iface # a}
          /\ lost' = [c \in Clients |-> lost[c] \cup {a}]
          /\ astray' = (astray \/ (a \in Taps /\ table' # table
                                    /\ \E c \in Clients : pc[c] = "add_ipv4_redirect"))
     \/ \E a \in down :
          /\ down' = down \ {a}
          /\ table' = table \cup DefaultRoutes(a)
          /\ UNCHANGED <<lost, astray>>
     \/ \E g \in {h \in Gateways : h.iface \notin down} :
          LET default == Route(DefaultDest, g.iface, g.hop)
          IN /\ table' \in {table \cup {default}, table \ {default}}
             /\ UNCHANGED <<down, lost, astray>>
  /\ AddressesChange
  /\ UNCHANGED <<faults, unmade, dnsVars, router, clientVars>>

---------------------------------------------------------------------------

\* The code a client thread runs between reading a request and the end of its response.
Handler(c) ==
  \/ StopMonitor(c) \/ WaitForThread(c)
  \/ HandleConfigure(c) \/ HandleReset(c) \/ HandleOther(c)
  \/ CheckRequest(c) \/ CheckEngine(c) \/ EngineOpen(c) \/ SubLayerAdd(c) \/ AddBlockFilter(c)
  \/ AddWhitelistFilter(c) \/ BlockFails(c) \/ EndBegin(c) \/ ClearHandle(c) \/ FindGateway(c)
  \/ add_ipv4_redirect(c) \/ stop_routing_ipv6(c) \/ add_or_update_proxy_route(c)
  \/ add_or_update_reserved_subnet_bypass(c) \/ EndConfigure(c) \/ StartMonitor(c)
  \/ remove_ipv4_redirect(c) \/ start_routing_ipv6(c) \/ delete_proxy_route(c)
  \/ remove_reserved_subnet_bypass(c) \/ EndReset(c) \/ ForgetRouter(c)
  \/ Reply(c)

Init ==
  /\ table = {Route(DefaultDest, g.iface, g.hop) : g \in Gateways}
  /\ down = {} /\ faults = 0 /\ unmade = {} /\ astray = FALSE
  /\ DnsInit
  /\ MonitorInit
  /\ router = ZeroRouter
  /\ conn   = [c \in Clients |-> "closed"]
  /\ pc     = [c \in Clients |-> "closed"]
  /\ req    = [c \in Clients |-> Hangup]
  /\ result = [c \in Clients |-> -1]
  /\ step   = [c \in Clients |-> FirstTry]
  /\ ctx    = [c \in Clients |-> NoMonitor]
  /\ best   = [c \in Clients |-> NoGateway]
  /\ netChanges = 0
  /\ lost = [c \in Clients |-> {}]

Next ==
  \/ \E c \in Clients : Connect(c) \/ ClientLost(c) \/ ReadFile(c) \/ Handler(c)
  \/ \E m \in Monitors : MonitorThread(m)
  \/ NetworkChanges

Spec == Init /\ [][Next]_vars

\* A thread that has work does it, the processes it starts end, and a client that is gone
\* is noticed.  Nothing makes clients connect, ask or leave, or the network change.
Fairness ==
  /\ \A c \in Clients : WF_vars(Handler(c)) /\ WF_vars(conn[c] = "lost" /\ ReadFile(c))
  /\ \A m \in Monitors : WF_vars(MonitorThread(m))

FairSpec == Spec /\ Fairness
---------------------------------------------------------------------------
(* Properties. *)

Labels ==
  {"closed", "ReadFile", "net_status_stop_monitor", "WaitForThread", "handle_request",
   "configure_routing", "begin_smart_dns_block", "FwpmEngineOpen0", "FwpmSubLayerAdd0",
   "FwpmFilterAdd0", "FwpmFilterAdd0_2", "begin_failed", "begin_clear", "enum_adapter_info", "add_ipv4_redirect", "stop_routing_ipv6",
   "add_or_update_proxy_route", "add_or_update_reserved_subnet_bypass", "configured",
   "configure_clear", "net_status_start_monitor", "remove_ipv4_redirect", "start_routing_ipv6",
   "delete_proxy_route", "remove_reserved_subnet_bypass", "end_smart_dns_block",
   "reset_clear", "ZeroMemory", "Reply"}

\* The length of the table that the loop at a label goes through; 1 outside the loops.
LoopLength(label) ==
  CASE label \in {"add_ipv4_redirect", "remove_ipv4_redirect"} -> Len(IPV4_SUBNETS)
    [] label \in {"stop_routing_ipv6", "start_routing_ipv6"} -> Len(IPV6_SUBNETS)
    [] label \in {"add_or_update_reserved_subnet_bypass", "remove_reserved_subnet_bypass"} ->
         Len(IPV4_RESERVED_SUBNETS)
    [] OTHER -> 1

TableTypeOK ==
  /\ table \subseteq RouteType /\ unmade \subseteq RouteType /\ down \subseteq Adapters
  /\ faults \in 0..MaxFaults /\ astray \in BOOLEAN
DnsTypeOK ==
  /\ engine \in Sessions \cup {NoSession} /\ open \subseteq Sessions /\ blocks \subseteq open
  /\ allows \in [Sessions -> SUBSET Taps]
NetTypeOK == netChanges \in 0..MaxNetChanges /\ lost \in [Clients -> SUBSET Adapters]
ClientTypeOK ==
  /\ conn   \in [Clients -> {"closed", "open", "lost"}]
  /\ pc     \in [Clients -> Labels]
  /\ req    \in [Clients -> Request]
  /\ result \in [Clients -> Codes]
  /\ step   \in [Clients -> [i : Nat \ {0}, try : {1, 2}]]
  /\ ctx    \in [Clients -> Monitors \cup {NoMonitor}]
  /\ best   \in [Clients -> GatewayType]

\* No loop reads past the end of its table.
IndexOK == \A c \in Clients : step[c].i <= LoopLength(pc[c])

\* Every variable keeps its type: the state the C code keeps, thread by thread.
TypeOK ==
  /\ TableTypeOK /\ DnsTypeOK /\ MonitorTypeOK /\ NetTypeOK /\ ClientTypeOK /\ IndexOK
  /\ router \in RouterType

\* Where a thread is: opening a session, or removing what it failed to complete, ...
InBegin == BeginCalls \cup {"begin_failed"}
\* ... with a session closed and the handle not cleared, ...
InClear == {"begin_clear", "configure_clear", "reset_clear"}
\* ... between the stop of the old monitor and the start of the next.
Executing == Labels \ {"closed", "ReadFile", "net_status_stop_monitor", "WaitForThread", "Reply"}

\* A thread is about to answer a request of this kind with this code.
Answers(c, action, code) ==
  pc[c] = "Reply" /\ req[c].reply /\ req[c].action = action /\ result[c] = code

Redirected(i) == \E r \in table : r.dest = IPV4_SUBNETS[i]
IPv6Blocked(i) == Route(IPV6_SUBNETS[i], Loopback, NoHop) \in table

\* A DNS block can always be lifted: no session but the one of the handle is open, and while
\* no thread is inside the configure_routing that opens it a proxy is stored, so that
\* handle_request takes a reset for a real one and reaches end_smart_dns_block instead of
\* only setting shut_down.
DnsBlockLiftable ==
  /\ open \subseteq {engine}
  /\ open # {} => \/ router.proxy # NoProxy
                  \/ \E c \in Clients : pc[c] \in InBegin \cup {"enum_adapter_info"}

\* begin_smart_dns_block takes a handle for a complete block (it returns at once).  So while no
\* thread is in it, or in end_smart_dns_block, the handle is the open session, and a session
\* never stands with only one filter, which would leave DNS cut off on the TAP device too or
\* leaking beside it.
DnsBlockWhole ==
  (\A c \in Clients : pc[c] \notin InBegin \cup InClear) =>
    /\ open = {engine} \ {NoSession}
    /\ \A s \in open : s \in blocks /\ allows[s] # {}

\* A configureRouting that is answered with an error has lifted the DNS block: the client
\* is told nothing is configured, so name resolution must not stay cut off.
FailureLiftsDnsBlock ==
  \A c \in Clients : Answers(c, "configureRouting", -1) => open = {}

\* A route that stands, or whose command was answered with 0 without making it.
Answered(r) == r \in table \cup unmade

\* A configureRouting that found a gateway and is answered with success has all of the
\* tunnel in place, whatever failed on the way and whatever an earlier request left: DNS goes
\* only through the tunnel, IPv6 to the loopback, and both halves of IPv4 to the TAP device if
\* that has not gone down meanwhile.  The one exception is a route whose command complained
\* and run_command could not read it.
SuccessMeansTunnel ==
  \A c \in Clients :
    Answers(c, "configureRouting", 0) /\ best[c] # NoGateway =>
      /\ \E s \in blocks : allows[s] # {}
      /\ \A i \in DOMAIN IPV6_SUBNETS : Answered(Route(IPV6_SUBNETS[i], Loopback, NoHop))
      /\ router.tap \notin lost[c] =>
           \A i \in DOMAIN IPV4_SUBNETS : Answered(Route(IPV4_SUBNETS[i], router.tap, router.tapHop))

\* ... and the proxy and the reserved ranges leave by the gateway it picked, which is not a
\* TAP device's, with the same exceptions: otherwise the tunnel's own packets would enter
\* the tunnel.
SuccessMeansBypass ==
  \A c \in Clients :
    Answers(c, "configureRouting", 0) /\ best[c] # NoGateway =>
      /\ best[c].iface \notin Taps
      /\ best[c].iface \notin lost[c] =>
           \A d \in {req[c].proxy} \cup Range(IPV4_RESERVED_SUBNETS) :
             Answered(Route(d, best[c].iface, best[c].hop))

\* What has been redirected can still be undone: unless a command said it had failed or
\* succeeded when it had not, or the device went down amid the loop that redirects to it,
\* redirect routes and the IPv6 block are in the table only while router_info holds the
\* device they were made for and a proxy, without which a reset would touch no route.  The
\* loops of reset_routing stop at the first failure, and deleting a route that is not there
\* is one: so outside them the routes that stand are the first ones of their tables.
RoutesRecoverable ==
  astray \/
    /\ \A r \in table : r.dest \in Range(IPV4_SUBNETS) => r.iface = router.tap /\ router.proxy # NoProxy
    /\ \A j \in DOMAIN IPV6_SUBNETS : IPv6Blocked(j) => router.tap # NoTap /\ router.proxy # NoProxy
    /\ (\A c \in Clients : pc[c] \notin {"remove_ipv4_redirect", "start_routing_ipv6"}) =>
         /\ \A i \in DOMAIN IPV4_SUBNETS : Redirected(i) => \A j \in 1..i : Redirected(j)
         /\ \A i \in DOMAIN IPV6_SUBNETS : IPv6Blocked(i) => \A j \in 1..i : IPv6Blocked(j)

\* A client that disappears while its thread waits for a request leaves nothing behind but
\* what a reset cannot find: its thread only ends with the DNS block lifted, IPv6 back and
\* the routes of the tunnel gone (the branch of svc_message_handler for a broken pipe).
HangupRestores ==
  \A c \in Clients : pc[c] = "Reply" /\ ~req[c].reply =>
    /\ open = {} /\ router.proxy = NoProxy
    /\ \/ astray
       \/ /\ \A i \in DOMAIN IPV4_SUBNETS : ~Redirected(i)
          /\ \A j \in DOMAIN IPV6_SUBNETS : ~IPv6Blocked(j)

\* The service as its client sees it.  A range is taken when its route leads to a TAP device,
\* or for IPv6 to the loopback; a request is executed from when its thread has read it.
TheClient == CHOOSE c \in Clients : TRUE
Asked == IF pc[TheClient] \in {"closed", "ReadFile"} THEN "nothing" ELSE req[TheClient].action
Taken ==
  {d \in Range(IPV4_SUBNETS) : \E r \in table : r.dest = d /\ r.iface \in Taps}
    \cup {d \in Range(IPV6_SUBNETS) : Route(d, Loopback, NoHop) \in table}
Missed ==
  {d \in Range(IPV4_SUBNETS) \cup Range(IPV6_SUBNETS) : \E r \in unmade : r.dest = d}
    \cup (IF req[TheClient].tap \in lost[TheClient] THEN Range(IPV4_SUBNETS) ELSE {})
Promise == INSTANCE RoutingPromise WITH
  Ranges       <- Range(IPV4_SUBNETS) \cup Range(IPV6_SUBNETS),
  DeviceRanges <- Range(IPV4_SUBNETS),
  asked  <- Asked,
  answer <- IF Asked = "nothing" THEN result[TheClient] ELSE -1,
  found  <- best[TheClient] # NoGateway,
  taken  <- Taken,
  missed <- Missed,
  dns    <- blocks # {},
  stuck  <- astray

\* With one client the service implements RoutingPromise: whatever fails and however the
\* network changes meanwhile, the tunnel only grows in a configure, only shrinks in a reset
\* or with its device, nothing is redirected before DNS is blocked, and no answer claims more
\* than the commands behind it have claimed.
KeepsRoutingPromise == Promise!Spec

\* The notification reads router_info from the monitor's thread: no monitor runs while a
\* thread executes a request and changes it.
MonitorQuiescent ==
  (\E c \in Clients : pc[c] \in Executing) => \A m \in Monitors : thread[m] \notin Running

\* No monitor is lost: one that runs is router_info's or one that a thread is waiting for.
NoStrayMonitor ==
  \A m \in Monitors :
    thread[m] \in Running \cup {"exited"} =>
      m = router.monitor \/ \E c \in Clients : pc[c] = "WaitForThread" /\ ctx[c] = m

\* net_status_stop_monitor asserts that its context is a monitor that lives: no thread joins
\* one that another thread has freed.  With one client this holds; nothing keeps two
\* client threads from stopping the monitor of the one router_info.
StopOwnsMonitor ==
  \A c \in Clients : pc[c] = "WaitForThread" => thread[ctx[c]] # "none"

\* The address-change loop and the waits for it never wedge a request: every request is
\* answered, or its connection ends.
RequestsEnd ==
  \A c \in Clients : pc[c] = "net_status_stop_monitor" ~> pc[c] \in {"ReadFile", "closed"}

\* A client that is gone is forgotten, after a reset if its thread was waiting for it.
LostClientsEnd ==
  \A c \in Clients : conn[c] = "lost" ~> conn[c] = "closed"
---------------------------------------------------------------------------
(* What the comments of the source say and the code does not keep: TLC finds *)
(* each violated.                                                           *)

\* "configureRouting: Modifies the system's routing table to route all traffic through the
\* TAP device except that destined for proxyIp": so the answer 0 means that it did.
ConfiguredMeansRouted ==
  \A c \in Clients : Answers(c, "configureRouting", 0) => \A i \in DOMAIN IPV4_SUBNETS : Redirected(i)

\* "resetRouting: Restores the system's default routing": so the answer 0 means that no
\* traffic is redirected any more.
ResetMeansRestored ==
  \A c \in Clients : Answers(c, "resetRouting", 0) => \A i \in DOMAIN IPV4_SUBNETS : ~Redirected(i)

\* "The first blocks all UDP traffic bound for port 53. The second whitelists all traffic on
\* the TAP device. ... there's no need to use a transaction here": so no session is left with
\* the first filter alone.  Between two calls of one thread another can open a
\* session over its handle, which then takes the whitelist, or clear the handle.
NoHalfBlock ==
  (\A c \in Clients : pc[c] \notin InBegin \cup InClear) => \A s \in blocks : allows[s] # {}

\* "force exiting because of pipe broken": so when no client is left, nothing stays
\* configured.  A client can also be lost while its request is executed, and then only
\* the write of the response fails.
NoClientNoTunnel ==
  (\A c \in Clients : pc[c] = "closed") => open = {} /\ router.proxy = NoProxy
===========================================================================
