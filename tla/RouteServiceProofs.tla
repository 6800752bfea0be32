------------------------ MODULE RouteServiceProofs ------------------------
(***************************************************************************)
(* Theorems about RouteService, for every value of its constants.          *)
(***************************************************************************)
EXTENDS RouteService, TLAPS

---------------------------------------------------------------------------
(* The loops over the tables of routes, for any number of clients.  Each    *)
(* thread counts for itself, so no other thread can move it out of a table. *)

LoopLabels ==
  {"add_ipv4_redirect", "remove_ipv4_redirect", "stop_routing_ipv6", "start_routing_ipv6",
   "add_or_update_reserved_subnet_bypass", "remove_reserved_subnet_bypass"}

Steps == [i : Nat \ {0}, try : {1, 2}]

IndexInv == pc \in [Clients -> Labels] /\ step \in [Clients -> Steps] /\ IndexOK

\* No table is empty.
LEMMA Lengths ==
  /\ Len(IPV4_SUBNETS) \in Nat \ {0} /\ DOMAIN IPV4_SUBNETS = 1..Len(IPV4_SUBNETS)
  /\ Len(IPV6_SUBNETS) \in Nat \ {0} /\ DOMAIN IPV6_SUBNETS = 1..Len(IPV6_SUBNETS)
  /\ Len(IPV4_RESERVED_SUBNETS) \in Nat \ {0}
  /\ DOMAIN IPV4_RESERVED_SUBNETS = 1..Len(IPV4_RESERVED_SUBNETS)
  <1>1. ASSUME NEW S, NEW s \in Seq(S), s # <<>>
        PROVE  Len(s) \in Nat \ {0} /\ DOMAIN s = 1..Len(s)
    BY <1>1
  <1>2. QED BY <1>1, ConstantsOK

LEMMA LoopLengths ==
  /\ \A l : LoopLength(l) \in Nat \ {0}
  /\ \A l : l \notin LoopLabels => LoopLength(l) = 1
  BY Lengths DEF LoopLength, LoopLabels

\* A thread that is outside the loops can go anywhere and keep its counter, ...
LEMMA IndexStays ==
  ASSUME IndexInv, NEW c \in Clients, NEW l \in Labels, pc[c] \notin LoopLabels,
         pc' = [pc EXCEPT ![c] = l], UNCHANGED step
  PROVE  IndexInv'
  <1>1. step[c].i = 1
    BY LoopLengths DEF IndexInv, IndexOK, Steps
  <1>2. step[c].i <= LoopLength(l)
    BY <1>1, LoopLengths
  <1>3. QED BY <1>2 DEF IndexInv, IndexOK

\* ... and one that sets its counter has to stay inside the table of the loop it goes to.
LEMMA IndexMoves ==
  ASSUME IndexInv, NEW c \in Clients, NEW l \in Labels, NEW s \in Steps,
         pc' = [pc EXCEPT ![c] = l], step' = [step EXCEPT ![c] = s], s.i <= LoopLength(l)
  PROVE  IndexInv'
  BY DEF IndexInv, IndexOK

\* It may start the first try of any loop.
LEMMA FirstTryFits == FirstTry \in Steps /\ \A l : FirstTry.i <= LoopLength(l)
  <1>1. FirstTry \in Steps /\ FirstTry.i = 1
    BY DEF FirstTry, Steps
  <1>2. QED BY <1>1, LoopLengths

\* A step of a loop that installs routes: a command succeeds and the loop ends or goes on, or
\* it fails and the loop is left or tries the second command.
InstallStep(c, here, routes, cmds, next, code) ==
  /\ pc[c] = here
  /\ Install(cmds[step[c].try], routes[step[c].i], code)
  /\ result' = [result EXCEPT ![c] = code]
  /\ \/ /\ code = 0 /\ step[c].i = Len(routes)
        /\ pc' = [pc EXCEPT ![c] = next] /\ step' = [step EXCEPT ![c] = FirstTry]
     \/ /\ code = 0 /\ step[c].i # Len(routes)
        /\ pc' = [pc EXCEPT ![c] = here]
        /\ step' = [step EXCEPT ![c] = [i |-> step[c].i + 1, try |-> 1]]
     \/ /\ code = -1 /\ step[c].try = 2
        /\ pc' = [pc EXCEPT ![c] = "configured"] /\ step' = [step EXCEPT ![c] = FirstTry]
     \/ /\ code = -1 /\ step[c].try # 2
        /\ pc' = [pc EXCEPT ![c] = here]
        /\ step' = [step EXCEPT ![c] = [i |-> step[c].i, try |-> 2]]

LEMMA InstallSteps ==
  ASSUME NEW c, NEW here, NEW next, NEW routes, NEW cmds, here # "configured", here # next,
         InstallLoop(c, here, routes, cmds, next)
  PROVE  \E code \in Codes : InstallStep(c, here, routes, cmds, next, code)
  <1> DEFINE s == step[c]
             to(code) == CASE code = 0 /\ s.i = Len(routes) -> next
                           [] code # 0 /\ s.try = 2         -> "configured"
                           [] OTHER                         -> here
             advance(code) == CASE to(code) # here              -> FirstTry
                                [] to(code) = here /\ code = 0 -> [i |-> s.i + 1, try |-> 1]
                                [] OTHER                       -> [i |-> s.i, try |-> 2]
  <1>1. PICK code \in Codes : /\ Install(cmds[s.try], routes[s.i], code)
                              /\ result' = [result EXCEPT ![c] = code]
                              /\ pc' = [pc EXCEPT ![c] = to(code)]
                              /\ step' = [step EXCEPT ![c] = advance(code)]
    BY DEF InstallLoop, SetResult
  <1>2. pc[c] = here
    BY DEF InstallLoop
  <1>3. code \in {0, -1}
    BY DEF Codes
  <1>4. CASE code = 0
    <2>1. CASE s.i = Len(routes)
      <3>1. to(code) = next
        BY <1>4, <2>1
      <3> HIDE DEF to
      <3>2. advance(code) = FirstTry
        BY <3>1
      <3>3. QED BY <1>1, <1>2, <1>4, <2>1, <3>1, <3>2 DEF InstallStep
    <2>2. CASE s.i # Len(routes)
      <3>1. to(code) = here /\ advance(code) = [i |-> s.i + 1, try |-> 1]
        BY <1>4, <2>2
      <3>2. QED BY <1>1, <1>2, <1>4, <2>2, <3>1 DEF InstallStep
    <2>3. QED BY <2>1, <2>2
  <1>5. CASE code = -1
    <2>1. CASE s.try = 2
      <3>1. to(code) = "configured" /\ advance(code) = FirstTry
        BY <1>5, <2>1
      <3>2. QED BY <1>1, <1>2, <1>5, <2>1, <3>1 DEF InstallStep
    <2>2. CASE s.try # 2
      <3>1. to(code) = here /\ advance(code) = [i |-> s.i, try |-> 2]
        BY <1>5, <2>2
      <3>2. QED BY <1>1, <1>2, <1>5, <2>2, <3>1 DEF InstallStep
    <2>3. QED BY <2>1, <2>2
  <1>6. QED BY <1>3, <1>4, <1>5

\* A step of a loop that deletes routes: the loop ends, or goes on to the next route.
LEMMA RemoveSteps ==
  ASSUME NEW c, NEW here, NEW n, NEW next, NEW code, NEW stop,
         AfterRemoval(c, here, n, next, code, stop)
  PROVE  \/ /\ stop \/ step[c].i = n
            /\ pc' = [pc EXCEPT ![c] = next] /\ step' = [step EXCEPT ![c] = FirstTry]
         \/ /\ ~stop /\ step[c].i # n
            /\ pc' = [pc EXCEPT ![c] = here]
            /\ step' = [step EXCEPT ![c] = [i |-> step[c].i + 1, try |-> 1]]
  BY DEF AfterRemoval

\* A loop that installs routes stops at the end of its table.
LEMMA IndexInstall ==
  ASSUME IndexInv, NEW c \in Clients, NEW here \in Labels, NEW next \in Labels, NEW routes, NEW cmds,
         here # "configured", here # next,
         InstallLoop(c, here, routes, cmds, next), Len(routes) = LoopLength(here)
  PROVE  IndexInv'
  <1>1. PICK code : InstallStep(c, here, routes, cmds, next, code)
    BY InstallSteps
  <1>2. step[c] \in Steps /\ step[c].i <= LoopLength(here) /\ LoopLength(here) \in Nat
    BY <1>1, LoopLengths DEF IndexInv, IndexOK, InstallStep
  <1>3. /\ [i |-> step[c].i + 1, try |-> 1] \in Steps
        /\ [i |-> step[c].i, try |-> 2] \in Steps
        /\ step[c].i # LoopLength(here) => step[c].i + 1 <= LoopLength(here)
    BY <1>2 DEF Steps
  <1>4. "configured" \in Labels
    BY DEF Labels
  <1>5. QED BY <1>1, <1>2, <1>3, <1>4, IndexMoves, FirstTryFits DEF InstallStep

\* So does a loop that deletes routes.
LEMMA IndexRemove ==
  ASSUME IndexInv, NEW c \in Clients, NEW here \in Labels, NEW next \in Labels, NEW n, NEW code, NEW stop,
         pc[c] = here, AfterRemoval(c, here, n, next, code, stop), n = LoopLength(here)
  PROVE  IndexInv'
  <1>1. step[c] \in Steps /\ step[c].i <= LoopLength(here) /\ LoopLength(here) \in Nat
    BY LoopLengths DEF IndexInv, IndexOK
  <1>2. /\ [i |-> step[c].i + 1, try |-> 1] \in Steps
        /\ step[c].i # LoopLength(here) => step[c].i + 1 <= LoopLength(here)
    BY <1>1 DEF Steps
  <1>3. QED BY <1>2, RemoveSteps, IndexMoves, FirstTryFits

\* The loops of configure_routing and reset_routing stay inside their tables.
LEMMA IndexLoops ==
  ASSUME IndexInv, NEW c \in Clients,
         \/ add_ipv4_redirect(c) \/ stop_routing_ipv6(c) \/ add_or_update_proxy_route(c)
         \/ add_or_update_reserved_subnet_bypass(c)
         \/ remove_ipv4_redirect(c) \/ start_routing_ipv6(c) \/ delete_proxy_route(c)
         \/ remove_reserved_subnet_bypass(c)
  PROVE  IndexInv'
  <1>1. CASE add_ipv4_redirect(c)
    <2>1. Len(RedirectRoutes) = LoopLength("add_ipv4_redirect")
      BY Lengths DEF RedirectRoutes, LoopLength
    <2>2. QED BY <1>1, <2>1, IndexInstall DEF add_ipv4_redirect, Labels
  <1>2. CASE stop_routing_ipv6(c)
    <2>1. Len(IPv6Routes) = LoopLength("stop_routing_ipv6")
      BY Lengths DEF IPv6Routes, LoopLength
    <2>2. QED BY <1>2, <2>1, IndexInstall DEF stop_routing_ipv6, Labels
  <1>3. CASE add_or_update_proxy_route(c)
    <2>1. Len(ProxyRoutes) = LoopLength("add_or_update_proxy_route")
      BY DEF ProxyRoutes, LoopLength
    <2>2. QED BY <1>3, <2>1, IndexInstall DEF add_or_update_proxy_route, Labels
  <1>4. CASE add_or_update_reserved_subnet_bypass(c)
    <2>1. Len(BypassRoutes) = LoopLength("add_or_update_reserved_subnet_bypass")
      BY Lengths DEF BypassRoutes, LoopLength
    <2>2. QED BY <1>4, <2>1, IndexInstall DEF add_or_update_reserved_subnet_bypass, Labels
  <1>5. CASE remove_ipv4_redirect(c)
    <2>1. Len(IPV4_SUBNETS) = LoopLength("remove_ipv4_redirect")
      BY DEF LoopLength
    <2>2. QED BY <1>5, <2>1, IndexRemove DEF remove_ipv4_redirect, Labels
  <1>6. CASE start_routing_ipv6(c)
    <2>1. Len(IPV6_SUBNETS) = LoopLength("start_routing_ipv6")
      BY DEF LoopLength
    <2>2. QED BY <1>6, <2>1, IndexRemove DEF start_routing_ipv6, Labels
  <1>7. CASE delete_proxy_route(c)
    <2>1. 1 = LoopLength("delete_proxy_route")
      BY DEF LoopLength
    <2>2. QED BY <1>7, <2>1, IndexRemove DEF delete_proxy_route, Labels
  <1>8. CASE remove_reserved_subnet_bypass(c)
    <2>1. Len(IPV4_RESERVED_SUBNETS) = LoopLength("remove_reserved_subnet_bypass")
      BY DEF LoopLength
    <2>2. QED BY <1>8, <2>1, IndexRemove DEF remove_reserved_subnet_bypass, Labels
  <1>9. QED BY <1>1, <1>2, <1>3, <1>4, <1>5, <1>6, <1>7, <1>8

\* Every other step of a thread starts a loop or is outside all of them.
LEMMA IndexHandler ==
  ASSUME IndexInv, NEW c \in Clients, Connect(c) \/ ReadFile(c) \/ Handler(c)
  PROVE  IndexInv'
  <1> USE DEF GotoPc, Labels, LoopLabels
  <1>1. CASE Connect(c) \/ ReadFile(c) \/ Reply(c)
    BY <1>1, IndexStays DEF Connect, ReadFile, Reply
  <1>2. CASE StopMonitor(c) \/ WaitForThread(c) \/ HandleConfigure(c) \/ HandleOther(c)
    BY <1>2, IndexStays DEF StopMonitor, WaitForThread, HandleConfigure, HandleOther
  <1>3. CASE HandleReset(c) \/ FindGateway(c)
    <2>1. CASE UNCHANGED step /\ FindGateway(c)
      BY <2>1, IndexStays DEF FindGateway, FoundGateway, Break, EnterLoop
    <2>2. CASE HandleReset(c)
      <3>1. /\ step' = [step EXCEPT ![c] = FirstTry]
            /\ \E l \in {"Reply", "end_smart_dns_block", "remove_ipv4_redirect"} : pc' = [pc EXCEPT ![c] = l]
        BY <2>2 DEF HandleReset, EnterLoop
      <3>2. QED BY <3>1, IndexMoves, FirstTryFits
    <2>3. CASE FindGateway(c) /\ ~UNCHANGED step
      <3>1. step' = [step EXCEPT ![c] = FirstTry] /\ pc' = [pc EXCEPT ![c] = "add_ipv4_redirect"]
        BY <2>3 DEF FindGateway, FoundGateway, EnterLoop
      <3>2. QED BY <3>1, IndexMoves, FirstTryFits
    <2>4. QED BY SMTT(30), <1>3, <2>1, <2>2, <2>3
  <1>4. CASE CheckRequest(c) \/ CheckEngine(c) \/ EngineOpen(c) \/ SubLayerAdd(c) \/ AddBlockFilter(c)
    BY <1>4, IndexStays
    DEF CheckRequest, CheckEngine, EngineOpen, SubLayerAdd, AddBlockFilter, BlockStep, Break
  <1>5. CASE AddWhitelistFilter(c) \/ BlockFails(c)
    BY <1>5, IndexStays DEF AddWhitelistFilter, BlockFails, BlockStep, BeginCalls
  <1>6. CASE EndBegin(c) \/ ClearHandle(c) \/ EndConfigure(c) \/ EndReset(c)
    BY <1>6, IndexStays DEF EndBegin, ClearHandle, EndConfigure, EndReset, EndStep
  <1>7. CASE StartMonitor(c) \/ ForgetRouter(c)
    BY <1>7, IndexStays DEF StartMonitor, ForgetRouter
  <1>8. QED BY <1>1, <1>2, <1>3, <1>4, <1>5, <1>6, <1>7, IndexLoops DEF Handler

\* The loops read only the entries of their tables.
LEMMA IndexInvariant == Spec => []IndexInv
  <1>1. Init => IndexInv
    BY FirstTryFits DEF Init, IndexInv, IndexOK, Labels
  <1>2. IndexInv /\ [Next]_vars => IndexInv'
    <2> SUFFICES ASSUME IndexInv, [Next]_vars PROVE IndexInv'
      OBVIOUS
    <2>1. CASE UNCHANGED <<pc, step>>
      BY <2>1 DEF IndexInv, IndexOK
    <2>2. QED
      BY <2>1, IndexHandler DEF Next, ClientLost, MonitorThread, NetworkChanges, vars, clientVars
  <1>3. QED BY <1>1, <1>2, PTL DEF Spec

---------------------------------------------------------------------------
(* Type correctness, for any number of clients. *)

\* The request made of a broken pipe has the type of a request.
LEMMA HangupType == Hangup \in Request
  BY ConstantsOK DEF Hangup, Request

\* A route of a destination by a typed gateway is typed, ...
LEMMA RouteTyped ==
  ASSUME NEW d \in Destinations, NEW i \in Ifaces, NEW h \in NextHops
  PROVE  Route(d, i, h) \in RouteType
  BY DEF Route, RouteType

\* ... for example the default route of an adapter.
LEMMA DefaultRouteType == \A g \in Gateways : Route(DefaultDest, g.iface, g.hop) \in RouteType
  BY RouteTyped DEF Destinations, Ifaces, NextHops

\* The state in which the service starts is typed.
LEMMA TypeInit == Init => TypeOK
  <1> SUFFICES ASSUME Init PROVE TypeOK
    OBVIOUS
  <1> USE ConstantsOK, HangupType DEF Init
  <1>1. MonitorTypeOK
    BY DEF MonitorInit, MonitorTypeOK, ThreadStates, Running
  <1>2. router \in RouterType
    BY DEF ZeroRouter, RouterType
  <1>3. TableTypeOK
    <2>1. faults \in 0..MaxFaults
      OBVIOUS
    <2>2. unmade \subseteq RouteType /\ down \subseteq Adapters /\ astray \in BOOLEAN
      OBVIOUS
    <2>3. table \subseteq RouteType
      BY DefaultRouteType
    <2>4. QED BY <2>1, <2>2, <2>3 DEF TableTypeOK
  <1>4. DnsTypeOK
    BY DEF DnsInit, DnsTypeOK
  <1>5. NetTypeOK
    BY DEF NetTypeOK
  <1>6. ClientTypeOK
    BY DEF ClientTypeOK, Labels, Codes, FirstTry
  <1>7. IndexOK
    BY FirstTryFits DEF IndexOK
  <1>8. QED BY <1>1, <1>2, <1>3, <1>4, <1>5, <1>6, <1>7 DEF TypeOK

\* What a step leaves alone keeps its type.
LEMMA Frame ==
  ASSUME TypeOK
  PROVE  /\ UNCHANGED tableVars => TableTypeOK'
         /\ UNCHANGED dnsVars => DnsTypeOK'
         /\ UNCHANGED monitorVars => MonitorTypeOK'
         /\ UNCHANGED netVars => NetTypeOK'
         /\ UNCHANGED clientVars => ClientTypeOK'
         /\ UNCHANGED router => (router \in RouterType)'
  BY DEF TypeOK, TableTypeOK, DnsTypeOK, MonitorTypeOK, NetTypeOK, ClientTypeOK, tableVars,
         dnsVars, monitorVars, netVars, clientVars

\* A failing call keeps the count of faults within its bound.
LEMMA FaultType ==
  ASSUME TypeOK, Fault, UNCHANGED <<table, down, unmade, astray>>
  PROVE  TableTypeOK'
  <1>1. faults' \in 0..MaxFaults
    BY ConstantsOK DEF TypeOK, TableTypeOK, Fault
  <1>2. QED BY <1>1 DEF TypeOK, TableTypeOK

\* So does a command, whatever it does to the routing table.
LEMMA RunType ==
  ASSUME TypeOK, NEW able, NEW after, NEW code, run_command(able, after, code)
  PROVE  faults' \in 0..MaxFaults
  BY ConstantsOK DEF TypeOK, TableTypeOK, run_command, Fault

\* A command that installs a route (netsh add, netsh set, route change) adds no other.
LEMMA InstallAdds ==
  ASSUME NEW cmd, NEW r, NEW code, Install(cmd, r, code)
  PROVE  /\ table' \subseteq table \cup {r}
         /\ r \in table' => r \in table \/ r.iface \notin down
         /\ unmade' \subseteq unmade \cup {r}
         /\ UNCHANGED down
  <1>1. CASE cmd = "netsh_add" /\ NetshAdd(r, code)
    BY <1>1 DEF Install, NetshAdd, run_command
  <1>2. CASE cmd = "netsh_set" /\ NetshSet(r, code)
    BY <1>2 DEF Install, NetshSet, run_command
  <1>3. CASE cmd = "route_change" /\ RouteChange(r, code)
    BY <1>3 DEF Install, RouteChange, run_command
  <1>4. QED BY <1>1, <1>2, <1>3 DEF Install

\* So it keeps the types of the table.
LEMMA InstallType ==
  ASSUME TypeOK, NEW cmd, NEW r \in RouteType, NEW code, Install(cmd, r, code)
  PROVE  TableTypeOK'
  <1>1. astray' \in BOOLEAN
    BY DEF TypeOK, TableTypeOK, Install
  <1>2. faults' \in 0..MaxFaults
    BY RunType DEF Install, NetshAdd, NetshSet, RouteChange
  <1>3. table' \subseteq RouteType /\ unmade' \subseteq RouteType /\ down' \subseteq Adapters
    BY InstallAdds DEF TypeOK, TableTypeOK
  <1>4. QED BY <1>1, <1>2, <1>3 DEF TableTypeOK

\* So does a command that deletes a route.
LEMMA DeleteType ==
  ASSUME TypeOK, NEW gone, NEW code, Delete(gone, code)
  PROVE  TableTypeOK'
  <1>1. astray' \in BOOLEAN
    BY DEF TypeOK, TableTypeOK, Delete
  <1>2. faults' \in 0..MaxFaults
    BY RunType DEF Delete
  <1>3. table' \subseteq RouteType /\ UNCHANGED <<down, unmade>>
    BY DEF TypeOK, TableTypeOK, Delete, run_command
  <1>4. QED BY <1>1, <1>2, <1>3 DEF TypeOK, TableTypeOK

\* The calls of the filtering engine keep the types of the DNS block.
LEMMA DnsType ==
  ASSUME TypeOK, NEW t \in Taps,
         FwpmEngineOpen0 \/ BlockPort53 \/ WhitelistTap(t) \/ FwpmEngineClose0 \/ ForgetEngine
  PROVE  DnsTypeOK'
  <1> USE DEF TypeOK, DnsTypeOK
  <1>1. CASE FwpmEngineOpen0
    BY <1>1 DEF FwpmEngineOpen0
  <1>2. CASE BlockPort53 \/ ForgetEngine
    BY <1>2 DEF BlockPort53, ForgetEngine
  <1>3. CASE WhitelistTap(t)
    BY <1>3 DEF WhitelistTap
  <1>4. CASE FwpmEngineClose0
    <2>1. allows' \in [Sessions -> SUBSET Taps]
      BY <1>4 DEF FwpmEngineClose0
    <2>2. QED BY <1>4, <2>1 DEF FwpmEngineClose0
  <1>5. QED BY <1>1, <1>2, <1>3, <1>4

\* Updating one entry of a function to the Booleans.
LEMMA BooleanExcept ==
  ASSUME NEW S, NEW f \in [S -> BOOLEAN], NEW x, NEW v \in BOOLEAN
  PROVE  [f EXCEPT ![x] = v] \in [S -> BOOLEAN]
  OBVIOUS

\* net_status_stop_monitor's signal keeps the types of the monitors.
LEMMA SignalType == ASSUME TypeOK, NEW m, SignalExit(m) PROVE MonitorTypeOK'
  BY BooleanExcept DEF TypeOK, MonitorTypeOK, SignalExit

\* net_status_start_monitor keeps the types of the monitors.
LEMMA StartType ==
  ASSUME TypeOK, NEW m, NEW created, net_status_start_monitor(m, created)
  PROVE  MonitorTypeOK'
  <1>1. thread' \in [Monitors -> ThreadStates]
    BY DEF TypeOK, MonitorTypeOK, net_status_start_monitor, ThreadStates, Running
  <1>2. exitEvent' \in [Monitors -> BOOLEAN] /\ addrEvent' \in [Monitors -> BOOLEAN]
    BY BooleanExcept DEF TypeOK, MonitorTypeOK, net_status_start_monitor
  <1>3. QED BY <1>1, <1>2 DEF MonitorTypeOK

\* The steps of client_thread keep the types.
LEMMA TypeClient ==
  ASSUME TypeOK, IndexOK', NEW c \in Clients, Connect(c) \/ ClientLost(c) \/ ReadFile(c) \/ Reply(c)
  PROVE  TypeOK'
  <1> USE ConstantsOK, HangupType, Frame
      DEF TypeOK, ClientTypeOK, tableVars, Labels, Codes, GotoPc, SetResult
  <1>1. CASE Connect(c)
    BY <1>1 DEF Connect
  <1>2. CASE ClientLost(c)
    BY <1>2 DEF ClientLost
  <1>3. CASE ReadFile(c)
    BY <1>3 DEF ReadFile, NetTypeOK
  <1>4. CASE Reply(c)
    BY <1>4 DEF Reply, RouterType
  <1>5. QED BY <1>1, <1>2, <1>3, <1>4

\* The loop counter of one thread may be set to the first try, the second, or the next route.
LEMMA StepExcept ==
  ASSUME NEW f \in [Clients -> [i : Nat \ {0}, try : {1, 2}]], NEW c
  PROVE  [f EXCEPT ![c] = FirstTry] \in [Clients -> [i : Nat \ {0}, try : {1, 2}]]
  <1>1. FirstTry \in [i : Nat \ {0}, try : {1, 2}]
    BY DEF FirstTry
  <1>2. ASSUME NEW S, NEW g \in [Clients -> S], NEW v \in S
        PROVE  [g EXCEPT ![c] = v] \in [Clients -> S]
    OBVIOUS
  <1>3. QED BY <1>1, <1>2

\* Each field of router_info may be set to a value of its type.
LEMMA RouterExcept ==
  ASSUME NEW r \in RouterType
  PROVE  /\ \A t \in Taps : [r EXCEPT !.tap = t] \in RouterType
         /\ \A g \in GatewayType : [r EXCEPT !.gateway = g] \in RouterType
         /\ \A p \in Proxies \cup {NoProxy}, i \in Taps \cup {NoTap}, h \in Hops \cup {NoHop} :
              [r EXCEPT !.proxy = p, !.tapIf = i, !.tapHop = h] \in RouterType
  <1>1. \A t \in Taps : [r EXCEPT !.tap = t] \in RouterType
    BY DEF RouterType
  <1>2. \A g \in GatewayType : [r EXCEPT !.gateway = g] \in RouterType
    BY DEF RouterType
  <1>3. ASSUME NEW p \in Proxies \cup {NoProxy}, NEW i \in Taps \cup {NoTap},
               NEW h \in Hops \cup {NoHop}
        PROVE  [r EXCEPT !.proxy = p, !.tapIf = i, !.tapHop = h] \in RouterType
    BY DEF RouterType
  <1>4. QED BY <1>1, <1>2, <1>3

\* The proxy that FindGateway stores, with or without a gateway.
LEMMA RouterProxy ==
  ASSUME NEW r \in RouterType, NEW p, NEW i, NEW h, NEW g
  PROVE  /\ [r EXCEPT !.proxy = p, !.tapIf = i, !.tapHop = h].proxy = p
         /\ [[r EXCEPT !.proxy = p, !.tapIf = i, !.tapHop = h] EXCEPT !.gateway = g].proxy = p
  BY DEF RouterType

\* A step that moves a thread, and may set its result, start a loop and remember a monitor,
\* keeps the types of the threads.
LEMMA ClientMoves ==
  ASSUME TypeOK, NEW c \in Clients, UNCHANGED <<conn, req, best>>,
         UNCHANGED ctx \/ ctx' = [ctx EXCEPT ![c] = router.monitor],
         \E l \in Labels : pc' = [pc EXCEPT ![c] = l],
         UNCHANGED result \/ \E k \in Codes : result' = [result EXCEPT ![c] = k],
         UNCHANGED step \/ step' = [step EXCEPT ![c] = FirstTry]
  PROVE  ClientTypeOK'
  <1> USE DEF TypeOK, ClientTypeOK
  <1>1. pc' \in [Clients -> Labels]
    OBVIOUS
  <1>2. result' \in [Clients -> Codes]
    OBVIOUS
  <1>3. step' \in [Clients -> [i : Nat \ {0}, try : {1, 2}]]
    <2>1. step \in [Clients -> [i : Nat \ {0}, try : {1, 2}]]
      OBVIOUS
    <2> HIDE DEF TypeOK, ClientTypeOK
    <2>2. QED BY <2>1, StepExcept
  <1>4. ctx' \in [Clients -> Monitors \cup {NoMonitor}]
    <2>1. router.monitor \in Monitors \cup {NoMonitor}
      BY DEF RouterType
    <2>2. QED BY <2>1
  <1>5. QED BY <1>1, <1>2, <1>3, <1>4

\* The steps of handle_request keep the types.
LEMMA TypeHandle ==
  ASSUME TypeOK, IndexOK', NEW c \in Clients,
         \/ StopMonitor(c) \/ WaitForThread(c) \/ HandleConfigure(c) \/ HandleReset(c)
         \/ HandleOther(c) \/ StartMonitor(c) \/ ForgetRouter(c)
  PROVE  TypeOK'
  <1> USE ConstantsOK, Frame
      DEF TypeOK, ClientTypeOK, tableVars, Labels, Codes, GotoPc, EnterLoop, FirstTry, SetResult
  <1>1. CASE StopMonitor(c)
    <2>1. ClientTypeOK'
      <3>1. /\ UNCHANGED <<conn, req, result, step, best>>
            /\ \E l \in Labels : pc' = [pc EXCEPT ![c] = l]
            /\ UNCHANGED ctx \/ ctx' = [ctx EXCEPT ![c] = router.monitor]
        BY <1>1 DEF StopMonitor
      <3> HIDE DEF TypeOK, ClientTypeOK, Labels, Codes
      <3>2. QED BY <3>1, ClientMoves
    <2>2. UNCHANGED monitorVars \/ SignalExit(router.monitor)
      BY <1>1 DEF StopMonitor
    <2>3. MonitorTypeOK'
      BY <2>2, SignalType
    <2>4. QED BY <1>1, <2>1, <2>3 DEF StopMonitor
  <1>2. CASE WaitForThread(c)
    BY <1>2 DEF WaitForThread, JoinAndFree, MonitorTypeOK, ThreadStates
  <1>3. CASE HandleConfigure(c)
    BY <1>3 DEF HandleConfigure, RouterType
  <1>4. CASE HandleReset(c)
    <2>1. ClientTypeOK'
      BY <1>4 DEF HandleReset
    <2>2. router' \in RouterType
      BY <1>4 DEF HandleReset, RouterType
    <2>3. QED BY <1>4, <2>1, <2>2 DEF HandleReset
  <1>5. CASE HandleOther(c)
    BY <1>5 DEF HandleOther, RouterType
  <1>6. CASE StartMonitor(c)
    <2>1. PICK m \in Monitors : /\ \/ net_status_start_monitor(m, TRUE) /\ UNCHANGED faults
                                   \/ net_status_start_monitor(m, FALSE) /\ Fault
                                /\ router' = [router EXCEPT !.monitor = m]
      BY <1>6 DEF StartMonitor
    <2>2. MonitorTypeOK'
      BY <2>1, StartType
    <2>3. router' \in RouterType
      BY <2>1 DEF RouterType
    <2>4. ClientTypeOK'
      BY <1>6 DEF StartMonitor
    <2>5. TableTypeOK'
      BY <1>6, <2>1, FaultType DEF StartMonitor
    <2>6. QED BY <1>6, <2>2, <2>3, <2>4, <2>5 DEF StartMonitor
  <1>7. CASE ForgetRouter(c)
    BY <1>7 DEF ForgetRouter, ZeroRouter, RouterType
  <1>8. QED BY <1>1, <1>2, <1>3, <1>4, <1>5, <1>6, <1>7

\* The steps of configure_routing before and after its loops keep the types.
LEMMA TypeConfigure ==
  ASSUME TypeOK, IndexOK', NEW c \in Clients,
         \/ CheckRequest(c) \/ CheckEngine(c) \/ EngineOpen(c) \/ AddBlockFilter(c)
         \/ SubLayerAdd(c) \/ AddWhitelistFilter(c) \/ BlockFails(c) \/ FindGateway(c)
  PROVE  TypeOK'
  <1> USE ConstantsOK, Frame
      DEF TypeOK, ClientTypeOK, tableVars, Labels, Codes, Request, GotoPc, EnterLoop, FirstTry,
          SetResult, Break, BlockStep
  <1>1. CASE CheckRequest(c)
    <2>1. router' \in RouterType
      <3>1. req[c].tap \in Taps
        OBVIOUS
      <3>2. router' = router \/ router' = [router EXCEPT !.tap = req[c].tap]
        BY <1>1 DEF CheckRequest
      <3>3. router \in RouterType
        OBVIOUS
      <3> HIDE DEF TypeOK, ClientTypeOK
      <3>4. QED BY <3>1, <3>2, <3>3, RouterExcept
    <2>2. ClientTypeOK'
      <3>1. /\ UNCHANGED <<conn, req, ctx, best, step>>
            /\ \E l \in Labels : pc' = [pc EXCEPT ![c] = l]
            /\ UNCHANGED result \/ \E k \in Codes : result' = [result EXCEPT ![c] = k]
        BY <1>1 DEF CheckRequest
      <3> HIDE DEF TypeOK, ClientTypeOK, Labels, Codes
      <3>2. QED BY <3>1, ClientMoves
    <2>3. QED BY <1>1, <2>1, <2>2 DEF CheckRequest
  <1>2. CASE CheckEngine(c)
    <2>1. ClientTypeOK'
      <3>1. /\ UNCHANGED <<conn, req, ctx, best, step>>
            /\ \E l \in Labels : pc' = [pc EXCEPT ![c] = l]
            /\ UNCHANGED result \/ \E k \in Codes : result' = [result EXCEPT ![c] = k]
        BY <1>2 DEF CheckEngine
      <3> HIDE DEF TypeOK, ClientTypeOK, Labels, Codes
      <3>2. QED BY <3>1, ClientMoves
    <2>2. QED BY <1>2, <2>1 DEF CheckEngine
  <1>3. CASE EngineOpen(c)
    BY <1>3, DnsType DEF EngineOpen
  <1>4. CASE SubLayerAdd(c)
    BY <1>4 DEF SubLayerAdd, FwpmSubLayerAdd0
  <1>5. CASE AddWhitelistFilter(c)
    <2>1. DnsTypeOK'
      BY <1>5, DnsType DEF AddWhitelistFilter
    <2>2. ClientTypeOK'
      <3>1. /\ UNCHANGED <<conn, req, ctx, best, step>>
            /\ \E l \in Labels : pc' = [pc EXCEPT ![c] = l]
            /\ \E k \in Codes : result' = [result EXCEPT ![c] = k]
        BY <1>5 DEF AddWhitelistFilter
      <3> HIDE DEF TypeOK, ClientTypeOK, Labels, Codes
      <3>2. QED BY <3>1, ClientMoves
    <2>3. QED BY <1>5, <2>1, <2>2 DEF AddWhitelistFilter
  <1>6. CASE BlockFails(c)
    <2>1. TableTypeOK'
      BY <1>6, FaultType DEF BlockFails
    <2>2. ClientTypeOK'
      <3>1. /\ UNCHANGED <<conn, req, ctx, best, step>>
            /\ \E l \in Labels : pc' = [pc EXCEPT ![c] = l]
            /\ \E k \in Codes : result' = [result EXCEPT ![c] = k]
        BY <1>6 DEF BlockFails
      <3> HIDE DEF TypeOK, ClientTypeOK, Labels, Codes
      <3>2. QED BY <3>1, ClientMoves
    <2>3. QED BY <1>6, <2>1, <2>2 DEF BlockFails
  <1>7. CASE FindGateway(c)
    <2>0. PICK found \in BOOLEAN :
            /\ found => router.tap \in Taps
            /\ FoundGateway(c, found)
      BY <1>7 DEF FindGateway
    <2> DEFINE tapIf == IF found THEN router.tap ELSE router.tapIf
               own   == IF found THEN AdapterHop[router.tap] ELSE NoHop
               hop   == CASE own # NoHop                           -> own
                          [] own = NoHop /\ router.tapHop # NoHop -> router.tapHop
                          [] OTHER                                 -> req[c].hop
               known == [router EXCEPT !.proxy = req[c].proxy, !.tapIf = tapIf, !.tapHop = hop]
    <2>1. tapIf \in Taps \cup {NoTap} /\ hop \in Hops \cup {NoHop}
      BY <2>0 DEF RouterType
    <2>2. known \in RouterType
      <3>1. req[c].proxy \in Proxies \cup {NoProxy}
        OBVIOUS
      <3>2. router \in RouterType
        OBVIOUS
      <3> HIDE DEF tapIf, hop, TypeOK, ClientTypeOK
      <3>3. QED BY <2>1, <3>1, <3>2, RouterExcept
    <2>3. get_system_ipv4_gateway(tapIf) \subseteq GatewayType
      <3> HIDE DEF tapIf
      <3>1. \A r \in table : [iface |-> r.iface, hop |-> r.hop] \in GatewayType
        BY DEF TableTypeOK, RouteType, GatewayType
      <3>2. QED BY <3>1 DEF get_system_ipv4_gateway
    <2>4. router' = known \/ \E g \in GatewayType : router' = [known EXCEPT !.gateway = g]
      BY <2>0, <2>3 DEF FoundGateway
    <2>5. router' \in RouterType
      <3> HIDE DEF known, TypeOK, ClientTypeOK
      <3>1. QED BY ZenonT(40), <2>2, <2>4, RouterExcept
    <2>6. ClientTypeOK'
      <3>1. UNCHANGED <<conn, req, ctx>>
        BY <2>0 DEF FoundGateway
      <3>2. UNCHANGED best \/ \E g \in GatewayType : best' = [best EXCEPT ![c] = g]
        BY <2>0, <2>3 DEF FoundGateway
      <3>3. /\ \E l \in Labels : pc' = [pc EXCEPT ![c] = l]
            /\ UNCHANGED result \/ result' = [result EXCEPT ![c] = 0]
            /\ UNCHANGED step \/ step' = [step EXCEPT ![c] = FirstTry]
        BY <2>0 DEF FoundGateway
      <3>4. best' \in [Clients -> GatewayType]
        BY <3>2
      <3>5. pc' \in [Clients -> Labels]
        BY <3>3
      <3>6. result' \in [Clients -> Codes]
        BY <3>3
      <3>7. step' \in [Clients -> [i : Nat \ {0}, try : {1, 2}]]
        <4>1. step \in [Clients -> [i : Nat \ {0}, try : {1, 2}]]
          OBVIOUS
        <4>2. [step EXCEPT ![c] = FirstTry] \in [Clients -> [i : Nat \ {0}, try : {1, 2}]]
          BY <4>1, StepExcept
        <4> HIDE DEF FirstTry
        <4>3. QED BY <3>3, <4>1, <4>2
      <3>8. QED BY <3>1, <3>4, <3>5, <3>6, <3>7
    <2>7. QED BY <2>0, <2>5, <2>6 DEF FoundGateway
  <1>8. CASE AddBlockFilter(c)
    <2>1. DnsTypeOK'
      BY <1>8, DnsType DEF AddBlockFilter
    <2>2. QED BY <1>8, <2>1 DEF AddBlockFilter
  <1>9. QED BY <1>1, <1>2, <1>3, <1>4, <1>5, <1>6, <1>7, <1>8

\* end_smart_dns_block keeps the types, whoever calls it.
LEMMA TypeEndBlock ==
  ASSUME TypeOK, IndexOK', NEW c \in Clients,
         EndBegin(c) \/ ClearHandle(c) \/ EndConfigure(c) \/ EndReset(c)
  PROVE  TypeOK'
  <1>1. PICK from \in Labels, to \in Labels : EndStep(c, from, to)
    BY DEF EndBegin, ClearHandle, EndConfigure, EndReset, Labels
  <1>2. FwpmEngineClose0 \/ ForgetEngine \/ UNCHANGED dnsVars
    BY DEF EndBegin, ClearHandle, EndConfigure, EndReset
  <1>3. DnsTypeOK'
    BY <1>2, DnsType, ConstantsOK, Frame
  <1>4. ClientTypeOK'
    BY <1>1 DEF EndStep, GotoPc, TypeOK, ClientTypeOK
  <1>5. QED BY <1>1, <1>3, <1>4, Frame DEF EndStep, TypeOK

\* The steps of configure_routing's four loops keep the types.
LEMMA TypeInstall ==
  ASSUME TypeOK, IndexOK', NEW c \in Clients,
         \/ add_ipv4_redirect(c) \/ stop_routing_ipv6(c) \/ add_or_update_proxy_route(c)
         \/ add_or_update_reserved_subnet_bypass(c)
  PROVE  TypeOK'
  <1>1. ASSUME NEW here \in Labels, NEW next \in Labels, NEW routes, NEW cmds,
               here # "configured", here # next, routes[step[c].i] \in RouteType,
               InstallLoop(c, here, routes, cmds, next)
        PROVE  TypeOK'
    <2>1. PICK code \in Codes : InstallStep(c, here, routes, cmds, next, code)
      BY <1>1, InstallSteps
    <2>2. TableTypeOK'
      BY <1>1, <2>1, InstallType DEF InstallStep
    <2>3. ClientTypeOK'
      <3>1. step[c] \in Steps
        BY DEF TypeOK, ClientTypeOK, Steps
      <3>2. /\ [i |-> step[c].i + 1, try |-> 1] \in Steps
            /\ [i |-> step[c].i, try |-> 2] \in Steps
        BY <3>1 DEF Steps
      <3>3. "configured" \in Labels
        BY DEF Labels
      <3>4. /\ \E l \in Labels : pc' = [pc EXCEPT ![c] = l]
            /\ \E t \in Steps : step' = [step EXCEPT ![c] = t]
            /\ result' = [result EXCEPT ![c] = code]
        BY <1>1, <2>1, <3>2, <3>3, FirstTryFits DEF InstallStep
      <3>5. UNCHANGED <<conn, req, ctx, best>>
        BY <1>1 DEF InstallLoop
      <3>6. QED BY <3>4, <3>5 DEF TypeOK, ClientTypeOK, Steps
    <2>4. QED BY <1>1, <2>2, <2>3, Frame DEF InstallLoop, TypeOK
  <1>2. step[c] \in Steps /\ step[c].i <= LoopLength(pc[c])
    BY DEF TypeOK, ClientTypeOK, IndexOK, Steps
  <1>3. router \in RouterType
    BY DEF TypeOK
  <1>4. router.tap \in Ifaces /\ router.tapHop \in NextHops /\ Loopback \in Ifaces /\ NoHop \in NextHops
    BY <1>3 DEF RouterType, Ifaces, NextHops
  <1>5. router.gateway.iface \in Ifaces /\ router.gateway.hop \in NextHops
    BY SMTT(30), <1>3 DEF RouterType, GatewayType
  <1>6. CASE add_ipv4_redirect(c)
    <2>1. step[c].i \in DOMAIN IPV4_SUBNETS
      BY <1>2, <1>6, Lengths DEF add_ipv4_redirect, InstallLoop, LoopLength, Steps
    <2>2. IPV4_SUBNETS[step[c].i] \in Destinations
      BY <2>1 DEF Destinations, Range
    <2>3. RedirectRoutes[step[c].i] \in RouteType
      BY SMTT(30), <1>4, <2>1, <2>2, RouteTyped DEF RedirectRoutes
    <2>4. QED BY <1>1, <1>6, <2>3 DEF Labels, add_ipv4_redirect
  <1>7. CASE stop_routing_ipv6(c)
    <2>1. step[c].i \in DOMAIN IPV6_SUBNETS
      BY <1>2, <1>7, Lengths DEF stop_routing_ipv6, InstallLoop, LoopLength, Steps
    <2>2. IPV6_SUBNETS[step[c].i] \in Destinations
      BY <2>1 DEF Destinations, Range
    <2>3. IPv6Routes[step[c].i] \in RouteType
      BY SMTT(30), <1>4, <2>1, <2>2, RouteTyped DEF IPv6Routes
    <2>4. QED BY <1>1, <1>7, <2>3 DEF Labels, stop_routing_ipv6
  <1>8. CASE add_or_update_proxy_route(c)
    <2>1. step[c].i = 1
      BY <1>2, <1>8 DEF add_or_update_proxy_route, InstallLoop, LoopLength, Steps
    <2>2. router.proxy \in Destinations
      BY <1>3 DEF RouterType, Destinations
    <2>3. ProxyRoutes[step[c].i] \in RouteType
      BY SMTT(30), <1>5, <2>1, <2>2, RouteTyped DEF ProxyRoutes
    <2>4. QED BY <1>1, <1>8, <2>3 DEF Labels, add_or_update_proxy_route
  <1>9. CASE add_or_update_reserved_subnet_bypass(c)
    <2>1. step[c].i \in DOMAIN IPV4_RESERVED_SUBNETS
      BY <1>2, <1>9, Lengths DEF add_or_update_reserved_subnet_bypass, InstallLoop, LoopLength, Steps
    <2>2. IPV4_RESERVED_SUBNETS[step[c].i] \in Destinations
      BY <2>1 DEF Destinations, Range
    <2>3. BypassRoutes[step[c].i] \in RouteType
      BY <1>5, <2>1, <2>2, RouteTyped DEF BypassRoutes
    <2>4. QED BY <1>1, <1>9, <2>3 DEF Labels, add_or_update_reserved_subnet_bypass
  <1>10. QED BY <1>6, <1>7, <1>8, <1>9

\* The steps of reset_routing keep the types.
LEMMA TypeRemove ==
  ASSUME TypeOK, IndexOK', NEW c \in Clients,
         \/ remove_ipv4_redirect(c) \/ start_routing_ipv6(c) \/ delete_proxy_route(c)
         \/ remove_reserved_subnet_bypass(c)
  PROVE  TypeOK'
  <1>1. ASSUME NEW here \in Labels, NEW next \in Labels, NEW n, NEW code \in Codes, NEW stop,
               AfterRemoval(c, here, n, next, code, stop), TableTypeOK'
        PROVE  TypeOK'
    <2>1. ClientTypeOK'
      BY <1>1 DEF AfterRemoval, TypeOK, ClientTypeOK, SetResult, FirstTry
    <2>2. QED BY <1>1, <2>1, Frame DEF AfterRemoval, TypeOK
  <1>2. CASE remove_ipv4_redirect(c)
    BY <1>1, <1>2, DeleteType DEF remove_ipv4_redirect, NetshDelete, Labels
  <1>3. CASE start_routing_ipv6(c)
    BY <1>1, <1>3, DeleteType DEF start_routing_ipv6, NetshDelete, Labels
  <1>4. CASE delete_proxy_route(c)
    BY ZenonT(40), <1>1, <1>4, DeleteType, Frame DEF delete_proxy_route, RouteDelete, tableVars, Labels
  <1>5. CASE remove_reserved_subnet_bypass(c)
    <2>1. result[c] \in Codes
      BY DEF TypeOK, ClientTypeOK
    <2>2. QED
      BY <1>1, <1>5, <2>1, DeleteType DEF remove_reserved_subnet_bypass, RouteDelete, Labels
  <1>6. QED BY <1>2, <1>3, <1>4, <1>5

\* The monitors' threads and the network keep the types.
LEMMA TypeEnvironment ==
  ASSUME TypeOK, IndexOK', NetworkChanges \/ \E m \in Monitors : MonitorThread(m)
  PROVE  TypeOK'
  <1>1. CASE NetworkChanges
    <2>1. NetTypeOK'
      <3>1. netChanges' \in 0..MaxNetChanges
        BY <1>1, ConstantsOK DEF NetworkChanges, TypeOK, NetTypeOK
      <3>2. lost' \in [Clients -> SUBSET Adapters]
        BY <1>1 DEF NetworkChanges, TypeOK, NetTypeOK
      <3>3. QED BY <3>1, <3>2 DEF NetTypeOK
    <2>2. MonitorTypeOK'
      <3>1. addrEvent' \in [Monitors -> BOOLEAN]
        BY <1>1 DEF NetworkChanges, AddressesChange
      <3>2. QED BY <1>1, <3>1 DEF NetworkChanges, AddressesChange, TypeOK, MonitorTypeOK
    <2>3. TableTypeOK'
      <3>1. table' \subseteq RouteType
        BY <1>1, DefaultRouteType DEF NetworkChanges, DefaultRoutes, TypeOK, TableTypeOK
      <3>2. down' \subseteq Adapters /\ astray' \in BOOLEAN
        BY <1>1 DEF NetworkChanges, TypeOK, TableTypeOK
      <3>3. QED BY <1>1, <3>1, <3>2 DEF NetworkChanges, TypeOK, TableTypeOK
    <2>4. QED BY <1>1, <2>1, <2>2, <2>3, Frame DEF NetworkChanges, TypeOK
  <1>2. ASSUME NEW m \in Monitors, MonitorThread(m)
        PROVE  TypeOK'
    <2>1. TableTypeOK'
      BY <1>2, Frame, FaultType DEF MonitorThread, tableVars
    <2>2. thread' \in [Monitors -> ThreadStates]
      BY <1>2 DEF MonitorThread, TypeOK, MonitorTypeOK, ThreadStates, Running, WakeUp, Register,
                  RegisterFails, OnAddrChange, OnExit, Goto
    <2>3. exitEvent' \in [Monitors -> BOOLEAN] /\ addrEvent' \in [Monitors -> BOOLEAN]
      BY <1>2, BooleanExcept
      DEF MonitorThread, TypeOK, MonitorTypeOK, WakeUp, Register, RegisterFails, OnAddrChange, OnExit
    <2>4. QED BY <1>2, <2>1, <2>2, <2>3, Frame DEF MonitorThread, TypeOK, MonitorTypeOK
  <1>3. QED BY <1>1, <1>2

\* The service's state keeps its type: every handler stores in router_info, and leaves in
\* its locals, only values of the type the next one expects.
THEOREM TypeCorrect == Spec => []TypeOK
  <1>1. TypeOK /\ IndexInv' /\ [Next]_vars => TypeOK'
    <2> SUFFICES ASSUME TypeOK, IndexInv', [Next]_vars PROVE TypeOK'
      OBVIOUS
    <2> IndexOK'
      BY DEF IndexInv
    <2>1. CASE UNCHANGED vars
      BY <2>1, Frame DEF vars, tableVars, TypeOK
    <2>2. CASE Next
      BY <2>2, TypeClient, TypeHandle, TypeConfigure, TypeEndBlock, TypeInstall, TypeRemove,
             TypeEnvironment
      DEF Next, Handler
    <2>3. QED BY <2>1, <2>2
  <1>2. QED BY <1>1, TypeInit, IndexInvariant, PTL DEF Spec
---------------------------------------------------------------------------
(* An adapter that is down has no routes, for any number of clients.        *)

DownInv == \A r \in table : r.iface \notin down

\* What a step can do to the table: run one command, or be one of the network's.
LEMMA TableSteps ==
  ASSUME [Next]_vars
  PROVE  \/ UNCHANGED tableVars
         \/ UNCHANGED <<table, down, unmade, astray>>
         \/ NetworkChanges
         \/ \E cmd, r, code : Install(cmd, r, code)
         \/ \E gone, code : Delete(gone, code)
  <1>1. CASE UNCHANGED vars
    BY <1>1 DEF vars
  <1>2. ASSUME NEW c \in Clients,
               \/ Connect(c) \/ ClientLost(c) \/ ReadFile(c) \/ Reply(c) \/ StopMonitor(c)
               \/ WaitForThread(c) \/ HandleConfigure(c) \/ HandleReset(c) \/ HandleOther(c)
               \/ StartMonitor(c) \/ ForgetRouter(c)
        PROVE  UNCHANGED <<table, down, unmade, astray>>
    BY <1>2 DEF Connect, ClientLost, ReadFile, Reply, StopMonitor, WaitForThread, HandleConfigure,
                HandleReset, HandleOther, StartMonitor, ForgetRouter, tableVars
  <1>3. ASSUME NEW c \in Clients,
               \/ CheckRequest(c) \/ CheckEngine(c) \/ EngineOpen(c) \/ SubLayerAdd(c)
               \/ AddBlockFilter(c) \/ AddWhitelistFilter(c) \/ BlockFails(c) \/ EndBegin(c)
               \/ ClearHandle(c) \/ FindGateway(c) \/ EndConfigure(c) \/ EndReset(c)
        PROVE  UNCHANGED <<table, down, unmade, astray>>
    BY <1>3 DEF CheckRequest, CheckEngine, EngineOpen, SubLayerAdd, AddBlockFilter,
                AddWhitelistFilter, BlockFails, EndBegin, ClearHandle, FindGateway, FoundGateway,
                EndConfigure, EndReset, BlockStep, EndStep, tableVars
  <1>4. ASSUME NEW c \in Clients,
               \/ add_ipv4_redirect(c) \/ stop_routing_ipv6(c) \/ add_or_update_proxy_route(c)
               \/ add_or_update_reserved_subnet_bypass(c)
        PROVE  \E cmd, r, code : Install(cmd, r, code)
    BY <1>4 DEF add_ipv4_redirect, stop_routing_ipv6, add_or_update_proxy_route,
                add_or_update_reserved_subnet_bypass, InstallLoop
  <1>5. ASSUME NEW c \in Clients,
               \/ remove_ipv4_redirect(c) \/ start_routing_ipv6(c) \/ delete_proxy_route(c)
               \/ remove_reserved_subnet_bypass(c)
        PROVE  UNCHANGED tableVars \/ \E gone, code : Delete(gone, code)
    BY <1>5 DEF remove_ipv4_redirect, start_routing_ipv6, delete_proxy_route,
                remove_reserved_subnet_bypass, NetshDelete, RouteDelete
  <1>6. ASSUME NEW m \in Monitors, MonitorThread(m)
        PROVE  UNCHANGED <<table, down, unmade, astray>>
    BY <1>6 DEF MonitorThread
  <1>7. QED BY <1>1, <1>2, <1>3, <1>4, <1>5, <1>6 DEF Next, Handler

\* An adapter loses its routes when it goes down, and no command gives it one before it is up.
LEMMA DownInvariant == Spec => []DownInv
  <1>1. Init => DownInv
    BY DEF Init, DownInv
  <1>2. DownInv /\ [Next]_vars => DownInv'
    <2> SUFFICES ASSUME DownInv, [Next]_vars PROVE DownInv'
      OBVIOUS
    <2>1. CASE UNCHANGED <<table, down>>
      BY <2>1 DEF DownInv
    <2>2. CASE NetworkChanges
      BY <2>2 DEF NetworkChanges, DownInv, DefaultRoutes, Route
    <2>3. ASSUME NEW cmd, NEW r, NEW code, Install(cmd, r, code)
          PROVE  DownInv'
      BY <2>3, InstallAdds DEF DownInv
    <2>4. ASSUME NEW gone, NEW code, Delete(gone, code)
          PROVE  DownInv'
      BY <2>4 DEF Delete, run_command, DownInv
    <2>5. QED BY <2>1, <2>2, <2>3, <2>4, TableSteps DEF tableVars
  <1>3. QED BY <1>1, <1>2, PTL DEF Spec
===========================================================================
