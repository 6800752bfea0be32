-------------------------- MODULE MCRouteService --------------------------
(***************************************************************************)
(* Values for the constants of RouteService.  Two destinations stand for   *)
(* each table of cmd_handler.c, so that a loop has a first, a last and a   *)
(* next step.                                                              *)
(***************************************************************************)
EXTENDS RouteService, TLC

MCIPv4 == <<"0.0.0.0/1", "128.0.0.0/1">>
MCIPv6 == <<"fc00::/7", "2000::/4">>
MCReserved == <<"0.0.0.0/8", "10.0.0.0/8">>
MCReservedOne == <<"0.0.0.0/8">>
MCZeroDests == {"0.0.0.0/0", "0.0.0.0/1", "0.0.0.0/8"}
MCEth == [iface |-> "eth", hop |-> "192.168.1.1"]
MCWifi == [iface |-> "wifi", hop |-> "192.168.2.1"]
MCNoGateway == [iface |-> "none", hop |-> "none"]
MCGateways == {MCEth}
MCTwoGateways == {MCEth, MCWifi}
MCAdapterHop == [t \in Taps |-> NoHop]

MCAsk(action, proxy) ==
  [action |-> action, proxy |-> proxy, tap |-> CHOOSE t \in Taps : TRUE,
   hop |-> CHOOSE h \in Hops : TRUE, reply |-> TRUE]

\* A request for each proxy, one without a usable proxy, a reset, and garbage.
MCRequests ==
  {MCAsk("configureRouting", p) : p \in Proxies \cup {NoProxy}}
    \cup {MCAsk("resetRouting", NoProxy), MCAsk("other", NoProxy)}

\* For two TAP devices: a request to tunnel through each, and a reset.
MCDeviceRequests ==
  {[r EXCEPT !.tap = t] : r \in {MCAsk("configureRouting", p) : p \in Proxies}, t \in Taps}
    \cup {MCAsk("resetRouting", NoProxy)}

\* For two clients: shorter tables, no default gateway, no garbage.
MCOneIPv4 == <<"0.0.0.0/1">>
MCOneIPv6 == <<"2000::/4">>
MCNoGateways == {}
MCFewRequests == {r \in MCRequests : r.action # "other"}
MCClientSymmetry == Permutations(Monitors) \cup Permutations(Clients)

\* Contexts are interchangeable: nothing but calloc chooses among them.
MCSymmetry == Permutations(Monitors)
===========================================================================
