--------------------------- MODULE RoutingTable ---------------------------
(***************************************************************************)
(* The operating system's routing table as the routing service uses it,    *)
(* through the commands netsh and route (cmd_handler.c, win_cmd_wrapper.c). *)
(*                                                                         *)
(* A route is a destination, the interface it leaves by and its next hop;  *)
(* IPv4 and IPv6 routes share one table because their destinations differ. *)
(* Metrics are left out: the service gives every route metric 0, and which *)
(* of several default routes wins is a choice of the environment.          *)
(***************************************************************************)
EXTENDS Integers, Sequences, Functions

CONSTANTS
  IPV4_SUBNETS,          \* sequence: the two halves of the IPv4 address space
  IPV6_SUBNETS,          \* sequence: the IPv6 ranges sent to the loopback
  IPV4_RESERVED_SUBNETS, \* sequence: the ranges that bypass the tunnel
  DefaultDest,           \* 0.0.0.0/0
  WordRoute,             \* the word "route" read as a destination; no route has it
  ZeroDests,             \* the destinations whose dwForwardDest is 0
  Loopback,              \* IPv6LoopbackInterfaceIndex()
  NoHop,                 \* a route, or router_info, without a next hop
  MaxFaults              \* bound: how many commands or calls fail for no modelled reason

VARIABLES
  table,   \* the set of routes
  down,    \* the adapters that are unplugged or disabled
  faults,  \* how many commands or calls have failed so far for no modelled reason
  unmade,  \* history: routes whose installing was last answered with 0 and not done
  astray   \* history: routes may stand that the loops of a reset will not find

tableVars == <<table, down, faults, unmade, astray>>

Route(d, i, h) == [dest |-> d, iface |-> i, hop |-> h]

To(d) == {r \in table : r.dest = d}

Codes == {0, -1}

\* A call of the system that can fail at any time, within the bound.
Fault == faults < MaxFaults /\ faults' = faults + 1

(***************************************************************************)
(* run_command: `able` says whether the child process can do what it is    *)
(* asked, `after` is the table if it does.  A failure the table explains   *)
(* changes nothing and is answered with -1.  Anything else takes a fault:  *)
(* an able child that is answered with -1 (it could not be started, or it  *)
(* complained without need), with the change made or not; one that is not  *)
(* able, complains in text only, and whose text run_command cannot read,   *)
(* so that the exit code 0 stands; both at once for an able child that     *)
(* fails.  CommandRunner has the calls behind this, and a child that never *)
(* ends, which is left out here.                                           *)
(***************************************************************************)
run_command(able, after, code) ==
  \/ able  /\ code = 0  /\ table' = after /\ UNCHANGED faults
  \/ ~able /\ code = -1 /\ UNCHANGED <<table, faults>>
  \/ able  /\ code = -1 /\ table' \in {table, after} /\ Fault
  \/ ~able /\ code = 0  /\ UNCHANGED table /\ Fault
  \/ able  /\ code = 0  /\ UNCHANGED table /\ faults + 2 <= MaxFaults /\ faults' = faults + 2

\* "netsh interface ... add route": refused when the route is there, or its adapter is not.
NetshAdd(r, code) == run_command(r \notin table /\ r.iface \notin down, table \cup {r}, code)

\* "netsh interface ... set route": only a route that is there, and only its metric.
NetshSet(r, code) == run_command(r \in table, table, code)

\* "route change": gives one route to the destination another gateway.
RouteChange(r, code) ==
  IF To(r.dest) = {} \/ r.iface \in down
  THEN run_command(FALSE, table, code)
  ELSE \E old \in To(r.dest) : run_command(TRUE, (table \ {old}) \cup {r}, code)

\* A route of the tunnel that is missing though its command was answered with 0 leaves a gap
\* at which the loop of a reset stops.
Install(cmd, r, code) ==
  /\ \/ cmd = "netsh_add"    /\ NetshAdd(r, code)
     \/ cmd = "netsh_set"    /\ NetshSet(r, code)
     \/ cmd = "route_change" /\ RouteChange(r, code)
  /\ unmade' = (unmade \cup (IF code = 0 THEN {r} ELSE {})) \ table'
  /\ astray' = (astray \/ (r \in unmade' /\ r.dest \in Range(IPV4_SUBNETS) \cup Range(IPV6_SUBNETS)))
  /\ UNCHANGED down

\* A deletion removes every route of `gone`, and fails when there is none.
Delete(gone, code) ==
  /\ run_command(gone # {}, table \ gone, code)
  /\ astray' = (astray \/ (gone # {} /\ (code # 0 \/ UNCHANGED table)))
  /\ UNCHANGED <<down, unmade>>

\* "netsh interface ... delete route <dest> interface=<iface>"
NetshDelete(d, i, code) == Delete({r \in To(d) : r.iface = i}, code)

\* "route delete <dest>"
RouteDelete(d, code) == Delete(To(d), code)
===========================================================================
