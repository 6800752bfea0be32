\* One client, two faults and two network changes.
SPECIFICATION Spec
CONSTANTS
  IPV4_SUBNETS <- MCIPv4
  IPV6_SUBNETS <- MCIPv6
  IPV4_RESERVED_SUBNETS <- MCReservedOne
  DefaultDest = "0.0.0.0/0"
  WordRoute = "route"
  ZeroDests <- MCZeroDests
  Loopback = "loopback"
  NoHop = "no hop"
  MaxFaults = 2
  Sessions = {e1}
  NoSession = NoSession
  Monitors = {m1, m2, m3}
  Clients = {c1}
  Taps = {"outline-tap0"}
  NoTap = ""
  AdapterHop <- MCAdapterHop
  Hops = {"10.0.85.1"}
  Proxies = {"203.0.113.9"}
  NoProxy = ""
  Gateways <- MCGateways
  NoGateway <- MCNoGateway
  NoMonitor = NoMonitor
  Requests <- MCRequests
  MaxNetChanges = 2
SYMMETRY MCSymmetry
INVARIANTS
  TypeOK
  DnsBlockLiftable
  DnsBlockWhole
  SuccessMeansTunnel
  
  RoutesRecoverable
  HangupRestores
  MonitorQuiescent
  NoStrayMonitor
  StopOwnsMonitor
PROPERTY
  KeepsRoutingPromise
