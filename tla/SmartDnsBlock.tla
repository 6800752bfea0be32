--------------------------- MODULE SmartDnsBlock --------------------------
(***************************************************************************)
(* smartdnsblock.c: the two filters that block DNS queries outside the TAP *)
(* device.  They live in a dynamic session of the Windows filtering        *)
(* engine, whose handle is a global of the service: opening a session      *)
(* writes over the handle, but the session before it stays in force until  *)
(* it is closed, and closing it removes its filters.                       *)
(*                                                                         *)
(* The ids of the filters are left out: they are read only to delete what  *)
(* the close that follows removes as well.                                 *)
(***************************************************************************)

CONSTANTS
  Sessions,  \* sessions of the filtering engine, reused once closed
  NoSession  \* engine = NULL

VARIABLES
  engine,  \* the handle: the session opened last, or NoSession
  open,    \* the sessions that are open
  blocks,  \* those with the filter that blocks UDP port 53
  allows   \* the devices the whitelist filters of each session let through

dnsVars == <<engine, open, blocks, allows>>

DnsInit ==
  engine = NoSession /\ open = {} /\ blocks = {} /\ allows = [s \in Sessions |-> {}]

\* FwpmEngineOpen0: a new session, without filters, whatever the handle holds.
FwpmEngineOpen0 ==
  /\ \E s \in Sessions \ open : engine' = s /\ open' = open \cup {s}
  /\ UNCHANGED <<blocks, allows>>

\* FwpmSubLayerAdd0 and the two FwpmFilterAdd0 work on the session of the handle.
FwpmSubLayerAdd0 == engine \in open /\ UNCHANGED dnsVars
BlockPort53 ==
  engine \in open /\ blocks' = blocks \cup {engine} /\ UNCHANGED <<engine, open, allows>>
WhitelistTap(tap) ==
  /\ engine \in open
  /\ allows' = [allows EXCEPT ![engine] = @ \cup {tap}]
  /\ UNCHANGED <<engine, open, blocks>>

\* A call is refused without a failure of the engine when the session has been closed, or
\* when the one global sublayer key, renewed by each begin_smart_dns_block, may be the key of
\* another session's sublayer.
MayBeRefused == engine \notin open \/ open # {engine}

\* The engine calls of end_smart_dns_block, taken as one: deleting the filters and the
\* sublayer shows nothing that closing the session does not.  A handle that is NULL or whose
\* session is closed has no effect; closing one that is open does not fail.
FwpmEngineClose0 ==
  /\ open' = open \ {engine}
  /\ blocks' = blocks \ {engine}
  /\ allows' = [s \in Sessions |-> IF s = engine THEN {} ELSE allows[s]]
  /\ UNCHANGED engine

\* Its last line, engine = NULL.
ForgetEngine == engine' = NoSession /\ UNCHANGED <<open, blocks, allows>>
===========================================================================
