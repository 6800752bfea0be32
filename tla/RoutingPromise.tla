--------------------------- MODULE RoutingPromise --------------------------
(***************************************************************************)
(* What the routing service promises its one client: the requests of       *)
(* cmd_handler.c without the commands, calls and threads behind them.      *)
(* Between two requests nothing it has configured changes, but its device  *)
(* can go down.  A configure takes ranges for the tunnel one by one, after *)
(* DNS is blocked and a gateway is found; a reset gives them back; and the *)
(* answer says how far they have come, as far as the service can know.     *)
(***************************************************************************)
EXTENDS Integers

CONSTANTS
  Ranges,       \* the ranges of addresses that the tunnel takes
  DeviceRanges  \* those of them that its device carries

VARIABLES
  asked,   \* the request that is executed, or "nothing"
  answer,  \* the code that the last one was answered with, -1 before
  found,   \* it has found the system's gateway
  taken,   \* the ranges whose routes lead into the tunnel
  missed,  \* those the system did not take, or dropped, without the service knowing
  dns,     \* DNS is blocked outside of the tunnel
  stuck    \* routes may stand that a reset does not find

Init ==
  /\ asked = "nothing" /\ answer = -1 /\ found = FALSE
  /\ taken = {} /\ missed = {} /\ dns = FALSE /\ stuck = FALSE

\* A new request does not know of a device lost before it.
Ask ==
  /\ asked = "nothing"
  /\ asked' \in {"configureRouting", "resetRouting", "other"}
  /\ answer' = -1 /\ found' = FALSE
  /\ missed' \subseteq missed
  /\ UNCHANGED <<taken, dns, stuck>>

Configure ==
  /\ asked = "configureRouting"
  /\ dns' \in BOOLEAN
  /\ found' \in BOOLEAN /\ (found => found')
  /\ taken \subseteq taken' /\ taken' \cup missed' \subseteq Ranges
  /\ missed \subseteq taken' \cup missed'
  /\ <<taken, missed>>' # <<taken, missed>> => found /\ dns
  /\ stuck => stuck'
  /\ UNCHANGED <<asked, answer>>

Reset ==
  /\ asked = "resetRouting"
  /\ taken' \subseteq taken
  /\ dns' => dns
  /\ stuck => stuck'
  /\ UNCHANGED <<asked, answer, found, missed>>

\* A device goes down with the ranges it carries, at any time.
LoseDevice ==
  /\ taken' \subseteq taken /\ taken \subseteq taken' \cup DeviceRanges
  /\ missed' \in {missed, missed \cup DeviceRanges}
  /\ stuck => stuck'
  /\ UNCHANGED <<asked, answer, found, dns>>

\* An error leaves DNS open; a success all ranges taken if there is a gateway, but those that
\* were missed; and a reset nothing but what it does not find.
Answer ==
  /\ \/ asked = "configureRouting" /\ answer' = 0  /\ dns /\ (found => Ranges \subseteq taken \cup missed)
     \/ asked = "configureRouting" /\ answer' = -1 /\ ~dns
     \/ asked = "resetRouting" /\ answer' \in {0, -1} /\ ~dns /\ (stuck \/ taken = {})
     \/ asked = "other" /\ answer' = -1
  /\ asked' = "nothing"
  /\ UNCHANGED <<found, taken, missed, dns, stuck>>

Next == Ask \/ Configure \/ Reset \/ LoseDevice \/ Answer
Spec == Init /\ [][Next]_<<asked, answer, found, taken, missed, dns, stuck>>
===========================================================================
