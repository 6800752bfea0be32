------------------------------- MODULE Settings -----------------------------
(***************************************************************************)
(* settings.json (settings_json.c): what the list of servers becomes when  *)
(* it is written, and what is read from it.  A server is its fields as     *)
(* far as they are treated differently: root for over_tls_root_cert_file;  *)
(* protocol; idle for idle_timeout; timeout for connect_timeout_ms and     *)
(* udp_timeout, which are wider; host for the other strings, numbers and   *)
(* switches, which are written as they are held.                           *)
(*                                                                         *)
(* struct server_config and json-c are external: an idle_timeout is an     *)
(* unsigned integer, the other timeouts are unsigned ones of twice the     *)
(* width, a JSON integer is an int.  An object of the file has all the     *)
(* fields.                                                                 *)
(***************************************************************************)
EXTENDS Integers, Sequences, FiniteSets

CONSTANTS
  Hosts,           \* servers to enter or to import
  NoHost,          \* of a server that config_create has just made
  VerifySha1,      \* the protocol that is not kept
  OtherProtocol,   \* any other
  DefaultProtocol, \* of config_create
  NoProtocol,      \* NULL
  Millis,          \* MILLISECONDS_PER_SECOND
  IntModulus,      \* 2^32
  WideModulus,     \* 2^64
  DefaultIdle,     \* of config_create, in milliseconds
  DefaultTimeout   \* of config_create, in milliseconds

ASSUME SettingsConstantsOK ==
  /\ NoHost \notin Hosts
  /\ NoProtocol \notin {VerifySha1, OtherProtocol} /\ VerifySha1 # OtherProtocol
  /\ DefaultProtocol \in {VerifySha1, OtherProtocol}
  /\ {Millis, IntModulus, WideModulus} \subseteq Nat \ {0}
  /\ Millis > 1 /\ IntModulus % 2 = 0
  /\ DefaultIdle \in 0..(IntModulus - 1) /\ DefaultTimeout \in 0..(WideModulus - 1)

Protocols == {VerifySha1, OtherProtocol, NoProtocol}
Ints == -(IntModulus \div 2)..(IntModulus \div 2 - 1)

\* struct server_config, and a server in the file, where the timeouts are seconds.
Server == [host : Hosts \cup {NoHost}, root : BOOLEAN, protocol : Protocols,
           idle : 0..(IntModulus - 1), timeout : 0..(WideModulus - 1)]
Object == [host : Hosts \cup {NoHost}, root : BOOLEAN, protocol : Protocols, idle : Ints, timeout : Ints]

\* config_create
NewServer == [host |-> NoHost, root |-> FALSE, protocol |-> DefaultProtocol,
              idle |-> DefaultIdle, timeout |-> DefaultTimeout]

\* What the user can enter, or a URL or a QR code bring: the rest is as config_create made it.
Entered(server, host, protocol) == [server EXCEPT !.host = host, !.protocol = protocol]

\* The conversion of a number to int.
AsInt(n) == LET low == n % IntModulus IN IF low < IntModulus \div 2 THEN low ELSE low - IntModulus

WithoutVerifySha1(protocol) == IF protocol = VerifySha1 THEN NoProtocol ELSE protocol

\* parse_config_from_json: the seconds of idle_timeout are multiplied in an int, the others in a
\* wide unsigned integer.
parse_config_from_json(object) ==
  [object EXCEPT !.protocol = WithoutVerifySha1(@),
                 !.idle = (@ * Millis) % IntModulus, !.timeout = (@ * Millis) % WideModulus]

\* Mutant: milliseconds are written where seconds are read.
build_json_from_config_Millis(server) ==
  [server EXCEPT !.root = FALSE, !.idle = AsInt(@), !.timeout = AsInt(@)]

\* build_json_from_config: there is no root_cert_file in what is written, and whole seconds, as
\* ints.  (A protocol that is NULL is written as null, or json_object_new_string does not survive
\* it: then the process dies before anything is written.)
build_json_from_config(server) ==
  [server EXCEPT !.root = FALSE, !.idle = AsInt(@ \div Millis), !.timeout = AsInt(@ \div Millis)]

\* parse_settings_file, and config_json_saver with its items: the list in its order.
parse_settings_file(file) == [i \in DOMAIN file |-> parse_config_from_json(file[i])]
SettingsFile(servers) == [i \in DOMAIN servers |-> build_json_from_config(servers[i])]

\* What a server has left after it was saved and read again: a timeout of more seconds than an
\* int holds becomes another one.
Kept(server) ==
  [server EXCEPT !.root = FALSE,
                 !.protocol = WithoutVerifySha1(@),
                 !.idle = @ - (@ % Millis),
                 !.timeout = IF @ \div Millis < IntModulus \div 2
                             THEN @ - (@ % Millis)
                             ELSE (AsInt(@ \div Millis) * Millis) % WideModulus]
===========================================================================
