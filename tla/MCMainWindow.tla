---------------------------- MODULE MCMainWindow ---------------------------
(* MainWindow with values for TLC. *)
EXTENDS MainWindow

CONSTANTS s1, s2

\* A second of 3 milliseconds, an int of 4 bits and a wide integer of 8.  One file of two servers
\* has a root_cert_file, the protocol that is not kept, an idle_timeout that overflows and other
\* timeouts that are negative.
MCHosts == {s1, s2}
MCFiles ==
  {<<>>, <<[host |-> s1, root |-> TRUE, protocol |-> VerifySha1, idle |-> 6, timeout |-> -1],
           [host |-> s2, root |-> FALSE, protocol |-> OtherProtocol, idle |-> 2, timeout |-> 5]>>}
MCOneFile == {<<[host |-> s1, root |-> FALSE, protocol |-> OtherProtocol, idle |-> 2, timeout |-> 5]>>}
===========================================================================
