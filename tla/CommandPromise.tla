--------------------------- MODULE CommandPromise --------------------------
(***************************************************************************)
(* What run_command promises its callers in cmd_handler.c, one atomic step *)
(* per command: unless something fails the answer is the truth, and if     *)
(* something does, the command has done all of its work or none of it.     *)
(***************************************************************************)
EXTENDS Integers

CONSTANTS Routes, Commands   \* records [verb: "add" or "delete", route: Routes]

VARIABLES
  table,   \* the set of routes
  faults,  \* calls of the system, and child processes, that have failed
  cmd,     \* the last command
  answer   \* and what was returned for it

\* What netsh and route are asked to do: it is refused when there is nothing to do.
Able(c, t) == c.verb = "add" <=> c.route \notin t
After(c, t) == IF c.verb = "add" THEN t \cup {c.route} ELSE t \ {c.route}

Truthful(c) ==
  \/ Able(c, table)  /\ answer' = 0  /\ table' = After(c, table)
  \/ ~Able(c, table) /\ answer' # 0 /\ table' = table

\* With a failure an error can follow a change that was made, and a success a refusal that
\* could not be read.  Only with two, of the child and of the reading of its complaint, does a
\* success follow a change that should have been made and was not.
Faulty(c) ==
  \/ /\ faults' > faults
     /\ \/ Able(c, table)  /\ answer' # 0 /\ table' \in {table, After(c, table)}
        \/ ~Able(c, table) /\ answer' = 0 /\ table' = table
  \/ faults' > faults + 1 /\ Able(c, table) /\ answer' = 0 /\ table' = table

Command(c) ==
  /\ cmd' = c
  /\ answer' \in {0, 1, -1} /\ faults' \in Nat /\ faults' >= faults
  /\ Truthful(c) \/ Faulty(c)

Init == table \subseteq Routes /\ faults = 0 /\ cmd \in Commands /\ answer = 0
Next == \E c \in Commands : Command(c)
Spec == Init /\ [][Next]_<<table, faults, cmd, answer>>
===========================================================================
