--------------------------- MODULE ConfigRegister ---------------------------
(***************************************************************************)
(* What a stored configuration promises: one configuration that survives   *)
(* every restart, replaced as a whole by the one that was asked for, and   *)
(* never by a mixture of old and new or by something nobody asked for. It  *)
(* is lost only when the file system that keeps it is formatted.           *)
(***************************************************************************)
CONSTANTS
  Values,  \* values of a part of the configuration
  Factory  \* the configuration of a new node

VARIABLES
  stored, \* the configuration that a restart is going to find
  wanted, \* the configuration in use, as far as the user knows
  format  \* history: flips when the file system is formatted

vars == <<stored, wanted, format>>

Init == stored = wanted /\ format \in BOOLEAN

\* The user sets one of the two parts.
Change ==
  /\ \E v \in Values : wanted' \in {[wanted EXCEPT !.cfg = v], [wanted EXCEPT !.str = v]}
  /\ UNCHANGED <<stored, format>>

\* A save that failed is given up: the second part is what it was before.
Forget ==
  /\ wanted' = [wanted EXCEPT !.str = stored.str]
  /\ UNCHANGED <<stored, format>>

Commit ==
  /\ stored' = wanted
  /\ UNCHANGED <<wanted, format>>

Restart ==
  /\ wanted' = stored
  /\ UNCHANGED <<stored, format>>

\* The file system is formatted, while the configuration is in use or not.
\* Nothing else may lose what is stored.
Wipe ==
  /\ format' = ~format
  /\ stored' = Factory
  /\ wanted' \in {Factory, wanted, [wanted EXCEPT !.str = Factory.str]}

Next == Change \/ Forget \/ Commit \/ Restart \/ Wipe

Spec == Init /\ [][Next]_vars
=============================================================================
