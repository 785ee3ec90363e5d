----------------------------- MODULE WifiPhases -----------------------------
(***************************************************************************)
(* What WifiManager promises the components that observe it: it looks for  *)
(* a network, is connected to one, or keeps the portal open, and it never  *)
(* looks for ever. Network implements this; Supervisor relies on it.       *)
(***************************************************************************)
VARIABLE phase

\* Before its first pass the manager is INITIALIZING; its observers take that
\* for looking for a network.
Phases == {"INITIALIZING", "SEEKING", "CONNECTED_STA", "PORTAL_MODE"}

Start == phase = "INITIALIZING"

\* Without a network to try, the portal opens at once.
Begin == phase = "INITIALIZING" /\ phase' \in {"SEEKING", "PORTAL_MODE"}

Settle == phase = "SEEKING" /\ phase' \in {"CONNECTED_STA", "PORTAL_MODE"}

\* The connection is lost, or a better network is tried.
Lose == phase = "CONNECTED_STA" /\ phase' = "SEEKING"

\* A user asks for the portal, or there is too little memory for a scan.
OpenPortal == phase = "CONNECTED_STA" /\ phase' = "PORTAL_MODE"

\* The portal is left by connecting, never by looking for a network again.
Return == phase = "PORTAL_MODE" /\ phase' = "CONNECTED_STA"

\* The node is reset, and the manager starts anew.
Restart == phase' = "INITIALIZING"

Move == Begin \/ Settle \/ Lose \/ OpenPortal \/ Return \/ Restart

Moves == Start /\ [][Move]_phase

\* It does not look for a network for ever.
PhaseSpec == Moves /\ []<>(phase \in {"CONNECTED_STA", "PORTAL_MODE"})
=============================================================================
