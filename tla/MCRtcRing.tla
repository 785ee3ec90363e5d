----------------------------- MODULE MCRtcRing ------------------------------
(* A small instance of RtcRing for TLC. *)
EXTENDS RtcRing

MCFaults == FaultKinds
MCUpgrade == {0, 2, 5}
=============================================================================
