----------------------------- MODULE MCTerminal -----------------------------
(* Values for model checking Terminal.                                     *)
EXTENDS Terminal

MCIds == 1 .. 3
MCSlots == 1 .. 2
=============================================================================
