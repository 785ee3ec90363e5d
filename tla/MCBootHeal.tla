----------------------------- MODULE MCBootHeal -----------------------------
(* Values for model checking BootHeal.                                     *)
EXTENDS BootHeal

MCNone == {}
MCRot == {"rot"}
MCNoticed == {"write", "rotate", "format", "mount"}
=============================================================================
