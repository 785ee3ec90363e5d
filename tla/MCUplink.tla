------------------------------ MODULE MCUplink ------------------------------
(* Values for model checking Uplink: a gateway that is silent or local. (One *)
(* that says CLOUD only ends what it said before, as a restart would.)      *)
EXTENDS Uplink

MCSilentOrLocal == {-1, 1}
=============================================================================
