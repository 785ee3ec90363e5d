----------------------------- MODULE MCNetwork -----------------------------
(* Values for model checking Network: a node built without the networks of *)
(* the greenhouse (ENABLE_BUILTIN_WIFI_CREDENTIALS = 0).                   *)
EXTENDS Network

MCNone == << >>
=============================================================================
