---- MODULE MCSupervisor ----
(* The main loop and its updates on small instances. *)
EXTENDS Supervisor

MCNone == {}
====
