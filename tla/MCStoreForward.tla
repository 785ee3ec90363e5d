--------------------------- MODULE MCStoreForward ---------------------------
(* Values for model checking StoreForward.                                 *)
EXTENDS StoreForward

MCNone == {}
MCAllCommands == {"mode", "sendnow", "pause"}
MCAll == {"write", "damage", "pop", "reset"}
=============================================================================
