------------------------------ MODULE MCHandler -------------------------------
(* A TLC instance of Handler. *)
EXTENDS Handler

CONSTANTS receiver, keepalive, handler, nobody

HandlerSpawns == {<<handler, nobody, receiver>>, <<receiver, receiver, keepalive>>}

=============================================================================
