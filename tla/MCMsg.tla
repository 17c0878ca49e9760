------------------------------- MODULE MCMsg -------------------------------
(* Msg on a small instance: a server (2) with a queue of one entry, a      *)
(* client (3) that sends requests and messages, a thread (4) that sends    *)
(* messages, and interrupts.                                               *)
EXTENDS Msg

MCPrio == <<2, 1, 1, 0>>
MCQueueSize == <<0, 1, 0, 0>>
MCRoutes == {<<2, 2>>, <<4, 2>>, <<ISR, 2>>, <<2, 3>>}
MCRequestRoutes == {<<3, 2>>}
=============================================================================
