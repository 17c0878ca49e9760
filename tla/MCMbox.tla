------------------------------- MODULE MCMbox -------------------------------
(* Mbox on a small instance: two writers and two readers, of which one of  *)
(* each is the more urgent, and interrupts.                                *)
EXTENDS Mbox

MCPrio == <<2, 1, 1, 0, 0>>
=============================================================================
