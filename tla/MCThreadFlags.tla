---------------------------- MODULE MCThreadFlags ----------------------------
(* ThreadFlags on a small instance: a waiter below and one above a thread  *)
(* that, like handlers, sets flags.                                        *)
EXTENDS ThreadFlags

MCPrio == <<2, 1, 1, 0>>
==============================================================================
