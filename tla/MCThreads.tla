----------------------------- MODULE MCThreads -----------------------------
(* Threads on small instances: the idle thread, main and two more table    *)
(* entries, three priorities.                                              *)
EXTENDS Threads
=============================================================================
