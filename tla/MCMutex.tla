------------------------------ MODULE MCMutex ------------------------------
(* Mutex on a small instance: idle, two threads of one priority and one of *)
(* a higher priority; a lock and a mutex that handlers unlock.             *)
EXTENDS Mutex

MCPrio == <<2, 1, 1, 0>>
=============================================================================
