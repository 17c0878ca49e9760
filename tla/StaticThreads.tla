--------------------------- MODULE StaticThreads ---------------------------
(***************************************************************************)
(* Threads that all exist from the start and never end, for the components *)
(* that take threads as given: thread t has priority Prio[t], and idle the *)
(* lowest, as kernel_init() creates it.                                    *)
(***************************************************************************)
EXTENDS Sched

CONSTANT Prio

ASSUME PrioAssumption ==
    /\ Prio \in [Pids -> Prios]
    /\ Prio[IdlePid] = THREAD_PRIORITY_IDLE
=============================================================================
