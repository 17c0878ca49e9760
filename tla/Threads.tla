------------------------------ MODULE Threads ------------------------------
(***************************************************************************)
(* Threads: core/thread.c, sched_task_exit() of core/sched.c and the boot  *)
(* state left by core/kernel_init.c, over the scheduler of Sched.          *)
(***************************************************************************)
EXTENDS Sched

CONSTANTS
    MainPrio,      \* THREAD_PRIORITY_MAIN
    CreatePrios    \* priorities threads are created with

ASSUME ThreadsAssumption ==
    /\ MAXTHREADS >= 2
    /\ MainPrio \in Prios
    /\ CreatePrios \subseteq Prios

VARIABLES
    sched_threads,      \* the pids whose table entry is not NULL
    sched_num_threads,
    lazy    \* history: threads created with THREAD_CREATE_WOUT_YIELD that
            \* have not run since

threadVars == <<sched_threads, sched_num_threads>>
vars == <<schedVars, threadVars, lazy>>

MainPid == 2

(* kernel_init() creates idle and main without yielding, then enters       *)
(* cpu_switch_context_exit() with no active thread.                        *)
Init ==
    LET empty == [status |-> [t \in Pids |-> "STOPPED"],
                  runqueues |-> [p \in Prios |-> <<>>], bitcache |-> {}]
    IN
    /\ priority = [t \in Pids |-> IF t = MainPid THEN MainPrio
                                  ELSE IF t = IdlePid THEN THREAD_PRIORITY_IDLE ELSE 0]
    /\ sched = sched_set_status(sched_set_status(empty, priority, IdlePid, "PENDING"),
                                priority, MainPid, "PENDING")
    /\ sched_active_thread = 0
    /\ sched_context_switch_request = FALSE
    /\ irq_is_in = FALSE
    /\ pc = [t \in Pids |-> "run"]
    /\ other_prio = [t \in Pids |-> 0]
    /\ sched_threads = {IdlePid, MainPid}
    /\ sched_num_threads = 2
    /\ lazy = {IdlePid, MainPid}

(* History: a thread that runs is no longer lazy. *)
Ran == lazy' = lazy \ {sched_active_thread'}

-----------------------------------------------------------------------------
(* thread_create(): the first free table entry; -EOVERFLOW when there is   *)
(* none.                                                                   *)
thread_create(p, flag) ==
    /\ InKernelCall
    /\ \E pid \in Pids \ sched_threads :
        /\ \A r \in Pids \ sched_threads : pid <= r
        /\ LET prio == [priority EXCEPT ![pid] = p]
               k == sched_set_status([sched EXCEPT !.status[pid] = "STOPPED"], prio, pid,
                        IF flag = "SLEEPING" THEN "SLEEPING" ELSE "PENDING")
           IN  /\ priority' = prio
               /\ sched' = k
               /\ sched_threads' = sched_threads \cup {pid}
               /\ sched_num_threads' = sched_num_threads + 1
               /\ IF flag = "YIELD"
                  THEN SwitchTail(k, p)
                  ELSE UNCHANGED <<sched_context_switch_request, pc, other_prio>>
               /\ lazy' = IF flag = "WOUT_YIELD" THEN lazy \cup {pid} ELSE lazy
    /\ UNCHANGED <<sched_active_thread, irq_is_in>>

(* sched_task_exit(): the active thread ends. *)
sched_task_exit_KeepsCount(t) ==
    /\ InThread(t)
    /\ sched_threads' = sched_threads \ {t}
    /\ sched' = sched_set_status(sched, priority, t, "STOPPED")
    /\ sched_active_thread' = 0
    /\ lazy' = lazy \ {t}
    /\ UNCHANGED <<sched_num_threads, priority, sched_context_switch_request, irq_is_in,
                   pc, other_prio>>

sched_task_exit(t) ==
    /\ InThread(t)
    /\ sched_threads' = sched_threads \ {t}
    /\ sched_num_threads' = sched_num_threads - 1
    /\ sched' = sched_set_status(sched, priority, t, "STOPPED")
    /\ sched_active_thread' = 0
    /\ lazy' = lazy \ {t}
    /\ UNCHANGED <<priority, sched_context_switch_request, irq_is_in, pc, other_prio>>

-----------------------------------------------------------------------------
ThreadStep ==
    \/ \E p \in CreatePrios, flag \in {"YIELD", "WOUT_YIELD", "SLEEPING"} :
            thread_create(p, flag)
    \/ \E t \in Pids : sched_task_exit(t)

Next ==
    \/ ThreadStep
    \/ (SleepWakeYield \/ SchedStep) /\ Ran /\ UNCHANGED threadVars

Spec == Init /\ [][Next]_vars

(* The processor executes what it is in the middle of.  Handlers end, and  *)
(* interrupts are not so dense that nothing else ever executes (hence      *)
(* strong fairness for what an interrupt suspends).  No thread is obliged  *)
(* to make kernel calls.                                                   *)
Fairness ==
    /\ WF_vars(IsrExit /\ Ran /\ UNCHANGED threadVars)
    /\ SF_vars(SwitchStep /\ Ran /\ UNCHANGED threadVars)

FairSpec == Spec /\ Fairness

-----------------------------------------------------------------------------
(* Types. *)
TypeOK ==
    /\ SchedTypeOK
    /\ sched_threads \subseteq Pids
    /\ sched_num_threads \in Nat
    /\ lazy \subseteq Pids

(* sched_num_threads counts the table entries, a thread is on no run queue *)
(* once its entry is free, and the active thread has an entry: pids are    *)
(* reused only after their thread is really gone.                          *)
TableAgrees ==
    /\ sched_num_threads = Cardinality(sched_threads)
    /\ \A t \in Pids \ sched_threads : sched.status[t] = "STOPPED" /\ pc[t] = "run"
    /\ sched_active_thread \in sched_threads \cup {0}

(* Fixed-priority preemption (core/include/sched.h): a thread executes its *)
(* own code only while no thread of strictly higher priority is ready,     *)
(* those excepted that were created with THREAD_CREATE_WOUT_YIELD and have *)
(* not run yet.                                                            *)
PriorityRespected == NoneMoreUrgent(lazy)

(* A thread is the one the scheduler must run next. *)
MostUrgent(t) ==
    /\ t \notin lazy
    /\ sched.status[t] \in OnRunqueue
    /\ \A u \in Pids \ {t} :
            sched.status[u] \in OnRunqueue => priority[t] < priority[u]

(* A ready thread that stays strictly more urgent than all others is       *)
(* eventually switched to, whichever handler or kernel call made it ready: *)
(* no request for a context switch is lost.                                *)
UrgentThreadRuns ==
    \A t \in Pids : MostUrgent(t) ~> (sched_active_thread = t \/ ~MostUrgent(t))
=============================================================================
