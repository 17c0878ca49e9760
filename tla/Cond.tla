-------------------------------- MODULE Cond --------------------------------
(***************************************************************************)
(* The condition variable of sys/posix/pthread/pthread_cond.c.  Threads    *)
(* signal it while they have the mutex the waiting threads use.            *)
(***************************************************************************)
EXTENDS Sync

LOCAL INSTANCE SequencesExt
LOCAL INSTANCE FiniteSetsExt

VARIABLES
    cond,       \* the queue
    cwait       \* each thread's node (signalled: data = -1u), and its timer

condVars == <<cond, cwait>>

pthread_cond_init ==
    /\ cond = <<>>
    /\ cwait = [t \in Pids |-> [signalled |-> FALSE, timed |-> FALSE, timer |-> FALSE]]

(* The application locks the mutex, ... *)
EnterMonitor(t) ==
    /\ At(t, "out")
    /\ Lock(t, "monitor")
    /\ UNCHANGED condVars

LeaveMonitor(t) ==
    /\ At(t, "monitor")
    /\ Unlock(t, "out")
    /\ UNCHANGED condVars

(* ... and waits: _init_cond_wait(). *)
_init_cond_wait(t, timed) ==
    /\ At(t, "monitor")
    /\ cond' = priority_queue_add(cond, t)
    /\ cwait' = [cwait EXCEPT ![t] = [signalled |-> FALSE, timed |-> timed, timer |-> FALSE]]
    /\ Local(t, IF timed THEN "set_wakeup" ELSE "cond_nap")

(* pthread_cond_timedwait() with a time that has passed *)
TimedOut(t) ==
    /\ At(t, "monitor")
    /\ Unlock(t, "cond_lock")
    /\ UNCHANGED condVars

SetWakeup(t) ==
    /\ At(t, "set_wakeup")
    /\ cwait' = [cwait EXCEPT ![t].timer = TRUE]
    /\ Local(t, "cond_nap")
    /\ UNCHANGED cond

NapWaiting(t) ==
    /\ At(t, "cond_nap")
    /\ Nap(t, IF cwait[t].timed THEN "cond_woken" ELSE "cond_lock")
    /\ UNCHANGED condVars

(* after a timed wait: signalled, or woken by the timer? *)
ReadData(t) ==
    /\ At(t, "cond_woken")
    /\ Local(t, IF cwait[t].signalled THEN "disarm" ELSE "remove")
    /\ UNCHANGED condVars

RemoveNode_Not(t) ==
    /\ At(t, "remove")
    /\ Local(t, "disarm")
    /\ UNCHANGED condVars

RemoveNode(t) ==
    /\ At(t, "remove")
    /\ cond' = priority_queue_remove(cond, t)
    /\ Local(t, "disarm")
    /\ UNCHANGED cwait

RemoveTimer(t) ==
    /\ At(t, "disarm")
    /\ cwait' = [cwait EXCEPT ![t].timer = FALSE]
    /\ Local(t, "cond_lock")
    /\ UNCHANGED cond

LockAgain(t) ==
    /\ At(t, "cond_lock")
    /\ Lock(t, "monitor")
    /\ cwait' = [cwait EXCEPT ![t] = [signalled |-> FALSE, timed |-> FALSE, timer |-> FALSE]]
    /\ UNCHANGED cond

(* the handler of xtimer_set_wakeup64(); thread_wakeup() wakes only a      *)
(* thread that sleeps                                                      *)
WakeupTimer(t) ==
    /\ At(Isr, "out")
    /\ cwait[t].timer
    /\ cwait' = [cwait EXCEPT ![t].timer = FALSE]
    /\ IF sched.status[t] = "SLEEPING" THEN thread_wakeup(t) ELSE UNCHANGED schedVars
    /\ UNCHANGED <<cond, at, mutexOpsVars>>

(* sched_set_status(.., STATUS_PENDING) for the threads of q, in turn, and *)
(* the priority of the most urgent of them.                                *)
WakeAll(k, q) ==
    LET Wake(r, t) == sched_set_status(r, priority, t, "PENDING") IN FoldLeft(Wake, k, q)

TopPrio(q) == Min({priority[t] : t \in InQueue(q)})

(* pthread_cond_signal() and pthread_cond_broadcast() wake the first n. *)
Signals(t, n) ==
    LET q == SubSeq(cond, 1, n)
    IN  /\ At(t, "monitor")
        /\ n > 0
        /\ cond' = SubSeq(cond, n + 1, Len(cond))
        /\ cwait' = [u \in Pids |-> [cwait[u] EXCEPT !.signalled = @ \/ u \in InQueue(q)]]
        /\ sched' = WakeAll(sched, q)
        /\ SwitchTail(sched', TopPrio(q))
        /\ KeepsContext
        /\ UNCHANGED <<at, mutexOpsVars>>

pthread_cond_signal(t) == cond # <<>> /\ Signals(t, 1)

pthread_cond_broadcast(t) == Signals(t, Len(cond))

CondNext ==
    \/ \E t \in Pids :
         \/ EnterMonitor(t) \/ LeaveMonitor(t) \/ TimedOut(t)
         \/ \E timed \in BOOLEAN : _init_cond_wait(t, timed)
         \/ SetWakeup(t) \/ NapWaiting(t) \/ ReadData(t) \/ RemoveNode(t)
         \/ RemoveTimer(t) \/ LockAgain(t) \/ WakeupTimer(t)
         \/ pthread_cond_signal(t) \/ pthread_cond_broadcast(t)
    \/ SyncEnv(Pids) /\ UNCHANGED condVars

-----------------------------------------------------------------------------
(* Every thread that sleeps in a wait is in the queue, so that a signal    *)
(* finds it; a thread outside the waiting functions is not (its node was   *)
(* on its stack); signals and timers race for threads with a timed wait.   *)
(* At most one thread is in the monitor.                                   *)
CondSleeperIsQueued ==
    /\ \A t \in Pids :
         /\ at[t] \in {"cond_woken", "cond_lock"} /\ sched.status[t] = "SLEEPING" =>
                t \in InQueue(cond) /\ ~cwait[t].signalled
         /\ t \in InQueue(cond) =>
                \/ at[t] \in {"set_wakeup", "cond_nap", "cond_woken", "remove"}
                \/ at[t] = "cond_lock" /\ sched.status[t] = "SLEEPING"
    /\ NoRepeats(cond) /\ SortedByPriority(cond)
    /\ Cardinality({t \in Pids : at[t] \in {"monitor", "set_wakeup", "cond_nap"} /\ ~Waits(t)}) <= 1
=============================================================================
