------------------------------ MODULE MutexOps ------------------------------
(***************************************************************************)
(* The functions of core/mutex.c as steps over the scheduler, for Mutex    *)
(* and for the primitives of sys/ that are built on mutexes.  A mutex is   *)
(* one pointer in the code: NULL (unlocked), MUTEX_LOCKED, or the list of  *)
(* waiters; here a flag and a sequence.  Waiters are linked through the    *)
(* same list entry as the run queues.                                      *)
(***************************************************************************)
EXTENDS StaticThreads

CONSTANTS Mutexes, None

ASSUME MutexOpsAssumption == None \notin Mutexes

VARIABLES
    mutex,      \* [Mutexes -> [locked : BOOLEAN, queue : Seq(Pids)]]
    locking     \* the mutex whose mutex_lock() a thread has not returned from

mutexOpsVars == <<mutex, locking>>

MutexTypeOK ==
    /\ SchedTypeOK
    /\ mutex \in [Mutexes -> [locked : BOOLEAN, queue : Seq(Pids)]]
    /\ locking \in [Pids -> Mutexes \cup {None}]

(* The mutexes of S start locked (MUTEX_INIT_LOCKED), the others do not. *)
MutexInit(S) ==
    /\ SchedInit(Prio)
    /\ mutex = [m \in Mutexes |-> [locked |-> m \in S, queue |-> <<>>]]
    /\ locking = [t \in Pids |-> None]

(* Thread t is in its own code, outside every mutex function. *)
Calls(t) == InThread(t) /\ locking[t] = None

(* _mutex_lock() on an unlocked mutex, blocking or not. *)
TakesFree(t, m) ==
    /\ Calls(t)
    /\ ~mutex[m].locked
    /\ mutex' = [mutex EXCEPT ![m].locked = TRUE]
    /\ UNCHANGED <<schedVars, locking>>

(* _mutex_lock(), blocking, on a locked mutex.  (mutex_trylock() returns 0 *)
(* and changes nothing.)                                                   *)
Blocks(t, m) ==
    /\ Calls(t)
    /\ mutex[m].locked
    /\ sched' = sched_set_status(sched, priority, t, "MUTEX_BLOCKED")
    /\ mutex' = [mutex EXCEPT ![m].queue = thread_add_to_list(@, t)]
    /\ locking' = [locking EXCEPT ![t] = m]
    /\ YieldTail(t)
    /\ KeepsContext

(* "We were woken up by scheduler. Waker removed us from queue. We have    *)
(* the mutex now.": the blocked thread executes again and returns 1.       *)
Returns(t) ==
    /\ InThread(t)
    /\ locking[t] # None
    /\ locking' = [locking EXCEPT ![t] = None]
    /\ UNCHANGED <<schedVars, mutex>>

(* What an unlock does to mutex x and the run queues. *)
Unlocked_LastWaiter(x) ==
    IF Len(x.queue) <= 1 THEN [locked |-> FALSE, queue |-> <<>>]
    ELSE [x EXCEPT !.queue = Tail(@)]

Unlocked(x) ==
    IF x.queue = <<>> THEN [x EXCEPT !.locked = FALSE]
    ELSE [x EXCEPT !.queue = Tail(@)]

UnlockWakes(k, x) ==
    IF x.queue = <<>> THEN k ELSE sched_set_status(k, priority, Head(x.queue), "PENDING")

(* mutex_unlock() by a thread or a handler. *)
mutex_unlock(m) ==
    /\ mutex' = [mutex EXCEPT ![m] = Unlocked(@)]
    /\ sched' = UnlockWakes(sched, mutex[m])
    /\ IF mutex[m].queue = <<>>
       THEN UNCHANGED <<sched_context_switch_request, pc, other_prio>>
       ELSE SwitchTail(sched', priority[Head(mutex[m].queue)])
    /\ KeepsContext
    /\ UNCHANGED locking

(* mutex_unlock_and_sleep(). *)
mutex_unlock_and_sleep(t, m) ==
    /\ Calls(t)
    /\ mutex' = [mutex EXCEPT ![m] = Unlocked(@)]
    /\ sched' = sched_set_status(UnlockWakes(sched, mutex[m]), priority, t, "SLEEPING")
    /\ YieldTail(t)
    /\ KeepsContext
    /\ UNCHANGED locking

(* Blocked threads and wait lists agree.  The list entry that links a      *)
(* thread into a mutex queue is the one that links it into a run queue, so *)
(* a thread must be in a mutex queue exactly while it is MUTEX_BLOCKED,    *)
(* and then in one queue only, once; each queue is in serving order, and   *)
(* the run queues hold the others.                                         *)
WaitersAgree ==
    /\ MutexTypeOK
    /\ RunqueuesAgree
    /\ \A t \in Pids :
         LET in == {m \in Mutexes : t \in InQueue(mutex[m].queue)}
         IN  in = IF sched.status[t] = "MUTEX_BLOCKED" THEN {locking[t]} ELSE {}
    /\ \A m \in Mutexes : NoRepeats(mutex[m].queue) /\ SortedByPriority(mutex[m].queue)

(* core/mutex.c:65, after the yield of a blocked mutex_lock(): "We were    *)
(* woken up by scheduler. Waker removed us from queue."  A thread that     *)
(* executes there is not in the mutex's queue any more.                    *)
WakerRemovedUs ==
    \A t \in Pids : Runs(t) /\ locking[t] # None =>
        t \notin InQueue(mutex[locking[t]].queue)
=============================================================================
