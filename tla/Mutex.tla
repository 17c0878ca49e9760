------------------------------- MODULE Mutex -------------------------------
(***************************************************************************)
(* core/mutex.c used by threads and handlers.                              *)
(*                                                                         *)
(* Use.  A mutex outside Signals is used as a lock: the thread that locked *)
(* it unlocks it.  A mutex of Signals starts locked (MUTEX_INIT_LOCKED);   *)
(* threads lock it to wait and handlers unlock it, as drivers do.          *)
(***************************************************************************)
EXTENDS MutexOps

CONSTANT Signals

ASSUME MutexAssumption == Signals \subseteq Mutexes

VARIABLE held   \* history: <<t, m>> from the return of a lock to the next unlock

mutexVars == <<mutexOpsVars, held>>
vars == <<schedVars, mutexVars>>

Init ==
    /\ MutexInit(Signals)
    /\ held = {}

-----------------------------------------------------------------------------
LockFree(t, m) == TakesFree(t, m) /\ held' = held \cup {<<t, m>>}

LockBlocks(t, m) == Blocks(t, m) /\ UNCHANGED held

LockReturns_Rechecks(t) ==
    /\ Returns(t)
    /\ ~mutex[locking[t]].locked
    /\ held' = held \cup {<<t, locking[t]>>}

LockReturns(t) == Returns(t) /\ held' = held \cup {<<t, locking[t]>>}

MayUnlock(m) ==
    \/ irq_is_in /\ m \in Signals
    \/ \E t \in Pids : Calls(t) /\ <<t, m>> \in held /\ m \notin Signals

UnlockCall(m) ==
    /\ MayUnlock(m)
    /\ mutex_unlock(m)
    /\ held' = {h \in held : h[2] # m}

UnlockAndSleep(t, m) ==
    /\ <<t, m>> \in held
    /\ m \notin Signals
    /\ mutex_unlock_and_sleep(t, m)
    /\ held' = {h \in held : h[2] # m}

(* The application's other kernel calls, outside the mutex functions. *)
OtherCall ==
    /\ \E t \in Pids : thread_wakeup(t) \/ thread_yield(t)
    /\ irq_is_in \/ locking[sched_active_thread] = None
    /\ UNCHANGED mutexVars

MutexStep ==
    \/ \E t \in Pids, m \in Mutexes :
            LockFree(t, m) \/ LockBlocks(t, m) \/ UnlockAndSleep(t, m)
    \/ \E t \in Pids : LockReturns(t)
    \/ \E m \in Mutexes : UnlockCall(m)

Next == MutexStep \/ OtherCall \/ (SchedStep /\ UNCHANGED mutexVars)

Spec == Init /\ [][Next]_vars

(* Kernel code under way completes, handlers end, and a thread that        *)
(* executes does not keep a lock for ever.                                 *)
Fairness ==
    /\ WF_vars(IsrExit /\ UNCHANGED mutexVars)
    /\ SF_vars((SwitchStep /\ UNCHANGED mutexVars) \/ \E t \in Pids : LockReturns(t))
    /\ SF_vars(\E m \in Mutexes : UnlockCall(m) /\ ~irq_is_in)

FairSpec == Spec /\ Fairness

-----------------------------------------------------------------------------
(* The threads to which mutex m belongs: those that returned from locking  *)
(* it and those an unlock has passed it to, not yet back from mutex_lock().*)
Owners(m) ==
    {t \in Pids : \/ <<t, m>> \in held
                  \/ locking[t] = m /\ t \notin InQueue(mutex[m].queue)}

(* Mutual exclusion, through blocking, direct hand-over and late wake-up:  *)
(* a lock never belongs to two threads, it belongs to one exactly while it *)
(* is locked, and a mutex with waiters is locked.  In particular the lock  *)
(* cannot be taken between an unlock and the return of the thread it woke. *)
MutualExclusion ==
    \A m \in Mutexes \ Signals :
        /\ mutex[m].locked <=> Owners(m) # {}
        /\ \A t, u \in Owners(m) : t = u
        /\ mutex[m].queue # <<>> => mutex[m].locked

(* Wait lists, statuses and run queues agree (WaitersAgree), and every     *)
(* wake-up of an unlock respects priority: whether a thread or a handler   *)
(* unlocks, no more urgent thread is left waiting for the processor.       *)
MutexListsAgree == WaitersAgree /\ NoneMoreUrgent({})

(* How many threads of the sorted wait list q have priority p or a more    *)
(* urgent one, and the part of the list that has priority p.               *)
UpTo(q, p) ==
    CHOOSE n \in 0 .. Len(q) :
        /\ \A i \in 1 .. n : priority[q[i]] <= p
        /\ n = Len(q) \/ priority[q[n + 1]] > p

OfPriority(q, p) == SubSeq(q, UpTo(q, p - 1) + 1, UpTo(q, p))

(* The state of the lock that mutex m implements. *)
Only(S) == CHOOSE t \in S : TRUE

LockOwner ==
    [m \in Mutexes \ Signals |->
        IF mutex[m].locked THEN Only(Owners(m)) ELSE KERNEL_PID_UNDEF]

LockWaiting ==
    [m \in Mutexes \ Signals |-> [p \in Prios |-> OfPriority(mutex[m].queue, p)]]

Abstract == INSTANCE PriorityLock WITH
    Threads <- Pids, Mutexes <- Mutexes \ Signals,
    owner <- LockOwner, waiting <- LockWaiting

(* The mutex implements a lock with hand-over in priority order, first     *)
(* come first served among equals.                                         *)
ImplementsLock == Abstract!Spec

(* Whoever owns mutex m is the thread the scheduler prefers: not blocked,  *)
(* and not kept from running by other threads (the kernel has no priority  *)
(* inheritance, so that has to be assumed).                                *)
OwnerPreferred(m) ==
    \A t \in Owners(m) :
        /\ sched.status[t] \in OnRunqueue
        /\ \A u \in Pids \ {t} :
                sched.status[u] \in OnRunqueue => priority[t] < priority[u]

(* No wake-up is lost: a thread that blocks on a lock and is more urgent   *)
(* than all others gets it, provided the threads that own it meanwhile are *)
(* given the processor and release it.                                     *)
UrgentGetsLock ==
    \A t \in {t \in Pids : \A u \in Pids \ {t} : Prio[t] < Prio[u]}, m \in Mutexes \ Signals :
        (sched.status[t] = "MUTEX_BLOCKED" /\ locking[t] = m /\ []OwnerPreferred(m))
        ~> (<<t, m>> \in held)
=============================================================================
