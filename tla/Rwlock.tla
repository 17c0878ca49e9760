------------------------------- MODULE Rwlock -------------------------------
(***************************************************************************)
(* The readers/writer lock of sys/posix/pthread/pthread_rwlock.c, without  *)
(* the timed functions.  rwlock->mutex protects the count and the queue,   *)
(* and is given up while a thread sleeps.                                  *)
(***************************************************************************)
EXTENDS Sync

VARIABLES
    rwlock,     \* [readers, queue]: readers is -1 while a writer has the lock
    node,       \* waiting_node of each thread, and unlock's variable prio
    rwheld      \* history: what each thread has locked: "no", "read", "write"

rwlockVars == <<rwlock, node, rwheld>>

pthread_rwlock_init ==
    /\ rwlock = [readers |-> 0, queue |-> <<>>]
    /\ node = [t \in Pids |-> [is_writer |-> FALSE, continue_ |-> FALSE, prio |-> 0]]
    /\ rwheld = [t \in Pids |-> "no"]

(* A reader has to wait for a writer that has the lock, and for one that   *)
(* waits first and is not less urgent.                                     *)
blocked_readingly(t) ==
    \/ rwlock.readers < 0
    \/ /\ rwlock.queue # <<>>
       /\ priority[Head(rwlock.queue)] <= priority[t]
       /\ node[Head(rwlock.queue)].is_writer

blocked_writingly == rwlock.readers # 0

IsBlocked(t) == IF node[t].is_writer THEN blocked_writingly ELSE blocked_readingly(t)

Incr(t) == IF node[t].is_writer THEN -1 ELSE 1

Mode(t) == IF node[t].is_writer THEN "write" ELSE "read"

(* pthread_rwlock_rdlock(), pthread_rwlock_wrlock() *)
pthread_rwlock_lock(t, writer) ==
    /\ At(t, "out")
    /\ rwheld[t] = "no"
    /\ Lock(t, "enter")
    /\ node' = [node EXCEPT ![t].is_writer = writer]
    /\ UNCHANGED <<rwlock, rwheld>>

EnterFree(t) ==
    /\ At(t, "enter") \/ At(t, "try_enter")
    /\ ~IsBlocked(t)
    /\ rwlock' = [rwlock EXCEPT !.readers = @ + Incr(t)]
    /\ Local(t, "granted")
    /\ UNCHANGED <<node, rwheld>>

EnterQueues(t) ==
    /\ At(t, "enter")
    /\ IsBlocked(t)
    /\ rwlock' = [rwlock EXCEPT !.queue = priority_queue_add(@, t)]
    /\ Local(t, "to_sleep")
    /\ UNCHANGED <<node, rwheld>>

NapQueued(t) ==
    /\ At(t, "to_sleep")
    /\ Nap(t, "slept")
    /\ UNCHANGED rwlockVars

Relock(t) ==
    /\ At(t, "slept")
    /\ Lock(t, "check")
    /\ UNCHANGED rwlockVars

(* pthread_rwlock_unlock() has set readers for a thread that may continue. *)
Check(t) ==
    /\ At(t, "check")
    /\ Local(t, IF node[t].continue_ THEN "granted" ELSE "to_sleep")
    /\ UNCHANGED rwlockVars

Leave(t) ==
    /\ At(t, "granted")
    /\ Unlock(t, "out")
    /\ rwheld' = [rwheld EXCEPT ![t] = Mode(t)]
    /\ node' = [node EXCEPT ![t].continue_ = FALSE]
    /\ UNCHANGED rwlock

(* pthread_rwlock_tryrdlock(), pthread_rwlock_trywrlock() *)
pthread_rwlock_trylock(t, writer) ==
    /\ At(t, "out")
    /\ rwheld[t] = "no"
    /\ TryLock(t, "try_enter", "out")
    /\ node' = [node EXCEPT ![t].is_writer = writer]
    /\ UNCHANGED <<rwlock, rwheld>>

TryBusy(t) ==
    /\ At(t, "try_enter")
    /\ IsBlocked(t)
    /\ Local(t, "drop")
    /\ UNCHANGED rwlockVars

Drop(t) ==
    /\ At(t, "drop")
    /\ Unlock(t, "out")
    /\ UNCHANGED rwlockVars

(* pthread_rwlock_unlock() by a thread that has the lock *)
pthread_rwlock_unlock(t) ==
    /\ At(t, "out")
    /\ rwheld[t] # "no"
    /\ Lock(t, "release")
    /\ UNCHANGED rwlockVars

Left == IF rwlock.readers > 0 THEN rwlock.readers - 1 ELSE 0

ReleaseKeeps(t) ==
    /\ At(t, "release")
    /\ Left # 0 \/ rwlock.queue = <<>>
    /\ rwlock' = [rwlock EXCEPT !.readers = Left]
    /\ rwheld' = [rwheld EXCEPT ![t] = "no"]
    /\ Local(t, "drop")
    /\ UNCHANGED node

(* The first thread of the queue may continue; the lock counts it, and     *)
(* prio is the priority of the most urgent thread so far.  The run queues  *)
(* are changed with interrupts enabled; no interrupt is assumed to come in *)
(* the middle of sched_set_status().                                       *)
Continues(t, readers, prio, l) ==
    LET u == Head(rwlock.queue)
    IN  /\ rwlock' = [readers |-> readers + Incr(u), queue |-> Tail(rwlock.queue)]
        /\ node' = [node EXCEPT ![u].continue_ = TRUE, ![t].prio = prio]
        /\ sched' = sched_set_status(sched, priority, u, "PENDING")
        /\ Goto(t, l)
        /\ KeepsContext
        /\ UNCHANGED <<sched_context_switch_request, pc, other_prio, mutexOpsVars>>

ReleaseWakes(t) ==
    LET u == Head(rwlock.queue)
    IN  /\ At(t, "release")
        /\ Left = 0 /\ rwlock.queue # <<>>
        /\ Continues(t, Left, priority[u], IF node[u].is_writer THEN "drop_switch" ELSE "wake")
        /\ rwheld' = [rwheld EXCEPT ![t] = "no"]

(* "we don't try to wake up readers that came after the first writer" *)
MoreReaders_Any == rwlock.queue # <<>>

MoreReaders == rwlock.queue # <<>> /\ ~node[Head(rwlock.queue)].is_writer

WakeReader(t) ==
    /\ At(t, "wake")
    /\ MoreReaders
    /\ Continues(t, rwlock.readers, Least(node[t].prio, priority[Head(rwlock.queue)]), "wake")
    /\ UNCHANGED rwheld

WokeReaders(t) ==
    /\ At(t, "wake")
    /\ ~MoreReaders
    /\ Local(t, "drop_switch")
    /\ UNCHANGED rwlockVars

DropSwitch(t) ==
    /\ At(t, "drop_switch")
    /\ Unlock(t, "switch")
    /\ UNCHANGED rwlockVars

SwitchToWoken(t) ==
    /\ At(t, "switch")
    /\ Switch(t, node[t].prio, "out")
    /\ node' = [node EXCEPT ![t].prio = 0]
    /\ UNCHANGED <<rwlock, rwheld>>

RwlockNext ==
    \/ \E t \in Pids :
         \/ \E w \in BOOLEAN : pthread_rwlock_lock(t, w) \/ pthread_rwlock_trylock(t, w)
         \/ EnterFree(t) \/ EnterQueues(t) \/ NapQueued(t) \/ Relock(t) \/ Check(t)
         \/ Leave(t) \/ TryBusy(t) \/ Drop(t)
         \/ pthread_rwlock_unlock(t) \/ ReleaseKeeps(t) \/ ReleaseWakes(t)
         \/ WakeReader(t) \/ WokeReaders(t) \/ DropSwitch(t) \/ SwitchToWoken(t)
    \/ SyncEnv(Pids) /\ UNCHANGED rwlockVars

(* Threads that use the lock alone, not within the product of MCSync. *)
RwlockSpec ==
    /\ SyncInit(FALSE) /\ pthread_rwlock_init
    /\ [][RwlockNext]_<<syncVars, rwlockVars>>

-----------------------------------------------------------------------------
(* The threads that have the lock in this mode, or have been given it and  *)
(* are not yet back from pthread_rwlock_lock().                            *)
RwHolders(mode) ==
    {t \in Pids : \/ rwheld[t] = mode
                  \/ Mode(t) = mode /\ (at[t] = "granted" \/ node[t].continue_)}

(* A writer has the lock alone, and the count says who has it, also while  *)
(* the lock is passed on to threads that are still asleep.  No thread      *)
(* waits for a lock that is open, and one that sleeps waiting is in the    *)
(* queue and has not been told to continue, so the next unlock will find   *)
(* it; the queue serves in order of priority.                              *)
RwlockExcludes ==
    /\ RwHolders("write") # {} => /\ RwHolders("read") = {}
                                  /\ Cardinality(RwHolders("write")) = 1
    /\ rwlock.readers = IF RwHolders("write") # {} THEN -1
                        ELSE Cardinality(RwHolders("read"))
    /\ rwlock.queue # <<>> => rwlock.readers # 0
    /\ \A t \in Pids : t \in InQueue(rwlock.queue) <=>
            \/ at[t] = "to_sleep"
            \/ at[t] = "slept" /\ sched.status[t] = "SLEEPING"
    /\ NoRepeats(rwlock.queue) /\ SortedByPriority(rwlock.queue)
=============================================================================
