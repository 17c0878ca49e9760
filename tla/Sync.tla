-------------------------------- MODULE Sync --------------------------------
(***************************************************************************)
(* What the primitives built on mutexes and on sleeping threads share.     *)
(* Their functions make several kernel calls and touch shared data with    *)
(* interrupts enabled in between; at[a] says where in such a function      *)
(* thread or handler a is ("out": in none).  Each step is one kernel call, *)
(* one critical section or one access to shared data, and other threads    *)
(* and handlers come in between any two.                                   *)
(***************************************************************************)
EXTENDS MutexOps

VARIABLE at

syncVars == <<schedVars, mutexOpsVars, at>>

(* The handler has a position of its own: it does not return before its    *)
(* function does.                                                          *)
Isr == 0
Actors == Pids \cup {Isr}

(* The object has a mutex. *)
ASSUME SyncAssumption == Mutexes # {}

M == CHOOSE m \in Mutexes : TRUE

SyncInit(locked) ==
    /\ MutexInit(IF locked THEN {M} ELSE {})
    /\ at = [a \in Actors |-> "out"]

(* Actor a is at position l and executes. *)
At(a, l) ==
    /\ at[a] = l
    /\ IF a = Isr THEN irq_is_in ELSE Calls(a)

Goto(a, l) == at' = [at EXCEPT ![a] = l]

(* A step that makes no kernel call. *)
Local(a, l) == Goto(a, l) /\ UNCHANGED <<schedVars, mutexOpsVars>>

(* mutex_lock(), mutex_trylock(), mutex_unlock() and                       *)
(* mutex_unlock_and_sleep() of the object's mutex.                         *)
Lock(t, l) ==
    /\ TakesFree(t, M) \/ Blocks(t, M)
    /\ Goto(t, l)

TryLock(t, yes, no) ==
    \/ TakesFree(t, M) /\ Goto(t, yes)
    \/ mutex[M].locked /\ Local(t, no)

Unlock(a, l) == mutex_unlock(M) /\ Goto(a, l)

Nap(t, l) == mutex_unlock_and_sleep(t, M) /\ Goto(t, l)

Least(i, j) == IF i < j THEN i ELSE j

(* sched_switch(prio) as a call of its own. *)
Switch(t, prio, l) ==
    /\ Tail_(t, "sched_switch", prio)
    /\ Goto(t, l)
    /\ KeepsContext
    /\ UNCHANGED <<sched, sched_context_switch_request, mutexOpsVars>>

Waits(t) == t \in InQueue(mutex[M].queue)

(* core/priority_queue.c: sorted by priority, first come first served *)
priority_queue_add(q, t) == thread_add_to_list(q, t)

priority_queue_remove(q, t) == LET Others(u) == u # t IN SelectSeq(q, Others)

(* Everything else that happens: the scheduler, the port, the end of a     *)
(* handler, the return from a blocked mutex_lock(), and what the           *)
(* application's threads Apps do outside the functions (one that sleeps    *)
(* there is woken by a handler).                                           *)
SyncEnv(Apps) ==
    /\ UNCHANGED at
    /\ \/ UNCHANGED mutexOpsVars /\ (SwitchStep \/ IsrEnter)
       \/ UNCHANGED mutexOpsVars /\ at[Isr] = "out" /\ IsrExit
       \/ \E t \in Pids : Returns(t)
       \/ /\ UNCHANGED mutexOpsVars
          /\ \E t \in Apps :
                /\ at[t] = "out"
                /\ thread_sleep(t) \/ thread_yield(t) \/ (At(Isr, "out") /\ thread_wakeup(t))

(* A thread at these positions has woken others and is going to call       *)
(* sched_switch() for them.                                                *)
BeforeSwitch == {"wake", "drop_switch", "switch"}

(* The list entry of a thread is in one list at a time, the right one, in  *)
(* every primitive: none of them wakes a thread that is queued elsewhere   *)
(* or puts to sleep one that is not first.  A thread that executes is not  *)
(* outranked, except by threads that one of them has just woken.           *)
SyncListsAgree ==
    /\ WaitersAgree
    /\ RunnerIsFirst
    /\ (\A t \in Pids : at[t] \notin BeforeSwitch) => NoneMoreUrgent({})
=============================================================================
