-------------------------------- MODULE Sema --------------------------------
(***************************************************************************)
(* The semaphore of sys/sema/sema.c: a value changed with interrupts       *)
(* disabled, and a mutex that waiting threads lock and that posting it     *)
(* unlocks, in a later step.  A timed wait locks the mutex with            *)
(* xtimer_mutex_lock_timeout() of sys/xtimer/xtimer.c, whose timer handler *)
(* takes the thread out of the mutex's queue.                              *)
(***************************************************************************)
EXTENDS Sync

CONSTANTS
    UINT_MAX,       \* the greatest value
    TimedThreads    \* bound: the threads that make timed calls

ASSUME SemaAssumption == UINT_MAX \in Nat

VARIABLES
    sema,       \* [value, state]
    wait        \* _sema_wait()'s variables for each thread, and its timer

semaVars == <<sema, wait>>

Frame(block, us) ==
    [did_block |-> block, block |-> block, us |-> us, timeout |-> FALSE, timer |-> FALSE]

(* sema_create() locks the mutex of a semaphore of value 0: SyncInit(TRUE) *)
(* goes with value 0.                                                      *)
SemaInit(value) ==
    /\ sema = [value |-> value, state |-> "OK"]
    /\ wait = [t \in Pids |-> Frame(FALSE, FALSE)]

(* _sema_wait(): a call that tries, that blocks, or that blocks for a time *)
(* (us).  On a destroyed semaphore it returns -ECANCELED at once.          *)
_sema_wait(t, block, us) ==
    /\ At(t, "out")
    /\ sema.state = "OK"
    /\ wait' = [wait EXCEPT ![t] = Frame(block, us)]
    /\ Local(t, "test")
    /\ UNCHANGED sema

(* The loop's condition, and what follows the loop, in one critical        *)
(* section: thread t continues at l.                                       *)
Tested(t, l) ==
    /\ At(t, "test")
    /\ sema' = [sema EXCEPT !.value = IF @ = 0 THEN 0 ELSE @ - 1]
    /\ Local(t, l)
    /\ wait' = IF l \in {"out", "unlock"} THEN [wait EXCEPT ![t] = Frame(FALSE, FALSE)]
               ELSE wait

Test_KeepsRest(t) ==
    Tested(t, IF sema.value > 0 \/ ~wait[t].block THEN "out"
              ELSE IF wait[t].us THEN "arm" ELSE "lock")

Test(t) ==
    Tested(t, IF sema.value > 1 /\ wait[t].did_block THEN "unlock"
              ELSE IF sema.value > 0 \/ ~wait[t].block THEN "out"
              ELSE IF wait[t].us THEN "arm" ELSE "lock")

(* xtimer_mutex_lock_timeout(): the timer is set first. *)
Arm(t) ==
    /\ At(t, "arm")
    /\ wait' = [wait EXCEPT ![t].timer = TRUE, ![t].timeout = FALSE]
    /\ Local(t, "lock")
    /\ UNCHANGED sema

LockSema(t) ==
    /\ At(t, "lock")
    /\ Lock(t, IF wait[t].us THEN "disarm" ELSE "woken")
    /\ UNCHANGED semaVars

(* xtimer_remove(), and the time that is left, if any. *)
Disarm(t) ==
    /\ At(t, "disarm")
    /\ \E left \in BOOLEAN :
         wait' = [wait EXCEPT ![t].timer = FALSE, ![t].block = ~wait[t].timeout /\ left]
    /\ Local(t, "woken")
    /\ UNCHANGED sema

Woken(t) ==
    /\ At(t, "woken")
    /\ IF sema.state = "OK"
       THEN Local(t, "test") /\ UNCHANGED wait
       ELSE Local(t, "unlock") /\ wait' = [wait EXCEPT ![t] = Frame(FALSE, FALSE)]
    /\ UNCHANGED sema

UnlockSema(a) ==
    /\ At(a, "unlock")
    /\ Unlock(a, "out")
    /\ UNCHANGED semaVars

(* sema_post() by a thread or a handler; -EOVERFLOW changes nothing. *)
sema_post(a) ==
    /\ At(a, "out")
    /\ sema.value < UINT_MAX
    /\ sema' = [sema EXCEPT !.value = @ + 1]
    /\ Local(a, IF sema.value = 0 THEN "unlock" ELSE "out")
    /\ UNCHANGED wait

sema_destroy(t) ==
    /\ At(t, "out")
    /\ sema' = [sema EXCEPT !.state = "DESTROY"]
    /\ Local(t, "unlock")
    /\ UNCHANGED wait

list_remove_Not(q, t) == q

list_remove(q, t) ==
    IF t \notin InQueue(q) THEN q
    ELSE LET i == CHOOSE j \in DOMAIN q : q[j] = t
         IN  [j \in 1 .. Len(q) - 1 |-> IF j < i THEN q[j] ELSE q[j + 1]]

(* _mutex_timeout(), the timer's handler.  If the thread is not queued and *)
(* the mutex is locked without waiters, list_remove() reads through the    *)
(* marker MUTEX_LOCKED, which is not an address: the system stops in a     *)
(* fault.                                                                  *)
_mutex_timeout(t) ==
    LET x == mutex[M]
    IN  /\ At(Isr, "out")
        /\ wait[t].timer
        /\ wait' = [wait EXCEPT ![t].timer = FALSE, ![t].timeout = TRUE]
        /\ IF x.locked /\ x.queue = <<>>
           THEN Local(Isr, "fault")
           ELSE /\ mutex' = [mutex EXCEPT ![M].queue = list_remove(@, t)]
                /\ sched' = sched_set_status(sched, priority, t, "PENDING")
                /\ sched_context_switch_request' = TRUE
                /\ KeepsContext
                /\ UNCHANGED <<pc, other_prio, locking, at>>
        /\ UNCHANGED sema

SemaNext ==
    \/ \E t \in Pids :
         \/ \E block, us \in BOOLEAN : (us => block /\ t \in TimedThreads) /\ _sema_wait(t, block, us)
         \/ Test(t) \/ Arm(t) \/ LockSema(t) \/ Disarm(t) \/ Woken(t)
         \/ sema_destroy(t) \/ _mutex_timeout(t)
    \/ \E a \in Actors : sema_post(a) \/ UnlockSema(a)
    \/ SyncEnv(Pids) /\ UNCHANGED semaVars

SemaSpec ==
    /\ SyncInit(TRUE) /\ SemaInit(0)
    /\ [][SemaNext]_<<syncVars, semaVars>>

-----------------------------------------------------------------------------
(* Someone is under way who unlocks the mutex, or takes the last of the    *)
(* value: an unlock that is due, or a thread in a blocking wait that will  *)
(* look at the value.                                                      *)
SemaWakeupDue ==
    \/ \E a \in Actors : at[a] = "unlock"
    \/ \E t \in Pids : /\ wait[t].did_block
                       /\ at[t] \in {"disarm", "woken", "test"}
                       /\ ~Waits(t)

(* No post and no destruction is lost, although value and mutex are        *)
(* changed in separate steps, posts by handlers come in between, tries     *)
(* take values they did not wait for, and timers take waiters away: as     *)
(* long as there is a value, or the semaphore is destroyed, the mutex is   *)
(* not left locked (so that threads wait or will wait for it) without a    *)
(* wake-up that is due.                                                    *)
PostIsNotLost ==
    /\ sema.value \in 0 .. UINT_MAX
    /\ (sema.value > 0 \/ sema.state = "DESTROY") /\ mutex[M].locked => SemaWakeupDue
=============================================================================
