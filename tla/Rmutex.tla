------------------------------- MODULE Rmutex -------------------------------
(***************************************************************************)
(* The recursive mutex of core/rmutex.c: a mutex, the pid of its owner,    *)
(* read by other threads without the mutex, and a count.                   *)
(***************************************************************************)
EXTENDS Sync

CONSTANT MaxDepth   \* bound: how often a thread locks recursively

VARIABLES
    rmutex,     \* [owner, refcount]
    depth       \* history: how often each thread has locked it

rmutexVars == <<rmutex, depth>>

RmutexInit ==
    /\ rmutex = [owner |-> KERNEL_PID_UNDEF, refcount |-> 0]
    /\ depth = [t \in Pids |-> 0]

(* _lock(): first a trylock. *)
_lock(t, trylock) ==
    /\ At(t, "out")
    /\ depth[t] < MaxDepth
    /\ TryLock(t, "own", IF trylock THEN "try_load" ELSE "load")
    /\ UNCHANGED rmutexVars

LoadOwner(t) ==
    /\ At(t, "load") \/ At(t, "try_load")
    /\ Local(t, IF rmutex.owner = t THEN "own" ELSE IF at[t] = "load" THEN "lock" ELSE "out")
    /\ UNCHANGED rmutexVars

LockOwned(t) ==
    /\ At(t, "lock")
    /\ Lock(t, "own")
    /\ UNCHANGED rmutexVars

StoreOwner(t) ==
    /\ At(t, "own")
    /\ rmutex' = [rmutex EXCEPT !.owner = t]
    /\ Local(t, "count")
    /\ UNCHANGED depth

CountUp(t) ==
    /\ At(t, "count")
    /\ rmutex' = [rmutex EXCEPT !.refcount = @ + 1]
    /\ depth' = [depth EXCEPT ![t] = @ + 1]
    /\ Local(t, "out")

(* rmutex_unlock() by a thread that has locked it. *)
rmutex_unlock(t) ==
    /\ At(t, "out")
    /\ depth[t] > 0
    /\ rmutex' = [rmutex EXCEPT !.refcount = @ - 1]
    /\ depth' = [depth EXCEPT ![t] = @ - 1]
    /\ Local(t, IF rmutex.refcount = 1 THEN "clear" ELSE "out")

ClearOwner_Keeps(t) ==
    /\ At(t, "clear")
    /\ Local(t, "give")
    /\ UNCHANGED rmutexVars

ClearOwner(t) ==
    /\ At(t, "clear")
    /\ rmutex' = [rmutex EXCEPT !.owner = KERNEL_PID_UNDEF]
    /\ Local(t, "give")
    /\ UNCHANGED depth

Release(t) ==
    /\ At(t, "give")
    /\ Unlock(t, "out")
    /\ UNCHANGED rmutexVars

RmutexNext ==
    \/ \E t \in Pids : \/ \E try \in BOOLEAN : _lock(t, try)
                       \/ LoadOwner(t) \/ LockOwned(t) \/ StoreOwner(t) \/ CountUp(t)
                       \/ rmutex_unlock(t) \/ ClearOwner(t) \/ Release(t)
    \/ SyncEnv(Pids) /\ UNCHANGED rmutexVars

RmutexSpec ==
    /\ SyncInit(FALSE) /\ RmutexInit
    /\ [][RmutexNext]_<<syncVars, rmutexVars>>

-----------------------------------------------------------------------------
(* The threads that the code takes to be the holder. *)
RmutexHolders ==
    {t \in Pids : \/ depth[t] > 0
                  \/ at[t] \in {"own", "count", "clear", "give"} /\ ~Waits(t)}

(* The recursive mutex has at most one holder although threads compare the *)
(* owner with their pid without having the mutex: no thread ever finds its *)
(* own pid there unless it holds the mutex.  Whenever the holder is        *)
(* outside rmutex_lock() and rmutex_unlock(), owner and refcount are its   *)
(* pid and its number of locks, which is what rmutex_unlock() asserts.     *)
RmutexOwner ==
    /\ \A t, u \in RmutexHolders : t = u
    /\ RmutexHolders # {} => mutex[M].locked
    /\ \A t \in Pids :
         /\ depth[t] > 0 /\ at[t] \in {"out", "load", "try_load"} =>
                rmutex = [owner |-> t, refcount |-> depth[t]]
         /\ rmutex.owner = t => t \in RmutexHolders
=============================================================================
