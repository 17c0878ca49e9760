----------------------------- MODULE SyncProofs -----------------------------
(***************************************************************************)
(* Recursive mutexes, pipes and the pipe from a handler to a thread, for   *)
(* every number of threads and priorities and every buffer size: each of   *)
(* them alone over the scheduler, as Sync composes them.                   *)
(***************************************************************************)
EXTENDS Rmutex, Isrpipe, Pipe, OpsProofs

(* Time the provers are given for a leaf. *)
USE ZenonT(5), SMTT(20)

-----------------------------------------------------------------------------
(* core/rmutex.c.  What the code's comments argue: a thread that finds its *)
(* own pid in owner has the mutex, because it stored it there itself and   *)
(* clears it before it gives the mutex up.  Whoever has the mutex is       *)
(* counted, and the owner, from StoreOwner until ClearOwner; nobody waits  *)
(* who has locked it.                                                      *)
RmutexInv ==
    /\ SyncInv /\ \A u \in Pids : SwitchAhead(u)
    /\ rmutex \in [owner : Pids \cup {KERNEL_PID_UNDEF}, refcount : Nat]
    /\ depth \in [Pids -> Nat]
    /\ \A t, u \in RmutexHolders : t = u
    /\ RmutexHolders # {} => mutex[M].locked
    /\ \A t \in RmutexHolders : rmutex.refcount = depth[t]
    /\ RmutexHolders = {} => rmutex.refcount = 0
    /\ \A t \in Pids :
        /\ Waits(t) => at[t] = "own" /\ depth[t] = 0
        /\ at[t] \in {"lock", "clear", "give"} => depth[t] = 0
        /\ rmutex.owner = t <=> depth[t] > 0 \/ at[t] \in {"count", "clear"}
        /\ at[t] \notin BeforeSwitch

(* Thread t, which has the mutex or not, goes on; the others stay where    *)
(* they are, and t waits now only if it has come to "own".                 *)
LEMMA RmutexMove ==
    ASSUME RmutexInv, SyncInv', \A u \in Pids : SwitchAhead(u)', NEW t \in Pids,
           rmutex' \in [owner : Pids \cup {KERNEL_PID_UNDEF}, refcount : Nat],
           depth' \in [Pids -> Nat],
           \A u \in Pids \ {t} : /\ at'[u] = at[u] /\ depth'[u] = depth[u]
                                 /\ Waits(u)' <=> Waits(u),
           Waits(t)' => at'[t] = "own" /\ depth'[t] = 0,
           at'[t] \in {"lock", "clear", "give"} => depth'[t] = 0,
           at'[t] \notin BeforeSwitch,
           mutex'[M].locked \/ mutex'[M].locked = mutex[M].locked,
           t \in RmutexHolders' =>
                /\ mutex'[M].locked /\ rmutex'.refcount = depth'[t]
                /\ t \in RmutexHolders \/ RmutexHolders = {},
           t \notin RmutexHolders' => rmutex'.refcount = rmutex.refcount /\ t \notin RmutexHolders,
           rmutex'.owner = t <=> depth'[t] > 0 \/ at'[t] \in {"count", "clear"},
           rmutex'.owner = rmutex.owner \/ (rmutex'.owner \in {t, KERNEL_PID_UNDEF} /\ t \in RmutexHolders)
    PROVE  RmutexInv'
<1>1. \A u \in Pids \ {t} : u \in RmutexHolders' <=> u \in RmutexHolders
  BY DEF RmutexHolders
<1>2. RmutexHolders \subseteq Pids /\ RmutexHolders' \subseteq Pids
  BY DEF RmutexHolders
<1>3. \A u, v \in RmutexHolders' : u = v
  BY <1>1, <1>2 DEF RmutexInv
<1>4. RmutexHolders' # {} => mutex'[M].locked
  BY <1>1, <1>2, ZenonT(30) DEF RmutexInv
<1>5. \A u \in RmutexHolders' : rmutex'.refcount = depth'[u]
  <2> SUFFICES ASSUME NEW u \in RmutexHolders', u # t PROVE rmutex'.refcount = depth'[u]
    OBVIOUS
  <2>1. u \in RmutexHolders /\ u \in Pids \ {t} /\ t \notin RmutexHolders'
    BY <1>1, <1>2, <1>3
  <2> QED BY <2>1 DEF RmutexInv
<1>6. RmutexHolders' = {} => rmutex'.refcount = 0
  <2> SUFFICES ASSUME RmutexHolders' = {} PROVE rmutex'.refcount = 0
    OBVIOUS
  <2>1. RmutexHolders = {}
    BY <1>1, <1>2
  <2> QED BY <2>1 DEF RmutexInv
<1>7. ASSUME NEW u \in Pids \ {t}
      PROVE  rmutex'.owner = u <=> depth'[u] > 0 \/ at'[u] \in {"count", "clear"}
  <2>1. rmutex.owner = u <=> depth[u] > 0 \/ at[u] \in {"count", "clear"}
    BY DEF RmutexInv
  <2>2. CASE rmutex'.owner = rmutex.owner
    BY <2>1, <2>2
  <2>3. CASE rmutex'.owner \in {t, KERNEL_PID_UNDEF} /\ t \in RmutexHolders
    <3>1. u \notin RmutexHolders /\ rmutex'.owner # u
      BY <2>3, PidFacts DEF RmutexInv, KERNEL_PID_UNDEF
    <3>2. ~Waits(u) \/ at[u] = "own"
      BY DEF RmutexInv
    <3> QED BY <3>1, <3>2 DEF RmutexHolders
  <2> QED BY <2>2, <2>3
<1> QED BY <1>3, <1>4, <1>5, <1>6, <1>7 DEF RmutexInv

(* A record of rmutex with one field replaced. *)
LEMMA RmutexRecord ==
    ASSUME NEW x \in [owner : Pids \cup {KERNEL_PID_UNDEF}, refcount : Nat],
           NEW o \in Pids \cup {KERNEL_PID_UNDEF}, NEW n \in Nat
    PROVE  /\ [x EXCEPT !.owner = o] \in [owner : Pids \cup {KERNEL_PID_UNDEF}, refcount : Nat]
           /\ [x EXCEPT !.owner = o].owner = o
           /\ [x EXCEPT !.owner = o].refcount = x.refcount
           /\ [x EXCEPT !.refcount = n] \in
                    [owner : Pids \cup {KERNEL_PID_UNDEF}, refcount : Nat]
           /\ [x EXCEPT !.refcount = n].refcount = n
           /\ [x EXCEPT !.refcount = n].owner = x.owner
OBVIOUS

(* _lock() up to the trylock, and the comparison of owner with the pid. *)
LEMMA RmutexTries ==
    ASSUME RmutexInv, NEW t \in Pids, NEW try \in BOOLEAN, _lock(t, try)
    PROVE  RmutexInv'
<1> DEFINE no == IF try THEN "try_load" ELSE "load"
<1>1. /\ TryLock(t, "own", no) /\ at[t] = "out" /\ UNCHANGED <<rmutex, depth>>
      /\ SyncInv /\ t \in Actors /\ Runs(t)
  BY AtFacts, ActorFacts, PidFacts DEF _lock, rmutexVars, RmutexInv
<1>2. /\ SyncInv' /\ \A b \in Actors : b # t => at'[b] = at[b]
      /\ mutex'[M].locked
      /\ \A u \in Pids : (SwitchAhead(u) => SwitchAhead(u)') /\ (Waits(u)' <=> Waits(u))
      /\ \/ ~mutex[M].locked /\ at'[t] = "own"
         \/ mutex[M].locked /\ at'[t] = no
  <2> HIDE DEF no
  <2> QED BY <1>1, TryLockStep
<1>3. ~Waits(t) /\ ~Waits(t)'
  BY <1>1, <1>2, WaitsFacts DEF SyncInv
<1>4. at'[t] \in {"own", "load", "try_load"}
  BY <1>2
<1> HIDE DEF no
<1>5. t \in RmutexHolders' => /\ rmutex'.refcount = depth'[t]
                              /\ t \in RmutexHolders \/ RmutexHolders = {}
  BY <1>1, <1>2, <1>3, <1>4 DEF RmutexHolders, RmutexInv, no
<1>6. t \notin RmutexHolders' => t \notin RmutexHolders
  BY <1>1, <1>2, <1>3, <1>4 DEF RmutexHolders, no
<1>7. /\ \A u \in Pids : SwitchAhead(u)'
      /\ rmutex' \in [owner : Pids \cup {KERNEL_PID_UNDEF}, refcount : Nat]
      /\ depth' \in [Pids -> Nat]
      /\ \A u \in Pids \ {t} : /\ at'[u] = at[u] /\ depth'[u] = depth[u]
                               /\ Waits(u)' <=> Waits(u)
  BY <1>1, <1>2, ActorFacts DEF RmutexInv
<1>8. /\ at'[t] \notin BeforeSwitch
      /\ at'[t] \notin {"lock", "clear", "give"} /\ at'[t] \notin {"count", "clear"}
      /\ at[t] \notin {"count", "clear"}
  BY <1>1, <1>4 DEF BeforeSwitch
<1>9. rmutex'.owner = t <=> depth'[t] > 0 \/ at'[t] \in {"count", "clear"}
  BY <1>1, <1>8 DEF RmutexInv
<1> QED BY <1>1, <1>2, <1>3, <1>5, <1>6, <1>7, <1>8, <1>9, RmutexMove

LEMMA RmutexLoads ==
    ASSUME RmutexInv, NEW t \in Pids, LoadOwner(t)
    PROVE  RmutexInv'
<1> DEFINE l == IF rmutex.owner = t THEN "own" ELSE IF at[t] = "load" THEN "lock" ELSE "out"
<1>1. /\ Local(t, l) /\ at[t] \in {"load", "try_load"} /\ UNCHANGED <<rmutex, depth>>
      /\ SyncInv /\ t \in Actors /\ Runs(t)
  BY AtFacts, ActorFacts DEF LoadOwner, rmutexVars, RmutexInv
<1>2. l \in {"own", "lock", "out"} /\ (l = "own" <=> rmutex.owner = t)
  OBVIOUS
<1> HIDE DEF l
<1>3. /\ SyncInv' /\ mutex' = mutex /\ at'[t] = l
      /\ \A b \in Actors : b # t => at'[b] = at[b]
      /\ \A u \in Pids : (SwitchAhead(u) => SwitchAhead(u)') /\ (Waits(u)' <=> Waits(u))
  BY <1>1, <1>2, LocalStep
<1>4. ~Waits(t) /\ ~Waits(t)'
  BY <1>1, <1>3, WaitsFacts DEF SyncInv
<1>5. rmutex.owner = t <=> depth[t] > 0
  BY <1>1 DEF RmutexInv
<1>6. depth[t] = 0 \/ depth[t] > 0
  BY DEF RmutexInv
<1>7. t \in RmutexHolders <=> depth[t] > 0
  BY <1>1 DEF RmutexHolders
<1>8. t \in RmutexHolders' <=> depth[t] > 0
  BY <1>1, <1>2, <1>3, <1>4, <1>5 DEF RmutexHolders
<1>9. depth[t] > 0 => mutex[M].locked /\ rmutex.refcount = depth[t]
  BY <1>7 DEF RmutexInv
<1> QED BY <1>1, <1>2, <1>3, <1>4, <1>5, <1>6, <1>7, <1>8, <1>9, RmutexMove, ActorFacts
        DEF RmutexInv, BeforeSwitch

(* The blocking lock of a thread that is not the owner. *)
LEMMA RmutexLocks ==
    ASSUME RmutexInv, NEW t \in Pids, LockOwned(t)
    PROVE  RmutexInv'
<1>1. /\ Lock(t, "own") /\ at[t] = "lock" /\ UNCHANGED <<rmutex, depth>>
      /\ SyncInv /\ t \in Actors /\ depth[t] = 0
  BY AtFacts, ActorFacts DEF LockOwned, rmutexVars, RmutexInv
<1>2. /\ SyncInv' /\ at'[t] = "own" /\ \A b \in Actors : b # t => at'[b] = at[b]
      /\ mutex'[M].locked /\ ~Waits(t) /\ (Waits(t)' <=> mutex[M].locked)
      /\ \A u \in Pids : SwitchAhead(u) => SwitchAhead(u)'
      /\ \A u \in Pids \ {t} : Waits(u)' <=> Waits(u)
  BY <1>1, LockStep
<1>3. t \notin RmutexHolders
  BY <1>1 DEF RmutexHolders
<1>4. t \in RmutexHolders' => RmutexHolders = {} /\ rmutex.refcount = depth[t]
  BY <1>1, <1>2 DEF RmutexHolders, RmutexInv
<1> QED BY <1>1, <1>2, <1>3, <1>4, RmutexMove, ActorFacts DEF RmutexInv, BeforeSwitch

(* The holder stores its pid, counts up and down, and clears the owner. *)
LEMMA RmutexHolderSteps ==
    ASSUME RmutexInv, NEW t \in Pids,
           StoreOwner(t) \/ CountUp(t) \/ rmutex_unlock(t) \/ ClearOwner(t)
    PROVE  RmutexInv'
<1> DEFINE Rec == [owner : Pids \cup {KERNEL_PID_UNDEF}, refcount : Nat]
<1>1. /\ SyncInv /\ t \in Actors /\ Runs(t) /\ rmutex \in Rec /\ depth \in [Pids -> Nat]
      /\ t \in RmutexHolders /\ mutex[M].locked /\ rmutex.refcount = depth[t] /\ ~Waits(t)
  <2>1. Runs(t) /\ SyncInv /\ t \in Actors
    BY AtFacts, ActorFacts DEF StoreOwner, CountUp, rmutex_unlock, ClearOwner, RmutexInv
  <2>2. ~Waits(t)
    BY <2>1, WaitsFacts DEF SyncInv
  <2>3. at[t] \in {"own", "count", "clear"} \/ depth[t] > 0
    BY DEF StoreOwner, CountUp, rmutex_unlock, ClearOwner, At
  <2>4. t \in RmutexHolders
    BY <2>2, <2>3 DEF RmutexHolders
  <2> QED BY <2>1, <2>2, <2>4 DEF RmutexInv
<1>2. ASSUME NEW l \in {"out", "count", "clear", "give"}, Local(t, l),
             rmutex' \in Rec, depth' \in [Pids -> Nat],
             \A u \in Pids \ {t} : depth'[u] = depth[u],
             rmutex'.refcount = depth'[t],
             l \in {"clear", "give"} => depth'[t] = 0,
             l = "out" => depth'[t] > 0,
             rmutex'.owner \in {t, KERNEL_PID_UNDEF},
             rmutex'.owner = KERNEL_PID_UNDEF <=> l = "give"
      PROVE  RmutexInv'
  <2>1. /\ SyncInv' /\ mutex' = mutex /\ at'[t] = l
        /\ \A b \in Actors : b # t => at'[b] = at[b]
        /\ \A u \in Pids : (SwitchAhead(u) => SwitchAhead(u)') /\ (Waits(u)' <=> Waits(u))
    BY <1>1, <1>2, LocalStep
  <2>2. t \in RmutexHolders' /\ ~Waits(t)'
    BY <1>1, <1>2, <2>1 DEF RmutexHolders
  <2>3. rmutex'.owner = t <=> l # "give"
    BY <1>2, PidFacts DEF KERNEL_PID_UNDEF
  <2>4. l \in {"out", "count"} => l = "count" \/ depth'[t] > 0
    BY <1>2
  <2>5. rmutex'.owner = t <=> depth'[t] > 0 \/ at'[t] \in {"count", "clear"}
    BY <1>2, <2>1, <2>3
  <2>6. \A u \in Pids : SwitchAhead(u)'
    BY <2>1 DEF RmutexInv
  <2>7. at'[t] \notin BeforeSwitch
    BY <2>1 DEF BeforeSwitch
  <2>8. \A u \in Pids \ {t} : at'[u] = at[u] /\ depth'[u] = depth[u] /\ (Waits(u)' <=> Waits(u))
    BY <1>2, <2>1, ActorFacts
  <2> QED BY <1>1, <1>2, <2>1, <2>2, <2>5, <2>6, <2>7, <2>8, RmutexMove
<1>3. ASSUME NEW o \in Pids \cup {KERNEL_PID_UNDEF}, NEW n \in Nat
      PROVE  /\ [rmutex EXCEPT !.owner = o] \in Rec
             /\ [rmutex EXCEPT !.owner = o].owner = o
             /\ [rmutex EXCEPT !.owner = o].refcount = rmutex.refcount
             /\ [rmutex EXCEPT !.refcount = n] \in Rec
             /\ [rmutex EXCEPT !.refcount = n].refcount = n
             /\ [rmutex EXCEPT !.refcount = n].owner = rmutex.owner
  BY <1>1, RmutexRecord
<1>4. CASE StoreOwner(t)
  <2>1. Local(t, "count") /\ depth' = depth /\ rmutex' = [rmutex EXCEPT !.owner = t]
    BY <1>4 DEF StoreOwner
  <2>2. rmutex' \in Rec /\ rmutex'.owner = t /\ rmutex'.refcount = rmutex.refcount
    BY <1>3, <2>1
  <2> QED BY <1>1, <1>2, <2>1, <2>2, PidFacts DEF KERNEL_PID_UNDEF
<1>5. CASE CountUp(t)
  <2>1. /\ Local(t, "out") /\ depth' = [depth EXCEPT ![t] = @ + 1] /\ at[t] = "count"
        /\ rmutex' = [rmutex EXCEPT !.refcount = rmutex.refcount + 1]
    BY <1>5 DEF CountUp, At
  <2>2. /\ depth' \in [Pids -> Nat] /\ depth'[t] = depth[t] + 1 /\ depth'[t] > 0
        /\ \A u \in Pids \ {t} : depth'[u] = depth[u]
    BY <1>1, <2>1
  <2>3. rmutex' \in Rec /\ rmutex'.refcount = depth'[t] /\ rmutex'.owner = rmutex.owner
    BY <1>1, <1>3, <2>1, <2>2
  <2>4. rmutex.owner = t
    BY <2>1 DEF RmutexInv
  <2> QED BY <1>1, <1>2, <2>1, <2>2, <2>3, <2>4, PidFacts DEF KERNEL_PID_UNDEF
<1>6. CASE rmutex_unlock(t)
  <2> DEFINE l == IF rmutex.refcount = 1 THEN "clear" ELSE "out"
  <2>1. /\ Local(t, l) /\ depth' = [depth EXCEPT ![t] = @ - 1] /\ depth[t] > 0
        /\ rmutex' = [rmutex EXCEPT !.refcount = rmutex.refcount - 1]
    BY <1>6 DEF rmutex_unlock
  <2>2. /\ depth' \in [Pids -> Nat] /\ depth'[t] = depth[t] - 1 /\ rmutex.refcount - 1 \in Nat
        /\ \A u \in Pids \ {t} : depth'[u] = depth[u]
    BY <1>1, <2>1
  <2>3. /\ l \in {"clear", "out"} /\ (l = "clear" => depth'[t] = 0)
        /\ l = "out" => depth'[t] > 0
    BY <1>1, <2>1, <2>2
  <2>4. rmutex' \in Rec /\ rmutex'.refcount = depth'[t] /\ rmutex'.owner = rmutex.owner
    BY <1>1, <1>3, <2>1, <2>2
  <2>5. rmutex.owner = t
    BY <2>1 DEF RmutexInv
  <2> HIDE DEF l
  <2> QED BY <1>1, <1>2, <2>1, <2>2, <2>3, <2>4, <2>5, PidFacts, ZenonT(30) DEF KERNEL_PID_UNDEF
<1>7. CASE ClearOwner(t)
  <2>1. /\ Local(t, "give") /\ depth' = depth /\ at[t] = "clear"
        /\ rmutex' = [rmutex EXCEPT !.owner = KERNEL_PID_UNDEF]
    BY <1>7 DEF ClearOwner, At
  <2>2. /\ rmutex' \in Rec /\ rmutex'.owner = KERNEL_PID_UNDEF
        /\ rmutex'.refcount = rmutex.refcount
    BY <1>3, <2>1
  <2>3. depth[t] = 0
    BY <2>1 DEF RmutexInv
  <2> QED BY <1>1, <1>2, <2>1, <2>2, <2>3
<1> QED BY <1>4, <1>5, <1>6, <1>7

(* mutex_unlock() at the end of the last rmutex_unlock(): the thread that  *)
(* waited longest among the most urgent, if any, is the next holder.       *)
LEMMA RmutexReleases ==
    ASSUME RmutexInv, NEW t \in Pids, Release(t)
    PROVE  RmutexInv'
<1>1. /\ SyncInv /\ t \in Actors /\ Runs(t) /\ InKernelCall /\ Unlock(t, "out")
      /\ at[t] = "give" /\ rmutex' = rmutex /\ depth' = depth
  BY AtFacts, ActorFacts DEF Release, rmutexVars, RmutexInv
<1>2. /\ SyncInv' /\ HandsOver /\ at'[t] = "out" /\ \A b \in Actors : b # t => at'[b] = at[b]
      /\ \A u \in Pids : SwitchAhead(u) => SwitchAhead(u)'
  BY <1>1, UnlockMutex
<1>3. ~Waits(t) /\ depth[t] = 0
  BY <1>1, WaitsFacts DEF SyncInv, RmutexInv
<1>4. t \in RmutexHolders
  BY <1>1, <1>3 DEF RmutexHolders
<1>5. RmutexHolders = {t} /\ rmutex.refcount = 0
  BY <1>3, <1>4 DEF RmutexInv
<1>6. ~Waits(t)'
  BY <1>3, <1>2 DEF HandsOver
<1>7. t \notin RmutexHolders'
  BY <1>1, <1>2, <1>3 DEF RmutexHolders
<1>8. \A u \in RmutexHolders' : Waits(u) /\ ~Waits(u)' /\ depth[u] = 0 /\ mutex'[M].locked
  <2> SUFFICES ASSUME NEW u \in RmutexHolders'
               PROVE  Waits(u) /\ ~Waits(u)' /\ depth[u] = 0 /\ mutex'[M].locked
    OBVIOUS
  <2>1. u \in Pids /\ u # t /\ u \notin RmutexHolders /\ at'[u] = at[u]
    BY <1>2, <1>5, <1>7, ActorFacts DEF RmutexHolders
  <2>2. depth[u] = 0 /\ at[u] \in {"own", "count", "clear", "give"} /\ Waits(u) /\ ~Waits(u)'
    BY <1>1, <2>1 DEF RmutexHolders, RmutexInv
  <2> QED BY <1>2, <2>1, <2>2 DEF HandsOver
<1>9. \A u, v \in RmutexHolders' : u = v
  BY <1>2, <1>8 DEF HandsOver, RmutexHolders
<1>10. ASSUME NEW u \in Pids
       PROVE  /\ Waits(u)' => at'[u] = "own" /\ depth'[u] = 0
              /\ at'[u] \in {"lock", "clear", "give"} => depth'[u] = 0
              /\ rmutex'.owner = u <=> depth'[u] > 0 \/ at'[u] \in {"count", "clear"}
              /\ at'[u] \notin BeforeSwitch
  <2>1. CASE u = t
    BY <1>1, <1>2, <1>3, <1>6, <2>1 DEF RmutexInv, BeforeSwitch
  <2>2. CASE u # t
    <3>1. at'[u] = at[u] /\ (Waits(u)' => Waits(u))
      BY <1>2, <2>2, ActorFacts DEF HandsOver
    <3> QED BY <1>1, <3>1 DEF RmutexInv
  <2> QED BY <2>1, <2>2
<1> QED BY <1>1, <1>2, <1>5, <1>8, <1>9, <1>10 DEF RmutexInv

LEMMA RmutexEnv ==
    ASSUME ~YieldWindow, RmutexInv, SyncEnv(Pids), UNCHANGED rmutexVars
    PROVE  RmutexInv'
<1>1. /\ SyncInv' /\ UNCHANGED <<at, mutex, rmutex, depth>>
      /\ \A u \in Pids : (SwitchAhead(u) => SwitchAhead(u)') /\ (Waits(u)' <=> Waits(u))
  BY EnvStep DEF RmutexInv, rmutexVars
<1>2. RmutexHolders' = RmutexHolders
  BY <1>1 DEF RmutexHolders
<1> QED BY <1>1, <1>2 DEF RmutexInv

LEMMA RmutexStarts == SyncInit(FALSE) /\ RmutexInit => RmutexInv
<1> SUFFICES ASSUME SyncInit(FALSE), RmutexInit PROVE RmutexInv
  OBVIOUS
<1>1. MutexInit({}) /\ at = [a \in Actors |-> "out"]
  BY DEF SyncInit
<1>2. OpsInv /\ \A u \in Pids : SwitchAhead(u)
  BY <1>1, InitOps
<1>3. \A u \in Pids : ~Waits(u) /\ at[u] = "out" /\ depth[u] = 0
  <2>1. mutex[M].queue = <<>>
    BY <1>1, MutexOfObject DEF MutexInit
  <2> QED BY <1>1, <2>1, ActorFacts DEF Waits, InQueue, RmutexInit
<1>4. RmutexHolders = {}
  BY <1>3 DEF RmutexHolders
<1>5. /\ rmutex \in [owner : Pids \cup {KERNEL_PID_UNDEF}, refcount : Nat]
      /\ rmutex.owner = KERNEL_PID_UNDEF /\ rmutex.refcount = 0 /\ depth \in [Pids -> Nat]
  BY DEF RmutexInit
<1>6. KERNEL_PID_UNDEF \notin Pids
  BY PidFacts DEF KERNEL_PID_UNDEF
<1> QED BY <1>1, <1>2, <1>3, <1>4, <1>5, <1>6 DEF RmutexInv, SyncInv, BeforeSwitch

(* RmutexInv holds always, for every number of threads, every priority and *)
(* every depth of recursion.                                               *)
THEOREM RmutexInvariant == ASSUME ~YieldWindow PROVE RmutexSpec => []RmutexInv
<1>1. ASSUME RmutexInv, [RmutexNext]_<<syncVars, rmutexVars>> PROVE RmutexInv'
  <2>1. CASE RmutexNext
    <3>1. CASE SyncEnv(Pids) /\ UNCHANGED rmutexVars
      BY <1>1, <3>1, RmutexEnv
    <3>2. CASE \E t \in Pids : \/ \E try \in BOOLEAN : _lock(t, try)
                               \/ LoadOwner(t) \/ LockOwned(t) \/ StoreOwner(t) \/ CountUp(t)
                               \/ rmutex_unlock(t) \/ ClearOwner(t) \/ Release(t)
      BY <1>1, <3>2, RmutexTries, RmutexLoads, RmutexLocks, RmutexHolderSteps, RmutexReleases
    <3> QED BY <2>1, <3>1, <3>2 DEF RmutexNext
  <2>2. CASE UNCHANGED <<syncVars, rmutexVars>>
    <3>1. UNCHANGED <<schedVars, mutexOpsVars, mutex, at, rmutex, depth>>
      BY <2>2 DEF syncVars, rmutexVars, mutexOpsVars
    <3>2. SchedInv' /\ \A u \in Pids : SwitchAhead(u) => SwitchAhead(u)'
      BY <1>1, <3>1, SchedSame DEF RmutexInv, SyncInv, OpsInv
    <3>3. OpsInv'
      BY <1>1, <3>1, <3>2, OpsFrame DEF RmutexInv, SyncInv, schedVars, mutexOpsVars
    <3>4. \A u \in Pids : Waits(u)' <=> Waits(u)
      BY <3>1 DEF Waits, InQueue
    <3>5. RmutexHolders' = RmutexHolders
      BY <3>1, <3>4 DEF RmutexHolders
    <3> QED BY <1>1, <3>1, <3>2, <3>3, <3>4, <3>5 DEF RmutexInv, SyncInv
  <2> QED BY <1>1, <2>1, <2>2
<1> QED BY <1>1, RmutexStarts, PTL DEF RmutexSpec

(* At most one thread holds the recursive mutex although owner is read     *)
(* without a lock, and it is that thread that owner names: the comments of *)
(* _lock() in core/rmutex.c and the assertion of rmutex_unlock().          *)
THEOREM RmutexHolder == ASSUME ~YieldWindow PROVE RmutexSpec => []RmutexOwner
<1>1. RmutexInv => RmutexOwner
  <2> SUFFICES ASSUME RmutexInv PROVE RmutexOwner
    OBVIOUS
  <2>1. ASSUME NEW t \in Pids, depth[t] > 0
        PROVE  rmutex = [owner |-> t, refcount |-> depth[t]]
    <3>1. rmutex.owner = t /\ rmutex.refcount = depth[t]
      BY <2>1 DEF RmutexInv, RmutexHolders
    <3> QED BY <3>1 DEF RmutexInv
  <2>2. ASSUME NEW t \in Pids, rmutex.owner = t PROVE t \in RmutexHolders
    BY <2>2 DEF RmutexInv, RmutexHolders
  <2> QED BY <2>1, <2>2 DEF RmutexOwner, RmutexInv
<1> QED BY <1>1, RmutexInvariant, PTL

(* The lists of the kernel agree with the threads' states while threads    *)
(* use a recursive mutex, and none that executes is outranked.             *)
THEOREM RmutexLists == ASSUME ~YieldWindow PROVE RmutexSpec => []SyncListsAgree
<1>1. RmutexInv => SyncListsAgree
  <2> SUFFICES ASSUME RmutexInv PROVE SyncListsAgree
    OBVIOUS
  <2>1. OpsInv /\ SchedInv /\ \A u \in Pids \ {} : SwitchAhead(u)
    BY DEF RmutexInv, SyncInv, OpsInv
  <2> QED BY <2>1, OpsWaitersAgree, SchedInvFirst, SchedInvUrgent DEF SyncListsAgree
<1> QED BY <1>1, RmutexInvariant, PTL

-----------------------------------------------------------------------------
(* A thread that sleeps is woken by actor a, or thread t goes to sleep:    *)
(* what sys/pipe does with sched_set_status() itself.                      *)
LEMMA WakeSleeper ==
    ASSUME SyncInv, NEW a \in Actors, NEW l, Goto(a, l), InKernelCall, UNCHANGED mutexOpsVars,
           NEW t \in Pids, sched.status[t] = "SLEEPING",
           sched' = sched_set_status(sched, priority, t, "PENDING"),
           SwitchTail(sched', priority[t]), KeepsContext
    PROVE  /\ SyncInv' /\ at'[a] = l /\ \A b \in Actors : b # a => at'[b] = at[b]
           /\ sched'.status = [sched.status EXCEPT ![t] = "PENDING"]
           /\ \A u \in Pids : SwitchAhead(u) \/ u = t => SwitchAhead(u)'
<1>1. /\ UNCHANGED <<priority, sched_active_thread, irq_is_in, mutex, locking>>
      /\ irq_is_in \/ (sched_active_thread # 0 /\ pc[sched_active_thread] = "run")
      /\ OpsInv /\ SchedInv /\ sched.status \in [Pids -> Status]
  BY PidFacts, OpsFacts
     DEF KeepsContext, InKernelCall, InThread, Runs, Executes, mutexOpsVars, SyncInv
<1>2. sched.status[t] \notin OnRunqueue /\ "PENDING" \in Status
  BY DEF Status, OnRunqueue
<1>3. t # IdlePid /\ sched \in RunState /\ Agree(sched, priority) /\ priority \in [Pids -> Prios]
  BY <1>1, <1>2 DEF SchedInv, SchedTypeOK, IdleIsReady, RunqueuesAgree
<1>4. SchedInv' /\ \A u \in Pids : SwitchAhead(u) \/ u = t => SwitchAhead(u)'
  BY <1>1, <1>2, <1>3, WakeStep
<1>5. sched'.status = [sched.status EXCEPT ![t] = "PENDING"]
  BY DEF sched_set_status
<1>6. OpsInv'
  BY <1>1, <1>4, <1>5, OpsFrame
<1> QED BY <1>4, <1>5, <1>6, GotoFacts DEF SyncInv

LEMMA SleepSelf ==
    ASSUME SyncInv, NEW t \in Pids, NEW l, Goto(t, l), InThread(t), UNCHANGED mutexOpsVars,
           sched' = sched_set_status(sched, priority, t, "SLEEPING"),
           YieldTail(t), KeepsContext
    PROVE  /\ SyncInv' /\ at'[t] = l /\ \A b \in Actors : b # t => at'[b] = at[b]
           /\ sched'.status = [sched.status EXCEPT ![t] = "SLEEPING"]
           /\ \A u \in Pids : SwitchAhead(u)'
<1>1. /\ UNCHANGED <<priority, mutex, locking>> /\ Runs(t) /\ t # IdlePid
      /\ OpsInv /\ SchedInv /\ sched.status \in [Pids -> Status]
      /\ Tail_(t, "yield_higher", 0) /\ UNCHANGED sched_context_switch_request
  BY OpsFacts DEF KeepsContext, InThread, mutexOpsVars, SyncInv, YieldTail
<1>2. "SLEEPING" \in Blocked /\ "yield_higher" \in Yields
  BY DEF Blocked, Yields
<1>3. /\ SchedInv' /\ \A u \in Pids : SwitchAhead(u)'
      /\ sched'.status = [sched.status EXCEPT ![t] = "SLEEPING"]
  BY <1>1, <1>2, BlockStep
<1>4. sched.status[t] # "MUTEX_BLOCKED"
  BY <1>1, WaitsFacts DEF OnRunqueue
<1>5. OpsInv'
  BY <1>1, <1>3, <1>4, OpsFrame
<1> QED BY <1>3, <1>5, GotoFacts, ActorFacts DEF SyncInv

-----------------------------------------------------------------------------
(* sys/pipe/pipe.c.  Of the two sides at most one is registered when       *)
(* something can be moved on the other, so after a move nobody is.         *)
PipeInv ==
    /\ SyncInv /\ \A u \in Pids : SwitchAhead(u)
    /\ pipe \in [{"read", "write"} -> Pids \cup {0}]
    /\ \A t \in Pids : at[t] \in {"out", "rw"}
    /\ PipeSleeperIsKnown

LEMMA CanMoveByOp == ASSUME NEW c, NEW d, c.op = d.op PROVE CanMove(c) <=> CanMove(d)
BY DEF CanMove

LEMMA PipeMoves ==
    ASSUME PipeInv, NEW a \in Actors, NEW c \in PipeCalls, pipe_rw(a, c), Moves(a, c)
    PROVE  PipeInv'
<1> DEFINE op == c.op
           other == pipe[OtherOp(op)]
<1>1. /\ SyncInv /\ InKernelCall /\ (a # Isr => a \in Pids /\ Runs(a))
      /\ \A t \in Pids : t # a => call'[t] = call[t]
      /\ UNCHANGED mutexOpsVars /\ CanMove(c) /\ Goto(a, "out")
      /\ pipe \in [{"read", "write"} -> Pids \cup {0}]
  BY AtFacts DEF pipe_rw, PipeInv, Moves
<1>2. /\ op \in {"read", "write"} /\ OtherOp(op) \in {"read", "write"}
      /\ \A o \in {"read", "write"} : o = op \/ o = OtherOp(op)
  BY PipeAssumption DEF OtherOp
<1>3. pipe[op] = 0
  <2> SUFFICES ASSUME pipe[op] \in Pids PROVE FALSE
    BY <1>1, <1>2
  <2>1. call[pipe[op]].op = c.op /\ ~CanMove(call[pipe[op]])
    BY <1>2 DEF PipeInv, PipeSleeperIsKnown
  <2> QED BY <1>1, <2>1, CanMoveByOp
<1>4. a \in Pids => sched.status[a] # "SLEEPING"
  BY <1>1, WaitsFacts, ActorFacts DEF SyncInv, OnRunqueue
<1>5. \A t \in Pids : at[t] = "rw" /\ sched.status[t] = "SLEEPING" =>
                        \A o \in {"read", "write"} : call[t].op = o => t = other
  BY <1>1, <1>2, <1>3, PidFacts DEF PipeInv, PipeSleeperIsKnown
<1> HIDE DEF op, other
<1>6. ASSUME SyncInv', \A u \in Pids : SwitchAhead(u)',
             at'[a] = "out", \A b \in Actors : b # a => at'[b] = at[b],
             pipe' = [pipe EXCEPT ![OtherOp(op)] = 0],
             \A t \in Pids : sched'.status[t] = "SLEEPING" <=>
                             sched.status[t] = "SLEEPING" /\ t # other
      PROVE  PipeInv'
  <2>1. pipe' \in [{"read", "write"} -> Pids \cup {0}] /\ \A o \in {"read", "write"} : pipe'[o] = 0
    BY <1>1, <1>2, <1>3, <1>6
  <2>2. \A t \in Pids : at'[t] \in {"out", "rw"}
    BY <1>6, ActorFacts DEF PipeInv
  <2>3. \A t \in Pids, o \in {"read", "write"} :
            ~(at'[t] = "rw" /\ sched'.status[t] = "SLEEPING" /\ call'[t].op = o)
    BY <1>1, <1>5, <1>6, ActorFacts
  <2> QED BY <1>6, <2>1, <2>2, <2>3, PidFacts DEF PipeInv, PipeSleeperIsKnown
<1>7. CASE other = 0
  <2>1. Local(a, "out") /\ pipe' = pipe
    BY <1>1, <1>7 DEF Moves, Local, other, op
  <2>2. /\ SyncInv' /\ sched' = sched /\ at'[a] = "out"
        /\ \A b \in Actors : b # a => at'[b] = at[b]
        /\ \A u \in Pids : SwitchAhead(u) => SwitchAhead(u)'
    BY <1>1, <2>1, LocalStep
  <2>3. pipe' = [pipe EXCEPT ![OtherOp(op)] = 0]
    BY <1>1, <1>2, <1>7, <2>1 DEF other
  <2>4. \A u \in Pids : SwitchAhead(u)'
    BY <2>2 DEF PipeInv
  <2> QED BY <1>6, <1>7, <2>2, <2>3, <2>4, PidFacts
<1>8. CASE other # 0
  <2>1. /\ pipe' = [pipe EXCEPT ![OtherOp(op)] = 0]
        /\ sched' = sched_set_status(sched, priority, other, "PENDING")
        /\ SwitchTail(sched', priority[other]) /\ KeepsContext
    BY <1>8 DEF Moves, other, op
  <2>2. other \in Pids /\ sched.status[other] = "SLEEPING"
    BY <1>1, <1>2, <1>8 DEF PipeInv, PipeSleeperIsKnown, other
  <2>3. /\ SyncInv' /\ at'[a] = "out" /\ \A b \in Actors : b # a => at'[b] = at[b]
        /\ sched'.status = [sched.status EXCEPT ![other] = "PENDING"]
        /\ \A u \in Pids : SwitchAhead(u) \/ u = other => SwitchAhead(u)'
    BY <1>1, <2>1, <2>2, WakeSleeper
  <2>4. \A t \in Pids : sched'.status[t] = "SLEEPING" <=>
                        sched.status[t] = "SLEEPING" /\ t # other
    BY <1>1, <2>2, <2>3, OpsFacts DEF SyncInv
  <2>5. \A u \in Pids : SwitchAhead(u)'
    BY <2>3 DEF PipeInv
  <2> QED BY <1>6, <2>1, <2>3, <2>4, <2>5
<1> QED BY <1>7, <1>8

LEMMA PipeGivesUp ==
    ASSUME PipeInv, NEW a \in Actors, NEW c \in PipeCalls, pipe_rw(a, c), GivesUp(a, c)
    PROVE  PipeInv'
<1>1. /\ SyncInv /\ (a # Isr => a \in Pids /\ Runs(a))
      /\ \A t \in Pids : t # a => call'[t] = call[t]
      /\ Local(a, "out") /\ UNCHANGED <<pipe, ring>>
  BY AtFacts DEF pipe_rw, PipeInv, GivesUp, Local, ringVars
<1>2. /\ SyncInv' /\ sched' = sched /\ at'[a] = "out"
      /\ \A b \in Actors : b # a => at'[b] = at[b]
      /\ \A u \in Pids : SwitchAhead(u) => SwitchAhead(u)'
  BY <1>1, LocalStep
<1>3. a \in Pids => sched.status[a] # "SLEEPING"
  BY <1>1, WaitsFacts, ActorFacts DEF SyncInv, OnRunqueue
<1>4. \A t \in Pids : t # a => (CanMove(call[t])' <=> CanMove(call[t]))
  BY <1>1 DEF CanMove
<1>5. PipeSleeperIsKnown'
  BY <1>1, <1>2, <1>3, <1>4, ActorFacts DEF PipeInv, PipeSleeperIsKnown
<1> QED BY <1>1, <1>2, <1>5, ActorFacts DEF PipeInv

LEMMA PipeSleeps ==
    ASSUME PipeInv, NEW a \in Actors, NEW c \in PipeCalls, pipe_rw(a, c), Sleeps(a, c)
    PROVE  PipeInv'
<1>1. /\ SyncInv /\ a \in Pids /\ InThread(a) /\ UNCHANGED <<mutexOpsVars, ring>>
      /\ \A t \in Pids : t # a => call'[t] = call[t]
      /\ at'[a] = "rw" => call'[a] = c
      /\ pipe[c.op] = 0 /\ pipe' = [pipe EXCEPT ![c.op] = a] /\ ~CanMove(c)
      /\ sched' = sched_set_status(sched, priority, a, "SLEEPING")
      /\ YieldTail(a) /\ KeepsContext /\ Goto(a, "rw")
  BY AtFacts DEF pipe_rw, PipeInv, Sleeps, ringVars
<1>2. /\ SyncInv' /\ at'[a] = "rw" /\ \A b \in Actors : b # a => at'[b] = at[b]
      /\ sched'.status = [sched.status EXCEPT ![a] = "SLEEPING"]
      /\ \A u \in Pids : SwitchAhead(u)'
  BY <1>1, SleepSelf
<1>3. sched.status[a] # "SLEEPING" /\ sched.status \in [Pids -> Status]
  BY <1>1, WaitsFacts, OpsFacts DEF SyncInv, OnRunqueue, InThread
<1>4. \A t \in Pids : t # a => /\ CanMove(call[t])' <=> CanMove(call[t])
                               /\ sched'.status[t] = sched.status[t]
                               /\ at'[t] = at[t] /\ call'[t] = call[t]
  BY <1>1, <1>2, <1>3, ActorFacts DEF CanMove
<1>5. ~CanMove(call[a])' /\ call'[a] = c /\ sched'.status[a] = "SLEEPING"
  BY <1>1, <1>2, <1>3 DEF CanMove
<1>6. c.op \in {"read", "write"}
  BY PipeAssumption
<1>7. /\ pipe' \in [{"read", "write"} -> Pids \cup {0}]
      /\ \A o \in {"read", "write"} : pipe'[o] = IF o = c.op THEN a ELSE pipe[o]
  BY <1>1, <1>6 DEF PipeInv
<1>8. \A o \in {"read", "write"} : pipe[o] # a
  BY <1>1, <1>3 DEF PipeInv, PipeSleeperIsKnown
<1>9. ASSUME NEW t \in Pids, NEW o \in {"read", "write"}
      PROVE  /\ at'[t] = "rw" /\ sched'.status[t] = "SLEEPING" /\ call'[t].op = o => pipe'[o] = t
             /\ pipe'[o] = t => /\ at'[t] = "rw" /\ sched'.status[t] = "SLEEPING"
                                /\ call'[t].op = o
                                /\ ~CanMove(call[t])'
  <2>1. CASE t = a
    BY <1>2, <1>5, <1>7, <1>8, <2>1
  <2>2. CASE t # a
    <3>1. pipe[o] = t => o # c.op
      BY <1>1, PidFacts
    <3>2. /\ at[t] = "rw" /\ sched.status[t] = "SLEEPING" /\ call[t].op = o => pipe[o] = t
          /\ pipe[o] = t => /\ at[t] = "rw" /\ sched.status[t] = "SLEEPING"
                            /\ call[t].op = o /\ ~CanMove(call[t])
      BY DEF PipeInv, PipeSleeperIsKnown
    <3>3. pipe'[o] = t <=> pipe[o] = t
      BY <1>7, <2>2, <3>1
    <3> QED BY <1>4, <2>2, <3>2, <3>3
  <2> QED BY <2>1, <2>2
<1>10. PipeSleeperIsKnown'
  BY <1>9 DEF PipeSleeperIsKnown
<1> QED BY <1>1, <1>2, <1>4, <1>7, <1>10 DEF PipeInv

LEMMA PipeEnv ==
    ASSUME ~YieldWindow, PipeInv, SyncEnv(Pids), UNCHANGED pipeVars
    PROVE  PipeInv'
<1>1. UNCHANGED <<pipe, call, ring>> /\ SyncInv
  BY DEF pipeVars, ringVars, PipeInv
<1>2. /\ SyncInv' /\ at' = at
      /\ \A u \in Pids :
            /\ SwitchAhead(u) => SwitchAhead(u)'
            /\ at[u] # "out" => (sched'.status[u] = "SLEEPING" <=> sched.status[u] = "SLEEPING")
  BY <1>1, EnvStep
<1>3. \A t \in Pids : CanMove(call[t])' <=> CanMove(call[t])
  BY <1>1 DEF CanMove
<1>4. PipeSleeperIsKnown'
  BY <1>1, <1>2, <1>3 DEF PipeInv, PipeSleeperIsKnown
<1> QED BY <1>1, <1>2, <1>4 DEF PipeInv

LEMMA PipeStarts == SyncInit(FALSE) /\ pipe_init => PipeInv
<1> SUFFICES ASSUME SyncInit(FALSE), pipe_init PROVE PipeInv
  OBVIOUS
<1>1. MutexInit({}) /\ at = [a \in Actors |-> "out"]
  BY DEF SyncInit
<1>2. OpsInv /\ \A u \in Pids : SwitchAhead(u)
  BY <1>1, InitOps
<1>3. /\ pipe \in [{"read", "write"} -> Pids \cup {0}]
      /\ \A op \in {"read", "write"} : pipe[op] = 0
  BY DEF pipe_init
<1>4. \A t \in Pids : at[t] = "out"
  BY <1>1, ActorFacts
<1> QED BY <1>1, <1>2, <1>3, <1>4, PidFacts DEF PipeInv, PipeSleeperIsKnown, SyncInv

(* PipeInv holds always, for every number of readers and writers, every    *)
(* size of the ring buffer and every length of the calls.                  *)
THEOREM PipeInvariant == ASSUME ~YieldWindow PROVE PipeSpec => []PipeInv
<1>1. ASSUME PipeInv, [PipeNext]_<<syncVars, pipeVars>> PROVE PipeInv'
  <2>1. CASE SyncEnv(Pids) /\ UNCHANGED pipeVars
    BY <1>1, <2>1, PipeEnv
  <2>2. CASE \E a \in Actors, c \in PipeCalls : pipe_rw(a, c)
    <3>1. PICK a \in Actors, c \in PipeCalls : pipe_rw(a, c)
      BY <2>2
    <3>2. Moves(a, c) \/ GivesUp(a, c) \/ Sleeps(a, c)
      BY <3>1 DEF pipe_rw
    <3> QED BY <1>1, <3>1, <3>2, PipeMoves, PipeGivesUp, PipeSleeps
  <2>3. CASE UNCHANGED <<syncVars, pipeVars>>
    <3>1. /\ UNCHANGED <<schedVars, mutexOpsVars, mutex, locking, priority, sched>>
          /\ UNCHANGED <<at, pipe, call, ring>>
      BY <2>3 DEF syncVars, schedVars, pipeVars, ringVars, mutexOpsVars
    <3>2. SchedInv' /\ \A u \in Pids : SwitchAhead(u) => SwitchAhead(u)'
      BY <1>1, <3>1, SchedSame DEF PipeInv, SyncInv, OpsInv
    <3>3. OpsInv'
      BY <1>1, <3>1, <3>2, OpsFrame DEF PipeInv, SyncInv
    <3>4. \A t \in Pids : CanMove(call[t])' <=> CanMove(call[t])
      BY <3>1 DEF CanMove
    <3>5. PipeSleeperIsKnown'
      BY <1>1, <3>1, <3>4 DEF PipeInv, PipeSleeperIsKnown
    <3> QED BY <1>1, <3>1, <3>2, <3>3, <3>5 DEF PipeInv, SyncInv
  <2> QED BY <1>1, <2>1, <2>2, <2>3 DEF PipeNext
<1> QED BY <1>1, PipeStarts, PTL DEF PipeSpec

(* No wake-up of pipe_rw() is lost: a thread that sleeps in it is          *)
(* registered, and there is nothing it could move.                         *)
THEOREM PipeSleeper == ASSUME ~YieldWindow PROVE PipeSpec => []PipeSleeperIsKnown
<1>1. PipeInv => PipeSleeperIsKnown
  BY DEF PipeInv
<1> QED BY <1>1, PipeInvariant, PTL

(* The lists of the kernel agree with the threads' states while pipe_rw()  *)
(* puts threads to sleep and wakes them itself.                            *)
THEOREM PipeLists == ASSUME ~YieldWindow PROVE PipeSpec => []SyncListsAgree
<1>1. PipeInv => SyncListsAgree
  <2> SUFFICES ASSUME PipeInv PROVE SyncListsAgree
    OBVIOUS
  <2>1. OpsInv /\ SchedInv /\ \A u \in Pids \ {} : SwitchAhead(u)
    BY DEF PipeInv, SyncInv, OpsInv
  <2> QED BY <2>1, OpsWaitersAgree, SchedInvFirst, SchedInvUrgent DEF SyncListsAgree
<1> QED BY <1>1, PipeInvariant, PTL

-----------------------------------------------------------------------------
(* sys/isrpipe: only the reader waits for the mutex, and only the handlers *)
(* unlock it.  Between its look at the buffer and mutex_lock() either      *)
(* there is still nothing for the reader, or the mutex is not locked, or a *)
(* handler is going to unlock it; the same for its timer.                  *)
Unlocks == ~mutex[M].locked \/ at[Isr] = "unlock"

IsrpipeInv ==
    /\ SyncInv /\ \A u \in Pids : SwitchAhead(u)
    /\ rd = [f \in DOMAIN NoCall |-> rd[f]] /\ rd.count \in Int /\ rd.res \in Int
    /\ \A u \in Pids : (u # Reader => at[u] = "out") /\ (Waits(u) => u = Reader)
    /\ at[Reader] \in {"out", "arm", "get", "pop", "lock", "woken", "disarm"}
    /\ at[Reader] # "out" => rd.count > 0
    /\ Waits(Reader) => at[Reader] = "woken"
    /\ at[Reader] \in {"get", "pop", "lock", "woken"} /\ rd.timed => rd.timer \/ rd.flag
    /\ at[Reader] \in {"get", "pop", "lock"} /\ rd.timed => rd.timer \/ Unlocks
    /\ at[Reader] = "lock" => tsrb_empty \/ Unlocks
    /\ ReaderIsWoken

(* The fields of the reader's call. *)
LEMMA ReadFields ==
    /\ NoCall = [f \in DOMAIN NoCall |-> NoCall[f]]
    /\ NoCall.count = 0 /\ NoCall.res = 0
    /\ {"count", "res", "c", "timed", "all", "flag", "timer"} \subseteq DOMAIN NoCall
  BY DEF NoCall

LEMMA ReaderFacts == Reader \in Pids /\ Reader \in Actors /\ Isr \in Actors /\ Reader # Isr
  BY IsrpipeAssumption, ActorFacts

(* A step of a handler. *)
LEMMA IsrpipeHandler ==
    ASSUME IsrpipeInv, isrpipe_write_one \/ _cb
    PROVE  IsrpipeInv'
<1>1. /\ SyncInv /\ Local(Isr, "unlock") /\ rd = [f \in DOMAIN NoCall |-> rd[f]]
  BY DEF IsrpipeInv, isrpipe_write_one, _cb
<1>2. /\ SyncInv' /\ mutex' = mutex /\ at'[Isr] = "unlock"
      /\ \A b \in Actors : b # Isr => at'[b] = at[b]
      /\ \A u \in Pids : (SwitchAhead(u) => SwitchAhead(u)') /\ (Waits(u)' <=> Waits(u))
  BY <1>1, LocalStep, ReaderFacts
<1>3. \A u \in Pids : at'[u] = at[u]
  BY <1>2, ActorFacts
<1>4. /\ rd' = [f \in DOMAIN NoCall |-> rd'[f]] /\ rd'.count = rd.count /\ rd'.res = rd.res
      /\ rd'.timed = rd.timed /\ (rd.timer \/ rd.flag => rd'.timer \/ rd'.flag)
  <2>1. rd' = rd \/ rd' = [rd EXCEPT !.timer = FALSE, !.flag = TRUE]
    BY DEF isrpipe_write_one, _cb
  <2> QED BY <1>1, <2>1, ReadFields
<1>5. Unlocks' /\ ReaderIsWoken'
  BY <1>2 DEF Unlocks, ReaderIsWoken
<1> QED BY <1>2, <1>3, <1>4, <1>5, ReaderFacts DEF IsrpipeInv

LEMMA IsrpipeUnlocks ==
    ASSUME IsrpipeInv, UnlockPipe
    PROVE  IsrpipeInv'
<1>1. /\ SyncInv /\ Unlock(Isr, "out") /\ InKernelCall /\ UNCHANGED <<rd, tsrb>>
  BY AtFacts, ReaderFacts DEF IsrpipeInv, UnlockPipe, isrpipeVars
<1>2. /\ SyncInv' /\ HandsOver /\ \A b \in Actors : b # Isr => at'[b] = at[b]
      /\ \A u \in Pids : SwitchAhead(u) => SwitchAhead(u)'
  BY <1>1, UnlockMutex, ReaderFacts
<1>3. \A u \in Pids : at'[u] = at[u]
  BY <1>2, ActorFacts
<1>4. \A u \in Pids : ~Waits(u)'
  BY <1>2 DEF HandsOver, IsrpipeInv
<1>5. Waits(Reader) \/ ~mutex'[M].locked
  BY <1>2 DEF HandsOver, IsrpipeInv
<1>6. ReaderIsWoken' /\ (at[Reader] # "woken" => Unlocks')
  BY <1>4, <1>5, ReaderFacts DEF ReaderIsWoken, Unlocks, IsrpipeInv
<1> QED BY <1>1, <1>2, <1>3, <1>4, <1>6, ReaderFacts DEF IsrpipeInv, tsrb_empty

(* A step of the reader that makes no kernel call. *)
LEMMA IsrpipeReaderMoves ==
    ASSUME IsrpipeInv, NEW l \in {"out", "arm", "get", "pop", "lock", "disarm"},
           At(Reader, at[Reader]), Local(Reader, l),
           rd' = [f \in DOMAIN NoCall |-> rd'[f]], rd'.count \in Int, rd'.res \in Int,
           l # "out" => rd'.count > 0,
           l \in {"get", "pop", "lock"} /\ rd'.timed =>
                /\ rd'.timer \/ rd'.flag
                /\ rd'.timer \/ Unlocks,
           l = "lock" => tsrb_empty'
    PROVE  IsrpipeInv'
<1>1. /\ SyncInv' /\ mutex' = mutex /\ at'[Reader] = l
      /\ \A b \in Actors : b # Reader => at'[b] = at[b]
      /\ \A u \in Pids : (SwitchAhead(u) => SwitchAhead(u)') /\ (Waits(u)' <=> Waits(u))
  BY LocalStep, ReaderFacts DEF IsrpipeInv
<1>2. ~Waits(Reader)
  <2>1. Runs(Reader)
    BY AtFacts, ReaderFacts
  <2> QED BY <2>1, WaitsFacts, ReaderFacts DEF IsrpipeInv, SyncInv
<1>3. \A u \in Pids \ {Reader} : at'[u] = at[u]
  BY <1>1, ActorFacts
<1>4. (Unlocks => Unlocks') /\ ReaderIsWoken'
  BY <1>1, <1>2, ReaderFacts DEF Unlocks, ReaderIsWoken
<1> QED BY <1>1, <1>2, <1>3, <1>4, ReaderFacts DEF IsrpipeInv

LEMMA IsrpipeReaderCalls ==
    ASSUME IsrpipeInv,
           \/ ArmRead \/ Load \/ Pop \/ GetReturns \/ WokenRead \/ DisarmRead
           \/ \E n \in 1 .. MaxCount, timed, all \in BOOLEAN : isrpipe_read(n, timed, all)
    PROVE  IsrpipeInv'
<1>1. /\ rd = [f \in DOMAIN NoCall |-> rd[f]] /\ rd.count \in Int /\ rd.res \in Int
      /\ At(Reader, at[Reader]) /\ (at[Reader] # "out" => rd.count > 0)
      /\ at[Reader] \in {"get", "pop", "lock", "woken"} /\ rd.timed => rd.timer \/ rd.flag
      /\ at[Reader] \in {"get", "pop", "lock"} /\ rd.timed => rd.timer \/ Unlocks
  BY DEF IsrpipeInv, ArmRead, Load, Pop, GetReturns, WokenRead, DisarmRead, isrpipe_read, At
<1>2. CASE ArmRead
  <2>1. /\ Local(Reader, "get") /\ at[Reader] = "arm"
        /\ rd' = [rd EXCEPT !.timer = TRUE, !.flag = FALSE, !.res = 0]
    BY <1>2 DEF ArmRead, At
  <2>2. /\ rd' = [f \in DOMAIN NoCall |-> rd'[f]] /\ rd'.count = rd.count /\ rd'.res \in Int
        /\ rd'.timer
    <3>1. /\ rd' = [f \in DOMAIN NoCall |-> rd'[f]] /\ rd'.count = rd.count /\ rd'.res = 0
          /\ rd'.timer
      BY <1>1, <2>1, ReadFields
    <3>2. 0 \in Int
      OBVIOUS
    <3> QED BY <3>1, <3>2
  <2> QED BY <1>1, <2>1, <2>2, IsrpipeReaderMoves
<1>3. CASE Load
  <2>1. /\ Local(Reader, "pop") /\ at[Reader] = "get"
        /\ rd' = [rd EXCEPT !.c = tsrb.buf[Slot(tsrb.reads)]]
    BY <1>3 DEF Load, At
  <2>2. /\ rd' = [f \in DOMAIN NoCall |-> rd'[f]] /\ rd'.count = rd.count /\ rd'.res = rd.res
        /\ rd'.timed = rd.timed /\ rd'.timer = rd.timer /\ rd'.flag = rd.flag
    BY <1>1, <2>1, ReadFields
  <2> QED BY <1>1, <2>1, <2>2, IsrpipeReaderMoves
<1>4. CASE Pop
  <2>1. /\ Local(Reader, "get") /\ at[Reader] = "pop"
        /\ rd' = [rd EXCEPT !.res = @ + 1, !.c = 0]
    BY <1>4 DEF Pop, At
  <2>2. /\ rd' = [f \in DOMAIN NoCall |-> rd'[f]] /\ rd'.count = rd.count
        /\ rd'.res = rd.res + 1
        /\ rd'.timed = rd.timed /\ rd'.timer = rd.timer /\ rd'.flag = rd.flag
    BY <1>1, <2>1, ReadFields
  <2>3. rd'.res \in Int
    BY <1>1, <2>2
  <2> QED BY <1>1, <2>1, <2>2, <2>3, IsrpipeReaderMoves
<1>5. CASE GetReturns
  <2> DEFINE l == IF rd.res = 0 THEN "lock" ELSE IF rd.timed THEN "disarm" ELSE "out"
  <2>1. /\ Local(Reader, l) /\ at[Reader] = "get" /\ UNCHANGED tsrb
        /\ rd.res = rd.count \/ tsrb_empty
        /\ rd' = IF rd.res > 0 /\ ~rd.timed THEN NoCall ELSE rd
    BY <1>5 DEF GetReturns, At
  <2>2. l \in {"lock", "disarm", "out"} /\ (l = "lock" <=> rd.res = 0)
        /\ (l = "out" => ~rd.timed /\ rd.res # 0) /\ (l = "disarm" => rd.timed)
    OBVIOUS
  <2>3. l = "lock" => tsrb_empty' /\ rd' = rd
    BY <1>1, <2>1, <2>2 DEF tsrb_empty
  <2>4. l # "out" => rd' = rd
    BY <1>1, <2>1, <2>2
  <2>5. rd' = [f \in DOMAIN NoCall |-> rd'[f]] /\ rd'.count \in Int /\ rd'.res \in Int
    BY <1>1, <2>1, ReadFields
  <2> HIDE DEF l
  <2> QED BY <1>1, <2>1, <2>2, <2>3, <2>4, <2>5, IsrpipeReaderMoves
<1>6. CASE WokenRead
  <2> DEFINE l == IF rd.flag THEN "disarm" ELSE "get"
  <2>1. Local(Reader, l) /\ at[Reader] = "woken" /\ rd' = rd
    BY <1>6 DEF WokenRead, At, isrpipeVars
  <2>2. l \in {"disarm", "get"} /\ (l = "get" => ~rd.flag)
    OBVIOUS
  <2> HIDE DEF l
  <2> QED BY <1>1, <2>1, <2>2, IsrpipeReaderMoves
<1>7. CASE DisarmRead
  <2> DEFINE again == rd.all /\ 0 < rd.res /\ rd.res < rd.count
  <2>1. /\ Local(Reader, IF again THEN "arm" ELSE "out") /\ at[Reader] = "disarm"
        /\ rd' = IF again THEN [rd EXCEPT !.count = @ - rd.res, !.res = 0, !.timer = FALSE]
                  ELSE NoCall
    BY <1>7 DEF DisarmRead, At
  <2>2. CASE again
    <3>1. rd' = [f \in DOMAIN NoCall |-> rd'[f]] /\ rd'.count = rd.count - rd.res /\ rd'.res = 0
      BY <1>1, <2>1, <2>2, ReadFields
    <3>2. rd'.count \in Int /\ rd'.count > 0
      BY <1>1, <2>2, <3>1
    <3>3. Local(Reader, "arm")
      BY <2>1, <2>2
    <3> QED BY <1>1, <3>1, <3>2, <3>3, IsrpipeReaderMoves
  <2>3. CASE ~again
    <3>1. Local(Reader, "out") /\ rd' = NoCall
      BY <2>1, <2>3
    <3> QED BY <1>1, <3>1, ReadFields, IsrpipeReaderMoves
  <2> QED BY <2>2, <2>3
<1>8. ASSUME NEW n \in 1 .. MaxCount, NEW timed \in BOOLEAN, NEW all \in BOOLEAN,
             isrpipe_read(n, timed, all)
      PROVE  IsrpipeInv'
  <2>1. /\ Local(Reader, IF timed THEN "arm" ELSE "get")
        /\ rd' = [NoCall EXCEPT !.count = n, !.timed = timed, !.all = all]
    BY <1>8 DEF isrpipe_read
  <2>2. /\ rd' = [f \in DOMAIN NoCall |-> rd'[f]] /\ rd'.count = n /\ rd'.res = 0
        /\ rd'.timed = timed
    BY <2>1, ReadFields
  <2>3. n \in Int /\ n > 0
    BY IsrpipeAssumption
  <2>4. CASE timed
    <3>1. Local(Reader, "arm")
      BY <2>1, <2>4
    <3> QED BY <1>1, <2>2, <2>3, <3>1, IsrpipeReaderMoves
  <2>5. CASE ~timed
    <3>1. Local(Reader, "get")
      BY <2>1, <2>5
    <3> QED BY <1>1, <2>2, <2>3, <2>5, <3>1, IsrpipeReaderMoves
  <2> QED BY <2>4, <2>5
<1> QED BY <1>2, <1>3, <1>4, <1>5, <1>6, <1>7, <1>8

(* The reader locks the mutex, or waits for it. *)
LEMMA IsrpipeLocks ==
    ASSUME IsrpipeInv, LockPipe
    PROVE  IsrpipeInv'
<1>1. /\ SyncInv /\ Lock(Reader, "woken") /\ at[Reader] = "lock" /\ UNCHANGED <<rd, tsrb>>
  BY DEF IsrpipeInv, LockPipe, At, isrpipeVars
<1>2. /\ SyncInv' /\ at'[Reader] = "woken" /\ \A b \in Actors : b # Reader => at'[b] = at[b]
      /\ \A u \in Pids : SwitchAhead(u) => SwitchAhead(u)'
      /\ \A u \in Pids \ {Reader} : Waits(u)' <=> Waits(u)
      /\ Waits(Reader)' <=> mutex[M].locked
  BY <1>1, LockStep, ReaderFacts
<1>3. /\ \A u \in Pids : u # Reader => at'[u] = at[u]
      /\ at'[Isr] = at[Isr]
  BY <1>2, ActorFacts, ReaderFacts
<1>4. ReaderIsWoken'
  <2>1. mutex[M].locked /\ at[Isr] # "unlock" => ~Unlocks
    BY DEF Unlocks
  <2> QED BY <1>1, <1>2, <1>3, <2>1 DEF IsrpipeInv, ReaderIsWoken, tsrb_empty
<1> QED BY <1>1, <1>2, <1>3, <1>4, ReaderFacts DEF IsrpipeInv

LEMMA IsrpipeEnv ==
    ASSUME ~YieldWindow, IsrpipeInv, SyncEnv({Reader, Other}), UNCHANGED isrpipeVars
    PROVE  IsrpipeInv'
<1>1. /\ SyncInv' /\ UNCHANGED <<at, mutex, rd, tsrb>>
      /\ \A u \in Pids : (SwitchAhead(u) => SwitchAhead(u)') /\ (Waits(u)' <=> Waits(u))
  BY EnvStep, IsrpipeAssumption DEF IsrpipeInv, isrpipeVars
<1>2. (Unlocks' <=> Unlocks) /\ (ReaderIsWoken' <=> ReaderIsWoken) /\ (tsrb_empty' <=> tsrb_empty)
  BY <1>1, ReaderFacts DEF Unlocks, ReaderIsWoken, tsrb_empty
<1> QED BY <1>1, <1>2, ReaderFacts DEF IsrpipeInv

LEMMA IsrpipeStarts == SyncInit(FALSE) /\ isrpipe_init => IsrpipeInv
<1> SUFFICES ASSUME SyncInit(FALSE), isrpipe_init PROVE IsrpipeInv
  OBVIOUS
<1>1. MutexInit({}) /\ at = [a \in Actors |-> "out"] /\ rd = NoCall
  BY DEF SyncInit, isrpipe_init
<1>2. OpsInv /\ \A u \in Pids : SwitchAhead(u)
  BY <1>1, InitOps
<1>3. \A u \in Pids : ~Waits(u) /\ at[u] = "out"
  <2>1. mutex[M].queue = <<>>
    BY <1>1, MutexOfObject DEF MutexInit
  <2> QED BY <1>1, <2>1, ActorFacts DEF Waits, InQueue
<1> QED BY <1>1, <1>2, <1>3, ReaderFacts, ReadFields DEF IsrpipeInv, SyncInv, ReaderIsWoken

(* IsrpipeInv holds always, for every buffer and every length of the calls. *)
THEOREM IsrpipeInvariant == ASSUME ~YieldWindow PROVE IsrpipeSpec => []IsrpipeInv
<1>1. ASSUME IsrpipeInv, [IsrpipeNext]_<<syncVars, isrpipeVars>> PROVE IsrpipeInv'
  <2>1. CASE SyncEnv({Reader, Other}) /\ UNCHANGED isrpipeVars
    BY <1>1, <2>1, IsrpipeEnv
  <2>2. CASE UNCHANGED <<syncVars, isrpipeVars>>
    <3>1. /\ UNCHANGED <<schedVars, mutexOpsVars, mutex, locking, priority, sched>>
          /\ UNCHANGED <<at, rd, tsrb>>
      BY <2>2 DEF syncVars, schedVars, isrpipeVars, mutexOpsVars
    <3>2. SchedInv' /\ \A u \in Pids : SwitchAhead(u) => SwitchAhead(u)'
      BY <1>1, <3>1, SchedSame DEF IsrpipeInv, SyncInv, OpsInv
    <3>3. OpsInv'
      BY <1>1, <3>1, <3>2, OpsFrame DEF IsrpipeInv, SyncInv
    <3>4. \A u \in Pids : Waits(u)' <=> Waits(u)
      BY <3>1 DEF Waits, InQueue
    <3>5. (Unlocks' <=> Unlocks) /\ (ReaderIsWoken' <=> ReaderIsWoken)
          /\ (tsrb_empty' <=> tsrb_empty)
      BY <3>1, <3>4, ReaderFacts DEF Unlocks, ReaderIsWoken, tsrb_empty
    <3> QED BY <1>1, <3>1, <3>2, <3>3, <3>4, <3>5, ReaderFacts DEF IsrpipeInv, SyncInv
  <2> QED BY <1>1, <2>1, <2>2, IsrpipeHandler, IsrpipeUnlocks, IsrpipeReaderCalls, IsrpipeLocks
          DEF IsrpipeNext
<1> QED BY <1>1, IsrpipeStarts, PTL DEF IsrpipeSpec

(* A reader of an isrpipe does not wait in vain, although it looks at the  *)
(* buffer and sets its timer before it locks the mutex.                    *)
THEOREM IsrpipeReader == ASSUME ~YieldWindow PROVE IsrpipeSpec => []ReaderIsWoken
<1>1. IsrpipeInv => ReaderIsWoken
  BY DEF IsrpipeInv
<1> QED BY <1>1, IsrpipeInvariant, PTL

-----------------------------------------------------------------------------
(* sys/isrpipe over sys/tsrb.  Only the reader moves reads, and only a     *)
(* handler writes: between the load of a byte and the store of the counter *)
(* the handler may add bytes, but not overwrite the one loaded.            *)
IsReadCall(x) == x = [f \in DOMAIN NoCall |-> x[f]]

IsrpipeOrder ==
    /\ at = [b \in Actors |-> at[b]]
    /\ tsrb \in [buf : [0 .. TsrbSize - 1 -> Int], reads : 0 .. 2^TsrbWidth - 1,
                 writes : 0 .. 2^TsrbWidth - 1]
    /\ IsReadCall(rd)
    /\ written \in 0 .. Laps - 1 /\ got \in 0 .. Laps - 1
    /\ IsrpipeInOrder
    /\ at[Reader] = "pop" => ~tsrb_empty

LEMMA TsrbFacts ==
    /\ TsrbSize \in Nat /\ TsrbSize > 0 /\ Laps \in Nat /\ Laps > 0
    /\ 2^TsrbWidth \in Nat /\ 2^TsrbWidth > TsrbSize
    /\ \A x \in Int : Slot(x % 2^TsrbWidth) = Slot(x) /\ Slot(x) \in 0 .. TsrbSize - 1
<1> DEFINE m == 2^TsrbWidth
<1>1. PICK p \in 2 .. m : m = TsrbSize * p
  BY IsrpipeAssumption
<1>2. TsrbSize \in Nat /\ TsrbSize > 0 /\ p \in Nat /\ p > 1
  BY <1>1, IsrpipeAssumption
<1>3. TsrbSize * p \in Nat /\ TsrbSize * p > TsrbSize
  BY <1>2
<1>4. \A x \in Int : (x % m) % TsrbSize = x % TsrbSize
  <2> SUFFICES ASSUME NEW x \in Int PROVE (x % m) % TsrbSize = x % TsrbSize
    OBVIOUS
  <2>1. p > 0
    BY <1>2
  <2>2. (x % (TsrbSize * p)) % TsrbSize = x % TsrbSize
    BY <1>2, <2>1, ModOfMod
  <2> QED BY <1>1, <2>2
<1>5. \A x \in Int : x % TsrbSize \in 0 .. TsrbSize - 1
  BY <1>2
<1>6. m \in Nat /\ m > TsrbSize
  BY <1>1, <1>3
<1>7. Laps \in Nat /\ Laps > 0
  BY <1>2 DEF Laps
<1> HIDE DEF m
<1>8. \A x \in Int : Slot(x % m) = Slot(x) /\ Slot(x) \in 0 .. TsrbSize - 1
  BY <1>4, <1>5 DEF Slot
<1> QED BY <1>2, <1>6, <1>7, <1>8 DEF m

(* The buffer, counted from the reader's position. *)
LEMMA TsrbCounts ==
    ASSUME IsrpipeOrder
    PROVE  /\ tsrb_avail \in 0 .. TsrbSize
           /\ tsrb_empty <=> tsrb_avail = 0
           /\ Slot(tsrb.writes) = Slot(tsrb.reads + tsrb_avail)
           /\ tsrb_avail < TsrbSize =>
                (((tsrb.writes + 1) % 2^TsrbWidth) - tsrb.reads) % 2^TsrbWidth = tsrb_avail + 1
           /\ tsrb_avail > 0 =>
                (tsrb.writes - ((tsrb.reads + 1) % 2^TsrbWidth)) % 2^TsrbWidth = tsrb_avail - 1
<1> DEFINE m == 2^TsrbWidth
           w == tsrb.writes
           r == tsrb.reads
           a == (w - r) % m
<1>1. /\ m \in Nat /\ m > 0 /\ m > TsrbSize /\ w \in 0 .. m - 1 /\ r \in 0 .. m - 1
      /\ TsrbSize \in Nat
  BY TsrbFacts DEF IsrpipeOrder
<1>2. tsrb_avail = a /\ a <= TsrbSize
  BY DEF IsrpipeOrder, IsrpipeInOrder, tsrb_avail
<1>3. (tsrb_empty <=> r = w) /\ \A x \in Int : Slot(x % m) = Slot(x)
  BY TsrbFacts DEF tsrb_empty
<1> HIDE DEF m, w, r
<1>4. /\ a \in 0 .. m - 1 /\ (r + a) % m = w
      /\ a + 1 < m => (((w + 1) % m) - r) % m = a + 1
      /\ a > 0 => (w - ((r + 1) % m)) % m = a - 1
      /\ a = 0 => w = r
  BY <1>1, CountFacts
<1>5. w = r => a = 0
  <2>1. w = r => w - r = 0
    BY <1>1
  <2>2. 0 % m = 0
    BY <1>1, ModSmall
  <2> QED BY <2>1, <2>2
<1> HIDE DEF a
<1>6. a < TsrbSize => a + 1 < m
  BY <1>1, <1>4
<1>7. Slot(w) = Slot(r + a)
  <2>1. r + a \in Int
    BY <1>1, <1>4
  <2> QED BY <1>3, <1>4, <2>1
<1>8. a \in 0 .. TsrbSize
  BY <1>1, <1>2, <1>4
<1> QED BY <1>2, <1>3, <1>4, <1>5, <1>6, <1>7, <1>8 DEF m, w, r

(* The bytes from position r on are those of the stream from g on; one     *)
(* more is added behind them, or the first is taken away.                  *)
Stream(buf, n, r, g, l, a) == \A i \in 0 .. a - 1 : buf[(r + i) % n] = (g + i) % l

LEMMA StreamGrows ==
    ASSUME NEW n \in Nat, n > 0, NEW l \in Nat, l > 0, NEW r \in Int, NEW g \in Int,
           NEW a \in 0 .. n - 1, NEW buf \in [0 .. n - 1 -> Int],
           Stream(buf, n, r, g, l, a)
    PROVE  Stream([buf EXCEPT ![(r + a) % n] = (g + a) % l], n, r, g, l, a + 1)
<1>5. 0 .. (a + 1) - 1 = 0 .. a
  OBVIOUS
<1> SUFFICES ASSUME NEW i \in 0 .. a
             PROVE  [buf EXCEPT ![(r + a) % n] = (g + a) % l][(r + i) % n] = (g + i) % l
  BY <1>5 DEF Stream
<1>1. r + a \in Int /\ r + i \in Int
  OBVIOUS
<1>2. (r + a) % n \in 0 .. n - 1 /\ (r + i) % n \in 0 .. n - 1
  BY <1>1, ModRange
<1>3. CASE i = a
  BY <1>2, <1>3
<1>4. CASE i # a
  <2>1. i \in 0 .. a - 1 /\ r + i <= r + a /\ r + a < (r + i) + n /\ r + i # r + a
    BY <1>4
  <2>2. (r + i) % n # (r + a) % n
    BY <1>1, <2>1, ModDiffers
  <2> QED BY <1>2, <2>1, <2>2 DEF Stream
<1> QED BY <1>3, <1>4

LEMMA StreamShrinks ==
    ASSUME NEW n \in Nat, n > 0, NEW l \in Nat, l > 0, NEW r \in Int, NEW g \in Int,
           NEW a \in 1 .. n, NEW buf, NEW s \in Int, s % n = (r + 1) % n,
           Stream(buf, n, r, g, l, a)
    PROVE  Stream(buf, n, s, (g + 1) % l, l, a - 1)
<1>7. 0 .. (a - 1) - 1 = 0 .. a - 2
  OBVIOUS
<1> SUFFICES ASSUME NEW i \in 0 .. a - 2
             PROVE  buf[(s + i) % n] = (((g + 1) % l) + i) % l
  BY <1>7 DEF Stream
<1>1. i + 1 \in 0 .. a - 1 /\ i \in Int /\ r + 1 \in Int /\ g + 1 \in Int
  OBVIOUS
<1>2. ((s % n) + i) % n = (s + i) % n
  BY <1>1, ModSum
<1>3. (((r + 1) % n) + i) % n = ((r + 1) + i) % n
  BY <1>1, ModSum
<1>4. (((g + 1) % l) + i) % l = ((g + 1) + i) % l
  BY <1>1, ModSum
<1>5. (r + 1) + i = r + (i + 1) /\ (g + 1) + i = g + (i + 1)
  BY <1>1
<1>6. buf[(r + (i + 1)) % n] = (g + (i + 1)) % l
  BY <1>1 DEF Stream
<1> QED BY <1>2, <1>3, <1>4, <1>5, <1>6

LEMMA TsrbAdded ==
    ASSUME NEW B, NEW C, NEW t \in [buf : B, reads : C, writes : C], NEW j, NEW x, NEW k
    PROVE  [t EXCEPT !.buf[j] = x, !.writes = k]
           = [buf |-> [t.buf EXCEPT ![j] = x], reads |-> t.reads, writes |-> k]
<1> DEFINE y == [t.buf EXCEPT ![j] = x]
           u == [t EXCEPT !.buf = y]
<1>1. [t EXCEPT !.buf[j] = x, !.writes = k] = [u EXCEPT !.writes = k]
  OBVIOUS
<1> HIDE DEF y
<1>2. u = [buf |-> y, reads |-> t.reads, writes |-> t.writes]
  OBVIOUS
<1> HIDE DEF u
<1>3. [u EXCEPT !.writes = k] = [buf |-> y, reads |-> t.reads, writes |-> k]
  BY <1>2
<1> QED BY <1>1, <1>3 DEF y

(* A handler adds a byte, if there is room. *)
LEMMA IsrpipeAdds ==
    ASSUME IsrpipeOrder, isrpipe_write_one
    PROVE  IsrpipeOrder'
<1>1. /\ Goto(Isr, "unlock") /\ rd' = rd /\ got' = got /\ Reader # Isr
      /\ Reader \in Actors /\ Isr \in Actors
  BY IsrpipeAssumption DEF isrpipe_write_one, Local, Actors, Isr, Pids
<1>2. at' = [b \in Actors |-> at'[b]] /\ at'[Reader] = at[Reader]
  BY <1>1 DEF IsrpipeOrder, Goto
<1>3. CASE UNCHANGED <<tsrb, written>>
  BY <1>1, <1>2, <1>3 DEF IsrpipeOrder, IsrpipeInOrder, tsrb_avail, tsrb_empty, Slot
<1>4. CASE ~tsrb_full
  <2> DEFINE m == 2^TsrbWidth
             r == tsrb.reads
             w == tsrb.writes
             a == tsrb_avail
             v == (w + 1) % m
             bytes == [tsrb.buf EXCEPT ![Slot(w)] = written]
  <2>1. /\ tsrb' = [tsrb EXCEPT !.buf[Slot(w)] = written, !.writes = (@ + 1) % m]
        /\ written' = (written + 1) % Laps
    BY <1>4 DEF isrpipe_write_one
  <2>2. /\ TsrbSize \in Nat /\ TsrbSize > 0 /\ Laps \in Nat /\ Laps > 0 /\ m \in Nat /\ m > 0
    BY TsrbFacts
  <2>3. /\ tsrb \in [buf : [0 .. TsrbSize - 1 -> Int], reads : 0 .. m - 1, writes : 0 .. m - 1]
        /\ got \in 0 .. Laps - 1 /\ written \in 0 .. Laps - 1
        /\ written = (got + a) % Laps
        /\ Stream(tsrb.buf, TsrbSize, r, got, Laps, a)
    BY DEF IsrpipeOrder, IsrpipeInOrder, Slot, Stream
  <2>4. a \in 0 .. TsrbSize /\ a # TsrbSize /\ Slot(w) = (r + a) % TsrbSize /\ (v - r) % m = a + 1
    BY <1>4, <2>2, TsrbCounts DEF tsrb_full, Slot
  <2>17. tsrb.buf \in [0 .. TsrbSize - 1 -> Int] /\ r \in 0 .. m - 1 /\ w \in 0 .. m - 1
    BY <2>3
  <2>7. tsrb' = [buf |-> bytes, reads |-> r, writes |-> v]
    <3> HIDE DEF m
    <3>1. tsrb' = [tsrb EXCEPT !.buf[Slot(w)] = written, !.writes = v]
      BY <2>1
    <3> QED BY <2>3, <3>1, TsrbAdded
  <2> HIDE DEF m, a, v, r, w
  <2>5. a \in 0 .. TsrbSize - 1 /\ r \in Int /\ w + 1 \in Int /\ got \in Int
        /\ tsrb.buf \in [0 .. TsrbSize - 1 -> Int] /\ r + a \in Int /\ got + a \in Int
        /\ written \in Int
    BY <2>2, <2>3, <2>4, <2>17
  <2>6. v \in 0 .. m - 1 /\ (r + a) % TsrbSize \in 0 .. TsrbSize - 1
    BY <2>2, <2>5, ModRange DEF v
  <2>8. bytes \in [0 .. TsrbSize - 1 -> Int]
    BY <2>4, <2>5, <2>6
  <2>9. Stream(bytes, TsrbSize, r, got, Laps, a + 1)
    <3>1. bytes = [tsrb.buf EXCEPT ![(r + a) % TsrbSize] = (got + a) % Laps]
      BY <2>3, <2>4
    <3> QED BY <2>2, <2>3, <2>5, <3>1, StreamGrows DEF r
  <2>10. written' = (got + (a + 1)) % Laps /\ written' \in 0 .. Laps - 1
    <3>1. (((got + a) % Laps) + 1) % Laps = ((got + a) + 1) % Laps
      <4>1. Laps \in Nat /\ Laps > 0 /\ got + a \in Int /\ 1 \in Int
        BY <2>2, <2>5
      <4> HIDE <2>1
      <4> QED BY <4>1, ModSum
    <3>2. (got + a) + 1 = got + (a + 1) /\ got + (a + 1) \in Int
      BY <2>5
    <3>3. written' = (got + (a + 1)) % Laps
      BY <2>1, <2>3, <3>1, <3>2
    <3> QED BY <2>2, <3>2, <3>3, ModRange
  <2> HIDE DEF bytes
  <2>11. tsrb'.buf = bytes /\ tsrb'.reads = r /\ tsrb'.writes = v
    BY <2>7
  <2>12. tsrb_avail' = a + 1 /\ a + 1 <= TsrbSize
    <3>1. tsrb_avail' = (tsrb'.writes - tsrb'.reads) % m
      BY DEF tsrb_avail, m
    <3>2. a + 1 <= TsrbSize
      BY <2>2, <2>5
    <3> QED BY <2>4, <2>11, <3>1, <3>2
  <2>13. IsrpipeInOrder'
    <3>1. at[Reader] = "pop" => rd.c = got
      BY DEF IsrpipeOrder, IsrpipeInOrder
    <3> QED BY <1>1, <1>2, <2>9, <2>10, <2>11, <2>12, <3>1 DEF IsrpipeInOrder, Slot, Stream
  <2>14. ~tsrb_empty'
    <3>1. ASSUME v = r PROVE FALSE
      <4>1. v - r = 0
        BY <2>5, <3>1
      <4>2. 0 % m = 0
        BY <2>2, ModSmall
      <4> QED BY <2>4, <2>5, <4>1, <4>2
    <3> QED BY <2>11, <3>1 DEF tsrb_empty
  <2>15. tsrb' \in [buf : [0 .. TsrbSize - 1 -> Int], reads : 0 .. m - 1, writes : 0 .. m - 1]
    BY <2>3, <2>6, <2>7, <2>8 DEF r
  <2>16. IsReadCall(rd)
    BY DEF IsrpipeOrder
  <2> QED BY <1>1, <1>2, <2>3, <2>10, <2>13, <2>14, <2>15, <2>16 DEF IsrpipeOrder, m
<1> QED BY <1>3, <1>4 DEF isrpipe_write_one

LEMMA ReadCallFields == IsReadCall(NoCall) /\ "c" \in DOMAIN NoCall
  BY DEF NoCall, IsReadCall

(* The reader takes the byte it has loaded. *)
LEMMA IsrpipePops ==
    ASSUME IsrpipeOrder, Pop
    PROVE  IsrpipeOrder'
<1> DEFINE m == 2^TsrbWidth
           r == tsrb.reads
           w == tsrb.writes
           a == tsrb_avail
           s == (r + 1) % m
<1>1. /\ Goto(Reader, "get") /\ written' = written /\ Reader \in Actors /\ at[Reader] = "pop"
      /\ got' = (got + 1) % Laps /\ tsrb' = [tsrb EXCEPT !.reads = s]
      /\ rd' = [rd EXCEPT !.res = @ + 1, !.c = 0]
  BY IsrpipeAssumption DEF Pop, Local, At, Actors
<1>2. at' = [b \in Actors |-> at'[b]] /\ at'[Reader] = "get"
  BY <1>1 DEF IsrpipeOrder, Goto
<1>3. IsReadCall(rd')
  BY <1>1 DEF IsrpipeOrder, IsReadCall
<1>4. /\ TsrbSize \in Nat /\ TsrbSize > 0 /\ Laps \in Nat /\ Laps > 0 /\ m \in Nat /\ m > 0
      /\ \A x \in Int : Slot(x % m) = Slot(x)
  BY TsrbFacts
<1>5. /\ tsrb \in [buf : [0 .. TsrbSize - 1 -> Int], reads : 0 .. m - 1, writes : 0 .. m - 1]
      /\ got \in 0 .. Laps - 1 /\ written \in 0 .. Laps - 1
      /\ written = (got + a) % Laps
      /\ Stream(tsrb.buf, TsrbSize, r, got, Laps, a)
  BY DEF IsrpipeOrder, IsrpipeInOrder, Slot, Stream
<1>6. a \in 1 .. TsrbSize /\ (w - s) % m = a - 1
  <2>1. a \in 0 .. TsrbSize /\ a # 0
    BY <1>1, TsrbCounts DEF IsrpipeOrder
  <2>2. a > 0 /\ a \in 1 .. TsrbSize
    BY <1>4, <2>1
  <2> HIDE DEF a
  <2> QED BY <2>2, TsrbCounts DEF a
<1>7. r \in 0 .. m - 1 /\ tsrb.buf \in [0 .. TsrbSize - 1 -> Int] /\ w \in 0 .. m - 1
  BY <1>5
<1> HIDE DEF m
<1>8. tsrb' = [buf |-> tsrb.buf, reads |-> s, writes |-> w]
  BY <1>1, <1>5
<1> HIDE DEF a, r, w, s
<1>9. tsrb'.buf = tsrb.buf /\ tsrb'.reads = s /\ tsrb'.writes = w
  BY <1>8
<1>10. r + 1 \in Int /\ got + 1 \in Int /\ r \in Int /\ got \in Int /\ a - 1 \in Int
  BY <1>4, <1>5, <1>6, <1>7
<1>11. s \in 0 .. m - 1 /\ got' \in 0 .. Laps - 1 /\ s \in Int
  BY <1>1, <1>4, <1>10, ModRange DEF s
<1>12. s % TsrbSize = (r + 1) % TsrbSize
  BY <1>4, <1>10 DEF s, Slot
<1>13. Stream(tsrb.buf, TsrbSize, s, (got + 1) % Laps, Laps, a - 1)
  <2>1. Stream(tsrb.buf, TsrbSize, r, got, Laps, a)
    BY <1>5 DEF r
  <2> QED BY <1>4, <1>6, <1>10, <1>11, <1>12, <2>1, StreamShrinks
<1>14. written = (got' + (a - 1)) % Laps
  <2>1. (((got + 1) % Laps) + (a - 1)) % Laps = ((got + 1) + (a - 1)) % Laps
    BY <1>4, <1>10, ModSum
  <2>2. (got + 1) + (a - 1) = got + a
    BY <1>6, <1>10
  <2> QED BY <1>1, <1>5, <2>1, <2>2
<1>15. tsrb_avail' = a - 1 /\ a - 1 <= TsrbSize
  <2>1. tsrb_avail' = (tsrb'.writes - tsrb'.reads) % m
    BY DEF tsrb_avail, m
  <2>2. a - 1 <= TsrbSize
    BY <1>4, <1>6
  <2> QED BY <1>6, <1>9, <2>1, <2>2
<1>16. IsrpipeInOrder'
  BY <1>1, <1>2, <1>9, <1>13, <1>14, <1>15 DEF IsrpipeInOrder, Slot, Stream
<1>17. tsrb' \in [buf : [0 .. TsrbSize - 1 -> Int], reads : 0 .. m - 1, writes : 0 .. m - 1]
  BY <1>7, <1>8, <1>11
<1> QED BY <1>1, <1>2, <1>3, <1>5, <1>11, <1>16, <1>17 DEF IsrpipeOrder, m

(* A step that does not touch the buffer. *)
LEMMA IsrpipeKeeps ==
    ASSUME IsrpipeOrder, UNCHANGED <<tsrb, written, got>>, IsReadCall(rd'),
           at' = [b \in Actors |-> at'[b]],
           at'[Reader] = "pop" => ~tsrb_empty /\ rd'.c = got
    PROVE  IsrpipeOrder'
  BY DEF IsrpipeOrder, IsrpipeInOrder, tsrb_avail, tsrb_empty, Slot

LEMMA IsrpipeLoads ==
    ASSUME IsrpipeOrder, Load
    PROVE  IsrpipeOrder'
<1>1. /\ Goto(Reader, "pop") /\ ~tsrb_empty /\ UNCHANGED <<tsrb, written, got>>
      /\ rd' = [rd EXCEPT !.c = tsrb.buf[Slot(tsrb.reads)]]
  BY DEF Load, Local
<1>2. at' = [b \in Actors |-> at'[b]]
  BY <1>1 DEF IsrpipeOrder, Goto
<1>3. TsrbSize \in Nat /\ TsrbSize > 0 /\ Laps \in Nat /\ Laps > 0 /\ 2^TsrbWidth \in Nat
  BY TsrbFacts
<1>4. /\ tsrb_avail \in 0 .. TsrbSize /\ tsrb_avail # 0 /\ got \in 0 .. Laps - 1
      /\ tsrb.reads \in 0 .. 2^TsrbWidth - 1
      /\ \A i \in 0 .. tsrb_avail - 1 : tsrb.buf[Slot(tsrb.reads + i)] = (got + i) % Laps
  BY <1>1, TsrbCounts DEF IsrpipeOrder, IsrpipeInOrder
<1>5. 0 \in 0 .. tsrb_avail - 1 /\ tsrb.reads + 0 = tsrb.reads /\ got + 0 = got
  BY <1>3, <1>4
<1>6. got % Laps = got
  BY <1>3, <1>4, ModSmall
<1>7. tsrb.buf[Slot(tsrb.reads)] = got
  <2>1. tsrb.buf[Slot(tsrb.reads + 0)] = (got + 0) % Laps
    BY <1>4, <1>5
  <2> QED BY <1>5, <1>6, <2>1
<1>8. IsReadCall(rd') /\ rd'.c = got
  <2>1. IsReadCall(rd)
    BY DEF IsrpipeOrder
  <2>2. rd' = [rd EXCEPT !.c = got]
    BY <1>1, <1>7
  <2> QED BY <2>1, <2>2, ReadCallFields DEF IsReadCall
<1> QED BY <1>1, <1>2, <1>8, IsrpipeKeeps

(* The other steps of the reader and of its timer. *)
LEMMA IsrpipeOthers ==
    ASSUME IsrpipeOrder,
           \/ UnlockPipe \/ _cb \/ ArmRead \/ GetReturns \/ LockPipe \/ WokenRead
           \/ DisarmRead \/ UNCHANGED <<syncVars, isrpipeVars>>
           \/ SyncEnv({Reader, Other}) /\ UNCHANGED isrpipeVars
           \/ \E n \in 1 .. MaxCount, timed, all \in BOOLEAN : isrpipe_read(n, timed, all)
    PROVE  IsrpipeOrder'
<1>1. /\ IsReadCall(rd) /\ at = [b \in Actors |-> at[b]] /\ Reader \in Actors /\ Isr \in Actors
      /\ Reader # Isr /\ (at[Reader] = "pop" => ~tsrb_empty /\ rd.c = got)
  BY IsrpipeAssumption DEF IsrpipeOrder, IsrpipeInOrder, Actors, Isr, Pids
<1>3. IsReadCall(NoCall) /\ "c" \in DOMAIN NoCall
  BY ReadCallFields
<1>4. UNCHANGED <<tsrb, written, got>>
  BY DEF UnlockPipe, _cb, ArmRead, GetReturns, LockPipe, WokenRead, DisarmRead, isrpipeVars,
         isrpipe_read
<1>5. ASSUME NEW b \in Actors, NEW l, Goto(b, l), b = Isr \/ l # "pop"
      PROVE  at' = [c \in Actors |-> at'[c]] /\ (at'[Reader] = "pop" => at[Reader] = "pop")
  BY <1>1, <1>5 DEF Goto
<1>6. CASE UnlockPipe \/ LockPipe \/ WokenRead
  <2>1. \E b \in Actors : \E l : Goto(b, l) /\ (b = Isr \/ l # "pop")
    <3>1. UnlockPipe => Goto(Isr, "out")
      BY DEF UnlockPipe, Unlock
    <3>2. LockPipe => Goto(Reader, "woken")
      BY DEF LockPipe, Lock
    <3>3. WokenRead => Goto(Reader, "disarm") \/ Goto(Reader, "get")
      BY DEF WokenRead, Local
    <3> QED BY <1>1, <1>6, <3>1, <3>2, <3>3
  <2>2. rd' = rd
    BY <1>6 DEF UnlockPipe, LockPipe, WokenRead, isrpipeVars
  <2> QED BY <1>1, <1>4, <1>5, <2>1, <2>2, IsrpipeKeeps
<1>7. CASE _cb
  <2>1. Goto(Isr, "unlock") /\ rd' = [rd EXCEPT !.timer = FALSE, !.flag = TRUE]
    BY <1>7 DEF _cb, Local
  <2>2. IsReadCall(rd') /\ rd'.c = rd.c
    BY <1>1, <1>3, <2>1 DEF IsReadCall
  <2> QED BY <1>1, <1>4, <1>5, <2>1, <2>2, IsrpipeKeeps
<1>8. CASE ArmRead
  <2>1. Goto(Reader, "get") /\ rd' = [rd EXCEPT !.timer = TRUE, !.flag = FALSE, !.res = 0]
    BY <1>8 DEF ArmRead, Local
  <2>2. IsReadCall(rd')
    BY <1>1, <2>1 DEF IsReadCall
  <2>3. at'[Reader] = "get"
    BY <1>1, <2>1 DEF Goto
  <2> QED BY <1>1, <1>4, <1>5, <2>1, <2>2, <2>3, IsrpipeKeeps
<1>9. CASE GetReturns
  <2>1. \/ Goto(Reader, "lock") \/ Goto(Reader, "disarm") \/ Goto(Reader, "out")
    BY <1>9 DEF GetReturns, Local
  <2>2. IsReadCall(rd')
    BY <1>1, <1>3, <1>9 DEF GetReturns
  <2>3. at'[Reader] # "pop" /\ at' = [c \in Actors |-> at'[c]]
    BY <1>1, <2>1 DEF Goto
  <2> QED BY <1>4, <2>2, <2>3, IsrpipeKeeps
<1>10. CASE DisarmRead
  <2>1. Goto(Reader, "arm") \/ Goto(Reader, "out")
    BY <1>10 DEF DisarmRead, Local
  <2>2. \/ rd' = NoCall
        \/ rd' = [rd EXCEPT !.count = @ - rd.res, !.res = 0, !.timer = FALSE]
    BY <1>10 DEF DisarmRead
  <2>3. IsReadCall(rd')
    BY <1>1, <1>3, <2>2 DEF IsReadCall
  <2>4. at'[Reader] # "pop" /\ at' = [c \in Actors |-> at'[c]]
    BY <1>1, <2>1 DEF Goto
  <2> QED BY <1>4, <2>3, <2>4, IsrpipeKeeps
<1>11. CASE UNCHANGED <<syncVars, isrpipeVars>> \/ (SyncEnv({Reader, Other}) /\ UNCHANGED isrpipeVars)
  <2>1. at' = at /\ rd' = rd
    BY <1>11 DEF SyncEnv, syncVars, isrpipeVars
  <2> QED BY <1>1, <1>4, <2>1, IsrpipeKeeps
<1>12. ASSUME NEW n \in 1 .. MaxCount, NEW timed \in BOOLEAN, NEW all \in BOOLEAN,
              isrpipe_read(n, timed, all)
       PROVE  IsrpipeOrder'
  <2>1. Goto(Reader, "arm") \/ Goto(Reader, "get")
    BY <1>12 DEF isrpipe_read, Local
  <2>2. rd' = [NoCall EXCEPT !.count = n, !.timed = timed, !.all = all]
    BY <1>12 DEF isrpipe_read
  <2>3. IsReadCall(rd')
    BY <1>3, <2>2 DEF IsReadCall
  <2>4. at'[Reader] # "pop" /\ at' = [c \in Actors |-> at'[c]]
    BY <1>1, <2>1 DEF Goto
  <2> QED BY <1>4, <2>3, <2>4, IsrpipeKeeps
<1> QED BY <1>6, <1>7, <1>8, <1>9, <1>10, <1>11, <1>12

LEMMA IsrpipeOrderStarts ==
    ASSUME SyncInit(FALSE), isrpipe_init
    PROVE  IsrpipeOrder
<1> DEFINE m == 2^TsrbWidth
<1>1. /\ TsrbSize \in Nat /\ TsrbSize > 0 /\ Laps \in Nat /\ Laps > 0 /\ m \in Nat /\ m > 0
  BY TsrbFacts
<1>2. /\ tsrb = [buf |-> [i \in 0 .. TsrbSize - 1 |-> 0], reads |-> 0, writes |-> 0]
      /\ rd = NoCall /\ written = 0 /\ got = 0 /\ at = [b \in Actors |-> "out"]
  BY DEF SyncInit, isrpipe_init
<1>3. Reader \in Actors /\ IsReadCall(NoCall)
  BY IsrpipeAssumption, ReadCallFields DEF Actors
<1>4. tsrb_avail = 0 % m
  BY <1>2 DEF tsrb_avail
<1> HIDE DEF m
<1>5. 0 % m = 0 /\ 0 % Laps = 0
  BY <1>1, ModSmall
<1>6. /\ tsrb \in [buf : [0 .. TsrbSize - 1 -> Int], reads : 0 .. m - 1, writes : 0 .. m - 1]
      /\ written \in 0 .. Laps - 1 /\ got \in 0 .. Laps - 1
  BY <1>1, <1>2
<1>7. IsrpipeInOrder
  <2>1. tsrb_avail = 0 /\ 0 .. tsrb_avail - 1 = {} /\ got + tsrb_avail = 0 /\ at[Reader] # "pop"
    BY <1>2, <1>3, <1>4, <1>5
  <2> QED BY <1>1, <1>2, <1>5, <2>1 DEF IsrpipeInOrder
<1> QED BY <1>2, <1>3, <1>6, <1>7 DEF IsrpipeOrder, m

(* What the reader of an isrpipe is given, and what is left for it, are    *)
(* the bytes the handlers wrote, in order, whatever the size and the width *)
(* of the buffer's counters, and wherever handlers interrupt the reader.   *)
THEOREM IsrpipeOrdered == IsrpipeSpec => []IsrpipeInOrder
<1>1. SyncInit(FALSE) /\ isrpipe_init => IsrpipeOrder
  BY IsrpipeOrderStarts
<1>2. IsrpipeOrder /\ [IsrpipeNext]_<<syncVars, isrpipeVars>> => IsrpipeOrder'
  BY IsrpipeAdds, IsrpipePops, IsrpipeLoads, IsrpipeOthers DEF IsrpipeNext
<1>3. IsrpipeOrder => IsrpipeInOrder
  BY DEF IsrpipeOrder
<1> QED BY <1>1, <1>2, <1>3, PTL DEF IsrpipeSpec
=============================================================================
