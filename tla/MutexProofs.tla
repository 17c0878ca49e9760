---------------------------- MODULE MutexProofs -----------------------------
(***************************************************************************)
(* Mutexes, for every number of threads, priorities and mutexes: mutual    *)
(* exclusion with direct hand-over, priority, and the implementation of    *)
(* PriorityLock.  Then the circular buffer of core/include/cib.h, for      *)
(* every size and every width of its counters.                             *)
(***************************************************************************)
EXTENDS Mutex, Cib, OpsProofs

(* Time the provers are given for a leaf. *)
USE ZenonT(5), SMTT(20)

-----------------------------------------------------------------------------
(* The inductive invariant.  MutualExclusion needs WaitersAgree: a thread  *)
(* an unlock has made ready owns the mutex because it has left the queue,  *)
(* and it runs only after that.                                            *)
IInv ==
    /\ OpsInv
    /\ priority = Prio
    /\ \A u \in Pids : SwitchAhead(u)
    /\ \A m \in Mutexes \ Signals :
        IF mutex[m].locked THEN \E t \in Pids : Owners(m) = {t} ELSE Owners(m) = {}

LEMMA IInvFacts ==
    ASSUME IInv
    PROVE  /\ OpsInv /\ priority = Prio /\ \A u \in Pids : SwitchAhead(u)
           /\ locking \in [Pids -> Mutexes \cup {None}]
           /\ mutex \in [Mutexes -> [locked : BOOLEAN, queue : Seq(Pids)]]
           /\ None \notin Mutexes /\ Signals \subseteq Mutexes
BY OpsFacts, MutexOpsAssumption, MutexAssumption DEF IInv

-----------------------------------------------------------------------------
(* To whom a mutex belongs before and after each step.  A mutex whose      *)
(* waiters, and the threads that hold it or are to return with it, stay    *)
(* the same belongs to the same threads.                                   *)
LEMMA OwnersFrame ==
    ASSUME NEW m \in Mutexes, InQueue(mutex[m].queue)' = InQueue(mutex[m].queue),
           \A t \in Pids : /\ <<t, m>> \in held' <=> <<t, m>> \in held
                           /\ locking'[t] = m <=> locking[t] = m
    PROVE  Owners(m)' = Owners(m)
BY DEF Owners

LEMMA LockFreeOwners ==
    ASSUME IInv, NEW t \in Pids, NEW m \in Mutexes, LockFree(t, m)
    PROVE  /\ \A n \in Mutexes \ {m} : Owners(n)' = Owners(n)
           /\ m \notin Signals => Owners(m) = {} /\ Owners(m)' = {t}
<1>1. /\ locking[t] = None /\ ~mutex[m].locked /\ locking' = locking
      /\ held' = held \cup {<<t, m>>}
      /\ mutex' = [mutex EXCEPT ![m] = [locked |-> TRUE, queue |-> <<>>]]
      /\ mutex[m].queue = <<>>
  BY IInvFacts, TakesFreeStep DEF LockFree, TakesFree, Calls
<1>2. ASSUME NEW n \in Mutexes \ {m} PROVE Owners(n)' = Owners(n)
  BY <1>1, IInvFacts, OwnersFrame DEF InQueue
<1>3. ASSUME m \notin Signals PROVE Owners(m) = {} /\ Owners(m)' = {t}
  <2>1. Owners(m) = {}
    BY <1>1, <1>3 DEF IInv
  <2>2. mutex'[m].queue = <<>>
    BY <1>1, IInvFacts
  <2>3. ASSUME NEW u \in Pids
        PROVE  u \in Owners(m)' <=> u = t
    <3>1. <<u, m>> \notin held /\ ~(locking[u] = m /\ u \notin InQueue(mutex[m].queue))
      BY <2>1 DEF Owners
    <3>2. (u \notin InQueue(mutex[m].queue))' /\ u \notin InQueue(mutex[m].queue)
      BY <1>1, <2>2 DEF InQueue
    <3>3. <<u, m>> = <<t, m>> <=> u = t
      OBVIOUS
    <3> QED BY <1>1, <3>1, <3>2, <3>3 DEF Owners
  <2> QED BY <2>1, <2>3 DEF Owners
<1> QED BY <1>2, <1>3

LEMMA LockBlocksOwners ==
    ASSUME IInv, NEW t \in Pids, NEW m \in Mutexes, LockBlocks(t, m)
    PROVE  \A n \in Mutexes : Owners(n)' = Owners(n)
<1>1. /\ Runs(t) /\ locking[t] = None /\ locking' = [locking EXCEPT ![t] = m] /\ held' = held
      /\ InQueue(mutex'[m].queue) = InQueue(mutex[m].queue) \cup {t}
      /\ mutex' = [mutex EXCEPT ![m] =
                    [locked |-> TRUE, queue |-> thread_add_to_list(mutex[m].queue, t)]]
  BY IInvFacts, BlocksStep DEF LockBlocks, Blocks, Calls, InThread
<1>2. ASSUME NEW n \in Mutexes PROVE Owners(n)' = Owners(n)
  <2>1. CASE n # m
    <3>1. mutex'[n] = mutex[n]
      BY <1>1, <2>1, IInvFacts
    <3>2. \A u \in Pids : locking'[u] = n <=> locking[u] = n
      BY <1>1, <2>1, IInvFacts
    <3> QED BY <1>1, <3>1, <3>2, OwnersFrame DEF InQueue
  <2>2. CASE n = m
    <3>1. ASSUME NEW u \in Pids PROVE u \in Owners(m)' <=> u \in Owners(m)
      <4>1. (u \in InQueue(mutex[m].queue))' <=> u \in InQueue(mutex[m].queue) \/ u = t
        BY <1>1 DEF InQueue
      <4>2. u # t => locking'[u] = locking[u]
        BY <1>1, IInvFacts
      <4>3. locking[t] # m
        BY <1>1, IInvFacts
      <4> QED BY <1>1, <4>1, <4>2, <4>3 DEF Owners
    <3> QED BY <2>2, <3>1 DEF Owners
  <2> QED BY <2>1, <2>2
<1> QED BY <1>2

(* A thread that executes with the wait for m behind it has left the queue.*)
LEMMA LockReturnsOwners ==
    ASSUME IInv, NEW t \in Pids, LockReturns(t)
    PROVE  \A n \in Mutexes : Owners(n)' = Owners(n)
<1>1. /\ Runs(t) /\ locking[t] # None /\ locking' = [locking EXCEPT ![t] = None]
      /\ mutex' = mutex /\ held' = held \cup {<<t, locking[t]>>}
  BY DEF LockReturns, Returns, InThread
<1>2. \A n \in Mutexes : t \notin InQueue(mutex[n].queue)
  BY <1>1, IInvFacts, RunnerWaitsNowhere
<1>3. ASSUME NEW n \in Mutexes, NEW u \in Pids
      PROVE  u \in Owners(n)' <=> u \in Owners(n)
  <2>1. (u \in InQueue(mutex[n].queue))' <=> u \in InQueue(mutex[n].queue)
    BY <1>1 DEF InQueue
  <2>2. CASE u = t
    <3>1. locking'[t] # n
      BY <1>1, IInvFacts
    <3>2. <<t, n>> \in held' <=> <<t, n>> \in held \/ n = locking[t]
      BY <1>1
    <3> QED BY <1>2, <2>1, <2>2, <3>1, <3>2 DEF Owners
  <2>3. CASE u # t
    <3>1. locking'[u] = locking[u] /\ (<<u, n>> \in held' <=> <<u, n>> \in held)
      BY <1>1, <2>3, IInvFacts
    <3> QED BY <2>1, <3>1 DEF Owners
  <2> QED BY <2>2, <2>3
<1> QED BY <1>3 DEF Owners

(* An unlock by the thread t that holds m, whether it goes on to sleep or  *)
(* not: m belongs to its first waiter at once, or to nobody.               *)
LEMMA ReleaseOwners ==
    ASSUME IInv, NEW t \in Pids, NEW m \in Mutexes \ Signals, <<t, m>> \in held,
           locking[t] = None, UNCHANGED locking,
           mutex' = [mutex EXCEPT ![m] = Unlocked(@)], held' = {h \in held : h[2] # m}
    PROVE  /\ \A n \in Mutexes \ {m} : Owners(n)' = Owners(n)
           /\ Owners(m) = {t} /\ mutex[m].locked
           /\ Owners(m)' = IF mutex[m].queue = <<>> THEN {} ELSE {Head(mutex[m].queue)}
<1> DEFINE q == mutex[m].queue
<1>1. ASSUME NEW n \in Mutexes \ {m} PROVE Owners(n)' = Owners(n)
  <2>1. mutex'[n] = mutex[n]
    BY <1>1, IInvFacts
  <2>2. \A u \in Pids : <<u, n>> \in held' <=> <<u, n>> \in held
    BY <1>1
  <2> QED BY <1>1, <2>1, <2>2, OwnersFrame DEF InQueue
<1>2. Owners(m) = {t} /\ mutex[m].locked
  <2>1. t \in Owners(m)
    BY DEF Owners
  <2> QED BY <2>1 DEF IInv
<1>3. \A u \in Pids : <<u, m>> \notin held'
  OBVIOUS
<1>4. ASSUME NEW u \in Pids, locking[u] = m PROVE u \in InQueue(q)
  <2>1. u # t
    BY <1>4, IInvFacts
  <2> QED BY <1>2, <1>4, <2>1 DEF Owners
<1>5. mutex'[m] = Unlocked(mutex[m])
  BY IInvFacts
<1>6. CASE q = <<>>
  <2>1. \A u \in Pids : locking[u] # m
    BY <1>4, <1>6 DEF InQueue
  <2>2. Owners(m)' = {}
    BY <1>3, <2>1 DEF Owners
  <2> QED BY <1>1, <1>2, <1>6, <2>2
<1>7. CASE q # <<>>
  <2>1. /\ mutex'[m] = [locked |-> TRUE, queue |-> Tail(q)]
        /\ Head(q) \in Pids /\ locking[Head(q)] = m
        /\ InQueue(Tail(q)) = InQueue(q) \ {Head(q)}
    BY <1>5, <1>7, IInvFacts, UnlockedFacts
  <2>2. mutex'[m].queue = Tail(q)
    <3>1. [locked |-> TRUE, queue |-> Tail(q)].queue = Tail(q)
      OBVIOUS
    <3> QED BY <2>1, <3>1, Zenon
  <2>3. ASSUME NEW u \in Pids PROVE u \in Owners(m)' <=> u = Head(q)
    <3>1. (u \in InQueue(mutex[m].queue))' <=> u \in InQueue(q) /\ u # Head(q)
      BY <2>1, <2>2, ZenonT(30) DEF InQueue
    <3> QED BY <1>3, <1>4, <2>1, <3>1 DEF Owners
  <2>4. Owners(m)' = {Head(q)}
    BY <2>1, <2>3 DEF Owners
  <2> QED BY <1>1, <1>2, <1>7, <2>4
<1> QED BY <1>6, <1>7

-----------------------------------------------------------------------------
(* A mutex that is not used as a lock stays out of it. *)
LEMMA SignalOwners ==
    ASSUME IInv, NEW m \in Signals, mutex_unlock(m), held' = {h \in held : h[2] # m}
    PROVE  \A n \in Mutexes \ Signals : Owners(n)' = Owners(n) /\ mutex'[n] = mutex[n]
<1> SUFFICES ASSUME NEW n \in Mutexes \ Signals
             PROVE  Owners(n)' = Owners(n) /\ mutex'[n] = mutex[n]
  OBVIOUS
<1>1. n # m /\ mutex'[n] = mutex[n] /\ locking' = locking
  BY IInvFacts DEF mutex_unlock
<1>2. \A u \in Pids : <<u, n>> \in held' <=> <<u, n>> \in held
  BY <1>1
<1> QED BY <1>1, <1>2, OwnersFrame DEF InQueue

LEMMA KeepsIInv ==
    ASSUME IInv, OpsInv', priority' = priority, \A u \in Pids : SwitchAhead(u)',
           \A n \in Mutexes \ Signals :
                Owners(n)' = Owners(n) /\ mutex'[n].locked = mutex[n].locked
    PROVE  IInv'
<1>1. ASSUME NEW n \in Mutexes \ Signals
      PROVE  IF mutex'[n].locked THEN \E t \in Pids : Owners(n)' = {t} ELSE Owners(n)' = {}
  <2>1. IF mutex[n].locked THEN \E t \in Pids : Owners(n) = {t} ELSE Owners(n) = {}
    BY DEF IInv
  <2>2. Owners(n)' = Owners(n) /\ mutex'[n].locked = mutex[n].locked
    OBVIOUS
  <2> QED BY <2>1, <2>2
<1> QED BY <1>1 DEF IInv

LEMMA LockFreeInv ==
    ASSUME IInv, NEW t \in Pids, NEW m \in Mutexes, LockFree(t, m) PROVE IInv'
<1>1. /\ OpsInv' /\ priority' = priority /\ \A u \in Pids : SwitchAhead(u)'
      /\ mutex' = [mutex EXCEPT ![m] = [locked |-> TRUE, queue |-> <<>>]]
  BY IInvFacts, TakesFreeStep DEF LockFree, schedVars
<1>2. /\ mutex'[m].locked
      /\ \A n \in Mutexes \ {m} : mutex'[n] = mutex[n]
  BY <1>1, IInvFacts
<1>3. /\ \A n \in Mutexes \ {m} : Owners(n)' = Owners(n)
      /\ m \notin Signals => Owners(m)' = {t}
  BY LockFreeOwners
<1>4. ASSUME NEW n \in Mutexes \ Signals
      PROVE  IF mutex'[n].locked THEN \E u \in Pids : Owners(n)' = {u} ELSE Owners(n)' = {}
  <2>1. CASE n = m
    BY <1>2, <1>3, <2>1
  <2>2. CASE n # m
    <3>1. IF mutex[n].locked THEN \E u \in Pids : Owners(n) = {u} ELSE Owners(n) = {}
      BY DEF IInv
    <3> QED BY <1>2, <1>3, <2>2, <3>1
  <2> QED BY <2>1, <2>2
<1> QED BY <1>1, <1>4, IInvFacts DEF IInv

LEMMA LockBlocksInv ==
    ASSUME IInv, NEW t \in Pids, NEW m \in Mutexes, LockBlocks(t, m) PROVE IInv'
<1> DEFINE x == [locked |-> TRUE, queue |-> thread_add_to_list(mutex[m].queue, t)]
<1>1. /\ OpsInv' /\ priority' = priority /\ \A u \in Pids : SwitchAhead(u)'
      /\ mutex' = [mutex EXCEPT ![m] = x] /\ mutex[m].locked
  BY IInvFacts, BlocksStep DEF LockBlocks, Blocks
<1>2. \A n \in Mutexes : Owners(n)' = Owners(n)
  BY LockBlocksOwners
<1>3. x.locked = TRUE
  OBVIOUS
<1> HIDE DEF x
<1>4. ASSUME NEW n \in Mutexes PROVE mutex'[n].locked = mutex[n].locked
  <2>1. mutex'[m] = x /\ (n # m => mutex'[n] = mutex[n])
    BY <1>1, IInvFacts
  <2>2. mutex[m].locked = TRUE
    BY <1>1, IInvFacts, OpsFacts
  <2> QED BY <1>3, <2>1, <2>2
<1> QED BY <1>1, <1>2, <1>4, KeepsIInv

LEMMA LockReturnsInv == ASSUME IInv, NEW t \in Pids, LockReturns(t) PROVE IInv'
<1>1. /\ OpsInv' /\ priority' = priority /\ \A u \in Pids : SwitchAhead(u)' /\ mutex' = mutex
  BY IInvFacts, ReturnsStep DEF LockReturns, schedVars
<1>2. \A n \in Mutexes : Owners(n)' = Owners(n)
  BY LockReturnsOwners
<1> QED BY <1>1, <1>2, KeepsIInv

(* Both ways in which the thread that holds a lock gives it up. *)
LEMMA ReleaseInv ==
    ASSUME IInv, NEW t \in Pids, NEW m \in Mutexes \ Signals, <<t, m>> \in held,
           locking[t] = None, UNCHANGED <<locking, priority>>,
           mutex' = [mutex EXCEPT ![m] = Unlocked(@)], held' = {h \in held : h[2] # m},
           OpsInv', \A u \in Pids : SwitchAhead(u)'
    PROVE  IInv'
<1> DEFINE q == mutex[m].queue
<1>1. /\ \A n \in Mutexes \ {m} : Owners(n)' = Owners(n) /\ mutex'[n] = mutex[n]
      /\ Owners(m)' = IF q = <<>> THEN {} ELSE {Head(q)}
      /\ mutex'[m] = Unlocked(mutex[m])
  BY IInvFacts, ReleaseOwners
<1>2. /\ q = <<>> => Unlocked(mutex[m]) = [locked |-> FALSE, queue |-> <<>>]
      /\ q # <<>> => /\ Unlocked(mutex[m]) = [locked |-> TRUE, queue |-> Tail(q)]
                     /\ Head(q) \in Pids
  BY IInvFacts, UnlockedFacts
<1>3. /\ [locked |-> FALSE, queue |-> <<>>].locked = FALSE
      /\ [locked |-> TRUE, queue |-> Tail(q)].locked = TRUE
  OBVIOUS
<1>4. ASSUME NEW n \in Mutexes \ Signals
      PROVE  IF mutex'[n].locked THEN \E u \in Pids : Owners(n)' = {u} ELSE Owners(n)' = {}
  <2>1. CASE n = m /\ q = <<>>
    <3>1. mutex'[m].locked = FALSE /\ Owners(m)' = {}
      BY <1>1, <1>2, <1>3, <2>1
    <3> QED BY <2>1, <3>1
  <2>2. CASE n = m /\ q # <<>>
    <3>1. mutex'[m].locked = TRUE /\ Owners(m)' = {Head(q)} /\ Head(q) \in Pids
      BY <1>1, <1>2, <1>3, <2>2
    <3> QED BY <2>2, <3>1
  <2>3. CASE n # m
    <3>1. IF mutex[n].locked THEN \E u \in Pids : Owners(n) = {u} ELSE Owners(n) = {}
      BY DEF IInv
    <3> QED BY <1>1, <2>3, <3>1
  <2> QED BY <2>1, <2>2, <2>3
<1> QED BY <1>4, IInvFacts DEF IInv

LEMMA UnlockInv == ASSUME IInv, NEW m \in Mutexes, UnlockCall(m) PROVE IInv'
<1>1. /\ mutex_unlock(m) /\ InKernelCall /\ held' = {h \in held : h[2] # m}
  BY DEF UnlockCall, MayUnlock, Calls, InKernelCall
<1>2. /\ OpsInv' /\ UNCHANGED <<priority, locking>> /\ \A u \in Pids : SwitchAhead(u)'
      /\ mutex' = [mutex EXCEPT ![m] = Unlocked(@)]
  BY <1>1, IInvFacts, UnlockStep
<1>3. CASE m \in Signals
  BY <1>1, <1>2, <1>3, SignalOwners, KeepsIInv
<1>4. CASE m \notin Signals
  <2>1. PICK t \in Pids : locking[t] = None /\ <<t, m>> \in held
    BY <1>4 DEF UnlockCall, MayUnlock, Calls
  <2> QED BY <1>1, <1>2, <1>4, <2>1, ReleaseInv
<1> QED BY <1>3, <1>4

LEMMA UnlockAndSleepInv ==
    ASSUME IInv, NEW t \in Pids, NEW m \in Mutexes, UnlockAndSleep(t, m) PROVE IInv'
<1>1. /\ mutex_unlock_and_sleep(t, m) /\ held' = {h \in held : h[2] # m}
      /\ <<t, m>> \in held /\ m \notin Signals /\ locking[t] = None
  BY DEF UnlockAndSleep, mutex_unlock_and_sleep, Calls
<1>2. /\ OpsInv' /\ UNCHANGED <<priority, locking>> /\ \A u \in Pids : SwitchAhead(u)'
      /\ mutex' = [mutex EXCEPT ![m] = Unlocked(@)]
  BY <1>1, IInvFacts, UnlockAndSleepStep
<1> QED BY <1>1, <1>2, ReleaseInv

(* Steps that leave the mutexes alone. *)
LEMMA SameOwners ==
    ASSUME UNCHANGED mutexVars PROVE \A n \in Mutexes : Owners(n)' = Owners(n)
BY OwnersFrame DEF mutexVars, mutexOpsVars, InQueue

LEMMA OtherInv ==
    ASSUME ~YieldWindow, IInv, OtherCall \/ (SchedStep /\ UNCHANGED mutexVars) PROVE IInv'
<1>1. UNCHANGED mutexVars /\ UNCHANGED mutexOpsVars /\ mutex' = mutex
  BY DEF OtherCall, mutexVars, mutexOpsVars
<1>2. OpsInv' /\ priority' = priority /\ \A u \in Pids : SwitchAhead(u)'
  <2>1. CASE OtherCall
    <3>1. PICK t \in Pids : thread_wakeup(t) \/ thread_yield(t)
      BY <2>1 DEF OtherCall
    <3> QED BY <1>1, <3>1, IInvFacts, OpsOtherCall
  <2>2. CASE SchedStep
    <3>1. OpsInv' /\ \A u \in Pids : SwitchAhead(u)'
      BY <1>1, <2>2, IInvFacts, OpsSchedStep
    <3>2. priority' = priority
      BY <2>2, IInvFacts, SchedStepFrame DEF OpsInv
    <3> QED BY <3>1, <3>2
  <2> QED BY <2>1, <2>2
<1> QED BY <1>1, <1>2, SameOwners, KeepsIInv

LEMMA StutterInv == ASSUME IInv, UNCHANGED vars PROVE IInv'
<1>1. UNCHANGED schedVars /\ UNCHANGED mutexVars /\ mutex' = mutex /\ locking' = locking
  BY DEF vars, mutexVars, mutexOpsVars
<1>2. SchedInv' /\ priority' = priority /\ \A u \in Pids : SwitchAhead(u)'
  BY <1>1, IInvFacts, SchedSame DEF OpsInv, schedVars
<1>3. OpsInv'
  BY <1>1, <1>2, IInvFacts, OpsFrame DEF schedVars
<1> QED BY <1>1, <1>2, <1>3, SameOwners, KeepsIInv

-----------------------------------------------------------------------------
(* Every step of the mutexes, the scheduler and the application preserves  *)
(* IInv, on a port that leaves no yield window open.                       *)
THEOREM MutexInvariant == ASSUME ~YieldWindow PROVE Spec => []IInv
<1>1. Init => IInv
  <2> SUFFICES ASSUME Init PROVE IInv
    OBVIOUS
  <2>1. OpsInv /\ priority = Prio /\ \A u \in Pids : SwitchAhead(u)
    BY InitOps DEF Init
  <2>2. ASSUME NEW m \in Mutexes \ Signals PROVE Owners(m) = {} /\ ~mutex[m].locked
    <3>1. \A t \in Pids : locking[t] # m /\ <<t, m>> \notin held
      BY <2>2, MutexOpsAssumption DEF Init, MutexInit
    <3>2. mutex[m].locked = (m \in Signals)
      BY <2>2, Zenon DEF Init, MutexInit
    <3> QED BY <2>2, <3>1, <3>2 DEF Owners
  <2> QED BY <2>1, <2>2 DEF IInv
<1>2. IInv /\ [Next]_vars => IInv'
  <2> SUFFICES ASSUME IInv, [Next]_vars PROVE IInv'
    OBVIOUS
  <2>1. CASE MutexStep
    BY <2>1, LockFreeInv, LockBlocksInv, LockReturnsInv, UnlockInv, UnlockAndSleepInv
       DEF MutexStep
  <2>2. CASE OtherCall \/ (SchedStep /\ UNCHANGED mutexVars)
    BY <2>2, OtherInv
  <2>3. CASE UNCHANGED vars
    BY <2>3, StutterInv
  <2> QED BY <2>1, <2>2, <2>3 DEF Next
<1> QED BY <1>1, <1>2, PTL DEF Spec

(* A mutex used as a lock never belongs to two threads, belongs to one     *)
(* exactly while it is locked, and cannot be taken between an unlock and   *)
(* the return of the thread it woke.                                       *)
THEOREM MutexExclusion == ASSUME ~YieldWindow PROVE Spec => []MutualExclusion
<1>1. IInv => MutualExclusion
  <2> SUFFICES ASSUME IInv, NEW m \in Mutexes \ Signals
               PROVE  /\ mutex[m].locked <=> Owners(m) # {}
                      /\ \A t, u \in Owners(m) : t = u
                      /\ mutex[m].queue # <<>> => mutex[m].locked
    BY DEF MutualExclusion
  <2>1. mutex[m].queue # <<>> => mutex[m].locked
    BY IInvFacts DEF OpsInv
  <2>2. IF mutex[m].locked THEN \E t \in Pids : Owners(m) = {t} ELSE Owners(m) = {}
    BY DEF IInv
  <2> QED BY <2>1, <2>2
<1> QED BY <1>1, MutexInvariant, PTL

(* A thread is in the wait list of a mutex, once, exactly while it is      *)
(* blocked on it; wait lists are in serving order; and no unlock leaves a  *)
(* more urgent ready thread waiting for the processor.                     *)
THEOREM MutexLists == ASSUME ~YieldWindow PROVE Spec => []MutexListsAgree
<1>1. IInv => MutexListsAgree
  <2> SUFFICES ASSUME IInv PROVE MutexListsAgree
    OBVIOUS
  <2>1. SchedInv /\ \A u \in Pids \ {} : SwitchAhead(u)
    BY IInvFacts DEF OpsInv
  <2> QED BY <2>1, IInvFacts, OpsWaitersAgree, SchedInvUrgent DEF MutexListsAgree
<1> QED BY <1>1, MutexInvariant, PTL

-----------------------------------------------------------------------------
(* Lists are equal if their elements are. *)
LEMMA SameElements ==
    ASSUME NEW S, NEW s \in Seq(S), NEW t \in Seq(S),
           Len(s) = Len(t), \A i \in 1 .. Len(s) : s[i] = t[i]
    PROVE  s = t
OBVIOUS

(* The part of a sorted wait list that has one priority.  A place behind   *)
(* threads of priority p or more urgent and before one that is not divides *)
(* the list, ...                                                           *)
LEMMA Border ==
    ASSUME priority \in [Pids -> Prios], NEW q \in Seq(Pids), SortedByPriority(q), NEW p \in Int,
           NEW u \in 0 .. Len(q), \A i \in 1 .. u : priority[q[i]] <= p,
           u = Len(q) \/ priority[q[u + 1]] > p
    PROVE  \A i \in 1 .. Len(q) : i <= u <=> priority[q[i]] <= p
<1> DEFINE L == Len(q)
<1>1. L \in Nat /\ \A i \in 1 .. L : priority[q[i]] \in Int /\ i \in DOMAIN q
  BY DEF Prios
<1>2. u \in Int /\ 0 <= u /\ u <= L
  BY <1>1
<1> HIDE DEF L
<1>3. ASSUME NEW i \in 1 .. L PROVE i <= u <=> priority[q[i]] <= p
  <2>1. i \in Int /\ 1 <= i /\ i <= L
    BY <1>1
  <2>2. CASE i <= u
    <3>1. i \in 1 .. u
      BY <1>2, <2>1, <2>2
    <3> QED BY <2>2, <3>1
  <2>3. CASE ~(i <= u)
    <3>1. u + 1 \in 1 .. L /\ u # L /\ u + 1 <= i
      BY <1>1, <1>2, <2>1, <2>3
    <3>2. priority[q[u + 1]] > p
      BY <3>1 DEF L
    <3>3. priority[q[u + 1]] <= priority[q[i]]
      <4>1. CASE u + 1 = i
        BY <1>1, <4>1
      <4>2. CASE u + 1 < i
        BY <1>1, <3>1, <4>2 DEF SortedByPriority
      <4> QED BY <1>2, <2>1, <3>1, <4>1, <4>2
    <3>4. priority[q[u + 1]] \in Int /\ priority[q[i]] \in Int
      BY <1>1, <3>1
    <3> QED BY <2>3, <3>2, <3>3, <3>4
  <2> QED BY <2>2, <2>3
<1> QED BY <1>3 DEF L

(* ... UpTo(q, p) is such a place, ... *)
LEMMA UpToFacts ==
    ASSUME priority \in [Pids -> Prios], NEW q \in Seq(Pids), SortedByPriority(q), NEW p \in Int
    PROVE  /\ UpTo(q, p) \in 0 .. Len(q)
           /\ \A i \in 1 .. Len(q) : i <= UpTo(q, p) <=> priority[q[i]] <= p
<1> DEFINE P(n) == /\ \A i \in 1 .. n : priority[q[i]] <= p
                   /\ n = Len(q) \/ priority[q[n + 1]] > p
           u == UpTo(q, p)
<1>1. u \in 0 .. Len(q) /\ P(u)
  <2>1. \E n \in 0 .. Len(q) : P(n)
    BY InsertionPoint
  <2>2. u = CHOOSE n \in 0 .. Len(q) : P(n)
    BY DEF UpTo
  <2> HIDE DEF P, u
  <2> QED BY <2>1, <2>2
<1> HIDE DEF u
<1>2. \A i \in 1 .. Len(q) : i <= u <=> priority[q[i]] <= p
  BY <1>1, Border
<1> QED BY <1>1, <1>2 DEF u

(* ... and there is no other. *)
LEMMA UpToUnique ==
    ASSUME priority \in [Pids -> Prios], NEW q \in Seq(Pids), SortedByPriority(q), NEW p \in Int,
           NEW n \in 0 .. Len(q), \A i \in 1 .. Len(q) : i <= n <=> priority[q[i]] <= p
    PROVE  UpTo(q, p) = n
<1> DEFINE u == UpTo(q, p)
           L == Len(q)
<1>1. u \in 0 .. L /\ \A i \in 1 .. L : i <= u <=> priority[q[i]] <= p
  BY UpToFacts
<1>2. L \in Nat
  OBVIOUS
<1> HIDE DEF u, L
<1>3. u \in Int /\ n \in Int /\ 0 <= u /\ u <= L /\ 0 <= n /\ n <= L
  BY <1>1, <1>2 DEF L
<1>4. \A i \in 1 .. L : i <= u <=> i <= n
  BY <1>1 DEF L
<1>5. ~(u < n)
  <2> SUFFICES ASSUME u < n PROVE FALSE
    OBVIOUS
  <2>1. n \in 1 .. L /\ n <= n /\ ~(n <= u)
    BY <1>2, <1>3
  <2> QED BY <1>4, <2>1
<1>6. ~(n < u)
  <2> SUFFICES ASSUME n < u PROVE FALSE
    OBVIOUS
  <2>1. u \in 1 .. L /\ u <= u /\ ~(u <= n)
    BY <1>2, <1>3
  <2> QED BY <1>4, <2>1
<1> QED BY <1>3, <1>5, <1>6 DEF u

(* The part of priority p, entry by entry. *)
LEMMA OfPriorityFacts ==
    ASSUME priority \in [Pids -> Prios], NEW q \in Seq(Pids), SortedByPriority(q), NEW p \in Int
    PROVE  /\ UpTo(q, p - 1) \in Int /\ UpTo(q, p) \in Int
           /\ 0 <= UpTo(q, p - 1) /\ UpTo(q, p - 1) <= UpTo(q, p) /\ UpTo(q, p) <= Len(q)
           /\ OfPriority(q, p) \in Seq(Pids)
           /\ Len(OfPriority(q, p)) = UpTo(q, p) - UpTo(q, p - 1)
           /\ \A i \in 1 .. UpTo(q, p) - UpTo(q, p - 1) :
                    OfPriority(q, p)[i] = q[UpTo(q, p - 1) + i]
<1> DEFINE a == UpTo(q, p - 1)
           b == UpTo(q, p)
           L == Len(q)
<1>0. p - 1 \in Int /\ p - 1 < p /\ L \in Nat
      /\ \A i \in 1 .. L : priority[q[i]] \in Int /\ q[i] \in Pids
  BY DEF Prios
<1>1. /\ a \in 0 .. L /\ \A i \in 1 .. L : i <= a <=> priority[q[i]] <= p - 1
      /\ b \in 0 .. L /\ \A i \in 1 .. L : i <= b <=> priority[q[i]] <= p
  BY <1>0, UpToFacts
<1>2. OfPriority(q, p) = SubSeq(q, a + 1, b)
  BY DEF OfPriority
<1> HIDE DEF a, b, L
<1>3. a \in Int /\ b \in Int /\ 0 <= a /\ a <= L /\ 0 <= b /\ b <= L
  BY <1>0, <1>1
<1>4. a <= b
  <2> SUFFICES ASSUME b < a PROVE FALSE
    BY <1>3
  <2>1. a \in 1 .. L /\ a <= a /\ ~(a <= b)
    BY <1>0, <1>3
  <2>2. priority[q[a]] <= p - 1 /\ ~(priority[q[a]] <= p) /\ priority[q[a]] \in Int
    BY <1>0, <1>1, <2>1
  <2> QED BY <1>0, <2>2
<1>5. \A i \in a + 1 .. b : q[i] \in Pids
  <2>1. \A i \in a + 1 .. b : i \in 1 .. L
    BY <1>0, <1>3
  <2> QED BY <1>0, <2>1
<1>6. /\ OfPriority(q, p) \in Seq(Pids)
      /\ Len(OfPriority(q, p)) = (IF a + 1 <= b THEN b - (a + 1) + 1 ELSE 0)
      /\ \A i \in 1 .. b - (a + 1) + 1 : OfPriority(q, p)[i] = q[(a + 1) + i - 1]
  <2>1. a + 1 \in Int
    BY <1>3
  <2> QED BY <1>2, <1>3, <1>5, <2>1
<1>7. Len(OfPriority(q, p)) = b - a
  BY <1>3, <1>4, <1>6
<1>8. ASSUME NEW i \in 1 .. b - a PROVE OfPriority(q, p)[i] = q[a + i]
  <2>1. i \in 1 .. b - (a + 1) + 1 /\ (a + 1) + i - 1 = a + i
    BY <1>3
  <2>2. OfPriority(q, p)[i] = q[(a + 1) + i - 1]
    BY <1>6, <2>1
  <2> QED BY <2>1, <2>2
<1> QED BY <1>3, <1>4, <1>6, <1>7, <1>8 DEF a, b, L

(* A list r that is the list q with thread t inserted behind the threads   *)
(* of its priority.                                                        *)
Insertion(q, r, t, n) ==
    /\ q \in Seq(Pids) /\ r \in Seq(Pids) /\ t \in Pids
    /\ SortedByPriority(q) /\ SortedByPriority(r)
    /\ InsertedAt(q, r, t, n)
    /\ \A i \in 1 .. Len(q) : i <= n <=> priority[q[i]] <= priority[t]

LEMMA UpToInserted ==
    ASSUME priority \in [Pids -> Prios], NEW q, NEW r, NEW t, NEW n, Insertion(q, r, t, n),
           NEW p \in Int
    PROVE  /\ priority[t] <= p => UpTo(r, p) = UpTo(q, p) + 1 /\ n <= UpTo(q, p)
           /\ p < priority[t] => UpTo(r, p) = UpTo(q, p) /\ UpTo(q, p) <= n
<1> DEFINE b == UpTo(q, p)
           L == Len(q)
           pt == priority[t]
           pq(i) == priority[q[i]]
           pr(i) == priority[r[i]]
<1>1. /\ b \in 0 .. L /\ \A i \in 1 .. L : i <= b <=> pq(i) <= p
      /\ L \in Nat /\ pt \in Int
      /\ \A i \in 1 .. L : pq(i) \in Int /\ (i <= n <=> pq(i) <= pt)
  <2>1. q \in Seq(Pids) /\ SortedByPriority(q) /\ t \in Pids
    BY DEF Insertion
  <2>2. b \in 0 .. L /\ \A i \in 1 .. L : i <= b <=> pq(i) <= p
    BY <2>1, UpToFacts
  <2>3. \A i \in 1 .. L : i <= n <=> pq(i) <= pt
    BY DEF Insertion
  <2>4. L \in Nat /\ pt \in Int /\ \A i \in 1 .. L : pq(i) \in Int
    BY <2>1 DEF Prios
  <2> QED BY <2>2, <2>3, <2>4
<1>2. /\ n \in 0 .. L /\ Len(r) = L + 1
      /\ \A i \in 1 .. n : r[i] = q[i]
      /\ r[n + 1] = t
      /\ \A i \in n + 1 .. L : r[i + 1] = q[i]
  BY DEF Insertion, InsertedAt
<1>3. /\ \A i \in 1 .. n : pr(i) = pq(i)
      /\ pr(n + 1) = pt
      /\ \A i \in n + 1 .. L : pr(i + 1) = pq(i)
  BY <1>2
<1> HIDE DEF b, L, pt, pq, pr
<1>4. b \in Int /\ 0 <= b /\ b <= L /\ n \in Int /\ 0 <= n /\ n <= L
  BY <1>1, <1>2
<1>5. ASSUME NEW i \in 1 .. L + 1
      PROVE  \/ i \in 1 .. n /\ pr(i) = pq(i) /\ i \in 1 .. L
             \/ i = n + 1 /\ pr(i) = pt
             \/ i - 1 \in n + 1 .. L /\ pr(i) = pq(i - 1) /\ i - 1 \in 1 .. L
  <2>1. i \in Int /\ 1 <= i /\ i <= L + 1
    BY <1>1
  <2>2. CASE i <= n
    BY <1>1, <1>3, <1>4, <2>1, <2>2
  <2>3. CASE i = n + 1
    BY <1>3, <2>3
  <2>4. CASE n + 1 < i
    <3>1. i - 1 \in n + 1 .. L /\ i - 1 \in 1 .. L /\ (i - 1) + 1 = i
      BY <1>1, <1>4, <2>1, <2>4
    <3>2. pr((i - 1) + 1) = pq(i - 1)
      BY <1>3, <3>1
    <3> QED BY <3>1, <3>2
  <2> QED BY <1>4, <2>1, <2>2, <2>3, <2>4
<1>6. CASE pt <= p
  <2>1. n <= b
    <3> SUFFICES ASSUME b < n PROVE FALSE
      BY <1>4
    <3>1. n \in 1 .. L /\ n <= n /\ ~(n <= b)
      BY <1>1, <1>4
    <3>2. pq(n) <= pt /\ ~(pq(n) <= p) /\ pq(n) \in Int
      BY <1>1, <3>1
    <3> QED BY <1>1, <1>6, <3>2
  <2>2. ASSUME NEW i \in 1 .. L + 1 PROVE i <= b + 1 <=> pr(i) <= p
    <3>1. CASE i \in 1 .. n /\ pr(i) = pq(i) /\ i \in 1 .. L
      <4>1. i <= b /\ i <= b + 1
        BY <1>4, <2>1, <3>1
      <4> QED BY <1>1, <3>1, <4>1
    <3>2. CASE i = n + 1 /\ pr(i) = pt
      BY <1>4, <1>6, <2>1, <3>2
    <3>3. CASE i - 1 \in n + 1 .. L /\ pr(i) = pq(i - 1) /\ i - 1 \in 1 .. L
      <4>1. i - 1 <= b <=> pq(i - 1) <= p
        BY <1>1, <3>3
      <4>2. i \in Int /\ (i - 1 <= b <=> i <= b + 1)
        BY <1>1, <1>4
      <4> QED BY <3>3, <4>1, <4>2
    <3> QED BY <1>5, <3>1, <3>2, <3>3
  <2>3. b + 1 \in 0 .. Len(r) /\ \A i \in 1 .. Len(r) : i <= b + 1 <=> priority[r[i]] <= p
    <3>1. b + 1 \in 0 .. L + 1
      BY <1>1, <1>4
    <3> QED BY <1>2, <2>2, <3>1 DEF pr
  <2>4. UpTo(r, p) = b + 1
    BY <2>3, UpToUnique DEF Insertion
  <2> QED BY <1>1, <1>6, <2>1, <2>4 DEF b, pt
<1>7. CASE p < pt
  <2>1. b <= n
    <3> SUFFICES ASSUME n < b PROVE FALSE
      BY <1>4
    <3>1. b \in 1 .. L /\ b <= b /\ ~(b <= n)
      BY <1>1, <1>4
    <3>2. ~(pq(b) <= pt) /\ pq(b) <= p /\ pq(b) \in Int
      BY <1>1, <3>1
    <3> QED BY <1>1, <1>7, <3>2
  <2>2. ASSUME NEW i \in 1 .. L + 1 PROVE i <= b <=> pr(i) <= p
    <3>1. CASE i \in 1 .. n /\ pr(i) = pq(i) /\ i \in 1 .. L
      BY <1>1, <3>1
    <3>2. CASE i = n + 1 /\ pr(i) = pt
      <4>1. ~(i <= b)
        BY <1>4, <2>1, <3>2
      <4>2. ~(pt <= p)
        BY <1>1, <1>7
      <4> QED BY <3>2, <4>1, <4>2
    <3>3. CASE i - 1 \in n + 1 .. L /\ pr(i) = pq(i - 1) /\ i - 1 \in 1 .. L
      <4>1. i \in Int /\ ~(i - 1 <= n) /\ ~(i - 1 <= b) /\ ~(i <= b)
        BY <1>1, <1>4, <2>1, <3>3
      <4>2. ~(pq(i - 1) <= p)
        BY <1>1, <3>3, <4>1
      <4> QED BY <3>3, <4>1, <4>2
    <3> QED BY <1>5, <3>1, <3>2, <3>3
  <2>3. b \in 0 .. Len(r) /\ \A i \in 1 .. Len(r) : i <= b <=> priority[r[i]] <= p
    <3>1. b \in 0 .. L + 1
      BY <1>1, <1>4
    <3> QED BY <1>2, <2>2, <3>1 DEF pr
  <2>4. UpTo(r, p) = b
    BY <2>3, UpToUnique DEF Insertion
  <2> QED BY <1>1, <1>7, <2>1, <2>4 DEF b, pt
<1> QED BY <1>1, <1>6, <1>7 DEF pt

(* thread_add_to_list() appends the thread to the part of its priority and *)
(* leaves the other parts alone.                                           *)
LEMMA OfPriorityInserted ==
    ASSUME priority \in [Pids -> Prios], NEW q, NEW r, NEW t, NEW n, Insertion(q, r, t, n),
           NEW p \in Int
    PROVE  OfPriority(r, p) = IF p = priority[t] THEN Append(OfPriority(q, p), t)
                              ELSE OfPriority(q, p)
<1> DEFINE a == UpTo(q, p - 1)
           b == UpTo(q, p)
           L == Len(q)
           s == OfPriority(q, p)
           z == OfPriority(r, p)
           pt == priority[t]
<1>1. /\ q \in Seq(Pids) /\ r \in Seq(Pids) /\ t \in Pids /\ L \in Nat
      /\ SortedByPriority(q) /\ SortedByPriority(r) /\ p - 1 \in Int /\ pt \in Int
  BY DEF Insertion, Prios
<1>2. /\ n \in 0 .. L
      /\ \A i \in 1 .. n : r[i] = q[i]
      /\ r[n + 1] = t
      /\ \A i \in n + 1 .. L : r[i + 1] = q[i]
  BY DEF Insertion, InsertedAt
<1>3. /\ a \in Int /\ b \in Int /\ 0 <= a /\ a <= b /\ b <= L
      /\ s \in Seq(Pids) /\ Len(s) = b - a
      /\ \A i \in 1 .. b - a : s[i] = q[a + i]
  BY <1>1, OfPriorityFacts
<1>4. /\ UpTo(r, p - 1) \in Int /\ UpTo(r, p) \in Int
      /\ z \in Seq(Pids) /\ Len(z) = UpTo(r, p) - UpTo(r, p - 1)
      /\ \A i \in 1 .. UpTo(r, p) - UpTo(r, p - 1) : z[i] = r[UpTo(r, p - 1) + i]
  BY <1>1, OfPriorityFacts
<1>5. /\ pt <= p => UpTo(r, p) = b + 1 /\ n <= b
      /\ p < pt => UpTo(r, p) = b /\ b <= n
      /\ pt <= p - 1 => UpTo(r, p - 1) = a + 1 /\ n <= a
      /\ p - 1 < pt => UpTo(r, p - 1) = a /\ a <= n
  BY <1>1, UpToInserted
<1>6. n \in Int /\ 0 <= n /\ n <= L
  BY <1>1, <1>2
<1> HIDE DEF a, b, L, s, z, pt
<1>7. CASE p < pt
  <2>1. p - 1 < pt /\ p # pt
    BY <1>1, <1>7
  <2>2. Len(z) = Len(s) /\ Len(s) = b - a /\ b <= n /\ \A i \in 1 .. b - a : z[i] = r[a + i]
    BY <1>3, <1>4, <1>5, <1>7, <2>1
  <2>3. ASSUME NEW i \in 1 .. b - a PROVE z[i] = s[i]
    <3>1. a + i \in 1 .. n
      BY <1>3, <1>6, <2>2
    <3> QED BY <1>2, <1>3, <2>2, <3>1
  <2>4. z = s
    BY <1>3, <1>4, <2>2, <2>3, SameElements
  <2> QED BY <2>1, <2>4 DEF z, s, pt
<1>8. CASE p = pt
  <2>1. p - 1 < pt /\ pt <= p
    BY <1>1, <1>8
  <2>2. b = n
    <3>1. \A i \in 1 .. Len(q) : i <= n <=> priority[q[i]] <= p
      BY <1>8 DEF Insertion, pt
    <3> QED BY <1>1, <1>2, <3>1, UpToUnique DEF b, L
  <2>3. /\ Len(z) = (b + 1) - a /\ \A i \in 1 .. (b + 1) - a : z[i] = r[a + i]
    BY <1>4, <1>5, <2>1
  <2>4. /\ Append(s, t) \in Seq(Pids) /\ Len(Append(s, t)) = Len(s) + 1
        /\ \A i \in 1 .. Len(s) : Append(s, t)[i] = s[i]
        /\ Append(s, t)[Len(s) + 1] = t
    <3>1. s \in Seq(Pids) /\ t \in Pids
      BY <1>1, <1>3
    <3> QED BY <3>1
  <2>5. Len(z) = Len(Append(s, t))
    BY <1>3, <2>3, <2>4
  <2>6. ASSUME NEW i \in 1 .. (b + 1) - a PROVE z[i] = Append(s, t)[i]
    <3>1. z[i] = r[a + i]
      BY <2>3
    <3>2. CASE i \in 1 .. b - a
      <4>1. a + i \in 1 .. n
        BY <1>3, <1>6, <2>2, <3>2
      <4> QED BY <1>2, <1>3, <2>4, <3>1, <3>2, <4>1
    <3>3. CASE i = (b - a) + 1
      <4>1. a + i = n + 1
        BY <1>3, <1>6, <2>2, <3>3
      <4> QED BY <1>2, <1>3, <2>4, <3>1, <3>3, <4>1
    <3> QED BY <1>3, <3>2, <3>3
  <2>7. z = Append(s, t)
    BY <1>4, <2>3, <2>4, <2>5, <2>6, SameElements
  <2> QED BY <1>8, <2>7 DEF z, s, pt
<1>9. CASE pt < p
  <2>1. pt <= p - 1 /\ pt <= p /\ p # pt
    BY <1>1, <1>9
  <2>2. /\ UpTo(r, p) = b + 1 /\ UpTo(r, p - 1) = a + 1 /\ n <= a
    BY <1>5, <2>1
  <2>3. (b + 1) - (a + 1) = b - a
    BY <1>3
  <2>4. Len(z) = b - a /\ \A i \in 1 .. b - a : z[i] = r[(a + 1) + i]
    BY <1>4, <2>2, <2>3
  <2>5. ASSUME NEW i \in 1 .. b - a PROVE z[i] = s[i]
    <3>1. a + i \in n + 1 .. L /\ (a + 1) + i = (a + i) + 1
      <4>1. a \in Int /\ b \in Int /\ n \in Int /\ L \in Int /\ n <= a /\ b <= L
        BY <1>1, <1>3, <1>6, <2>2
      <4> QED BY <4>1
    <3>2. r[(a + i) + 1] = q[a + i]
      BY <1>2, <3>1
    <3> QED BY <1>3, <2>4, <3>1, <3>2
  <2>6. z = s
    BY <1>3, <1>4, <2>4, <2>5, SameElements
  <2> QED BY <2>1, <2>6 DEF z, s, pt
<1> QED BY <1>1, <1>7, <1>8, <1>9

(* thread_add_to_list() is such an insertion. *)
LEMMA AddInserts ==
    ASSUME priority \in [Pids -> Prios], NEW q \in Seq(Pids), NEW t \in Pids,
           t \notin InQueue(q), NoRepeats(q), SortedByPriority(q)
    PROVE  \E n \in 0 .. Len(q) : Insertion(q, thread_add_to_list(q, t), t, n)
<1> DEFINE r == thread_add_to_list(q, t)
<1>1. r \in Seq(Pids) /\ SortedByPriority(r)
  BY AddToList
<1>2. PICK n \in 0 .. Len(q) : /\ InsertedAt(q, r, t, n)
                               /\ \A i \in 1 .. n : priority[q[i]] <= priority[t]
                               /\ n = Len(q) \/ priority[q[n + 1]] > priority[t]
  BY AddToListInserts
<1> HIDE DEF r
<1>3. priority[t] \in Int
  BY DEF Prios
<1>4. \A i \in 1 .. Len(q) : i <= n <=> priority[q[i]] <= priority[t]
  BY <1>2, <1>3, Border
<1>5. Insertion(q, r, t, n)
  BY <1>1, <1>2, <1>4 DEF Insertion
<1> QED BY <1>5 DEF r

-----------------------------------------------------------------------------
(* The first waiter belongs to the part of the most urgent priority there  *)
(* is, and its removal takes it from that part alone.                      *)
LEMMA UpToTail ==
    ASSUME priority \in [Pids -> Prios], NEW q \in Seq(Pids), q # <<>>,
           SortedByPriority(q), Tail(q) \in Seq(Pids), SortedByPriority(Tail(q)), NEW p \in Int
    PROVE  /\ priority[Head(q)] <= p => UpTo(Tail(q), p) = UpTo(q, p) - 1 /\ 1 <= UpTo(q, p)
           /\ p < priority[Head(q)] => UpTo(Tail(q), p) = 0 /\ UpTo(q, p) = 0
<1> DEFINE b == UpTo(q, p)
           L == Len(q)
           r == Tail(q)
           ph == priority[Head(q)]
           pq(i) == priority[q[i]]
           pr(i) == priority[r[i]]
<1>1. b \in 0 .. L /\ \A i \in 1 .. L : i <= b <=> pq(i) <= p
  BY UpToFacts
<1>2. /\ Len(r) = L - 1 /\ \A i \in 1 .. Len(r) : r[i] = q[i + 1]
      /\ Head(q) \in Pids /\ Head(q) = q[1] /\ L \in Nat /\ L # 0 /\ 1 \in 1 .. L
  OBVIOUS
<1>3. /\ ph \in Int /\ ph = pq(1) /\ \A i \in 1 .. L - 1 : pr(i) = pq(i + 1)
  BY <1>2 DEF Prios
<1> HIDE DEF b, L, ph, pq, pr
<1>4. b \in Int /\ 0 <= b /\ b <= L /\ L \in Int /\ 1 <= L
  BY <1>1, <1>2
<1>5. 1 <= b <=> ph <= p
  BY <1>1, <1>2, <1>3
<1>6. ASSUME NEW i \in 1 .. L - 1 PROVE i <= b - 1 <=> pr(i) <= p
  <2>1. i + 1 \in 1 .. L /\ (i <= b - 1 <=> i + 1 <= b)
    BY <1>4
  <2> QED BY <1>1, <1>3, <2>1
<1>7. CASE ph <= p
  <2>1. b - 1 \in 0 .. Len(r) /\ 1 <= b
    BY <1>2, <1>4, <1>5, <1>7
  <2>2. \A i \in 1 .. Len(r) : i <= b - 1 <=> priority[r[i]] <= p
    BY <1>2, <1>6 DEF pr
  <2>3. UpTo(r, p) = b - 1
    BY <2>1, <2>2, UpToUnique
  <2>4. ~(p < ph)
    BY <1>3, <1>7
  <2> QED BY <2>1, <2>3, <2>4 DEF b, ph
<1>8. CASE p < ph
  <2>1. b = 0 /\ 0 \in 0 .. Len(r) /\ ~(ph <= p)
    BY <1>2, <1>3, <1>4, <1>5, <1>8
  <2>2. ASSUME NEW i \in 1 .. L - 1 PROVE i <= 0 <=> pr(i) <= p
    <3>1. ~(i <= 0) /\ ~(i <= b - 1)
      BY <2>1
    <3> QED BY <1>6, <3>1
  <2>3. \A i \in 1 .. Len(r) : i <= 0 <=> priority[r[i]] <= p
    BY <1>2, <2>2 DEF pr
  <2>4. UpTo(r, p) = 0
    BY <2>1, <2>3, UpToUnique
  <2> QED BY <2>1, <2>4 DEF b, ph
<1> QED BY <1>3, <1>7, <1>8 DEF ph

LEMMA OfPriorityTail ==
    ASSUME priority \in [Pids -> Prios], NEW q \in Seq(Pids), q # <<>>,
           NoRepeats(q), SortedByPriority(q), NEW p \in Int
    PROVE  /\ p < priority[Head(q)] =>
                OfPriority(q, p) = <<>> /\ OfPriority(Tail(q), p) = <<>>
           /\ p = priority[Head(q)] =>
                /\ OfPriority(q, p) # <<>> /\ Head(OfPriority(q, p)) = Head(q)
                /\ OfPriority(Tail(q), p) = Tail(OfPriority(q, p))
           /\ priority[Head(q)] < p => OfPriority(Tail(q), p) = OfPriority(q, p)
<1> DEFINE a == UpTo(q, p - 1)
           b == UpTo(q, p)
           L == Len(q)
           r == Tail(q)
           s == OfPriority(q, p)
           z == OfPriority(r, p)
           ph == priority[Head(q)]
<1>1. /\ r \in Seq(Pids) /\ SortedByPriority(r)
      /\ Head(q) \in Pids /\ p - 1 \in Int
  BY TailOfList
<1>2. /\ Len(r) = L - 1 /\ \A i \in 1 .. L - 1 : r[i] = q[i + 1]
      /\ Head(q) = q[1] /\ L \in Nat /\ ph \in Int
  BY <1>1 DEF Prios
<1>3. /\ a \in Int /\ b \in Int /\ 0 <= a /\ a <= b /\ b <= L
      /\ s \in Seq(Pids) /\ Len(s) = b - a
      /\ \A i \in 1 .. b - a : s[i] = q[a + i]
  BY <1>1, OfPriorityFacts
<1>4. /\ UpTo(r, p - 1) \in Int /\ UpTo(r, p) \in Int
      /\ z \in Seq(Pids) /\ Len(z) = UpTo(r, p) - UpTo(r, p - 1)
      /\ \A i \in 1 .. UpTo(r, p) - UpTo(r, p - 1) : z[i] = r[UpTo(r, p - 1) + i]
  BY <1>1, OfPriorityFacts
<1>5. /\ ph <= p => UpTo(r, p) = b - 1 /\ 1 <= b
      /\ p < ph => UpTo(r, p) = 0 /\ b = 0
      /\ ph <= p - 1 => UpTo(r, p - 1) = a - 1 /\ 1 <= a
      /\ p - 1 < ph => UpTo(r, p - 1) = 0 /\ a = 0
  BY <1>1, UpToTail
<1>6. \A x \in Seq(Pids) : Len(x) = 0 => x = <<>>
  OBVIOUS
<1> HIDE DEF a, b, L, r, s, z, ph
<1>7. CASE p < ph
  <2>1. p - 1 < ph /\ ~(p = ph) /\ ~(ph < p)
    BY <1>2, <1>7
  <2>2. Len(z) = 0 /\ Len(s) = 0
    BY <1>3, <1>4, <1>5, <1>7, <2>1
  <2>3. z = <<>> /\ s = <<>>
    BY <1>3, <1>4, <1>6, <2>2
  <2> QED BY <2>1, <2>3 DEF z, s, r, ph
<1>8. CASE p = ph
  <2>1. p - 1 < ph /\ ph <= p /\ ~(p < ph) /\ ~(ph < p)
    BY <1>2, <1>8
  <2>2. /\ a = 0 /\ 1 <= b /\ Len(s) = b /\ Len(z) = b - 1
        /\ \A i \in 1 .. b - 1 : z[i] = r[0 + i]
    BY <1>3, <1>4, <1>5, <2>1
  <2>3. ASSUME NEW i \in 1 .. b PROVE s[i] = q[i]
    <3>1. i \in 1 .. b - a /\ a + i = i
      BY <1>3, <2>2
    <3>2. s[i] = q[a + i]
      BY <1>3, <3>1
    <3> QED BY <3>1, <3>2
  <2>4. s # <<>>
    <3>1. Len(<<>>) = 0 /\ Len(s) # 0
      BY <1>3, <2>2
    <3> QED BY <3>1
  <2>5. /\ Head(s) = s[1] /\ Tail(s) \in Seq(Pids) /\ Len(Tail(s)) = b - 1
        /\ \A i \in 1 .. b - 1 : Tail(s)[i] = s[i + 1]
    <3>1. s \in Seq(Pids)
      BY <1>3
    <3>2. /\ Tail(s) \in Seq(Pids) /\ Len(Tail(s)) = Len(s) - 1
          /\ \A i \in 1 .. Len(Tail(s)) : Tail(s)[i] = s[i + 1]
      BY <2>4, <3>1
    <3>3. Head(s) = s[1]
      BY <2>4, <3>1
    <3> QED BY <2>2, <3>2, <3>3
  <2>6. Head(s) = Head(q)
    <3>1. 1 \in 1 .. b
      BY <1>3, <2>2
    <3> QED BY <1>2, <2>3, <2>5, <3>1
  <2>7. ASSUME NEW i \in 1 .. b - 1 PROVE z[i] = Tail(s)[i]
    <3>1. i + 1 \in 1 .. b /\ i \in 1 .. L - 1 /\ 0 + i = i
      <4>1. b \in Int /\ b <= L /\ L \in Int
        BY <1>2, <1>3
      <4> QED BY <4>1
    <3>2. z[i] = r[i] /\ r[i] = q[i + 1] /\ Tail(s)[i] = s[i + 1] /\ s[i + 1] = q[i + 1]
      BY <1>2, <2>2, <2>3, <2>5, <3>1
    <3> QED BY <3>2
  <2>8. z = Tail(s)
    BY <1>4, <2>2, <2>5, <2>7, SameElements
  <2> QED BY <1>8, <2>1, <2>4, <2>6, <2>8 DEF z, s, r, ph
<1>9. CASE ph < p
  <2>1. ph <= p - 1 /\ ph <= p /\ ~(p = ph) /\ ~(p < ph)
    BY <1>2, <1>9
  <2>2. UpTo(r, p) = b - 1 /\ UpTo(r, p - 1) = a - 1 /\ 1 <= a
    BY <1>5, <2>1
  <2>3. (b - 1) - (a - 1) = b - a
    BY <1>3
  <2>4. Len(z) = b - a /\ \A i \in 1 .. b - a : z[i] = r[(a - 1) + i]
    BY <1>4, <2>2, <2>3
  <2>5. ASSUME NEW i \in 1 .. b - a PROVE z[i] = s[i]
    <3>1. (a - 1) + i \in 1 .. L - 1 /\ ((a - 1) + i) + 1 = a + i
      <4>1. a \in Int /\ b \in Int /\ 1 <= a /\ b <= L /\ L \in Int
        BY <1>2, <1>3, <2>2
      <4> QED BY <4>1
    <3>2. r[(a - 1) + i] = q[((a - 1) + i) + 1]
      BY <1>2, <3>1
    <3> QED BY <1>3, <2>4, <3>1, <3>2
  <2>6. z = s
    BY <1>3, <1>4, <2>4, <2>5, SameElements
  <2> QED BY <2>1, <2>6 DEF z, s, r, ph
<1> QED BY <1>2, <1>7, <1>8, <1>9

-----------------------------------------------------------------------------
(* The refinement, one step of the mutex at a time.                        *)
LEMMA LockFacts ==
    ASSUME IInv, NEW m \in Mutexes \ Signals
    PROVE  /\ ~mutex[m].locked => LockOwner[m] = Abstract!Free
           /\ mutex[m].locked => LockOwner[m] # Abstract!Free
           /\ \A t : Owners(m) = {t} => LockOwner[m] = t
           /\ LockWaiting[m] = [p \in Prios |-> OfPriority(mutex[m].queue, p)]
           /\ mutex[m].queue \in Seq(Pids) /\ priority \in [Pids -> Prios]
           /\ NoRepeats(mutex[m].queue) /\ SortedByPriority(mutex[m].queue)
<1>1. LockOwner[m] = IF mutex[m].locked THEN Only(Owners(m)) ELSE 0
  BY DEF LockOwner, KERNEL_PID_UNDEF
<1>2. ASSUME NEW t, Owners(m) = {t} PROVE LockOwner[m] = t
  <2>1. mutex[m].locked
    BY <1>2 DEF IInv
  <2>2. Only({t}) = t
    BY DEF Only
  <2> QED BY <1>1, <1>2, <2>1, <2>2
<1>3. ASSUME mutex[m].locked PROVE LockOwner[m] # 0
  <2>1. PICK t \in Pids : Owners(m) = {t}
    BY <1>3 DEF IInv
  <2> QED BY <1>2, <2>1, PidFacts
<1>4. LockWaiting[m] = [p \in Prios |-> OfPriority(mutex[m].queue, p)]
  BY DEF LockWaiting
<1>5. /\ mutex[m].queue \in Seq(Pids) /\ priority \in [Pids -> Prios]
      /\ NoRepeats(mutex[m].queue) /\ SortedByPriority(mutex[m].queue)
  BY IInvFacts, OpsFacts DEF OpsInv
<1> QED BY <1>1, <1>2, <1>3, <1>4, <1>5 DEF Abstract!Free

(* Priorities do not change, so the parts of a list are the same before    *)
(* and after a step.                                                       *)
LEMMA WaitingNext ==
    ASSUME priority' = priority, NEW m \in Mutexes \ Signals
    PROVE  LockWaiting'[m] = [p \in Prios |-> OfPriority(mutex'[m].queue, p)]
<1>1. ASSUME NEW q, NEW p PROVE UpTo(q, p)' = UpTo(q, p)
  BY Zenon DEF UpTo
<1>2. ASSUME NEW q, NEW p PROVE OfPriority(q, p)' = OfPriority(q, p)
  BY <1>1 DEF OfPriority
<1>3. LockWaiting'[m] = [p \in Prios |-> OfPriority(mutex[m].queue, p)']
  BY Zenon DEF LockWaiting
<1> QED BY <1>2, <1>3

(* The owner after a step. *)
LEMMA OwnerNext ==
    ASSUME NEW m \in Mutexes \ Signals
    PROVE  LockOwner'[m] = IF mutex'[m].locked THEN Only(Owners(m)') ELSE Abstract!Free
BY DEF LockOwner, KERNEL_PID_UNDEF, Abstract!Free

LEMMA SameLock ==
    ASSUME priority' = priority, NEW m \in Mutexes \ Signals,
           Owners(m)' = Owners(m), mutex'[m] = mutex[m]
    PROVE  LockOwner'[m] = LockOwner[m] /\ LockWaiting'[m] = LockWaiting[m]
<1>1. LockOwner'[m] = LockOwner[m]
  BY DEF LockOwner
<1>2. LockWaiting'[m] = LockWaiting[m]
  BY WaitingNext DEF LockWaiting
<1> QED BY <1>1, <1>2

(* The state of the abstract lock after a step that changes mutex m only.  *)
LEMMA LockNext ==
    ASSUME priority' = priority, NEW m \in Mutexes \ Signals,
           \A n \in (Mutexes \ Signals) \ {m} :
                Owners(n)' = Owners(n) /\ mutex'[n] = mutex[n]
    PROVE  /\ LockOwner' = [LockOwner EXCEPT ![m] = LockOwner'[m]]
           /\ LockWaiting' = [LockWaiting EXCEPT ![m] = LockWaiting'[m]]
<1> DEFINE Locks == Mutexes \ Signals
<1>1. \A n \in Locks \ {m} : LockOwner'[n] = LockOwner[n] /\ LockWaiting'[n] = LockWaiting[n]
  BY SameLock
<1>2. /\ LockOwner = [n \in Locks |-> LockOwner[n]] /\ LockOwner' = [n \in Locks |-> LockOwner'[n]]
      /\ LockWaiting = [n \in Locks |-> LockWaiting[n]]
      /\ LockWaiting' = [n \in Locks |-> LockWaiting'[n]]
  BY Zenon DEF LockOwner, LockWaiting
<1> HIDE DEF Locks
<1>3. m \in Locks
  BY DEF Locks
<1> QED BY <1>1, <1>2, <1>3

LEMMA LockStutters ==
    ASSUME priority' = priority,
           \A n \in Mutexes \ Signals : Owners(n)' = Owners(n) /\ mutex'[n] = mutex[n]
    PROVE  UNCHANGED <<LockOwner, LockWaiting>>
<1>1. \A n \in Mutexes \ Signals :
            LockOwner'[n] = LockOwner[n] /\ LockWaiting'[n] = LockWaiting[n]
  BY SameLock
<1>2. LockOwner' = LockOwner
  BY <1>1 DEF LockOwner
<1>3. LockWaiting' = LockWaiting
  BY <1>1 DEF LockWaiting
<1> QED BY <1>2, <1>3

(* Taking a free mutex is Acquire. *)
LEMMA LockFreeRefines ==
    ASSUME IInv, IInv', NEW t \in Pids, NEW m \in Mutexes \ Signals, LockFree(t, m)
    PROVE  Abstract!Acquire(t, m)
<1>1. /\ UNCHANGED schedVars /\ ~mutex[m].locked /\ mutex[m].queue = <<>>
      /\ mutex' = [mutex EXCEPT ![m] = [locked |-> TRUE, queue |-> <<>>]]
  BY IInvFacts, TakesFreeStep DEF LockFree, TakesFree
<1>2. /\ priority' = priority /\ mutex'[m].queue = mutex[m].queue
      /\ \A n \in Mutexes \ {m} : mutex'[n] = mutex[n]
  BY <1>1, IInvFacts DEF schedVars
<1>3. (\A n \in Mutexes \ {m} : Owners(n)' = Owners(n)) /\ Owners(m)' = {t}
  BY LockFreeOwners
<1>4. /\ LockOwner' = [LockOwner EXCEPT ![m] = LockOwner'[m]]
      /\ LockWaiting' = [LockWaiting EXCEPT ![m] = LockWaiting'[m]]
  BY <1>2, <1>3, LockNext
<1>5. LockOwner[m] = Abstract!Free
  BY <1>1, LockFacts
<1>6. LockOwner'[m] = t
  <2>1. mutex'[m].locked
    BY <1>1, IInvFacts
  <2>2. Only({t}) = t
    BY DEF Only
  <2> QED BY <1>3, <2>1, <2>2, OwnerNext
<1>7. LockWaiting'[m] = LockWaiting[m]
  <2>1. /\ LockWaiting'[m] = [p \in Prios |-> OfPriority(mutex'[m].queue, p)]
        /\ LockWaiting[m] = [p \in Prios |-> OfPriority(mutex[m].queue, p)]
    BY <1>2, LockFacts, WaitingNext
  <2> QED BY <1>2, <2>1
<1>8. LockWaiting' = LockWaiting
  BY <1>4, <1>7 DEF LockWaiting
<1> QED BY <1>4, <1>5, <1>6, <1>8 DEF Abstract!Acquire

(* Blocking is Wait: the thread queues behind those of its priority. *)
LEMMA LockBlocksRefines ==
    ASSUME IInv, NEW t \in Pids, NEW m \in Mutexes \ Signals, LockBlocks(t, m)
    PROVE  Abstract!Wait(t, m)
<1> DEFINE q == mutex[m].queue
           r == thread_add_to_list(q, t)
<1>1. /\ mutex[m].locked /\ priority' = priority /\ Runs(t)
      /\ mutex' = [mutex EXCEPT ![m] = [locked |-> TRUE, queue |-> r]]
  BY IInvFacts, BlocksStep DEF LockBlocks, Blocks, Calls, InThread
<1> HIDE DEF r
<1>2. /\ mutex'[m].locked /\ mutex'[m].queue = r
      /\ \A n \in Mutexes \ {m} : mutex'[n] = mutex[n]
  BY <1>1, IInvFacts
<1>3. \A n \in Mutexes : Owners(n)' = Owners(n)
  BY LockBlocksOwners
<1>4. /\ LockOwner' = [LockOwner EXCEPT ![m] = LockOwner'[m]]
      /\ LockWaiting' = [LockWaiting EXCEPT ![m] = LockWaiting'[m]]
  BY <1>1, <1>2, <1>3, LockNext
<1>5. LockOwner[m] # Abstract!Free
  BY <1>1, LockFacts
<1>6. LockOwner' = LockOwner
  <2>1. LockOwner'[m] = LockOwner[m]
    BY <1>1, <1>2, <1>3, OwnerNext DEF LockOwner
  <2> QED BY <1>4, <2>1 DEF LockOwner
<1>7. \A p \in Prios : OfPriority(r, p) = IF p = Prio[t] THEN Append(OfPriority(q, p), t)
                                          ELSE OfPriority(q, p)
  <2>1. t \notin InQueue(q) /\ priority = Prio
    BY <1>1, IInvFacts, RunnerWaitsNowhere
  <2>2. PICK n \in 0 .. Len(q) : Insertion(q, r, t, n)
    BY <2>1, LockFacts, AddInserts DEF r
  <2>3. \A p \in Prios : p \in Int
    BY DEF Prios
  <2>4. ASSUME NEW p \in Prios
        PROVE  OfPriority(r, p) = IF p = priority[t] THEN Append(OfPriority(q, p), t)
                                  ELSE OfPriority(q, p)
    <3>1. p \in Int /\ priority \in [Pids -> Prios]
      BY <2>3, LockFacts
    <3> HIDE DEF q
    <3> QED BY <2>2, <3>1, OfPriorityInserted
  <2> QED BY <2>1, <2>4
<1>8. LockWaiting'[m] = [LockWaiting[m] EXCEPT ![Prio[t]] = Append(@, t)]
  <2>1. /\ LockWaiting'[m] = [p \in Prios |-> OfPriority(r, p)]
        /\ LockWaiting[m] = [p \in Prios |-> OfPriority(q, p)]
    BY <1>1, <1>2, LockFacts, WaitingNext
  <2>2. Prio[t] \in Prios
    BY PrioAssumption
  <2>3. LockWaiting[m][Prio[t]] = OfPriority(q, Prio[t])
    BY <2>1, <2>2
  <2> DEFINE w == LockWaiting[m]
             f(p) == OfPriority(q, p)
             g(p) == OfPriority(r, p)
  <2>4. /\ LockWaiting'[m] = [p \in Prios |-> g(p)] /\ w = [p \in Prios |-> f(p)]
        /\ g(Prio[t]) = Append(w[Prio[t]], t)
        /\ \A p \in Prios : p # Prio[t] => g(p) = f(p)
    BY <1>7, <2>1, <2>2, <2>3
  <2> HIDE DEF w, f, g
  <2>5. LockWaiting'[m] = [w EXCEPT ![Prio[t]] = Append(w[Prio[t]], t)]
    BY <2>2, <2>4
  <2> QED BY <2>5 DEF w
<1>9. LockWaiting' = [LockWaiting EXCEPT ![m][Prio[t]] = Append(@, t)]
  BY <1>4, <1>8
<1> QED BY <1>5, <1>6, <1>9 DEF Abstract!Wait

(* An unlock by the owner is Release, or HandOver to the first waiter of   *)
(* the most urgent priority that has one.                                  *)
LEMMA ReleaseRefines ==
    ASSUME IInv, NEW t \in Pids, NEW m \in Mutexes \ Signals, <<t, m>> \in held,
           locking[t] = None, UNCHANGED <<locking, priority>>,
           mutex' = [mutex EXCEPT ![m] = Unlocked(@)], held' = {h \in held : h[2] # m}
    PROVE  Abstract!Release(m) \/ \E p \in Prios : Abstract!HandOver(m, p)
<1> DEFINE q == mutex[m].queue
<1>1. /\ \A n \in Mutexes \ {m} : Owners(n)' = Owners(n) /\ mutex'[n] = mutex[n]
      /\ mutex[m].locked /\ mutex'[m] = Unlocked(mutex[m])
      /\ Owners(m)' = IF q = <<>> THEN {} ELSE {Head(q)}
  BY IInvFacts, ReleaseOwners
<1>2. /\ LockOwner' = [LockOwner EXCEPT ![m] = LockOwner'[m]]
      /\ LockWaiting' = [LockWaiting EXCEPT ![m] = LockWaiting'[m]]
  BY <1>1, LockNext
<1>3. /\ LockOwner[m] # Abstract!Free
      /\ LockWaiting[m] = [p \in Prios |-> OfPriority(q, p)]
      /\ LockWaiting'[m] = [p \in Prios |-> OfPriority(mutex'[m].queue, p)]
      /\ q \in Seq(Pids) /\ priority \in [Pids -> Prios] /\ NoRepeats(q) /\ SortedByPriority(q)
  BY <1>1, LockFacts, WaitingNext
<1>4. \A p \in Prios : p \in Int
  BY DEF Prios
<1>5. CASE q = <<>>
  <2>1. mutex'[m] = [locked |-> FALSE, queue |-> <<>>]
    BY <1>1, <1>5, IInvFacts, UnlockedFacts
  <2>2. mutex'[m].locked = FALSE /\ mutex'[m].queue = q
    <3>1. /\ [locked |-> FALSE, queue |-> <<>>].locked = FALSE
          /\ [locked |-> FALSE, queue |-> <<>>].queue = <<>>
      OBVIOUS
    <3> QED BY <1>5, <2>1, <3>1, Zenon
  <2>3. LockOwner'[m] = Abstract!Free
    BY <2>2, OwnerNext
  <2>4. LockWaiting'[m] = LockWaiting[m]
    BY <1>3, <2>2
  <2>5. LockWaiting' = LockWaiting
    BY <1>2, <2>4 DEF LockWaiting
  <2>6. ASSUME NEW p \in Prios PROVE OfPriority(q, p) = <<>>
    <3> DEFINE s == OfPriority(q, p)
               a == UpTo(q, p - 1)
               b == UpTo(q, p)
    <3>1. /\ a \in Int /\ b \in Int /\ 0 <= a /\ a <= b /\ b <= Len(q)
          /\ s \in Seq(Pids) /\ Len(s) = b - a
      BY <1>3, <1>4, OfPriorityFacts
    <3>2. Len(q) = 0
      BY <1>5
    <3> HIDE DEF s, a, b, q
    <3>3. Len(s) = 0
      BY <3>1, <3>2
    <3>4. s = <<>>
      BY <3>1, <3>3
    <3> QED BY <3>4 DEF s, q
  <2>7. \A p \in Prios : LockWaiting[m][p] = <<>>
    BY <1>3, <2>6
  <2>8. Abstract!Release(m)
    BY <1>2, <1>3, <2>3, <2>5, <2>7 DEF Abstract!Release
  <2> QED BY <2>8
<1>6. CASE q # <<>>
  <2> DEFINE h == Head(q)
             p == priority[h]
             f(r) == OfPriority(q, r)
             g(r) == OfPriority(Tail(q), r)
  <2>1. h \in Pids /\ mutex'[m] = [locked |-> TRUE, queue |-> Tail(q)]
    BY <1>1, <1>6, IInvFacts, UnlockedFacts
  <2>2. mutex'[m].locked = TRUE /\ mutex'[m].queue = Tail(q)
    <3>1. /\ [locked |-> TRUE, queue |-> Tail(q)].locked = TRUE
          /\ [locked |-> TRUE, queue |-> Tail(q)].queue = Tail(q)
      OBVIOUS
    <3> QED BY <2>1, <3>1, Zenon
  <2>3. p \in Prios
    BY <1>3, <2>1
  <2>4. ASSUME NEW r \in Prios
        PROVE  /\ r < p => f(r) = <<>> /\ g(r) = <<>>
               /\ r = p => f(r) # <<>> /\ Head(f(r)) = h /\ g(r) = Tail(f(r))
               /\ p < r => g(r) = f(r)
    BY <1>3, <1>4, <1>6, OfPriorityTail
  <2>5. LockOwner'[m] = h
    <3>1. Only({h}) = h
      BY DEF Only
    <3>2. Owners(m)' = {h}
      BY <1>1, <1>6
    <3> QED BY <2>2, <3>1, <3>2, OwnerNext
  <2>6. LockWaiting[m] = [r \in Prios |-> f(r)] /\ LockWaiting'[m] = [r \in Prios |-> g(r)]
    BY <1>3, <2>2
  <2> HIDE DEF f, g, p, h
  <2>7. /\ LockWaiting[m][p] # <<>> /\ Head(LockWaiting[m][p]) = h
        /\ \A r \in Prios : r < p => LockWaiting[m][r] = <<>>
    BY <2>3, <2>4, <2>6
  <2>8. LockWaiting'[m] = [LockWaiting[m] EXCEPT ![p] = Tail(LockWaiting[m][p])]
    <3> DEFINE w == LockWaiting[m]
    <3>1. w = [r \in Prios |-> f(r)] /\ LockWaiting'[m] = [r \in Prios |-> g(r)]
      BY <2>6
    <3> HIDE DEF w
    <3>2. g(p) = Tail(w[p])
      BY <2>3, <2>4, <3>1
    <3>3. \A r \in Prios : r # p => g(r) = f(r)
      <4>1. ASSUME NEW r \in Prios, r # p PROVE r < p \/ p < r
        BY <1>4, <2>3, <4>1
      <4> QED BY <2>4, <4>1
    <3>4. LockWaiting'[m] = [w EXCEPT ![p] = Tail(w[p])]
      BY <2>3, <3>1, <3>2, <3>3
    <3> QED BY <3>4 DEF w
  <2>9. Abstract!HandOver(m, p)
    <3>1. LockOwner' = [LockOwner EXCEPT ![m] = Head(LockWaiting[m][p])]
      BY <1>2, <2>5, <2>7
    <3>2. LockWaiting' = [LockWaiting EXCEPT ![m][p] = Tail(@)]
      BY <1>2, <2>8
    <3> QED BY <1>3, <2>7, <3>1, <3>2 DEF Abstract!HandOver
  <2> QED BY <2>3, <2>9
<1> QED BY <1>5, <1>6

LEMMA StepRefines ==
    ASSUME IInv, IInv', [Next]_vars, ~YieldWindow
    PROVE  [Abstract!Next]_<<LockOwner, LockWaiting>>
<1>1. ASSUME NEW t \in Pids, NEW m \in Mutexes, LockFree(t, m)
      PROVE  Abstract!Next \/ UNCHANGED <<LockOwner, LockWaiting>>
  <2>1. CASE m \notin Signals
    <3>1. Abstract!Acquire(t, m)
      BY <1>1, <2>1, LockFreeRefines
    <3> QED BY <2>1, <3>1 DEF Abstract!Next
  <2>2. CASE m \in Signals
    <3>1. UNCHANGED schedVars /\ \A n \in Mutexes \ {m} : mutex'[n] = mutex[n]
      BY <1>1, IInvFacts, TakesFreeStep DEF LockFree
    <3>2. priority' = priority /\ \A n \in Mutexes \ Signals :
                Owners(n)' = Owners(n) /\ mutex'[n] = mutex[n]
      BY <1>1, <2>2, <3>1, LockFreeOwners DEF schedVars
    <3> QED BY <3>2, LockStutters
  <2> QED BY <2>1, <2>2
<1>2. ASSUME NEW t \in Pids, NEW m \in Mutexes, LockBlocks(t, m)
      PROVE  Abstract!Next \/ UNCHANGED <<LockOwner, LockWaiting>>
  <2>1. CASE m \notin Signals
    <3>1. Abstract!Wait(t, m)
      BY <1>2, <2>1, LockBlocksRefines
    <3> QED BY <2>1, <3>1 DEF Abstract!Next
  <2>2. CASE m \in Signals
    <3>1. priority' = priority /\ \A n \in Mutexes \ {m} : mutex'[n] = mutex[n]
      BY <1>2, IInvFacts, BlocksStep DEF LockBlocks
    <3>2. \A n \in Mutexes \ Signals : Owners(n)' = Owners(n) /\ mutex'[n] = mutex[n]
      BY <1>2, <2>2, <3>1, LockBlocksOwners
    <3> QED BY <3>1, <3>2, LockStutters
  <2> QED BY <2>1, <2>2
<1>3. ASSUME NEW t \in Pids, LockReturns(t) PROVE UNCHANGED <<LockOwner, LockWaiting>>
  <2>1. priority' = priority /\ mutex' = mutex
    BY <1>3 DEF LockReturns, Returns, schedVars
  <2> QED BY <1>3, <2>1, LockReturnsOwners, LockStutters
<1>4. ASSUME NEW t \in Pids, NEW m \in Mutexes, UnlockAndSleep(t, m) PROVE Abstract!Next
  <2>1. /\ UNCHANGED <<locking, priority>> /\ mutex' = [mutex EXCEPT ![m] = Unlocked(@)]
        /\ <<t, m>> \in held /\ m \notin Signals /\ locking[t] = None
        /\ held' = {h \in held : h[2] # m}
    BY <1>4 DEF UnlockAndSleep, mutex_unlock_and_sleep, Calls, KeepsContext
  <2> QED BY <2>1, ReleaseRefines DEF Abstract!Next
<1>5. ASSUME NEW m \in Mutexes, UnlockCall(m)
      PROVE  Abstract!Next \/ UNCHANGED <<LockOwner, LockWaiting>>
  <2>1. /\ UNCHANGED <<locking, priority>> /\ mutex' = [mutex EXCEPT ![m] = Unlocked(@)]
        /\ mutex_unlock(m) /\ held' = {h \in held : h[2] # m}
    BY <1>5 DEF UnlockCall, mutex_unlock, KeepsContext
  <2>2. CASE m \in Signals
    BY <2>1, <2>2, SignalOwners, LockStutters
  <2>3. CASE m \notin Signals
    <3>1. PICK t \in Pids : locking[t] = None /\ <<t, m>> \in held
      BY <1>5, <2>3 DEF UnlockCall, MayUnlock, Calls
    <3> QED BY <2>1, <2>3, <3>1, ReleaseRefines DEF Abstract!Next
  <2> QED BY <2>2, <2>3
<1>6. ASSUME priority' = priority, UNCHANGED mutexVars
      PROVE  UNCHANGED <<LockOwner, LockWaiting>>
  <2>1. mutex' = mutex
    BY <1>6 DEF mutexVars, mutexOpsVars
  <2> QED BY <1>6, <2>1, SameOwners, LockStutters
<1>7. ASSUME OtherCall \/ (SchedStep /\ UNCHANGED mutexVars) \/ UNCHANGED vars
      PROVE  priority' = priority /\ UNCHANGED mutexVars
  <2>1. UNCHANGED mutexVars
    BY <1>7 DEF OtherCall, vars
  <2>2. priority' = priority
    BY IInvFacts DEF IInv
  <2> QED BY <2>1, <2>2
<1> QED BY <1>1, <1>2, <1>3, <1>4, <1>5, <1>6, <1>7 DEF Next, MutexStep

(* core/mutex.c implements the abstract lock: a release passes the lock    *)
(* straight to the waiter of the most urgent priority, first come first    *)
(* served among equals.                                                    *)
THEOREM MutexImplementsLock == ASSUME ~YieldWindow PROVE Spec => ImplementsLock
<1>1. Init => Abstract!Init
  <2> SUFFICES ASSUME Init PROVE Abstract!Init
    OBVIOUS
  <2>1. ASSUME NEW m \in Mutexes \ Signals PROVE ~mutex[m].locked /\ mutex[m].queue = <<>>
    <3>1. mutex[m].locked = (m \in Signals)
      BY <2>1, Zenon DEF Init, MutexInit
    <3>2. mutex[m].queue = <<>>
      BY <2>1 DEF Init, MutexInit
    <3> QED BY <2>1, <3>1, <3>2
  <2>2. LockOwner = [m \in Mutexes \ Signals |-> Abstract!Free]
    BY <2>1 DEF LockOwner, KERNEL_PID_UNDEF, Abstract!Free
  <2>3. ASSUME NEW p \in Prios PROVE OfPriority(<<>>, p) = <<>>
    <3>1. UpTo(<<>>, p) \in 0 .. 0 /\ UpTo(<<>>, p - 1) \in 0 .. 0
      <4>1. /\ <<>> \in Seq(Pids) /\ Len(<<>>) = 0 /\ priority \in [Pids -> Prios]
            /\ SortedByPriority(<<>>) /\ p \in Int /\ p - 1 \in Int
        BY PrioAssumption DEF Init, MutexInit, SchedInit, SortedByPriority, Prios
      <4> QED BY <4>1, UpToFacts
    <3>2. UpTo(<<>>, p) = 0 /\ UpTo(<<>>, p - 1) + 1 = 1
      BY <3>1
    <3>3. SubSeq(<<>>, 1, 0) = <<>>
      OBVIOUS
    <3> QED BY <3>2, <3>3 DEF OfPriority
  <2>4. LockWaiting = [m \in Mutexes \ Signals |-> [p \in Prios |-> <<>>]]
    BY <2>1, <2>3 DEF LockWaiting
  <2> QED BY <2>2, <2>4 DEF Abstract!Init
<1>2. IInv /\ IInv' /\ [Next]_vars => [Abstract!Next]_<<LockOwner, LockWaiting>>
  BY StepRefines
<1> QED BY <1>1, <1>2, MutexInvariant, PTL DEF Spec, ImplementsLock, Abstract!Spec
-----------------------------------------------------------------------------
(* core/include/cib.h.  There are never more indices out than the buffer   *)
(* has entries.                                                            *)
CibSize == (mask + 1) % 2^W

CibInv ==
    /\ CibTypeOK
    /\ \E n \in Sizes : mask = (n - 1) % 2^W
    /\ cib_avail = Len(fifo) /\ Len(fifo) <= CibSize
    /\ \A i \in DOMAIN fifo : fifo[i] = Index((read_count + i - 1) % 2^W)
    /\ ret.op = "put" /\ ret.value = -1 => cib_full
    /\ ret.op = "get" /\ ret.value = -1 => fifo = <<>> \/ write_count < read_count

LEMMA PowerFacts == /\ 2^W \in Nat /\ 2^W > 1
                    /\ 2^(W-1) \in Nat /\ 2^W = 2 * 2^(W-1) /\ 2^(W-1) > 0
BY PowersOfTwo

(* The mask of a buffer of size 0 is the greatest number, -1 as an int. *)
LEMMA MaskFacts ==
    ASSUME NEW n \in Sizes, mask = (n - 1) % 2^W
    PROVE  /\ n \in Nat /\ CibSize = n /\ n < 2^(W-1) /\ Signed(mask) = n - 1
           /\ n > 0 => mask + 1 = n /\ \E p \in Nat : p > 0 /\ 2^W = n * p
<1> DEFINE h == 2^(W-1)
           m == 2^W
<1>1. m \in Nat /\ h \in Nat /\ m = 2 * h /\ h > 0 /\ n \in Nat
  BY PowerFacts, CibAssumption
<1>2. n = 0 \/ n <= (h - 1) \div 2
  BY CibAssumption
<1>3. n > 0 => \E p \in Nat : p > 0 /\ m = n * p
  <2>1. \A p \in 1 .. m : p \in Nat /\ p > 0
    BY <1>1
  <2>2. n > 0 => \E p \in 1 .. m : m = n * p
    <3>1. n > 0 => n \in Sizes \ {0}
      BY <1>1
    <3> QED BY <3>1, PowersOfTwo
  <2> QED BY <2>1, <2>2
<1>4. mask = (n - 1) % m
  OBVIOUS
<1>5. CibSize = (mask + 1) % m /\ Signed(mask) = IF mask < h THEN mask ELSE mask - m
  BY DEF CibSize, Signed
<1> HIDE DEF h, m
<1>6. n < h
  BY <1>1, <1>2
<1>7. CASE n = 0
  <2>1. mask = m - 1
    BY <1>1, <1>4, <1>7, ModSmall
  <2>2. CibSize = 0
    BY <1>1, <1>5, <2>1
  <2> QED BY <1>1, <1>5, <1>6, <1>7, <2>1, <2>2 DEF h
<1>8. CASE n > 0
  <2>1. mask = n - 1
    BY <1>1, <1>4, <1>6, <1>8, ModSmall
  <2>2. CibSize = n
    BY <1>1, <1>5, <1>6, <2>1, ModSmall
  <2> QED BY <1>1, <1>3, <1>5, <1>6, <1>8, <2>1, <2>2 DEF h, m
<1> QED BY <1>1, <1>7, <1>8

(* cib_full() compares signed numbers, which does not matter as long as    *)
(* there are not more indices out than the buffer has entries.             *)
LEMMA FullFacts ==
    ASSUME \E n \in Sizes : mask = (n - 1) % 2^W, cib_avail \in Nat, cib_avail <= CibSize
    PROVE  /\ cib_full <=> cib_avail = CibSize
           /\ Signed(cib_avail) <= Signed(mask) <=> cib_avail < CibSize
           /\ Signed(cib_avail) > Signed(mask) <=> cib_avail = CibSize
<1>1. PICK n \in Sizes : mask = (n - 1) % 2^W
  OBVIOUS
<1>2. n \in Nat /\ CibSize = n /\ n < 2^(W-1) /\ Signed(mask) = n - 1
  BY <1>1, MaskFacts
<1>3. Signed(cib_avail) = cib_avail
  BY <1>2, PowerFacts DEF Signed
<1>4. \A a, k \in Nat : a <= k => /\ a > k - 1 <=> a = k
                                  /\ a <= k - 1 <=> a < k
  OBVIOUS
<1>5. /\ Signed(cib_avail) <= Signed(mask) <=> cib_avail < CibSize
      /\ Signed(cib_avail) > Signed(mask) <=> cib_avail = CibSize
  BY <1>2, <1>3, <1>4
<1> QED BY <1>5 DEF cib_full

(* An index of the buffer, if it has any. *)
LEMMA IndexFacts ==
    ASSUME \E n \in Sizes : mask = (n - 1) % 2^W, CibSize > 0, NEW x \in Int
    PROVE  /\ Index(x % 2^W) = x % CibSize /\ Index(x % 2^W) \in UInt
           /\ CibSize \in Nat
<1>1. PICK n \in Sizes : mask = (n - 1) % 2^W
  OBVIOUS
<1>2. n \in Nat /\ CibSize = n /\ n < 2^(W-1)
  BY <1>1, MaskFacts
<1>3. n > 0 /\ mask + 1 = n /\ \E p \in Nat : p > 0 /\ 2^W = n * p
  BY <1>1, <1>2, MaskFacts
<1>4. (x % 2^W) % n = x % n
  <2>1. PICK p \in Nat : p > 0 /\ 2^W = n * p
    BY <1>3
  <2>2. (x % (n * p)) % n = x % n
    BY <1>2, <1>3, <2>1, ModOfMod
  <2> QED BY <2>1, <2>2
<1>5. x % n \in 0 .. n - 1
  BY <1>2, <1>3
<1>6. x % n \in UInt
  BY <1>2, <1>5, PowerFacts DEF UInt
<1> QED BY <1>2, <1>3, <1>4, <1>6 DEF Index

LEMMA CibPuts ==
    ASSUME CibInv, cib_avail < CibSize, Puts
    PROVE  CibInv'
<1> DEFINE m == 2^W
           r == read_count
           w == write_count
           k == Len(fifo)
<1>1. /\ m \in Nat /\ m > 0 /\ r \in 0 .. m - 1 /\ w \in 0 .. m - 1
      /\ fifo \in Seq(UInt) /\ k \in Nat /\ (w - r) % m = k
  BY PowerFacts DEF CibInv, CibTypeOK, UInt, cib_avail
<1>2. /\ w' = (w + 1) % m /\ fifo' = Append(fifo, Index(w)) /\ r' = r /\ mask' = mask
      /\ ret' = [op |-> "put", value |-> Index(w)]
  BY DEF Puts, Inc
<1>3. PICK n \in Sizes : mask = (n - 1) % 2^W
  BY DEF CibInv
<1>4. n \in Nat /\ CibSize = n /\ n < 2^(W-1) /\ CibSize' = n
  BY <1>2, <1>3, MaskFacts DEF CibSize
<1>5. k < n /\ k + 1 < m /\ CibSize > 0
  BY <1>1, <1>4, PowerFacts DEF CibInv
<1>6. /\ (r + k) % m = w /\ (w' - r) % m = k + 1 /\ w' \in 0 .. m - 1
  <2> HIDE DEF m, r, w, k
  <2> QED BY <1>1, <1>2, <1>5, CountFacts
<1>7. Index(w) \in UInt /\ Index(w) = Index((r + k) % m)
  <2>1. r + k \in Int
    BY <1>1
  <2>2. Index((r + k) % m) \in UInt
    BY <1>3, <1>5, <2>1, IndexFacts
  <2> QED BY <1>6, <2>2
<1>8. fifo' \in Seq(UInt) /\ Len(fifo') = k + 1
  BY <1>1, <1>2, <1>7
<1>9. \A i \in DOMAIN fifo' : fifo'[i] = Index((r + i - 1) % m)
  <2> SUFFICES ASSUME NEW i \in 1 .. k + 1 PROVE fifo'[i] = Index((r + i - 1) % m)
    BY <1>8
  <2>1. CASE i <= k
    <3>1. i \in DOMAIN fifo /\ fifo'[i] = fifo[i]
      BY <1>1, <1>2, <2>1
    <3> QED BY <3>1 DEF CibInv
  <2>2. CASE i = k + 1
    <3>1. fifo'[i] = Index(w) /\ r + i - 1 = r + k
      BY <1>1, <1>2, <2>2
    <3> QED BY <1>7, <3>1
  <2> QED BY <1>1, <2>1, <2>2
<1>10. /\ w' \in UInt /\ r' \in UInt /\ mask' \in UInt
       /\ ret'.value = Index(w) /\ ret'.op = "put" /\ Index(w) # -1
  BY <1>2, <1>6, <1>7, PowerFacts DEF CibInv, CibTypeOK, UInt
<1>11. CibTypeOK'
  BY <1>7, <1>8, <1>10 DEF CibTypeOK
<1>12. cib_avail' = Len(fifo') /\ Len(fifo') <= CibSize'
  BY <1>1, <1>2, <1>4, <1>5, <1>6, <1>8 DEF cib_avail
<1>13. \A i \in DOMAIN fifo' : fifo'[i] = Index((read_count + i - 1) % 2^W)'
  BY <1>2, <1>9 DEF Index
<1> QED BY <1>2, <1>3, <1>10, <1>11, <1>12, <1>13 DEF CibInv

LEMMA CibGets ==
    ASSUME CibInv, cib_avail # 0, Gets
    PROVE  CibInv'
<1> DEFINE m == 2^W
           r == read_count
           w == write_count
           k == Len(fifo)
<1>1. /\ m \in Nat /\ m > 0 /\ r \in 0 .. m - 1 /\ w \in 0 .. m - 1
      /\ fifo \in Seq(UInt) /\ k \in Nat /\ (w - r) % m = k /\ k > 0
  BY PowerFacts DEF CibInv, CibTypeOK, UInt, cib_avail
<1>2. /\ r' = (r + 1) % m /\ fifo' = Tail(fifo) /\ w' = w /\ mask' = mask
      /\ ret' = [op |-> "get", value |-> Index(r)]
  BY DEF Gets, Inc
<1>3. /\ \E n \in Sizes : mask = (n - 1) % 2^W
      /\ \E n \in Sizes : mask' = (n - 1) % 2^W
      /\ k <= CibSize /\ CibSize' = CibSize /\ CibSize \in Int /\ CibSize > 0
  <2>1. PICK n \in Sizes : mask = (n - 1) % 2^W
    BY DEF CibInv
  <2>2. n \in Nat /\ CibSize = n /\ CibSize' = n
    BY <1>2, <2>1, MaskFacts DEF CibSize
  <2> QED BY <1>1, <1>2, <2>1, <2>2 DEF CibInv
<1>4. (w - r') % m = k - 1 /\ r' \in 0 .. m - 1
  <2> HIDE DEF m, r, w, k
  <2> QED BY <1>1, <1>2, CountFacts
<1>5. Index(r) \in UInt
  <2>1. r % m = r
    BY <1>1, ModSmall
  <2>2. r \in Int
    BY <1>1
  <2>3. Index(r % m) \in UInt
    BY <1>3, <2>2, IndexFacts
  <2> QED BY <2>1, <2>3
<1>6. fifo' \in Seq(UInt) /\ Len(fifo') = k - 1 /\ \A i \in 1 .. k - 1 : fifo'[i] = fifo[i + 1]
  BY <1>1, <1>2
<1>7. \A i \in DOMAIN fifo' : fifo'[i] = Index((r' + i - 1) % m)
  <2> SUFFICES ASSUME NEW i \in 1 .. k - 1 PROVE fifo'[i] = Index((r' + i - 1) % m)
    BY <1>6
  <2>1. i + 1 \in DOMAIN fifo /\ fifo'[i] = fifo[i + 1]
    BY <1>1, <1>6
  <2>2. fifo'[i] = Index((r + (i + 1) - 1) % m)
    BY <2>1 DEF CibInv
  <2>3. (((r + 1) % m) + (i - 1)) % m = ((r + 1) + (i - 1)) % m
    <3>1. r + 1 \in Int /\ i - 1 \in Int
      BY <1>1
    <3> HIDE DEF m, r
    <3> QED BY <1>1, <3>1, ModSum
  <2>4. r' + i - 1 = ((r + 1) % m) + (i - 1) /\ r + (i + 1) - 1 = (r + 1) + (i - 1)
    BY <1>1, <1>2, <1>4
  <2> QED BY <2>2, <2>3, <2>4
<1>8. /\ w' \in UInt /\ r' \in UInt /\ mask' \in UInt
      /\ ret'.value = Index(r) /\ ret'.op = "get" /\ Index(r) # -1
  BY <1>2, <1>4, <1>5, PowerFacts DEF CibInv, CibTypeOK, UInt
<1>9. CibTypeOK'
  BY <1>5, <1>6, <1>8 DEF CibTypeOK
<1>10. cib_avail' = Len(fifo') /\ Len(fifo') <= CibSize'
  BY <1>1, <1>2, <1>3, <1>4, <1>6 DEF cib_avail
<1>11. \A i \in DOMAIN fifo' : fifo'[i] = Index((read_count + i - 1) % 2^W)'
  BY <1>2, <1>7 DEF Index
<1> QED BY <1>3, <1>8, <1>9, <1>10, <1>11 DEF CibInv

LEMMA CibFails ==
    ASSUME CibInv, UNCHANGED <<read_count, write_count, mask, fifo>>,
           ret'.value \in UInt \cup {-1},
           ret'.op = "put" /\ ret'.value = -1 => cib_full,
           ret'.op = "get" /\ ret'.value = -1 => fifo = <<>> \/ write_count < read_count
    PROVE  CibInv'
<1>1. CibTypeOK' /\ cib_avail' = cib_avail /\ CibSize' = CibSize /\ (cib_full' <=> cib_full)
  BY DEF CibInv, CibTypeOK, cib_avail, CibSize, cib_full, Signed
<1>2. \A x : Index(x)' = Index(x)
  BY DEF Index
<1> QED BY <1>1, <1>2 DEF CibInv, Index

LEMMA CibNextInv == ASSUME CibInv, CibNext PROVE CibInv'
<1>1. /\ cib_avail \in Nat /\ cib_avail <= CibSize /\ -1 \in UInt \cup {-1}
      /\ cib_avail = Len(fifo) /\ fifo \in Seq(UInt)
      /\ \E n \in Sizes : mask = (n - 1) % 2^W
  BY DEF CibInv, CibTypeOK
<1>2. /\ cib_full <=> cib_avail = CibSize
      /\ Signed(cib_avail) <= Signed(mask) <=> cib_avail < CibSize
      /\ Signed(cib_avail) > Signed(mask) <=> cib_avail = CibSize
  BY <1>1, FullFacts
<1>3. /\ write_count \in Int /\ read_count \in Int /\ CibSize \in Nat
      /\ cib_avail = 0 <=> write_count = read_count
  <2> DEFINE m == 2^W
  <2>1. m \in Nat /\ m > 0 /\ write_count \in 0 .. m - 1 /\ read_count \in 0 .. m - 1
    BY PowerFacts DEF CibInv, CibTypeOK, UInt
  <2>2. cib_avail = (write_count - read_count) % m
    BY DEF cib_avail
  <2>3. CibSize \in Nat
    BY <1>1, MaskFacts
  <2> HIDE DEF m
  <2>4. 0 % m = 0
    BY <2>1, ModSmall
  <2>5. (write_count - read_count) % m = 0 => write_count = read_count
    BY <2>1, CountFacts
  <2>6. write_count = read_count => write_count - read_count = 0
    BY <2>1
  <2> QED BY <2>1, <2>2, <2>3, <2>4, <2>5, <2>6
<1>4. ASSUME NEW name, Fails(name), name = "put" => cib_full,
             name = "get" => fifo = <<>> \/ write_count < read_count
      PROVE  CibInv'
  <2>1. ret'.op = name /\ ret'.value = -1 /\ UNCHANGED <<read_count, write_count, mask, fifo>>
    BY <1>4 DEF Fails
  <2> QED BY <1>1, <1>4, <2>1, CibFails
<1>5. write_count <= read_count => fifo = <<>> \/ write_count < read_count
  BY <1>1, <1>3
<1>6. CASE cib_put
  <2>1. CASE Signed(cib_avail) <= Signed(mask) /\ Puts
    BY <1>2, <2>1, CibPuts
  <2>2. CASE Signed(cib_avail) > Signed(mask) /\ Fails("put")
    BY <1>2, <1>4, <2>2
  <2> QED BY <1>6, <2>1, <2>2 DEF cib_put
<1>7. CASE cib_get
  <2>1. CASE write_count > read_count /\ Gets
    BY <1>3, <2>1, CibGets
  <2>2. CASE write_count <= read_count /\ Fails("get")
    BY <1>4, <1>5, <2>2
  <2> QED BY <1>7, <2>1, <2>2 DEF cib_get
<1>8. CASE cib_peek
  <2>1. CASE /\ write_count > read_count
             /\ ret' = [op |-> "peek", value |-> Index(read_count)]
             /\ UNCHANGED <<read_count, write_count, mask, fifo>>
    <3>1. Index(read_count) \in UInt
      <4>1. CibSize > 0
        BY <1>1, <1>3, <2>1
      <4>2. read_count % 2^W = read_count
        <5>1. 2^W \in Nat /\ 2^W > 0 /\ read_count \in 0 .. 2^W - 1
          BY PowerFacts DEF CibInv, CibTypeOK, UInt
        <5> QED BY <5>1, ModSmall
      <4>3. Index(read_count % 2^W) \in UInt
        BY <1>1, <1>3, <4>1, IndexFacts
      <4> QED BY <4>2, <4>3
    <3>2. ret'.op = "peek" /\ ret'.value = Index(read_count)
      BY <2>1
    <3> QED BY <2>1, <3>1, <3>2, CibFails
  <2>2. CASE write_count <= read_count /\ Fails("peek")
    BY <1>4, <2>2
  <2> QED BY <1>8, <2>1, <2>2 DEF cib_peek
<1>9. CASE cib_put_unsafe
  <2>1. cib_avail < CibSize
    BY <1>1, <1>2, <1>3, <1>9 DEF cib_put_unsafe
  <2> QED BY <1>9, <2>1, CibPuts DEF cib_put_unsafe
<1>10. CASE cib_get_unsafe
  BY <1>10, CibGets DEF cib_get_unsafe
<1> QED BY <1>6, <1>7, <1>8, <1>9, <1>10 DEF CibNext

LEMMA CibStarts == CibInit => CibInv
<1> SUFFICES ASSUME CibInit PROVE CibInv
  OBVIOUS
<1>1. PICK n \in Sizes : mask = (n - 1) % 2^W
  BY DEF CibInit
<1>2. read_count = 0 /\ write_count = 0 /\ fifo = <<>> /\ ret.op = "init" /\ ret.value = 0
  BY DEF CibInit
<1>3. n \in Nat /\ CibSize = n
  BY <1>1, MaskFacts
<1>4. 0 \in UInt /\ mask \in UInt
  BY <1>1, <1>3, PowerFacts, ModSmall DEF UInt
<1>5. cib_avail = 0
  BY <1>2, PowerFacts, ModSmall DEF cib_avail
<1>6. CibTypeOK
  BY <1>2, <1>4 DEF CibTypeOK
<1> QED BY <1>1, <1>2, <1>3, <1>5, <1>6 DEF CibInv

(* An index that is out is not handed out again: the positions of those    *)
(* that are out are less than the size apart.                              *)
LEMMA CibDistinct ==
    ASSUME CibInv, NEW i \in DOMAIN fifo, NEW j \in DOMAIN fifo, i <= j, fifo[i] = fifo[j]
    PROVE  i = j
<1>1. /\ fifo \in Seq(UInt) /\ i \in 1 .. Len(fifo) /\ j \in 1 .. Len(fifo)
      /\ Len(fifo) <= CibSize /\ Len(fifo) \in Nat /\ read_count \in Int
  BY PowerFacts DEF CibInv, CibTypeOK, UInt
<1>2. CibSize \in Nat /\ \E n \in Sizes : mask = (n - 1) % 2^W
  BY MaskFacts DEF CibInv
<1> DEFINE x == read_count + i - 1
           y == read_count + j - 1
<1>3. x \in Int /\ y \in Int /\ CibSize > 0 /\ x <= y /\ y < x + CibSize
  BY <1>1, <1>2
<1>4. Index(x % 2^W) = Index(y % 2^W)
  BY DEF CibInv
<1> HIDE DEF x, y
<1>5. x % CibSize = y % CibSize
  BY <1>2, <1>3, <1>4, IndexFacts
<1>6. x = y
  BY <1>2, <1>3, <1>5, ModDiffers
<1> QED BY <1>1, <1>6 DEF x, y

(* The indices cib.h hands out form a queue, for every width of unsigned   *)
(* int and every size the documentation allows, the wrapping of both       *)
(* counters included.                                                      *)
THEOREM CibIsFifo == CibSpec => []IndicesAreFifo
<1>1. CibInv /\ UNCHANGED cibVars => CibInv'
  <2> SUFFICES ASSUME CibInv, UNCHANGED cibVars PROVE CibInv'
    OBVIOUS
  <2>1. UNCHANGED <<read_count, write_count, mask, fifo>> /\ ret' = ret
    BY DEF cibVars
  <2> QED BY <2>1, CibFails DEF CibInv, CibTypeOK
<1>2. CibInv => IndicesAreFifo
  <2> SUFFICES ASSUME CibInv PROVE IndicesAreFifo
    OBVIOUS
  <2>1. cib_full <=> Len(fifo) = (mask + 1) % 2^W
    BY FullFacts DEF CibInv, CibTypeOK, CibSize
  <2>2. \A i, j \in DOMAIN fifo : fifo[i] = fifo[j] => i = j
    <3>1. \A i, j \in DOMAIN fifo : i <= j \/ j <= i
      BY DEF CibInv, CibTypeOK
    <3> QED BY <3>1, CibDistinct
  <2> QED BY <2>1, <2>2 DEF CibInv, IndicesAreFifo
<1> QED BY <1>1, <1>2, CibStarts, CibNextInv, PTL DEF CibSpec
=============================================================================
