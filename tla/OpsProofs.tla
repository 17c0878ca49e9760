----------------------------- MODULE OpsProofs ------------------------------
(***************************************************************************)
(* What every step of core/mutex.c preserves, whoever uses the mutexes,    *)
(* for every number of threads, priorities and mutexes: wait lists,        *)
(* statuses and run queues agree.  Then what the steps of Sync do, of      *)
(* which the primitives built on mutexes and sleeping threads consist.     *)
(***************************************************************************)
EXTENDS Sync, SchedProofs, TLAPS

(* Time the provers are given for a leaf. *)
USE ZenonT(5), SMTT(20)

(* The invariant of the mutex functions.  Beyond WaitersAgree it says that *)
(* a mutex with waiters is locked, which is what makes it safe for an      *)
(* unlock that finds waiters to leave the mutex as it is.                  *)
OpsInv ==
    /\ SchedInv
    /\ mutex \in [Mutexes -> [locked : BOOLEAN, queue : Seq(Pids)]]
    /\ locking \in [Pids -> Mutexes \cup {None}]
    /\ \A t \in Pids : sched.status[t] = "MUTEX_BLOCKED" => locking[t] # None
    /\ \A m \in Mutexes :
        /\ \A t \in Pids : t \in InQueue(mutex[m].queue) <=>
                sched.status[t] = "MUTEX_BLOCKED" /\ locking[t] = m
        /\ NoRepeats(mutex[m].queue)
        /\ SortedByPriority(mutex[m].queue)
        /\ mutex[m].queue # <<>> => mutex[m].locked

(* Facts of OpsInv that every step uses. *)
LEMMA OpsFacts ==
    ASSUME OpsInv
    PROVE  /\ SchedInv /\ sched \in RunState /\ Agree(sched, priority)
           /\ priority \in [Pids -> Prios] /\ pc \in [Pids -> Labels]
           /\ sched.status \in [Pids -> Status]
           /\ sched_active_thread \in Pids \cup {0}
           /\ mutex \in [Mutexes -> [locked : BOOLEAN, queue : Seq(Pids)]]
           /\ locking \in [Pids -> Mutexes \cup {None}]
           /\ \A m \in Mutexes : /\ mutex[m].queue \in Seq(Pids)
                                 /\ mutex[m].locked \in BOOLEAN
BY DEF OpsInv, SchedInv, SchedTypeOK, RunState, RunqueuesAgree

LEMMA OpsWaitersAgree == OpsInv => WaitersAgree /\ WakerRemovedUs
<1> SUFFICES ASSUME OpsInv PROVE WaitersAgree /\ WakerRemovedUs
  OBVIOUS
<1>1. MutexTypeOK /\ RunqueuesAgree
  BY DEF OpsInv, SchedInv, MutexTypeOK
<1>2. ASSUME NEW t \in Pids
      PROVE  {m \in Mutexes : t \in InQueue(mutex[m].queue)} =
                IF sched.status[t] = "MUTEX_BLOCKED" THEN {locking[t]} ELSE {}
  BY DEF OpsInv
<1>3. WakerRemovedUs
  <2> SUFFICES ASSUME NEW t \in Pids, Runs(t), locking[t] # None
               PROVE  t \notin InQueue(mutex[locking[t]].queue)
    BY DEF WakerRemovedUs
  <2>1. sched.status[t] # "MUTEX_BLOCKED"
    BY SchedInvFirst DEF OpsInv, RunnerIsFirst, IsFirst, OnRunqueue
  <2> QED BY <2>1 DEF OpsInv
<1> QED BY <1>1, <1>2, <1>3 DEF WaitersAgree, OpsInv

(* A mutex with one field replaced. *)
LEMMA MutexRecord ==
    ASSUME NEW x \in [locked : BOOLEAN, queue : Seq(Pids)], NEW q
    PROVE  /\ [x EXCEPT !.locked = TRUE] = [locked |-> TRUE, queue |-> x.queue]
           /\ [x EXCEPT !.locked = FALSE] = [locked |-> FALSE, queue |-> x.queue]
           /\ [x EXCEPT !.queue = q] = [locked |-> x.locked, queue |-> q]
           /\ x.locked \in BOOLEAN /\ x.queue \in Seq(Pids)
<1>1. x = [locked |-> x.locked, queue |-> x.queue]
  OBVIOUS
<1>2. ASSUME NEW b \in BOOLEAN
      PROVE  [x EXCEPT !.locked = b] = [locked |-> b, queue |-> x.queue]
  BY <1>1
<1>3. [x EXCEPT !.locked = TRUE] = [locked |-> TRUE, queue |-> x.queue]
  BY <1>2, Zenon
<1>4. [x EXCEPT !.locked = FALSE] = [locked |-> FALSE, queue |-> x.queue]
  BY <1>2, Zenon
<1>5. [x EXCEPT !.queue = q] = [locked |-> x.locked, queue |-> q]
  BY <1>1
<1> QED BY <1>3, <1>4, <1>5

(* A thread that runs is in no wait list. *)
LEMMA RunnerWaitsNowhere ==
    ASSUME OpsInv, NEW t \in Pids, Runs(t)
    PROVE  /\ sched.status[t] \in OnRunqueue
           /\ \A m \in Mutexes : t \notin InQueue(mutex[m].queue)
<1>1. sched.status[t] \in OnRunqueue
  BY SchedInvFirst DEF OpsInv, RunnerIsFirst, IsFirst
<1> QED BY <1>1 DEF OpsInv, OnRunqueue

-----------------------------------------------------------------------------
(* Steps that leave the mutexes alone and block or wake no thread on one.  *)
LEMMA OpsFrame ==
    ASSUME OpsInv, SchedInv', UNCHANGED <<priority, mutex, locking>>,
           \A u \in Pids : sched'.status[u] = "MUTEX_BLOCKED" <=>
                           sched.status[u] = "MUTEX_BLOCKED"
    PROVE  OpsInv'
<1>1. \A m \in Mutexes : SortedByPriority(mutex[m].queue)'
  BY DEF OpsInv, SortedByPriority
<1> QED BY <1>1 DEF OpsInv, InQueue, NoRepeats

LEMMA OpsSchedStep ==
    ASSUME ~YieldWindow, OpsInv, SchedStep, UNCHANGED mutexOpsVars, NEW L, L \subseteq Pids,
           \A u \in L : SwitchAhead(u)
    PROVE  OpsInv' /\ \A u \in L : SwitchAhead(u)'
<1>1. SchedInv /\ SchedInv' /\ \A u \in L : SwitchAhead(u)'
  BY SchedStepInv, PidFacts DEF OpsInv
<1>2. /\ \A u \in Pids :
            /\ sched'.status[u] \in OnRunqueue <=> sched.status[u] \in OnRunqueue
            /\ sched.status[u] \notin OnRunqueue => sched'.status[u] = sched.status[u]
      /\ priority' = priority
  BY <1>1, SchedStepFrame
<1>3. \A u \in Pids : sched'.status[u] = "MUTEX_BLOCKED" <=>
                      sched.status[u] = "MUTEX_BLOCKED"
  BY <1>2 DEF OnRunqueue
<1> QED BY <1>1, <1>2, <1>3, OpsFrame DEF mutexOpsVars

LEMMA OpsOtherCall ==
    ASSUME OpsInv, NEW t \in Pids, thread_wakeup(t) \/ thread_yield(t) \/ thread_sleep(t),
           UNCHANGED mutexOpsVars
    PROVE  /\ OpsInv' /\ priority' = priority
           /\ \A u \in Pids : SwitchAhead(u) => SwitchAhead(u)'
<1>0. sched.status \in [Pids -> Status] /\ SchedInv
  BY OpsFacts
<1>1. CASE thread_wakeup(t)
  <2>1. /\ SchedInv' /\ \A u \in Pids : SwitchAhead(u) => SwitchAhead(u)'
        /\ priority' = priority
        /\ sched'.status = [sched.status EXCEPT ![t] = "RUNNING"]
    BY <1>0, <1>1, WakeupCall
  <2>2. sched.status[t] = "SLEEPING"
    BY <1>1 DEF thread_wakeup
  <2>3. \A u \in Pids : sched'.status[u] = "MUTEX_BLOCKED" <=>
                        sched.status[u] = "MUTEX_BLOCKED"
    BY <1>0, <2>1, <2>2
  <2> QED BY <2>1, <2>3, OpsFrame DEF mutexOpsVars
<1>2. CASE thread_yield(t)
  <2>1. /\ SchedInv' /\ \A u \in Pids : SwitchAhead(u)'
        /\ priority' = priority /\ sched'.status = sched.status
    BY <1>0, <1>2, YieldCall
  <2> QED BY <2>1, OpsFrame DEF mutexOpsVars
<1>3. CASE thread_sleep(t)
  <2>1. /\ SchedInv' /\ \A u \in Pids : SwitchAhead(u)'
        /\ priority' = priority
        /\ sched'.status = [sched.status EXCEPT ![t] = "SLEEPING"]
    BY <1>0, <1>3, SleepCall
  <2>2. sched.status[t] \in OnRunqueue
    BY <1>3, RunnerWaitsNowhere DEF thread_sleep, InThread
  <2>3. \A u \in Pids : sched'.status[u] = "MUTEX_BLOCKED" <=>
                        sched.status[u] = "MUTEX_BLOCKED"
    BY <1>0, <2>1, <2>2 DEF OnRunqueue
  <2> QED BY <2>1, <2>3, OpsFrame DEF mutexOpsVars
<1> QED BY <1>1, <1>2, <1>3

LEMMA InitOps ==
    ASSUME NEW S, MutexInit(S)
    PROVE  OpsInv /\ priority = Prio /\ \A u \in Pids : SwitchAhead(u)
<1>1. /\ SchedInv /\ priority = Prio /\ \A u \in Pids : SwitchAhead(u)
      /\ sched.status = [t \in Pids |-> IF t = IdlePid THEN "PENDING" ELSE "SLEEPING"]
  BY SchedInitInv, PrioAssumption DEF MutexInit
<1>2. InQueue(<<>>) = {} /\ NoRepeats(<<>>) /\ SortedByPriority(<<>>)
  BY DEF InQueue, NoRepeats, SortedByPriority
<1>3. \A t \in Pids : sched.status[t] # "MUTEX_BLOCKED"
  BY <1>1
<1>4. mutex \in [Mutexes -> [locked : BOOLEAN, queue : Seq(Pids)]]
  <2>1. <<>> \in Seq(Pids)
    OBVIOUS
  <2> QED BY <2>1 DEF MutexInit
<1>5. \A m \in Mutexes : mutex[m].queue = <<>>
  BY DEF MutexInit
<1> QED BY <1>1, <1>2, <1>3, <1>4, <1>5 DEF MutexInit, OpsInv

-----------------------------------------------------------------------------
(* A step that makes x of mutex m, puts thread t into its wait list or     *)
(* takes it out, and leaves the wait of every other thread as it was.      *)
OneWaiterChanges(t, m, x) ==
    /\ UNCHANGED priority
    /\ x \in [locked : BOOLEAN, queue : Seq(Pids)]
    /\ mutex' = [mutex EXCEPT ![m] = x]
    /\ locking' \in [Pids -> Mutexes \cup {None}]
    /\ \A u \in Pids \ {t} :
        /\ locking'[u] = locking[u]
        /\ sched'.status[u] = "MUTEX_BLOCKED" <=> sched.status[u] = "MUTEX_BLOCKED"
    /\ sched'.status[t] = "MUTEX_BLOCKED" => locking'[t] = m
    /\ \A n \in Mutexes \ {m} : t \notin InQueue(mutex[n].queue)
    /\ InQueue(x.queue) = IF sched'.status[t] = "MUTEX_BLOCKED"
                          THEN InQueue(mutex[m].queue) \cup {t}
                          ELSE InQueue(mutex[m].queue) \ {t}
    /\ NoRepeats(x.queue)
    /\ SortedByPriority(x.queue)
    /\ x.queue # <<>> => x.locked

LEMMA OneWaiterStep ==
    ASSUME OpsInv, SchedInv', NEW t \in Pids, NEW m \in Mutexes, NEW x,
           OneWaiterChanges(t, m, x)
    PROVE  OpsInv'
<1> USE DEF OneWaiterChanges
<1>0. None \notin Mutexes
  BY MutexOpsAssumption
<1>1. /\ mutex' \in [Mutexes -> [locked : BOOLEAN, queue : Seq(Pids)]]
      /\ mutex'[m] = x
      /\ \A n \in Mutexes \ {m} : mutex'[n] = mutex[n]
  BY DEF OpsInv
<1>2. \A u \in Pids : sched'.status[u] = "MUTEX_BLOCKED" => locking'[u] # None
  BY <1>0 DEF OpsInv
<1>3. ASSUME NEW n \in Mutexes, NEW u \in Pids
      PROVE  u \in InQueue(mutex'[n].queue) <=>
                sched'.status[u] = "MUTEX_BLOCKED" /\ locking'[u] = n
  <2>1. u \in InQueue(mutex[n].queue) <=>
            sched.status[u] = "MUTEX_BLOCKED" /\ locking[u] = n
    BY DEF OpsInv
  <2>2. CASE n = m /\ u = t
    BY <1>1, <2>2
  <2>3. CASE n = m /\ u # t
    BY <1>1, <2>1, <2>3
  <2>4. CASE n # m /\ u = t
    BY <1>1, <2>4
  <2>5. CASE n # m /\ u # t
    BY <1>1, <2>1, <2>5
  <2> QED BY <2>2, <2>3, <2>4, <2>5
<1>4. ASSUME NEW n \in Mutexes
      PROVE  /\ NoRepeats(mutex'[n].queue) /\ SortedByPriority(mutex'[n].queue)
             /\ mutex'[n].queue # <<>> => mutex'[n].locked
  BY <1>1 DEF OpsInv
<1>5. \A n \in Mutexes : SortedByPriority(mutex[n].queue)'
  BY <1>4 DEF SortedByPriority
<1>6. \A n \in Mutexes, u \in Pids : (u \in InQueue(mutex[n].queue))' <=>
                (sched.status[u] = "MUTEX_BLOCKED" /\ locking[u] = n)'
  BY <1>3 DEF InQueue
<1>7. \A n \in Mutexes : NoRepeats(mutex[n].queue)' /\ (mutex'[n].queue # <<>> => mutex'[n].locked)
  BY <1>4 DEF NoRepeats
<1> QED BY <1>1, <1>2, <1>5, <1>6, <1>7 DEF OpsInv

(* _mutex_lock() on an unlocked mutex: a free mutex has no waiters. *)
LEMMA TakesFreeStep ==
    ASSUME OpsInv, NEW t \in Pids, NEW m \in Mutexes, TakesFree(t, m)
    PROVE  /\ OpsInv' /\ UNCHANGED schedVars
           /\ mutex' = [mutex EXCEPT ![m] = [locked |-> TRUE, queue |-> <<>>]]
           /\ mutex[m].queue = <<>>
           /\ \A u \in Pids : SwitchAhead(u) => SwitchAhead(u)'
<1>1. /\ ~mutex[m].locked /\ mutex' = [mutex EXCEPT ![m].locked = TRUE]
      /\ UNCHANGED <<schedVars, locking>>
  BY DEF TakesFree
<1>2. mutex[m].queue = <<>> /\ mutex \in [Mutexes -> [locked : BOOLEAN, queue : Seq(Pids)]]
  BY <1>1 DEF OpsInv
<1>3. mutex' = [mutex EXCEPT ![m] = [locked |-> TRUE, queue |-> <<>>]]
  <2>1. mutex[m] \in [locked : BOOLEAN, queue : Seq(Pids)]
    BY <1>2
  <2>2. [mutex[m] EXCEPT !.locked = TRUE] = [locked |-> TRUE, queue |-> <<>>]
    BY <1>2, <2>1, MutexRecord
  <2> QED BY <1>1, <2>2
<1>4. \A n \in Mutexes : mutex'[n].queue = mutex[n].queue /\
                         (mutex[n].queue # <<>> => mutex'[n].locked)
  BY <1>2, <1>3 DEF OpsInv
<1>5. mutex' \in [Mutexes -> [locked : BOOLEAN, queue : Seq(Pids)]]
  BY <1>2, <1>3
<1>6. SchedInv' /\ \A u \in Pids : SwitchAhead(u) => SwitchAhead(u)'
  BY <1>1, SchedSame DEF OpsInv
<1>7. \A n \in Mutexes : SortedByPriority(mutex[n].queue)' /\ NoRepeats(mutex[n].queue)'
  BY <1>1, <1>4 DEF OpsInv, schedVars, SortedByPriority, NoRepeats
<1>8. \A n \in Mutexes, u \in Pids : (u \in InQueue(mutex[n].queue))' <=>
                (sched.status[u] = "MUTEX_BLOCKED" /\ locking[u] = n)'
  BY <1>1, <1>4 DEF OpsInv, schedVars, InQueue
<1>9. OpsInv'
  BY <1>1, <1>4, <1>5, <1>6, <1>7, <1>8 DEF OpsInv, schedVars
<1> QED BY <1>1, <1>2, <1>3, <1>6, <1>9

(* _mutex_lock() on a locked mutex. *)
LEMMA BlocksStep ==
    ASSUME OpsInv, NEW t \in Pids, NEW m \in Mutexes, Blocks(t, m)
    PROVE  /\ OpsInv' /\ UNCHANGED priority
           /\ mutex' = [mutex EXCEPT ![m] =
                    [locked |-> TRUE, queue |-> thread_add_to_list(mutex[m].queue, t)]]
           /\ InQueue(mutex'[m].queue) = InQueue(mutex[m].queue) \cup {t}
           /\ locking' = [locking EXCEPT ![t] = m]
           /\ \A u \in Pids : SwitchAhead(u)'
<1> DEFINE q == thread_add_to_list(mutex[m].queue, t)
           x == [locked |-> TRUE, queue |-> q]
<1>1. /\ t # IdlePid /\ Runs(t) /\ mutex[m].locked
      /\ sched' = sched_set_status(sched, priority, t, "MUTEX_BLOCKED")
      /\ mutex' = [mutex EXCEPT ![m].queue = q]
      /\ locking' = [locking EXCEPT ![t] = m]
      /\ Tail_(t, "yield_higher", 0) /\ UNCHANGED sched_context_switch_request
      /\ KeepsContext /\ UNCHANGED priority
  BY DEF Blocks, Calls, InThread, YieldTail, KeepsContext
<1>2. "MUTEX_BLOCKED" \in Blocked /\ "yield_higher" \in Yields
  BY DEF Blocked, Yields
<1>3. /\ SchedInv' /\ \A u \in Pids : SwitchAhead(u)'
      /\ sched'.status = [sched.status EXCEPT ![t] = "MUTEX_BLOCKED"]
  BY <1>1, <1>2, OpsFacts, BlockStep
<1>4. \A n \in Mutexes : t \notin InQueue(mutex[n].queue)
  BY <1>1, RunnerWaitsNowhere
<1>5. /\ q \in Seq(Pids) /\ InQueue(q) = InQueue(mutex[m].queue) \cup {t}
      /\ NoRepeats(q) /\ SortedByPriority(q)
  BY <1>4, OpsFacts, AddToList DEF OpsInv
<1> HIDE DEF q
<1>6. x \in [locked : BOOLEAN, queue : Seq(Pids)] /\ mutex' = [mutex EXCEPT ![m] = x]
  <2>1. mutex[m] \in [locked : BOOLEAN, queue : Seq(Pids)] /\ mutex[m].locked = TRUE
    BY <1>1, OpsFacts
  <2>2. [mutex[m] EXCEPT !.queue = q] = x
    BY <2>1, MutexRecord
  <2> QED BY <1>1, <1>5, <2>2
<1>7. /\ locking' \in [Pids -> Mutexes \cup {None}] /\ locking'[t] = m
      /\ \A u \in Pids \ {t} : locking'[u] = locking[u]
  BY <1>1, OpsFacts
<1>8. /\ sched'.status[t] = "MUTEX_BLOCKED"
      /\ \A u \in Pids \ {t} : sched'.status[u] = sched.status[u]
  BY <1>3, OpsFacts
<1>9. x.queue = q /\ x.locked
  OBVIOUS
<1> HIDE DEF x
<1>10. OpsInv'
  <2>1. /\ NoRepeats(x.queue) /\ SortedByPriority(x.queue)
        /\ InQueue(x.queue) = IF sched'.status[t] = "MUTEX_BLOCKED"
                              THEN InQueue(mutex[m].queue) \cup {t}
                              ELSE InQueue(mutex[m].queue) \ {t}
    BY <1>5, <1>8, <1>9
  <2>2. OneWaiterChanges(t, m, x)
    BY <1>1, <1>4, <1>6, <1>7, <1>8, <1>9, <2>1 DEF OneWaiterChanges
  <2> QED BY <1>3, <2>2, OneWaiterStep
<1>11. mutex'[m].queue = q
  BY <1>6, <1>9, OpsFacts
<1> QED BY <1>1, <1>3, <1>5, <1>6, <1>10, <1>11 DEF x, q

(* The thread that was woken returns from mutex_lock(). *)
LEMMA ReturnsStep ==
    ASSUME OpsInv, NEW t \in Pids, Returns(t)
    PROVE  /\ OpsInv' /\ UNCHANGED <<schedVars, mutex>>
           /\ locking' = [locking EXCEPT ![t] = None]
           /\ \A u \in Pids : SwitchAhead(u) => SwitchAhead(u)'
<1>1. /\ Runs(t) /\ locking' = [locking EXCEPT ![t] = None] /\ UNCHANGED <<schedVars, mutex>>
  BY DEF Returns, InThread
<1>2. /\ sched.status[t] # "MUTEX_BLOCKED"
      /\ \A n \in Mutexes : t \notin InQueue(mutex[n].queue)
  BY <1>1, RunnerWaitsNowhere DEF OnRunqueue
<1>3. /\ locking' \in [Pids -> Mutexes \cup {None}] /\ locking'[t] = None
      /\ \A u \in Pids \ {t} : locking'[u] = locking[u]
  BY <1>1, OpsFacts
<1>4. SchedInv' /\ \A u \in Pids : SwitchAhead(u) => SwitchAhead(u)'
  BY <1>1, SchedSame DEF OpsInv
<1>5. \A n \in Mutexes : SortedByPriority(mutex[n].queue)' /\ NoRepeats(mutex[n].queue)'
  BY <1>1 DEF OpsInv, schedVars, SortedByPriority, NoRepeats
<1>6. \A n \in Mutexes, u \in Pids : (u \in InQueue(mutex[n].queue))' <=>
                (sched.status[u] = "MUTEX_BLOCKED" /\ locking[u] = n)'
  BY <1>1, <1>2, <1>3 DEF OpsInv, schedVars, InQueue
<1> QED BY <1>1, <1>2, <1>3, <1>4, <1>5, <1>6 DEF OpsInv, schedVars

-----------------------------------------------------------------------------
(* What an unlock does to the mutex: it is free afterwards, or it stays    *)
(* locked without its first waiter.                                        *)
LEMMA UnlockedFacts ==
    ASSUME OpsInv, NEW m \in Mutexes
    PROVE  LET x == Unlocked(mutex[m])
               q == mutex[m].queue
           IN  /\ q = <<>> => x = [locked |-> FALSE, queue |-> <<>>]
               /\ q # <<>> => /\ x = [locked |-> TRUE, queue |-> Tail(q)]
                              /\ mutex[m].locked /\ Tail(q) \in Seq(Pids)
                              /\ Head(q) \in Pids /\ Head(q) \in InQueue(q)
                              /\ sched.status[Head(q)] = "MUTEX_BLOCKED"
                              /\ locking[Head(q)] = m
                              /\ InQueue(Tail(q)) = InQueue(q) \ {Head(q)}
                              /\ NoRepeats(Tail(q)) /\ SortedByPriority(Tail(q))
<1> DEFINE q == mutex[m].queue
<1>1. mutex[m] \in [locked : BOOLEAN, queue : Seq(Pids)] /\ q \in Seq(Pids)
  BY OpsFacts
<1>2. CASE q = <<>>
  BY <1>1, <1>2, MutexRecord DEF Unlocked
<1>3. CASE q # <<>>
  <2>1. mutex[m].locked = TRUE /\ NoRepeats(q) /\ SortedByPriority(q)
    BY <1>1, <1>3 DEF OpsInv
  <2>2. Unlocked(mutex[m]) = [locked |-> TRUE, queue |-> Tail(q)]
    BY <1>1, <1>3, <2>1, MutexRecord DEF Unlocked
  <2>3. /\ Tail(q) \in Seq(Pids) /\ Head(q) \in Pids /\ Head(q) \in InQueue(q)
        /\ InQueue(Tail(q)) = InQueue(q) \ {Head(q)}
        /\ NoRepeats(Tail(q)) /\ SortedByPriority(Tail(q))
    BY <1>1, <1>3, <2>1, OpsFacts, TailOfList
  <2>4. sched.status[Head(q)] = "MUTEX_BLOCKED" /\ locking[Head(q)] = m
    BY <2>3 DEF OpsInv
  <2> QED BY <1>3, <2>1, <2>2, <2>3, <2>4
<1> QED BY <1>2, <1>3

(* The wait lists after an unlock that made its first waiter, if any,      *)
(* ready and blocked no thread on a mutex.                                 *)
LEMMA UnlockedLists ==
    ASSUME OpsInv, SchedInv', NEW m \in Mutexes,
           mutex' = [mutex EXCEPT ![m] = Unlocked(@)], UNCHANGED <<priority, locking>>,
           \A u \in Pids : sched'.status[u] = "MUTEX_BLOCKED" <=>
                /\ sched.status[u] = "MUTEX_BLOCKED"
                /\ mutex[m].queue = <<>> \/ u # Head(mutex[m].queue)
    PROVE  OpsInv'
<1> DEFINE q == mutex[m].queue
           x == Unlocked(mutex[m])
           h == IF q = <<>> THEN IdlePid ELSE Head(q)
<1>1. /\ q = <<>> => x = [locked |-> FALSE, queue |-> <<>>]
      /\ q # <<>> => /\ x = [locked |-> TRUE, queue |-> Tail(q)]
                     /\ mutex[m].locked /\ Tail(q) \in Seq(Pids)
                     /\ Head(q) \in Pids /\ Head(q) \in InQueue(q)
                     /\ sched.status[Head(q)] = "MUTEX_BLOCKED"
                     /\ locking[Head(q)] = m
                     /\ InQueue(Tail(q)) = InQueue(q) \ {Head(q)}
                     /\ NoRepeats(Tail(q)) /\ SortedByPriority(Tail(q))
  BY UnlockedFacts
<1>2. mutex' = [mutex EXCEPT ![m] = x] /\ <<>> \in Seq(Pids)
  OBVIOUS
<1>3. InQueue(<<>>) = {} /\ NoRepeats(<<>>) /\ SortedByPriority(<<>>)
  BY DEF InQueue, NoRepeats, SortedByPriority
<1>4. sched.status[IdlePid] # "MUTEX_BLOCKED"
  BY DEF OpsInv, SchedInv, IdleIsReady, OnRunqueue
<1> HIDE DEF x
<1>5. /\ x \in [locked : BOOLEAN, queue : Seq(Pids)]
      /\ InQueue(x.queue) = InQueue(q) \ {h}
      /\ NoRepeats(x.queue) /\ SortedByPriority(x.queue)
      /\ x.queue # <<>> => x.locked
  <2>1. CASE q = <<>>
    <3>1. x = [locked |-> FALSE, queue |-> <<>>] /\ h = IdlePid
      BY <1>1, <2>1
    <3>2. x \in [locked : BOOLEAN, queue : Seq(Pids)] /\ x.queue = <<>>
      BY <1>2, <3>1
    <3>3. InQueue(q) \ {h} = {}
      BY <1>3, <2>1
    <3> QED BY <1>3, <3>2, <3>3
  <2>2. CASE q # <<>>
    <3>1. x = [locked |-> TRUE, queue |-> Tail(q)] /\ h = Head(q) /\ Tail(q) \in Seq(Pids)
      BY <1>1, <2>2
    <3>2. x \in [locked : BOOLEAN, queue : Seq(Pids)] /\ x.queue = Tail(q) /\ x.locked
      BY <3>1
    <3> HIDE DEF h
    <3> QED BY <1>1, <2>2, <3>1, <3>2
  <2> QED BY <2>1, <2>2
<1>6. h \in Pids /\ sched'.status[h] # "MUTEX_BLOCKED"
  BY <1>1, <1>4, PidFacts
<1>7. \A n \in Mutexes \ {m} : h \notin InQueue(mutex[n].queue)
  BY <1>1, <1>4, PidFacts DEF OpsInv
<1>8. \A u \in Pids \ {h} : sched'.status[u] = "MUTEX_BLOCKED" <=>
                            sched.status[u] = "MUTEX_BLOCKED"
  OBVIOUS
<1> HIDE DEF h
<1>9. OneWaiterChanges(h, m, x)
  BY <1>2, <1>5, <1>6, <1>7, <1>8, OpsFacts DEF OneWaiterChanges
<1> QED BY <1>6, <1>9, OneWaiterStep

(* mutex_unlock() by a thread or by a handler. *)
LEMMA UnlockStep ==
    ASSUME OpsInv, NEW m \in Mutexes, mutex_unlock(m), InKernelCall
    PROVE  /\ OpsInv' /\ UNCHANGED <<priority, locking>>
           /\ mutex' = [mutex EXCEPT ![m] = Unlocked(@)]
           /\ \A u \in Pids : SwitchAhead(u) => SwitchAhead(u)'
<1> DEFINE q == mutex[m].queue
<1>1. /\ mutex' = [mutex EXCEPT ![m] = Unlocked(@)]
      /\ sched' = UnlockWakes(sched, mutex[m])
      /\ IF q = <<>>
         THEN UNCHANGED <<sched_context_switch_request, pc, other_prio>>
         ELSE SwitchTail(sched', priority[Head(q)])
      /\ UNCHANGED <<priority, sched_active_thread, irq_is_in, locking>>
  BY DEF mutex_unlock, KeepsContext
<1>2. CASE q = <<>>
  <2>1. UNCHANGED schedVars
    BY <1>1, <1>2 DEF UnlockWakes, schedVars
  <2>2. SchedInv' /\ \A u \in Pids : SwitchAhead(u) => SwitchAhead(u)'
    BY <2>1, SchedSame DEF OpsInv
  <2>3. \A u \in Pids : sched'.status[u] = "MUTEX_BLOCKED" <=>
                sched.status[u] = "MUTEX_BLOCKED" /\ (q = <<>> \/ u # Head(q))
    BY <1>2, <2>1 DEF schedVars
  <2> QED BY <1>1, <2>2, <2>3, UnlockedLists
<1>3. CASE q # <<>>
  <2> DEFINE h == Head(q)
  <2>1. h \in Pids /\ sched.status[h] = "MUTEX_BLOCKED"
    BY <1>3, UnlockedFacts
  <2>2. /\ sched.status[h] \notin OnRunqueue /\ "PENDING" \in Status
        /\ h # IdlePid /\ "PENDING" # "MUTEX_BLOCKED"
    BY <2>1 DEF OpsInv, SchedInv, IdleIsReady, OnRunqueue, Status
  <2>3. /\ sched' = sched_set_status(sched, priority, h, "PENDING")
        /\ SwitchTail(sched', priority[h])
    BY <1>1, <1>3 DEF UnlockWakes
  <2>4. irq_is_in \/ (sched_active_thread # 0 /\ pc[sched_active_thread] = "run")
    BY PidFacts DEF InKernelCall, InThread, Runs, Executes
  <2> HIDE DEF h
  <2>5. SchedInv' /\ \A u \in Pids : SwitchAhead(u) => SwitchAhead(u)'
    BY <1>1, <2>1, <2>2, <2>3, <2>4, OpsFacts, WakeStep
  <2>6. sched'.status = [sched.status EXCEPT ![h] = "PENDING"]
    BY <2>3 DEF sched_set_status
  <2>7. \A u \in Pids : sched'.status[u] = "MUTEX_BLOCKED" <=>
                sched.status[u] = "MUTEX_BLOCKED" /\ (q = <<>> \/ u # h)
    BY <1>3, <2>1, <2>6, OpsFacts
  <2> QED BY <1>1, <2>5, <2>7, UnlockedLists DEF h
<1> QED BY <1>2, <1>3

(* mutex_unlock_and_sleep(): the wake-up leaves the caller the first of    *)
(* its run queue, so that sched_set_status() then takes off the caller.    *)
LEMMA UnlockAndSleepStep ==
    ASSUME OpsInv, NEW t \in Pids, NEW m \in Mutexes, mutex_unlock_and_sleep(t, m)
    PROVE  /\ OpsInv' /\ UNCHANGED <<priority, locking>>
           /\ mutex' = [mutex EXCEPT ![m] = Unlocked(@)]
           /\ \A u \in Pids : SwitchAhead(u)'
<1> DEFINE q == mutex[m].queue
           k == UnlockWakes(sched, mutex[m])
<1>1. /\ t # IdlePid /\ Runs(t)
      /\ mutex' = [mutex EXCEPT ![m] = Unlocked(@)]
      /\ sched' = sched_set_status(k, priority, t, "SLEEPING")
      /\ Tail_(t, "yield_higher", 0) /\ UNCHANGED sched_context_switch_request
      /\ KeepsContext /\ UNCHANGED <<priority, locking>>
  BY DEF mutex_unlock_and_sleep, Calls, InThread, YieldTail, KeepsContext
<1>2. /\ "SLEEPING" \in Blocked /\ "yield_higher" \in Yields /\ "PENDING" \in OnRunqueue
      /\ "PENDING" # "MUTEX_BLOCKED" /\ "SLEEPING" # "MUTEX_BLOCKED"
  BY DEF Blocked, Yields, OnRunqueue
<1>3. IsFirst(sched, priority, t) /\ sched.status[IdlePid] \in OnRunqueue
  BY <1>1, SchedInvFirst DEF OpsInv, RunnerIsFirst, SchedInv, IdleIsReady
<1>4. /\ k \in RunState /\ Agree(k, priority) /\ IsFirst(k, priority, t)
      /\ k.status[IdlePid] \in OnRunqueue
      /\ \A u \in Pids : k.status[u] = "MUTEX_BLOCKED" <=>
                sched.status[u] = "MUTEX_BLOCKED" /\ (q = <<>> \/ u # Head(q))
  <2>1. CASE q = <<>>
    BY <1>3, <2>1, OpsFacts DEF UnlockWakes
  <2>2. CASE q # <<>>
    <3> DEFINE h == Head(q)
    <3>1. h \in Pids /\ sched.status[h] = "MUTEX_BLOCKED"
      BY <2>2, UnlockedFacts
    <3>2. sched.status[h] \notin OnRunqueue
      BY <3>1 DEF OnRunqueue
    <3>3. k = sched_set_status(sched, priority, h, "PENDING")
      BY <2>2 DEF UnlockWakes
    <3> HIDE DEF h, k
    <3>4. /\ k \in RunState /\ Agree(k, priority)
          /\ k.status = [sched.status EXCEPT ![h] = "PENDING"]
          /\ IsFirst(k, priority, t) /\ k.status[IdlePid] \in OnRunqueue
      BY <1>2, <1>3, <3>1, <3>2, <3>3, OpsFacts, WakeKeeps
    <3>5. \A u \in Pids : k.status[u] = "MUTEX_BLOCKED" <=>
                sched.status[u] = "MUTEX_BLOCKED" /\ (q = <<>> \/ u # h)
      BY <1>2, <2>2, <3>1, <3>4, OpsFacts
    <3> QED BY <3>4, <3>5 DEF h
  <2> QED BY <2>1, <2>2
<1> HIDE DEF k
<1>5. /\ sched' \in RunState /\ Agree(sched', priority)
      /\ sched'.status = [k.status EXCEPT ![t] = "SLEEPING"]
      /\ sched'.status[IdlePid] \in OnRunqueue
  BY <1>1, <1>2, <1>4, OpsFacts, BlockKeeps
<1>6. SchedInv' /\ \A u \in Pids : SwitchAhead(u)'
  BY <1>1, <1>2, <1>5, OpsFacts, YieldTailStep
<1>7. \A u \in Pids : sched'.status[u] = "MUTEX_BLOCKED" <=>
                sched.status[u] = "MUTEX_BLOCKED" /\ (q = <<>> \/ u # Head(q))
  <2>1. sched.status[t] # "MUTEX_BLOCKED" /\ k.status \in [Pids -> Status]
    BY <1>3, <1>4 DEF IsFirst, OnRunqueue, RunState
  <2> QED BY <1>2, <1>4, <1>5, <2>1
<1> QED BY <1>1, <1>6, <1>7, UnlockedLists


-----------------------------------------------------------------------------
(* What the steps of Sync do, for every primitive.                         *)
LEMMA MutexOfObject == M \in Mutexes
BY SyncAssumption DEF M

(* What they preserve: OpsInv, and no thread is anywhere but in at. *)
SyncInv ==
    /\ OpsInv
    /\ at = [b \in Actors |-> at[b]]

LEMMA ActorFacts ==
    /\ Isr \in Actors /\ Pids \subseteq Actors /\ Isr \notin Pids
    /\ \A a \in Actors : a = Isr \/ a \in Pids
BY PidFacts DEF Actors, Isr

(* A thread that waits is blocked, so one that executes does not wait. *)
LEMMA WaitsFacts ==
    ASSUME OpsInv, NEW t \in Pids
    PROVE  /\ Waits(t) <=> sched.status[t] = "MUTEX_BLOCKED" /\ locking[t] = M
           /\ Runs(t) => ~Waits(t) /\ sched.status[t] \in OnRunqueue
           /\ Waits(t) => mutex[M].locked
<1>1. Waits(t) <=> sched.status[t] = "MUTEX_BLOCKED" /\ locking[t] = M
  BY MutexOfObject DEF OpsInv, Waits
<1>2. Runs(t) => ~Waits(t) /\ sched.status[t] \in OnRunqueue
  BY RunnerWaitsNowhere, MutexOfObject DEF Waits
<1>3. Waits(t) => mutex[M].locked
  <2>1. Waits(t) => mutex[M].queue # <<>>
    BY DEF Waits, InQueue
  <2> QED BY <2>1, MutexOfObject DEF OpsInv
<1> QED BY <1>1, <1>2, <1>3

LEMMA AtFacts ==
    ASSUME NEW a \in Actors, NEW l, At(a, l)
    PROVE  /\ at[a] = l /\ InKernelCall
           /\ a # Isr => a \in Pids /\ Calls(a) /\ InThread(a) /\ Runs(a) /\ a # IdlePid
           /\ a = Isr => irq_is_in
BY ActorFacts DEF At, InKernelCall, Calls, InThread

LEMMA GotoFacts ==
    ASSUME at = [b \in Actors |-> at[b]], NEW a \in Actors, NEW l, Goto(a, l)
    PROVE  /\ at' = [b \in Actors |-> at'[b]] /\ at'[a] = l
           /\ \A b \in Actors : b # a => at'[b] = at[b]
BY DEF Goto

LEMMA LocalStep ==
    ASSUME SyncInv, NEW a \in Actors, NEW l, Local(a, l)
    PROVE  /\ SyncInv' /\ UNCHANGED <<priority, sched, mutex, locking>>
           /\ at'[a] = l /\ \A b \in Actors : b # a => at'[b] = at[b]
           /\ \A u \in Pids : /\ SwitchAhead(u) => SwitchAhead(u)'
                              /\ Waits(u)' <=> Waits(u)
<1>1. /\ Goto(a, l) /\ UNCHANGED <<schedVars, mutexOpsVars>>
      /\ UNCHANGED <<priority, sched, mutex, locking>>
  BY DEF Local, schedVars, mutexOpsVars
<1>2. SchedInv' /\ \A u \in Pids : SwitchAhead(u) => SwitchAhead(u)'
  BY <1>1, SchedSame DEF SyncInv, OpsInv
<1>3. OpsInv'
  BY <1>1, <1>2, OpsFrame DEF SyncInv
<1>4. /\ at' = [b \in Actors |-> at'[b]] /\ at'[a] = l
      /\ \A b \in Actors : b # a => at'[b] = at[b]
  BY <1>1, GotoFacts DEF SyncInv
<1>5. \A u \in Pids : Waits(u)' <=> Waits(u)
  BY <1>1 DEF Waits, InQueue
<1> QED BY <1>1, <1>2, <1>3, <1>4, <1>5 DEF SyncInv

(* The scheduler, interrupts, and what the threads do outside the object's *)
(* functions: nobody starts or ends waiting for the mutex, and a thread    *)
(* inside the functions is neither put to sleep nor woken.                 *)
LEMMA EnvStep ==
    ASSUME ~YieldWindow, SyncInv, NEW Apps, Apps \subseteq Pids, SyncEnv(Apps)
    PROVE  /\ SyncInv' /\ UNCHANGED <<priority, at, mutex>>
           /\ \A u \in Pids :
                /\ SwitchAhead(u) => SwitchAhead(u)'
                /\ Waits(u)' <=> Waits(u)
                /\ locking'[u] \in {locking[u], None}
                /\ at[u] # "out" =>
                     (sched'.status[u] = "SLEEPING" <=> sched.status[u] = "SLEEPING")
<1>1. at' = at
  BY DEF SyncEnv
<1>2. ASSUME SchedStep, UNCHANGED mutexOpsVars
      PROVE  /\ OpsInv' /\ UNCHANGED <<priority, mutex, locking>>
             /\ \A u \in Pids :
                  /\ SwitchAhead(u) => SwitchAhead(u)'
                  /\ sched'.status[u] = "SLEEPING" <=> sched.status[u] = "SLEEPING"
  <2> DEFINE L == {u \in Pids : SwitchAhead(u)}
  <2>1. L \subseteq Pids /\ \A u \in L : SwitchAhead(u)
    OBVIOUS
  <2>2. OpsInv /\ SchedInv
    BY DEF SyncInv, OpsInv
  <2> HIDE DEF L
  <2>3. OpsInv' /\ \A u \in L : SwitchAhead(u)'
    BY <1>2, <2>1, <2>2, OpsSchedStep
  <2>4. /\ \A u \in Pids :
             /\ sched'.status[u] \in OnRunqueue <=> sched.status[u] \in OnRunqueue
             /\ sched.status[u] \notin OnRunqueue => sched'.status[u] = sched.status[u]
        /\ priority' = priority
    BY <1>2, <2>2, SchedStepFrame
  <2> QED BY <1>2, <2>3, <2>4 DEF L, OnRunqueue, mutexOpsVars
<1>3. ASSUME NEW t \in Pids, Returns(t)
      PROVE  /\ OpsInv' /\ UNCHANGED <<priority, mutex, sched>>
             /\ \A u \in Pids :
                  /\ SwitchAhead(u) => SwitchAhead(u)'
                  /\ locking'[u] \in {locking[u], None}
  BY <1>3, ReturnsStep, OpsFacts DEF SyncInv, schedVars
<1>4. ASSUME NEW t \in Apps, at[t] = "out", UNCHANGED mutexOpsVars,
             thread_sleep(t) \/ thread_yield(t) \/ thread_wakeup(t)
      PROVE  /\ OpsInv' /\ UNCHANGED <<priority, mutex, locking>>
             /\ \A u \in Pids :
                  /\ SwitchAhead(u) => SwitchAhead(u)'
                  /\ at[u] # "out" => sched'.status[u] = sched.status[u]
  <2>1. t \in Pids /\ OpsInv /\ SchedInv /\ sched.status \in [Pids -> Status]
    BY OpsFacts DEF SyncInv
  <2>2. OpsInv' /\ priority' = priority /\ \A u \in Pids : SwitchAhead(u) => SwitchAhead(u)'
    BY <1>4, <2>1, OpsOtherCall
  <2>3. \A u \in Pids : u # t => sched'.status[u] = sched.status[u]
    BY <1>4, <2>1, SleepCall, WakeupCall, YieldCall
  <2> QED BY <1>4, <2>2, <2>3 DEF mutexOpsVars
<1>5. /\ OpsInv' /\ UNCHANGED <<priority, mutex>>
      /\ \A u \in Pids :
           /\ SwitchAhead(u) => SwitchAhead(u)'
           /\ locking'[u] \in {locking[u], None}
           /\ at[u] # "out" =>
                (sched'.status[u] = "SLEEPING" <=> sched.status[u] = "SLEEPING")
  BY <1>2, <1>3, <1>4 DEF SyncEnv, SchedStep
<1>6. \A u \in Pids : Waits(u)' <=> Waits(u)
  BY <1>5 DEF Waits, InQueue
<1> QED BY <1>1, <1>5, <1>6 DEF SyncInv

(* mutex_lock() on the object's mutex: the caller has it afterwards, or    *)
(* waits for it.                                                           *)
LEMMA LockStep ==
    ASSUME SyncInv, NEW t \in Pids, NEW l, Lock(t, l)
    PROVE  /\ SyncInv' /\ UNCHANGED priority
           /\ at'[t] = l /\ \A b \in Actors : b # t => at'[b] = at[b]
           /\ mutex'[M].locked /\ ~Waits(t)
           /\ \A u \in Pids : SwitchAhead(u) => SwitchAhead(u)'
           /\ \A u \in Pids \ {t} : /\ Waits(u)' <=> Waits(u)
                                    /\ locking'[u] = locking[u]
                                    /\ sched'.status[u] = sched.status[u]
           /\ sched.status[t] # "SLEEPING" /\ sched'.status[t] # "SLEEPING"
           /\ locking[t] = None /\ locking'[t] \in {None, M}
           /\ Waits(t)' <=> mutex[M].locked
<1>1. /\ OpsInv /\ Goto(t, l) /\ t \in Actors /\ at = [b \in Actors |-> at[b]]
      /\ Runs(t) /\ locking[t] = None
      /\ sched.status \in [Pids -> Status] /\ locking \in [Pids -> Mutexes \cup {None}]
      /\ mutex \in [Mutexes -> [locked : BOOLEAN, queue : Seq(Pids)]]
  BY ActorFacts, OpsFacts DEF SyncInv, Lock, TakesFree, Blocks, Calls, InThread
<1>2. ~Waits(t) /\ sched.status[t] # "SLEEPING"
  BY <1>1, WaitsFacts DEF OnRunqueue
<1>3. /\ at' = [b \in Actors |-> at'[b]] /\ at'[t] = l
      /\ \A b \in Actors : b # t => at'[b] = at[b]
  BY <1>1, GotoFacts
<1>4. CASE TakesFree(t, M)
  <2>1. /\ OpsInv' /\ UNCHANGED <<priority, sched, locking>>
        /\ mutex' = [mutex EXCEPT ![M] = [locked |-> TRUE, queue |-> <<>>]]
        /\ mutex[M].queue = <<>> /\ ~mutex[M].locked
        /\ \A u \in Pids : SwitchAhead(u) => SwitchAhead(u)'
    BY <1>1, <1>4, TakesFreeStep, MutexOfObject DEF schedVars, TakesFree
  <2>2. mutex'[M].queue = <<>> /\ mutex'[M].locked
    BY <1>1, <2>1, MutexOfObject
  <2>3. \A u \in Pids : ~Waits(u) /\ ~Waits(u)'
    BY <2>1, <2>2 DEF Waits, InQueue
  <2> QED BY <1>1, <1>2, <1>3, <2>1, <2>2, <2>3 DEF SyncInv
<1>5. CASE Blocks(t, M)
  <2>1. /\ OpsInv' /\ UNCHANGED priority
        /\ mutex' = [mutex EXCEPT ![M] =
                [locked |-> TRUE, queue |-> thread_add_to_list(mutex[M].queue, t)]]
        /\ InQueue(mutex'[M].queue) = InQueue(mutex[M].queue) \cup {t}
        /\ locking' = [locking EXCEPT ![t] = M]
        /\ \A u \in Pids : SwitchAhead(u)'
    BY <1>1, <1>5, BlocksStep, MutexOfObject
  <2>2. mutex[M].locked /\ sched'.status = [sched.status EXCEPT ![t] = "MUTEX_BLOCKED"]
    BY <1>5 DEF Blocks, sched_set_status
  <2>3. mutex'[M].locked
    BY <1>1, <2>1, MutexOfObject
  <2>4. \A u \in Pids : Waits(u)' <=> u = t \/ Waits(u)
    BY <2>1 DEF Waits, InQueue
  <2>5. /\ \A u \in Pids \ {t} : /\ locking'[u] = locking[u]
                                 /\ sched'.status[u] = sched.status[u]
        /\ locking'[t] = M /\ sched'.status[t] = "MUTEX_BLOCKED"
    BY <1>1, <2>1, <2>2
  <2> QED BY <1>1, <1>2, <1>3, <2>1, <2>2, <2>3, <2>4, <2>5 DEF SyncInv
<1> QED BY <1>4, <1>5 DEF Lock

LEMMA TryLockStep ==
    ASSUME SyncInv, NEW t \in Pids, NEW yes, NEW no, TryLock(t, yes, no)
    PROVE  /\ SyncInv' /\ UNCHANGED <<priority, sched, locking>>
           /\ \A b \in Actors : b # t => at'[b] = at[b]
           /\ mutex'[M].locked
           /\ \A u \in Pids : /\ SwitchAhead(u) => SwitchAhead(u)'
                              /\ Waits(u)' <=> Waits(u)
           /\ \/ ~mutex[M].locked /\ at'[t] = yes
              \/ mutex[M].locked /\ at'[t] = no
<1>1. CASE mutex[M].locked /\ Local(t, no)
  BY <1>1, LocalStep, ActorFacts
<1>2. CASE TakesFree(t, M) /\ Goto(t, yes)
  <2>1. /\ OpsInv' /\ UNCHANGED <<priority, sched, locking>>
        /\ mutex' = [mutex EXCEPT ![M] = [locked |-> TRUE, queue |-> <<>>]]
        /\ mutex[M].queue = <<>> /\ ~mutex[M].locked
        /\ \A u \in Pids : SwitchAhead(u) => SwitchAhead(u)'
    BY <1>2, TakesFreeStep, MutexOfObject DEF schedVars, TakesFree, SyncInv
  <2>2. mutex'[M].queue = <<>> /\ mutex'[M].locked
    BY <2>1, MutexOfObject, OpsFacts DEF SyncInv
  <2>3. \A u \in Pids : ~Waits(u) /\ ~Waits(u)'
    BY <2>1, <2>2 DEF Waits, InQueue
  <2>4. /\ at' = [b \in Actors |-> at'[b]] /\ at'[t] = yes
        /\ \A b \in Actors : b # t => at'[b] = at[b]
    BY <1>2, GotoFacts, ActorFacts DEF SyncInv
  <2> QED BY <2>1, <2>2, <2>3, <2>4 DEF SyncInv
<1> QED BY <1>1, <1>2 DEF TryLock

(* An unlock of the object's mutex leaves it free, or hands it to a thread *)
(* that waits for it and now does not.                                     *)
HandsOver ==
    \/ /\ ~mutex'[M].locked
       /\ \A u \in Pids : ~Waits(u) /\ ~Waits(u)'
    \/ /\ mutex'[M].locked
       /\ \E h \in Pids : /\ Waits(h) /\ ~Waits(h)'
                          /\ \A u \in Pids \ {h} : Waits(u)' <=> Waits(u)

LEMMA UnlockedHandsOver ==
    ASSUME SyncInv, mutex' = [mutex EXCEPT ![M] = Unlocked(@)]
    PROVE  HandsOver
<1> DEFINE q == mutex[M].queue
           x == Unlocked(mutex[M])
<1>1. /\ q = <<>> => x = [locked |-> FALSE, queue |-> <<>>]
      /\ q # <<>> => /\ x = [locked |-> TRUE, queue |-> Tail(q)]
                     /\ Head(q) \in Pids /\ Head(q) \in InQueue(q)
                     /\ InQueue(Tail(q)) = InQueue(q) \ {Head(q)}
  BY UnlockedFacts, MutexOfObject DEF SyncInv
<1>2. mutex'[M] = x
  BY MutexOfObject, OpsFacts DEF SyncInv
<1> HIDE DEF x
<1>3. CASE q = <<>>
  <2>1. mutex'[M].queue = <<>> /\ ~mutex'[M].locked
    BY <1>1, <1>2, <1>3
  <2>2. \A u \in Pids : ~Waits(u) /\ ~Waits(u)'
    BY <1>3, <2>1 DEF Waits, InQueue
  <2> QED BY <2>1, <2>2 DEF HandsOver
<1>4. CASE q # <<>>
  <2>1. mutex'[M].queue = Tail(q) /\ mutex'[M].locked
    <3>1. x = [locked |-> TRUE, queue |-> Tail(q)]
      BY <1>1, <1>4
    <3> HIDE DEF q
    <3>2. x.locked = TRUE /\ x.queue = Tail(q)
      BY <3>1
    <3> QED BY <1>2, <3>2
  <2>2. Waits(Head(q)) /\ \A u \in Pids : Waits(u)' <=> Waits(u) /\ u # Head(q)
    BY <1>1, <1>4, <2>1, ZenonT(30) DEF Waits, InQueue
  <2> HIDE DEF q
  <2> QED BY <1>1, <1>4, <2>1, <2>2 DEF HandsOver
<1> QED BY <1>3, <1>4

(* The status of the threads after an unlock: that of one that waited may  *)
(* have become PENDING.                                                    *)
LEMMA UnlockWakesStatus ==
    ASSUME OpsInv, NEW u \in Pids
    PROVE  LET k == UnlockWakes(sched, mutex[M])
           IN  /\ k.status \in [Pids -> Status]
               /\ \/ k.status[u] = sched.status[u]
                  \/ sched.status[u] = "MUTEX_BLOCKED" /\ k.status[u] = "PENDING"
<1> DEFINE q == mutex[M].queue
           k == UnlockWakes(sched, mutex[M])
<1>1. sched.status \in [Pids -> Status] /\ "PENDING" \in Status
  BY OpsFacts DEF Status, OnRunqueue
<1>2. q # <<>> => Head(q) \in Pids /\ sched.status[Head(q)] = "MUTEX_BLOCKED"
  BY UnlockedFacts, MutexOfObject
<1>3. CASE q = <<>>
  BY <1>1, <1>3 DEF UnlockWakes
<1>4. CASE q # <<>>
  <2>1. k.status = [sched.status EXCEPT ![Head(q)] = "PENDING"]
    BY <1>4 DEF UnlockWakes, sched_set_status
  <2> HIDE DEF k, q
  <2> QED BY <1>1, <1>2, <1>4, <2>1 DEF k
<1> QED BY <1>3, <1>4

(* mutex_unlock() of the object's mutex by a thread or a handler. *)
LEMMA UnlockMutex ==
    ASSUME SyncInv, NEW a \in Actors, NEW l, InKernelCall, Unlock(a, l)
    PROVE  /\ SyncInv' /\ UNCHANGED <<priority, locking>> /\ HandsOver
           /\ at'[a] = l /\ \A b \in Actors : b # a => at'[b] = at[b]
           /\ \A u \in Pids :
                /\ SwitchAhead(u) => SwitchAhead(u)'
                /\ \/ sched'.status[u] = sched.status[u]
                   \/ sched.status[u] = "MUTEX_BLOCKED" /\ sched'.status[u] = "PENDING"
<1>1. OpsInv /\ Goto(a, l) /\ at = [b \in Actors |-> at[b]] /\ mutex_unlock(M)
  BY DEF SyncInv, Unlock
<1>2. /\ OpsInv' /\ UNCHANGED <<priority, locking>>
      /\ mutex' = [mutex EXCEPT ![M] = Unlocked(@)]
      /\ \A u \in Pids : SwitchAhead(u) => SwitchAhead(u)'
  BY <1>1, UnlockStep, MutexOfObject
<1>3. /\ at' = [b \in Actors |-> at'[b]] /\ at'[a] = l
      /\ \A b \in Actors : b # a => at'[b] = at[b]
  BY <1>1, GotoFacts
<1>4. \A u \in Pids : \/ sched'.status[u] = sched.status[u]
                      \/ sched.status[u] = "MUTEX_BLOCKED" /\ sched'.status[u] = "PENDING"
  BY <1>1, UnlockWakesStatus DEF mutex_unlock
<1>5. HandsOver
  BY <1>2, UnlockedHandsOver
<1> QED BY <1>2, <1>3, <1>4, <1>5 DEF SyncInv

(* An object whose data belong to the thread that has the mutex: thread t  *)
(* has it at the positions of S unless it waits for it there.              *)
Has(S, t) == at[t] \in S /\ ~Waits(t)

Monitor(S) ==
    /\ \A t, u \in Pids : Has(S, t) /\ Has(S, u) => t = u
    /\ \A t \in Pids : Has(S, t) => mutex[M].locked

LEMMA MonitorLock ==
    ASSUME SyncInv, NEW S, Monitor(S), NEW t \in Pids, NEW l, Lock(t, l), at[t] \notin S
    PROVE  Monitor(S)'
<1>1. /\ at'[t] = l /\ mutex'[M].locked /\ (Waits(t)' <=> mutex[M].locked)
      /\ \A u \in Pids \ {t} : at'[u] = at[u] /\ (Waits(u)' <=> Waits(u))
  BY LockStep, ActorFacts
<1>2. \A u \in Pids \ {t} : Has(S, u)' <=> Has(S, u)
  BY <1>1 DEF Has
<1>3. Has(S, t)' => ~mutex[M].locked
  BY <1>1 DEF Has
<1> QED BY <1>1, <1>2, <1>3 DEF Monitor

LEMMA MonitorUnlock ==
    ASSUME NEW S, Monitor(S), NEW t \in Pids, Has(S, t), HandsOver, at'[t] \notin S,
           \A u \in Pids \ {t} : at'[u] = at[u]
    PROVE  Monitor(S)'
<1>1. ~Has(S, t)'
  BY DEF Has
<1>2. ASSUME NEW u \in Pids, Has(S, u)' PROVE u # t /\ Waits(u) /\ ~Waits(u)'
  BY <1>1, <1>2 DEF Has, Monitor
<1>3. CASE \A u \in Pids : ~Waits(u) /\ ~Waits(u)'
  BY <1>2, <1>3 DEF Monitor
<1>4. CASE /\ mutex'[M].locked
           /\ \E h \in Pids : /\ Waits(h) /\ ~Waits(h)'
                              /\ \A u \in Pids \ {h} : Waits(u)' <=> Waits(u)
  BY <1>2, <1>4 DEF Monitor
<1> QED BY <1>3, <1>4 DEF HandsOver

(* A step in which nobody locks or unlocks the mutex. *)
LEMMA MonitorKeeps ==
    ASSUME NEW S, Monitor(S), mutex'[M].locked = mutex[M].locked,
           \A u \in Pids : (Waits(u)' <=> Waits(u)) /\ (at'[u] \in S => at[u] \in S)
    PROVE  Monitor(S)'
<1>1. \A u \in Pids : Has(S, u)' => Has(S, u)
  BY DEF Has
<1> QED BY <1>1 DEF Monitor

LEMMA MonitorTry ==
    ASSUME SyncInv, NEW S, Monitor(S), NEW t \in Pids, NEW yes, NEW no, TryLock(t, yes, no),
           at[t] \notin S, no \notin S
    PROVE  Monitor(S)'
<1>1. /\ mutex'[M].locked
      /\ \A u \in Pids : Waits(u)' <=> Waits(u)
      /\ \A u \in Pids \ {t} : at'[u] = at[u]
      /\ ~mutex[M].locked \/ at'[t] = no
  BY TryLockStep, ActorFacts
<1>2. \A u \in Pids \ {t} : Has(S, u)' <=> Has(S, u)
  BY <1>1 DEF Has
<1>3. Has(S, t)' => ~mutex[M].locked
  BY <1>1 DEF Has
<1> QED BY <1>1, <1>2, <1>3 DEF Monitor

(* mutex_unlock_and_sleep() *)
LEMMA NapStep ==
    ASSUME SyncInv, NEW t \in Pids, NEW l, Nap(t, l)
    PROVE  /\ SyncInv' /\ UNCHANGED <<priority, locking>> /\ HandsOver
           /\ at'[t] = l /\ \A b \in Actors : b # t => at'[b] = at[b]
           /\ sched'.status[t] = "SLEEPING"
           /\ \A u \in Pids \ {t} :
                sched'.status[u] = "SLEEPING" <=> sched.status[u] = "SLEEPING"
<1> DEFINE k == UnlockWakes(sched, mutex[M])
<1>1. /\ OpsInv /\ Goto(t, l) /\ at = [b \in Actors |-> at[b]] /\ t \in Actors
      /\ mutex_unlock_and_sleep(t, M)
  BY ActorFacts DEF SyncInv, Nap
<1>2. /\ OpsInv' /\ UNCHANGED <<priority, locking>>
      /\ mutex' = [mutex EXCEPT ![M] = Unlocked(@)]
  BY <1>1, UnlockAndSleepStep, MutexOfObject
<1>3. /\ at' = [b \in Actors |-> at'[b]] /\ at'[t] = l
      /\ \A b \in Actors : b # t => at'[b] = at[b]
  BY <1>1, GotoFacts
<1>4. HandsOver
  BY <1>2, UnlockedHandsOver
<1>5. sched'.status = [k.status EXCEPT ![t] = "SLEEPING"]
  BY <1>1 DEF mutex_unlock_and_sleep, sched_set_status
<1>6. /\ k.status \in [Pids -> Status]
      /\ \A u \in Pids : \/ k.status[u] = sched.status[u]
                         \/ sched.status[u] = "MUTEX_BLOCKED" /\ k.status[u] = "PENDING"
  BY <1>1, UnlockWakesStatus
<1> HIDE DEF k
<1>7. /\ sched'.status[t] = "SLEEPING"
      /\ \A u \in Pids \ {t} : sched'.status[u] = k.status[u]
  BY <1>5, <1>6
<1> QED BY <1>2, <1>3, <1>4, <1>6, <1>7 DEF SyncInv

(* A thread that runs makes one that sleeps ready, and calls sched_switch() *)
(* later.                                                                   *)
LEMMA AwakenStep ==
    ASSUME SyncInv, NEW t \in Pids, Runs(t), NEW u \in Pids, sched.status[u] = "SLEEPING",
           sched' = sched_set_status(sched, priority, u, "PENDING"), KeepsContext,
           UNCHANGED <<sched_context_switch_request, pc, other_prio, mutexOpsVars>>,
           at' = [b \in Actors |-> at'[b]]
    PROVE  /\ SyncInv' /\ UNCHANGED <<priority, mutex, locking>>
           /\ sched'.status[u] = "PENDING"
           /\ \A v \in Pids \ {u} : sched'.status[v] = sched.status[v]
           /\ \A v \in Pids : Waits(v)' <=> Waits(v)
<1>1. /\ SchedInv /\ sched \in RunState /\ Agree(sched, priority) /\ priority \in [Pids -> Prios]
      /\ sched.status \in [Pids -> Status]
  BY OpsFacts DEF SyncInv
<1>2. /\ sched.status[u] \notin OnRunqueue /\ "PENDING" \in Status /\ u # IdlePid
      /\ sched.status[u] # "REPLY_BLOCKED"
  BY <1>1 DEF OnRunqueue, Status, SchedInv, IdleIsReady
<1>3. /\ UNCHANGED <<priority, sched_active_thread, irq_is_in, mutex, locking>>
      /\ sched_active_thread # 0 /\ pc[sched_active_thread] = "run"
  BY PidFacts DEF KeepsContext, mutexOpsVars, Runs, Executes
<1>4. SchedInv'
  BY <1>1, <1>2, <1>3, WakeStep
<1>5. sched'.status = [sched.status EXCEPT ![u] = "PENDING"]
  BY DEF sched_set_status
<1>6. /\ sched'.status[u] = "PENDING"
      /\ \A v \in Pids \ {u} : sched'.status[v] = sched.status[v]
  BY <1>1, <1>5
<1>7. \A v \in Pids : sched'.status[v] = "MUTEX_BLOCKED" <=> sched.status[v] = "MUTEX_BLOCKED"
  BY <1>6
<1>8. OpsInv'
  BY <1>3, <1>4, <1>7, OpsFrame DEF SyncInv
<1>9. \A v \in Pids : Waits(v)' <=> Waits(v)
  BY <1>3 DEF Waits, InQueue
<1> QED BY <1>3, <1>6, <1>8, <1>9 DEF SyncInv

(* sched_switch() as a call of its own. *)
LEMMA SwitchCall ==
    ASSUME SyncInv, NEW t \in Pids, Runs(t), NEW p \in Prios, NEW l, Switch(t, p, l)
    PROVE  /\ SyncInv' /\ UNCHANGED <<priority, sched, mutex, locking>>
           /\ at'[t] = l /\ \A b \in Actors : b # t => at'[b] = at[b]
           /\ \A u \in Pids : Waits(u)' <=> Waits(u)
<1>1. /\ UNCHANGED <<sched, priority, sched_active_thread, irq_is_in, mutex, locking>>
      /\ UNCHANGED sched_context_switch_request
      /\ pc' = [pc EXCEPT ![t] = "sched_switch"] /\ other_prio' = [other_prio EXCEPT ![t] = p]
      /\ Goto(t, l) /\ t \in Actors
  BY ActorFacts DEF Switch, Tail_, KeepsContext, mutexOpsVars
<1>2. /\ at' = [b \in Actors |-> at'[b]] /\ at'[t] = l
      /\ \A b \in Actors : b # t => at'[b] = at[b]
  BY <1>1, GotoFacts DEF SyncInv
<1>3. SchedTypeOK'
  BY <1>1 DEF SyncInv, OpsInv, SchedInv, SchedTypeOK, Labels
<1>4. RunqueuesAgree' /\ IdleIsReady' /\ RequestInIsr'
  BY <1>1 DEF SyncInv, OpsInv, SchedInv, RunqueuesAgree, IdleIsReady, RequestInIsr
<1>5. ActiveIsFirst'
  <2>1. sched_active_thread = t /\ pc[t] = "run"
    BY DEF Runs, Executes
  <2>2. t # 0 /\ ~sched_context_switch_request => IsFirst(sched, priority, t)
    BY <2>1 DEF SyncInv, OpsInv, SchedInv, ActiveIsFirst, Yields
  <2> QED BY <1>1, <2>1, <2>2 DEF ActiveIsFirst
<1>6. OpsInv'
  <2>1. SchedInv'
    BY <1>3, <1>4, <1>5 DEF SchedInv
  <2> QED BY <1>1, <2>1, OpsFrame DEF SyncInv
<1>7. \A u \in Pids : Waits(u)' <=> Waits(u)
  BY <1>1 DEF Waits, InQueue
<1> QED BY <1>1, <1>2, <1>6, <1>7 DEF SyncInv

=============================================================================
