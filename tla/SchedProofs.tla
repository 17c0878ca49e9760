---------------------------- MODULE SchedProofs ----------------------------
(* Facts about the scheduler's operators, for every number of threads and  *)
(* priorities.                                                             *)
EXTENDS Sched, WellFoundedInduction, TLAPS

(* Time the provers are given for a leaf. *)
USE ZenonT(5), SMTT(20)

(* A queue as the scheduler needs it: the threads of S, each once. *)
QueueOf(q, S) == q \in Seq(Pids) /\ Holds(q, S)

LEMMA InQueueSeq == ASSUME NEW q \in Seq(Pids)
                    PROVE  InQueue(q) = {q[i] : i \in 1 .. Len(q)}
BY DEF InQueue

LEMMA AppendFacts ==
    ASSUME NEW q \in Seq(Pids), NEW t \in Pids
    PROVE  /\ Append(q, t) \in Seq(Pids) /\ Append(q, t) # <<>>
           /\ Len(Append(q, t)) = Len(q) + 1
           /\ q # <<>> => Head(Append(q, t)) = Head(q)
<1>1. Append(q, t) \in Seq(Pids) /\ Len(Append(q, t)) = Len(q) + 1 /\ Len(q) \in Nat
  OBVIOUS
<1>2. Len(Append(q, t)) # 0
  BY <1>1
<1>3. Append(q, t) # <<>>
  <2>1. Len(<<>>) = 0
    OBVIOUS
  <2> QED BY <1>2, <2>1
<1>4. ASSUME q # <<>> PROVE Head(Append(q, t)) = Head(q)
  <2>1. Len(q) \in Nat \ {0}
    BY <1>4
  <2>2. Head(q) = q[1] /\ Append(q, t)[1] = q[1]
    BY <2>1
  <2>3. Head(Append(q, t)) = Append(q, t)[1]
    BY <1>1, <1>3
  <2> QED BY <2>2, <2>3
<1> QED BY <1>1, <1>3, <1>4

(* clist_rpush() adds a thread that is not queued. *)
LEMMA RpushQueue ==
    ASSUME NEW q, NEW S, QueueOf(q, S), NEW t \in Pids, t \notin S
    PROVE  QueueOf(clist_rpush(q, t), S \cup {t}) /\ clist_rpush(q, t) # <<>>
<1> DEFINE r == Append(q, t)
<1>1. r \in Seq(Pids) /\ Len(r) = Len(q) + 1 /\ r # <<>>
  BY AppendFacts DEF QueueOf
<1>2. \A i \in 1 .. Len(q) : r[i] = q[i]
  BY DEF QueueOf, Holds
<1>3. r[Len(q) + 1] = t
  BY DEF QueueOf, Holds
<1>4. \A i \in 1 .. Len(q) : q[i] # t
  BY InQueueSeq DEF QueueOf, Holds
<1>5. InQueue(r) = S \cup {t}
  <2> SUFFICES ASSUME NEW u
               PROVE  u \in InQueue(r) <=> u \in S \cup {t}
    OBVIOUS
  <2>1. u \in InQueue(r) <=> \E i \in 1 .. Len(r) : r[i] = u
    BY <1>1, InQueueSeq
  <2>2. u \in S <=> \E i \in 1 .. Len(q) : q[i] = u
    BY InQueueSeq DEF QueueOf, Holds
  <2>3. Len(q) \in Nat
    BY DEF QueueOf, Holds
  <2> QED
    BY <1>1, <1>2, <1>3, <2>1, <2>2, <2>3
<1>6. NoRepeats(r)
  BY <1>1, <1>2, <1>3, <1>4 DEF QueueOf, Holds, NoRepeats
<1> QED
  BY <1>1, <1>5, <1>6 DEF QueueOf, Holds, clist_rpush

(* clist_lpop() removes the first thread, whichever it is. *)
LEMMA LpopQueue ==
    ASSUME NEW q, NEW S, QueueOf(q, S), q # <<>>
    PROVE  /\ QueueOf(clist_lpop(q), S \ {Head(q)})
           /\ Head(q) \in Pids /\ Head(q) \in S
<1> DEFINE r == Tail(q)
<1>1. /\ r \in Seq(Pids) /\ Len(r) = Len(q) - 1
      /\ Len(q) \in Nat \ {0}
      /\ Head(q) = q[1] /\ Head(q) \in Pids
  BY DEF QueueOf, Holds
<1>2. \A i \in 1 .. Len(r) : r[i] = q[i + 1]
  BY DEF QueueOf, Holds
<1>3. NoRepeats(r)
  BY <1>1, <1>2 DEF QueueOf, Holds, NoRepeats
<1>4. InQueue(r) = S \ {Head(q)}
  <2> SUFFICES ASSUME NEW u
               PROVE  u \in InQueue(r) <=> u \in S \ {Head(q)}
    OBVIOUS
  <2>1. u \in InQueue(r) <=> \E i \in 1 .. Len(r) : r[i] = u
    BY <1>1, InQueueSeq
  <2>2. u \in S <=> \E i \in 1 .. Len(q) : q[i] = u
    BY InQueueSeq DEF QueueOf, Holds
  <2>3. \A i \in 1 .. Len(q) : q[i] = q[1] => i = 1
    BY <1>1 DEF QueueOf, Holds, NoRepeats
  <2>4. ASSUME NEW i \in 1 .. Len(r), r[i] = u
        PROVE  u \in S \ {Head(q)}
    BY <1>1, <1>2, <2>2, <2>3, <2>4
  <2>5. ASSUME NEW i \in 1 .. Len(q), q[i] = u, u # q[1]
        PROVE  i - 1 \in 1 .. Len(r) /\ r[i - 1] = u
    BY <1>1, <1>2, <2>5
  <2> QED
    BY <1>1, <2>1, <2>2, <2>4, <2>5
<1>5. Head(q) \in S
  BY <1>1, InQueueSeq DEF QueueOf, Holds
<1> QED
  BY <1>1, <1>3, <1>4, <1>5 DEF QueueOf, Holds, clist_lpop

(* clist_lpoprpush() keeps the queue's threads. *)
LEMMA RotateQueue ==
    ASSUME NEW q, NEW S, QueueOf(q, S)
    PROVE  /\ QueueOf(clist_lpoprpush(q), S)
           /\ clist_lpoprpush(q) = <<>> <=> q = <<>>
<1>1. CASE q = <<>>
  BY <1>1 DEF clist_lpoprpush
<1>2. CASE q # <<>>
  <2>1. /\ QueueOf(Tail(q), S \ {Head(q)})
        /\ Head(q) \in Pids /\ Head(q) \in S
    BY <1>2, LpopQueue DEF clist_lpop
  <2>2. /\ QueueOf(Append(Tail(q), Head(q)), (S \ {Head(q)}) \cup {Head(q)})
        /\ Append(Tail(q), Head(q)) # <<>>
    BY <2>1, RpushQueue DEF clist_rpush
  <2>3. (S \ {Head(q)}) \cup {Head(q)} = S
    BY <2>1
  <2> QED
    BY <1>2, <2>2, <2>3 DEF clist_lpoprpush
<1> QED
  BY <1>1, <1>2

-----------------------------------------------------------------------------
(* sched_set_status() keeps run queues and statuses in agreement, provided *)
(* a thread that leaves the run queue is the first of it.                  *)
LEMMA SetStatusAgrees ==
    ASSUME NEW k \in RunState, NEW prio \in [Pids -> Prios], Agree(k, prio),
           NEW t \in Pids, NEW st \in Status,
           k.status[t] \in OnRunqueue /\ st \notin OnRunqueue =>
                /\ k.runqueues[prio[t]] # <<>>
                /\ Head(k.runqueues[prio[t]]) = t
    PROVE  LET n == sched_set_status(k, prio, t, st)
           IN  /\ n \in RunState
               /\ Agree(n, prio)
               /\ n.status = [k.status EXCEPT ![t] = st]
<1> DEFINE p == prio[t]
           q == k.runqueues[p]
           enters == st \in OnRunqueue /\ k.status[t] \notin OnRunqueue
           leaves == st \notin OnRunqueue /\ k.status[t] \in OnRunqueue
           nq == IF enters THEN clist_rpush(q, t)
                 ELSE IF leaves THEN clist_lpop(q) ELSE q
           n == sched_set_status(k, prio, t, st)
<1>1. /\ n.status = [k.status EXCEPT ![t] = st]
      /\ n.runqueues = [k.runqueues EXCEPT ![p] = nq]
      /\ n.bitcache = IF enters THEN k.bitcache \cup {p}
                      ELSE IF leaves /\ nq = <<>> THEN k.bitcache \ {p} ELSE k.bitcache
      /\ n = [status |-> n.status, runqueues |-> n.runqueues, bitcache |-> n.bitcache]
  BY DEF sched_set_status, SetBit, ClearBit
<1>2. /\ p \in Prios
      /\ k.status \in [Pids -> Status]
      /\ k.runqueues \in [Prios -> Seq(Pids)]
      /\ k.bitcache \subseteq Prios
  BY DEF RunState
<1>3. QueueOf(q, Ready(k, prio, p)) /\ (p \in k.bitcache <=> q # <<>>)
  BY <1>2 DEF QueueOf, Agree
<1>4. QueueOf(nq, Ready(n, prio, p))
  <2>1. CASE enters
    <3>1. t \notin Ready(k, prio, p) /\ Ready(n, prio, p) = Ready(k, prio, p) \cup {t}
      BY <2>1, <1>1, <1>2 DEF Ready
    <3> QED BY <2>1, <3>1, <1>3, RpushQueue
  <2>2. CASE leaves
    <3>1. Ready(n, prio, p) = Ready(k, prio, p) \ {Head(q)}
      BY <2>2, <1>1, <1>2 DEF Ready
    <3> QED BY <2>2, <3>1, <1>3, LpopQueue
  <2>3. CASE ~enters /\ ~leaves
    <3>1. Ready(n, prio, p) = Ready(k, prio, p)
      BY <2>3, <1>1, <1>2 DEF Ready
    <3> QED BY <2>3, <3>1, <1>3
  <2> QED BY <2>1, <2>2, <2>3
<1>5. p \in n.bitcache <=> nq # <<>>
  <2>1. CASE enters
    <3>1. t \notin Ready(k, prio, p)
      BY <2>1 DEF Ready
    <3>2. nq # <<>>
      BY <2>1, <3>1, <1>3, RpushQueue
    <3> QED BY <2>1, <3>2, <1>1
  <2>2. CASE leaves
    BY <2>2, <1>1, <1>3
  <2>3. CASE ~enters /\ ~leaves
    BY <2>3, <1>1, <1>3
  <2> QED BY <2>1, <2>2, <2>3
<1>6. nq \in Seq(Pids)
  BY <1>4 DEF QueueOf
<1>7. n \in RunState
  <2>1. n.bitcache \subseteq Prios
    BY <1>1, <1>2
  <2>2. n.status \in [Pids -> Status] /\ n.runqueues \in [Prios -> Seq(Pids)]
    BY <1>1, <1>2, <1>6
  <2> HIDE DEF n
  <2> QED BY <1>1, <2>1, <2>2 DEF RunState
<1>8. ASSUME NEW r \in Prios
      PROVE  /\ Holds(n.runqueues[r], Ready(n, prio, r))
             /\ r \in n.bitcache <=> n.runqueues[r] # <<>>
  <2>1. CASE r = p
    BY <2>1, <1>1, <1>2, <1>4, <1>5 DEF QueueOf
  <2>2. CASE r # p
    <3>1. Ready(n, prio, r) = Ready(k, prio, r)
      BY <2>2, <1>1, <1>2 DEF Ready
    <3>2. n.runqueues[r] = k.runqueues[r] /\ (r \in n.bitcache <=> r \in k.bitcache)
      BY <2>2, <1>1, <1>2
    <3> QED BY <3>1, <3>2 DEF Agree
  <2> QED BY <2>1, <2>2
<1> QED
  BY <1>1, <1>7, <1>8 DEF Agree

(* Making a thread ready leaves the first thread of every queue in place. *)
LEMMA WakeKeepsFirst ==
    ASSUME NEW k \in RunState, NEW prio \in [Pids -> Prios],
           NEW t \in Pids, NEW st \in OnRunqueue, NEW p \in Prios,
           k.runqueues[p] # <<>>
    PROVE  LET n == sched_set_status(k, prio, t, st)
           IN  /\ n.runqueues[p] # <<>>
               /\ Head(n.runqueues[p]) = Head(k.runqueues[p])
<1>1. /\ k.runqueues \in [Prios -> Seq(Pids)] /\ prio[t] \in Prios
      /\ k.runqueues[p] \in Seq(Pids) /\ Len(k.runqueues[p]) > 0
  BY DEF RunState
<1>2. /\ Append(k.runqueues[p], t) # <<>>
      /\ Head(Append(k.runqueues[p], t)) = Head(k.runqueues[p])
  BY <1>1, AppendFacts
<1>3. sched_set_status(k, prio, t, st).runqueues[p] \in
        {k.runqueues[p], Append(k.runqueues[p], t)}
  BY <1>1 DEF sched_set_status, clist_rpush
<1> QED
  BY <1>2, <1>3

(* thread_yield()'s rotation keeps the agreement. *)
LEMMA RotateAgrees ==
    ASSUME NEW k \in RunState, NEW prio \in [Pids -> Prios], Agree(k, prio), NEW p \in Prios
    PROVE  LET n == [k EXCEPT !.runqueues[p] = clist_lpoprpush(@)]
           IN  n \in RunState /\ Agree(n, prio) /\ n.status = k.status
<1> DEFINE n == [k EXCEPT !.runqueues[p] = clist_lpoprpush(@)]
<1>0. k = [status |-> k.status, runqueues |-> k.runqueues, bitcache |-> k.bitcache]
  BY DEF RunState
<1>1. n = [status |-> k.status, bitcache |-> k.bitcache,
           runqueues |-> [k.runqueues EXCEPT ![p] = clist_lpoprpush(@)]]
  BY <1>0
<1>2. /\ k.status \in [Pids -> Status] /\ k.bitcache \subseteq Prios
      /\ k.runqueues \in [Prios -> Seq(Pids)]
  BY DEF RunState
<1>3. QueueOf(k.runqueues[p], Ready(k, prio, p))
  BY <1>2 DEF QueueOf, Agree
<1>4. /\ QueueOf(clist_lpoprpush(k.runqueues[p]), Ready(k, prio, p))
      /\ clist_lpoprpush(k.runqueues[p]) = <<>> <=> k.runqueues[p] = <<>>
  BY <1>3, RotateQueue
<1>5. \A r \in Prios : Ready(n, prio, r) = Ready(k, prio, r)
  BY <1>1 DEF Ready
<1>6. n \in RunState
  BY <1>1, <1>2, <1>4 DEF QueueOf, RunState
<1>7. ASSUME NEW r \in Prios
      PROVE  /\ Holds(n.runqueues[r], Ready(k, prio, r))
             /\ r \in n.bitcache <=> n.runqueues[r] # <<>>
  <2>1. CASE r = p
    BY <1>1, <1>2, <1>4, <2>1 DEF Agree, QueueOf
  <2>2. CASE r # p
    BY <1>1, <1>2, <2>2 DEF Agree
  <2> QED BY <2>1, <2>2
<1> QED
  BY <1>1, <1>5, <1>6, <1>7 DEF Agree

(* The critical section of thread_yield(). *)
LEMMA RotateKeeps ==
    ASSUME NEW k \in RunState, priority \in [Pids -> Prios], Agree(k, priority), NEW t \in Pids
    PROVE  /\ Rotate(k, t) \in RunState /\ Agree(Rotate(k, t), priority)
           /\ Rotate(k, t).status = k.status
<1>1. priority[t] \in Prios
  OBVIOUS
<1> QED BY <1>1, RotateAgrees DEF Rotate

(* A non-empty set of naturals has a least element. *)
LEMMA LeastBit ==
    ASSUME NEW S \in SUBSET Nat, S # {}
    PROVE  \E p \in S : \A r \in S : p <= r
<1> DEFINE R == OpToRel(<, Nat)
<1>1. R = {ss \in Nat \X Nat : ss[1] < ss[2]}
  BY DEF OpToRel
<1>2. PICK p \in S : \A r \in S : ~(<<r, p>> \in R)
  <2> HIDE DEF R
  <2>1. IsWellFoundedOn(R, Nat)
    BY NatLessThanWellFounded DEF R
  <2> QED BY <2>1, WFMin
<1>3. \A r \in S : ~(r < p)
  BY <1>1, <1>2
<1>4. \A r \in S : r \in Nat /\ p \in Nat
  OBVIOUS
<1> QED
  BY <1>3, <1>4

(* sched_run() picks a ready thread that is first of its queue and that no *)
(* ready thread precedes in priority.                                      *)
LEMMA ChoiceIsMostUrgent ==
    ASSUME NEW k \in RunState, NEW prio \in [Pids -> Prios], Agree(k, prio),
           NEW i \in Pids, k.status[i] \in OnRunqueue
    PROVE  LET n == NextThread(k)
           IN  /\ n \in Pids
               /\ k.status[n] \in OnRunqueue
               /\ k.runqueues[prio[n]] # <<>> /\ Head(k.runqueues[prio[n]]) = n
               /\ \A u \in Pids : k.status[u] \in OnRunqueue => prio[n] <= prio[u]
<1> DEFINE b == bitarithm_lsb(k.bitcache)
<1>1. /\ k.status \in [Pids -> Status] /\ k.bitcache \subseteq Prios
      /\ k.runqueues \in [Prios -> Seq(Pids)]
  BY DEF RunState
<1>2. \A u \in Pids : k.status[u] \in OnRunqueue => prio[u] \in k.bitcache
  <2> SUFFICES ASSUME NEW u \in Pids, k.status[u] \in OnRunqueue
               PROVE  prio[u] \in k.bitcache
    OBVIOUS
  <2>1. u \in InQueue(k.runqueues[prio[u]])
    BY DEF Agree, Holds, Ready
  <2>2. k.runqueues[prio[u]] # <<>>
    BY <2>1, <1>1 DEF InQueue
  <2> QED BY <2>2 DEF Agree
<1>3. b \in k.bitcache /\ \A r \in k.bitcache : b <= r
  <2>1. k.bitcache \subseteq Nat /\ k.bitcache # {}
    BY <1>1, <1>2, SchedAssumption DEF Prios
  <2>2. \E p \in k.bitcache : \A r \in k.bitcache : p <= r
    BY <2>1, LeastBit
  <2> QED BY <2>2 DEF bitarithm_lsb
<1>4. QueueOf(k.runqueues[b], Ready(k, prio, b)) /\ k.runqueues[b] # <<>>
  BY <1>1, <1>3 DEF Agree, QueueOf
<1>5. NextThread(k) \in Ready(k, prio, b)
  BY <1>4, LpopQueue DEF NextThread
<1>6. NextThread(k) \in Pids /\ prio[NextThread(k)] = b
        /\ k.status[NextThread(k)] \in OnRunqueue
  BY <1>5 DEF Ready
<1> QED
  BY <1>2, <1>3, <1>4, <1>6 DEF NextThread

-----------------------------------------------------------------------------
(* What sched_run() leaves behind, from run queues k that agree. *)
LEMMA SchedRunFacts ==
    ASSUME SchedTypeOK, NEW k \in RunState, Agree(k, priority),
           k.status[IdlePid] \in OnRunqueue, IdlePid \in Pids,
           sched_run(k), priority' = priority
    PROVE  /\ sched' \in RunState
           /\ Agree(sched', priority)
           /\ sched'.status[IdlePid] \in OnRunqueue
           /\ sched_active_thread' \in Pids
           /\ IsFirst(sched', priority, sched_active_thread')
           /\ sched_context_switch_request' = FALSE
           /\ \A u \in Pids : sched'.status[u] \in OnRunqueue =>
                    priority[sched_active_thread'] <= priority[u]
           /\ \A u \in Pids : /\ sched'.status[u] \in OnRunqueue <=> k.status[u] \in OnRunqueue
                              /\ k.status[u] \notin OnRunqueue =>
                                    sched'.status[u] = k.status[u]
<1> DEFINE n == NextThread(k)
           st == [t \in Pids |->
                    IF t = n THEN "RUNNING"
                    ELSE IF t = sched_active_thread /\ k.status[t] = "RUNNING"
                    THEN "PENDING" ELSE k.status[t]]
<1>1. /\ n \in Pids
      /\ k.status[n] \in OnRunqueue
      /\ k.runqueues[priority[n]] # <<>> /\ Head(k.runqueues[priority[n]]) = n
      /\ \A u \in Pids : k.status[u] \in OnRunqueue => priority[n] <= priority[u]
  BY ChoiceIsMostUrgent DEF SchedTypeOK
<1>2. /\ k.status \in [Pids -> Status] /\ k.bitcache \subseteq Prios
      /\ k.runqueues \in [Prios -> Seq(Pids)]
      /\ k = [status |-> k.status, runqueues |-> k.runqueues, bitcache |-> k.bitcache]
  BY DEF RunState
<1>3. sched_active_thread' = n /\ sched_context_switch_request' = FALSE
  BY DEF sched_run
<1>4. sched' = k \/ sched' = [k EXCEPT !.status = st]
  BY DEF sched_run
<1>5. \A t \in Pids : /\ st[t] \in Status
                      /\ st[t] \in OnRunqueue <=> k.status[t] \in OnRunqueue
                      /\ k.status[t] \notin OnRunqueue => st[t] = k.status[t]
  BY <1>1, <1>2 DEF Status, OnRunqueue
<1>6. /\ sched' \in RunState
      /\ sched'.runqueues = k.runqueues /\ sched'.bitcache = k.bitcache
      /\ \A t \in Pids : /\ sched'.status[t] \in OnRunqueue <=> k.status[t] \in OnRunqueue
                         /\ k.status[t] \notin OnRunqueue => sched'.status[t] = k.status[t]
  <2>1. CASE sched' = k
    BY <2>1
  <2>2. CASE sched' = [k EXCEPT !.status = st]
    <3>0. st = [t \in Pids |-> st[t]]
      OBVIOUS
    <3> HIDE DEF st
    <3>1. st \in [Pids -> Status]
      <4>1. \A t \in Pids : st[t] \in Status
        BY <1>5
      <4> QED BY <3>0, <4>1
    <3>2. sched' = [status |-> st, runqueues |-> k.runqueues, bitcache |-> k.bitcache]
      BY <1>2, <2>2
    <3>3. /\ sched'.status = st /\ sched'.runqueues = k.runqueues
          /\ sched'.bitcache = k.bitcache
      BY <3>2
    <3>4. sched' \in RunState
      BY <1>2, <3>1, <3>2 DEF RunState
    <3>5. \A t \in Pids : /\ st[t] \in OnRunqueue <=> k.status[t] \in OnRunqueue
                          /\ k.status[t] \notin OnRunqueue => st[t] = k.status[t]
      BY <1>5
    <3> QED BY <3>3, <3>4, <3>5
  <2> QED BY <1>4, <2>1, <2>2
<1>7. \A p \in Prios : Ready(sched', priority, p) = Ready(k, priority, p)
  BY <1>6 DEF Ready
<1>8. Agree(sched', priority)
  BY <1>6, <1>7 DEF Agree
<1> QED
  BY <1>1, <1>3, <1>6, <1>8 DEF IsFirst

(* Every step of the scheduler and of interrupts preserves SchedInv, and a *)
(* pending preemption stays pending until the scheduler has run.           *)
LEMMA SchedStepInv ==
    ASSUME ~YieldWindow, SchedInv, SchedStep, IdlePid \in Pids, NEW L, L \subseteq Pids,
           \A u \in L : SwitchAhead(u)
    PROVE  SchedInv' /\ \A u \in L : SwitchAhead(u)'
<1> USE DEF SchedInv
<1>0. /\ sched \in RunState /\ priority \in [Pids -> Prios]
      /\ sched_active_thread \in Pids \cup {0} /\ 0 \notin Pids
      /\ sched_context_switch_request \in BOOLEAN
      /\ irq_is_in \in BOOLEAN
      /\ pc \in [Pids -> Labels] /\ other_prio \in [Pids -> Prios]
      /\ 0 \in Prios
  BY SchedAssumption DEF SchedTypeOK, Pids, Prios
<1>1. ASSUME NEW k \in RunState, Agree(k, priority), k.status[IdlePid] \in OnRunqueue,
             sched_run(k), priority' = priority, irq_is_in' \in BOOLEAN,
             pc' \in [Pids -> Labels], other_prio' \in [Pids -> Prios]
      PROVE  SchedInv' /\ \A u \in L : SwitchAhead(u)'
  <2>1. /\ sched' \in RunState
        /\ Agree(sched', priority)
        /\ sched'.status[IdlePid] \in OnRunqueue
        /\ sched_active_thread' \in Pids
        /\ IsFirst(sched', priority, sched_active_thread')
        /\ sched_context_switch_request' = FALSE
        /\ \A u \in Pids : sched'.status[u] \in OnRunqueue =>
                    priority[sched_active_thread'] <= priority[u]
    BY <1>1, SchedRunFacts
  <2>2. SchedTypeOK'
    BY <1>0, <1>1, <2>1 DEF SchedTypeOK
  <2>3. RunqueuesAgree' /\ IdleIsReady' /\ ActiveIsFirst' /\ RequestInIsr'
    BY <1>1, <2>1 DEF RunqueuesAgree, IdleIsReady, ActiveIsFirst, RequestInIsr
  <2>4. ASSUME NEW u \in L PROVE SwitchAhead(u)'
    <3>1. priority[u] \in Int /\ priority[sched_active_thread'] \in Int
      BY <1>0, <2>1 DEF Prios
    <3> QED BY <1>1, <2>1, <3>1 DEF SwitchAhead
  <2> QED BY <2>2, <2>3, <2>4
<1>2. ASSUME NEW t \in Pids, YieldHigher(t)
      PROVE  SchedInv' /\ \A u \in L : SwitchAhead(u)'
  <2>1. pc' \in [Pids -> Labels] /\ other_prio' \in [Pids -> Prios]
    BY <1>0, <1>2 DEF YieldHigher, Tail_, Labels
  <2>2. irq_is_in' = FALSE /\ sched_run(sched) /\ priority' = priority
    BY <1>2 DEF YieldHigher
  <2> QED BY <1>0, <1>1, <2>1, <2>2 DEF RunqueuesAgree, IdleIsReady
<1>3. ASSUME NEW t \in Pids, SchedSwitch(t)
      PROVE  SchedInv' /\ \A u \in L : SwitchAhead(u)'
  <2>1. /\ sched_active_thread = t /\ ~irq_is_in /\ pc[t] = "sched_switch"
        /\ pc' = [pc EXCEPT ![t] =
                IF MustSwitch(sched, other_prio[t]) THEN "yield_higher" ELSE "run"]
        /\ other_prio' = [other_prio EXCEPT ![t] = 0]
        /\ UNCHANGED <<sched, sched_context_switch_request, priority,
                       sched_active_thread, irq_is_in>>
    BY <1>3 DEF SchedSwitch, Executes, Tail_, KeepsContext
  <2>2. SchedTypeOK'
    BY <1>0, <2>1 DEF SchedTypeOK, Labels
  <2>3. RunqueuesAgree' /\ IdleIsReady' /\ RequestInIsr' /\ ActiveIsFirst'
    BY <1>0, <2>1 DEF RunqueuesAgree, IdleIsReady, RequestInIsr, ActiveIsFirst, Yields,
                      MustSwitch, OnRunqueue
  <2>4. ASSUME NEW u \in L PROVE SwitchAhead(u)'
    BY <1>0, <2>1 DEF SwitchAhead, MustSwitch, RequestInIsr, Yields
  <2> QED BY <2>2, <2>3, <2>4
<1>7. ASSUME NEW t \in Pids, ThreadYield(t)
      PROVE  SchedInv' /\ \A u \in L : SwitchAhead(u)'
  <2>1. /\ sched_active_thread = t /\ ~irq_is_in
        /\ sched' = Rotate(sched, t)
        /\ pc' = [pc EXCEPT ![t] = "yield_higher"]
        /\ other_prio' = [other_prio EXCEPT ![t] = 0]
        /\ UNCHANGED <<sched_context_switch_request, priority, sched_active_thread, irq_is_in>>
    BY <1>7 DEF ThreadYield, Executes, YieldTail, Tail_, KeepsContext
  <2>2. /\ sched' \in RunState /\ Agree(sched', priority)
        /\ sched'.status = sched.status
    BY <1>0, <2>1, RotateKeeps DEF RunqueuesAgree
  <2>3. SchedTypeOK'
    BY <1>0, <2>1, <2>2 DEF SchedTypeOK, Labels
  <2>4. RunqueuesAgree' /\ IdleIsReady' /\ RequestInIsr' /\ ActiveIsFirst'
    BY <1>0, <2>1, <2>2
       DEF RunqueuesAgree, IdleIsReady, RequestInIsr, ActiveIsFirst, Yields
  <2>5. ASSUME NEW u \in L PROVE SwitchAhead(u)'
    BY <1>0, <2>1 DEF SwitchAhead, Yields
  <2> QED BY <2>3, <2>4, <2>5
<1>4. CASE IsrEnter
  <2>1. SchedTypeOK'
    BY <1>0, <1>4 DEF SchedTypeOK, IsrEnter
  <2>2. RunqueuesAgree' /\ IdleIsReady' /\ RequestInIsr' /\ ActiveIsFirst'
    BY <1>4 DEF IsrEnter, RunqueuesAgree, IdleIsReady, RequestInIsr, ActiveIsFirst
  <2>3. ASSUME NEW u \in L PROVE SwitchAhead(u)'
    BY <1>4 DEF IsrEnter, SwitchAhead
  <2> QED BY <2>1, <2>2, <2>3
<1>5. CASE IsrExit
  <2>0. /\ irq_is_in' = FALSE /\ priority' = priority
        /\ pc' = pc /\ other_prio' = other_prio
    BY <1>5 DEF IsrExit
  <2>1. ASSUME ~sched_context_switch_request,
               UNCHANGED <<sched, sched_active_thread, sched_context_switch_request>>
        PROVE  SchedInv' /\ \A u \in L : SwitchAhead(u)'
    <3>1. SchedTypeOK'
      BY <1>0, <2>0, <2>1 DEF SchedTypeOK
    <3>2. RunqueuesAgree' /\ IdleIsReady' /\ RequestInIsr' /\ ActiveIsFirst'
      BY <2>0, <2>1 DEF RunqueuesAgree, IdleIsReady, RequestInIsr, ActiveIsFirst
    <3>3. ASSUME NEW u \in L PROVE SwitchAhead(u)'
      BY <2>0, <2>1 DEF SwitchAhead
    <3> QED BY <3>1, <3>2, <3>3
  <2>2. ASSUME sched_run(sched)
        PROVE  SchedInv' /\ \A u \in L : SwitchAhead(u)'
    BY <1>0, <1>1, <2>0, <2>2 DEF RunqueuesAgree, IdleIsReady
  <2>3. ASSUME NEW p \in Prios,
               sched_run([sched EXCEPT !.runqueues[p] = clist_lpoprpush(@)])
        PROVE  SchedInv' /\ \A u \in L : SwitchAhead(u)'
    <3> DEFINE k == [sched EXCEPT !.runqueues[p] = clist_lpoprpush(@)]
    <3>1. k \in RunState /\ Agree(k, priority) /\ k.status = sched.status
      BY <1>0, RotateAgrees DEF RunqueuesAgree
    <3>2. k.status[IdlePid] \in OnRunqueue
      BY <3>1 DEF IdleIsReady
    <3>3. sched_run(k)
      BY <2>3
    <3> HIDE DEF k
    <3> QED BY <1>0, <1>1, <2>0, <3>1, <3>2, <3>3
  <2>4. ASSUME sched_active_thread # 0, sched_run(Rotate(sched, sched_active_thread))
        PROVE  SchedInv' /\ \A u \in L : SwitchAhead(u)'
    <3>1. priority[sched_active_thread] \in Prios
      BY <1>0, <2>4
    <3> QED BY <2>2, <2>3, <2>4, <3>1 DEF Rotate
  <2> QED BY <1>5, <2>1, <2>2, <2>3, <2>4 DEF IsrExit
<1>6. CASE cpu_switch_context_exit
  BY <1>0, <1>1, <1>6 DEF cpu_switch_context_exit, RunqueuesAgree, IdleIsReady
<1> QED
  BY <1>2, <1>3, <1>4, <1>5, <1>6, <1>7 DEF SchedStep, SwitchStep

(* The invariant gives the two properties a thread's own code relies on. *)
LEMMA SchedInvFirst == SchedInv => RunnerIsFirst
<1> SUFFICES ASSUME SchedInv, NEW t \in Pids, Runs(t)
             PROVE  IsFirst(sched, priority, t)
  BY DEF RunnerIsFirst
<1>1. t # 0 /\ sched_active_thread = t /\ pc[t] = "run" /\ ~irq_is_in
  BY SchedAssumption DEF Pids, Runs, Executes
<1> QED
  BY <1>1 DEF SchedInv, ActiveIsFirst, RequestInIsr, Yields

LEMMA SchedInvUrgent ==
    ASSUME SchedInv, NEW L, \A u \in Pids \ L : SwitchAhead(u)
    PROVE  NoneMoreUrgent(L)
<1> SUFFICES ASSUME NEW t \in Pids, Runs(t), NEW u \in Pids \ L,
                    sched.status[u] \in OnRunqueue
             PROVE  priority[t] <= priority[u]
  BY DEF NoneMoreUrgent
<1>1. /\ t # 0 /\ sched_active_thread = t /\ pc[t] = "run"
      /\ ~sched_context_switch_request
  BY SchedAssumption DEF Pids, Runs, Executes, SchedInv, RequestInIsr
<1>2. ~(priority[u] < priority[t])
  BY <1>1 DEF SwitchAhead, Yields
<1>3. priority[u] \in Int /\ priority[t] \in Int
  BY DEF SchedInv, SchedTypeOK, Prios
<1> QED BY <1>2, <1>3

-----------------------------------------------------------------------------
LEMMA PidFacts == IdlePid \in Pids /\ 0 \notin Pids /\ 0 \in Prios
BY SchedAssumption DEF Pids, Prios, IdlePid

(* A step that leaves the scheduler alone. *)
LEMMA SchedSame ==
    ASSUME SchedInv, UNCHANGED schedVars
    PROVE  SchedInv' /\ \A u \in Pids : SwitchAhead(u) => SwitchAhead(u)'
BY DEF schedVars, SchedInv, SchedTypeOK, RunqueuesAgree, IdleIsReady, ActiveIsFirst,
       RequestInIsr, SwitchAhead

(* A kernel call that makes thread t ready, or puts it to sleep when it    *)
(* never was ready, and goes on to SwitchTail or, for threads outside the  *)
(* preemption rule, to nothing.                                            *)
LEMMA WakeStep ==
    ASSUME SchedInv, NEW k \in RunState, NEW prio \in [Pids -> Prios], Agree(k, prio),
           NEW t \in Pids, NEW st \in Status,
           k.status[t] \notin OnRunqueue, t # IdlePid,
           \A u \in Pids : u # t => prio[u] = priority[u] /\ k.status[u] = sched.status[u],
           k.runqueues = sched.runqueues,
           sched.status[t] \notin OnRunqueue,
           t # sched_active_thread \/ prio[t] = priority[t],
           t # sched_active_thread \/ sched.status[t] # "REPLY_BLOCKED",
           priority' = prio, sched' = sched_set_status(k, prio, t, st),
           UNCHANGED <<sched_active_thread, irq_is_in>>,
           irq_is_in \/ (sched_active_thread # 0 /\ pc[sched_active_thread] = "run"),
           \/ SwitchTail(sched', prio[t])
           \/ UNCHANGED <<sched_context_switch_request, pc, other_prio>>
    PROVE  /\ SchedInv'
           /\ \A u \in Pids : SwitchAhead(u) /\ u # t => SwitchAhead(u)'
           /\ st \notin OnRunqueue \/ SwitchTail(sched', prio[t]) => SwitchAhead(t)'
<1> USE DEF SchedInv
<1> DEFINE a == sched_active_thread
<1>0. /\ sched \in RunState /\ priority \in [Pids -> Prios]
      /\ a \in Pids \cup {0} /\ 0 \notin Pids /\ 0 \in Prios
      /\ sched_context_switch_request \in BOOLEAN /\ irq_is_in \in BOOLEAN
      /\ pc \in [Pids -> Labels] /\ other_prio \in [Pids -> Prios]
      /\ IdlePid \in Pids
  BY PidFacts DEF SchedTypeOK
<1>1. /\ sched' \in RunState /\ Agree(sched', prio)
      /\ sched'.status = [k.status EXCEPT ![t] = st]
  BY SetStatusAgrees
<1>2. k.status \in [Pids -> Status]
  BY DEF RunState
<1>3. /\ sched'.status[t] = st
      /\ \A u \in Pids : u # t => sched'.status[u] = sched.status[u]
  BY <1>1, <1>2
<1>4. /\ sched_context_switch_request' \in BOOLEAN
      /\ pc' \in [Pids -> Labels] /\ other_prio' \in [Pids -> Prios]
      /\ sched_context_switch_request => sched_context_switch_request'
      /\ sched_context_switch_request' /\ ~sched_context_switch_request => irq_is_in
      /\ irq_is_in => pc' = pc /\ other_prio' = other_prio
      /\ ~irq_is_in => a # 0 /\ pc[a] = "run" /\ pc'[a] \notin Yields
  <2>1. CASE UNCHANGED <<sched_context_switch_request, pc, other_prio>>
    BY <1>0, <2>1 DEF Yields
  <2>2. CASE SwitchTail(sched', prio[t]) /\ irq_is_in
    <3>1. pc' = pc /\ other_prio' = other_prio
      BY <2>2 DEF SwitchTail
    <3>2. CASE a = 0
      BY <1>0, <2>2, <3>1, <3>2 DEF SwitchTail
    <3>3. CASE a # 0
      <4>1. sched_context_switch_request' =
                (sched_context_switch_request \/ MustSwitch(sched', prio[t]))
        BY <2>2, <3>3 DEF SwitchTail
      <4> QED BY <1>0, <2>2, <3>1, <4>1
    <3> QED BY <3>2, <3>3
  <2>3. CASE SwitchTail(sched', prio[t]) /\ ~irq_is_in
    <3>1. /\ pc' = [pc EXCEPT ![a] = "sched_switch"]
          /\ other_prio' = [other_prio EXCEPT ![a] = prio[t]]
          /\ sched_context_switch_request' = sched_context_switch_request
          /\ a # 0 /\ pc[a] = "run" /\ a \in Pids
      BY <1>0, <2>3 DEF SwitchTail, Tail_
    <3> QED BY <1>0, <2>3, <3>1 DEF Labels, Yields
  <2> QED BY <2>1, <2>2, <2>3
<1>5. SchedTypeOK'
  BY <1>0, <1>1, <1>4 DEF SchedTypeOK
<1>6. RunqueuesAgree' /\ IdleIsReady' /\ RequestInIsr'
  BY <1>0, <1>1, <1>3, <1>4 DEF RunqueuesAgree, IdleIsReady, RequestInIsr
<1>7. ActiveIsFirst'
  <2> SUFFICES ASSUME a # 0, pc'[a] \notin Yields, ~sched_context_switch_request',
                      ~(pc'[a] = "sched_switch" /\ sched'.status[a] = "REPLY_BLOCKED")
               PROVE  IsFirst(sched', prio, a)
    BY DEF ActiveIsFirst
  <2>1. pc[a] \notin Yields /\ ~sched_context_switch_request
    BY <1>4 DEF Yields
  <2>2. IsFirst(sched, priority, a)
    <3>1. CASE irq_is_in
      <4>1. ~(pc[a] = "sched_switch" /\ sched.status[a] = "REPLY_BLOCKED")
        BY <1>0, <1>3, <1>4, <3>1
      <4> QED BY <2>1, <4>1 DEF ActiveIsFirst
    <3>2. CASE ~irq_is_in
      BY <1>4, <2>1, <3>2 DEF ActiveIsFirst
    <3> QED BY <3>1, <3>2
  <2>3. a \in Pids /\ a # t
    BY <1>0, <2>2 DEF IsFirst
  <2>4. prio[a] = priority[a] /\ sched'.status[a] = sched.status[a]
    BY <1>3, <2>3
  <2>5. /\ sched'.runqueues[prio[a]] # <<>>
        /\ Head(sched'.runqueues[prio[a]]) = Head(k.runqueues[prio[a]])
    <3>1. prio[a] \in Prios /\ k.runqueues[prio[a]] # <<>>
      BY <2>2, <2>3, <2>4 DEF IsFirst
    <3>2. CASE st \in OnRunqueue
      BY <3>1, <3>2, WakeKeepsFirst
    <3>3. CASE st \notin OnRunqueue
      <4>1. sched'.runqueues = [k.runqueues EXCEPT ![prio[t]] = k.runqueues[prio[t]]]
        BY <3>3 DEF sched_set_status
      <4>2. k.runqueues \in [Prios -> Seq(Pids)]
        BY DEF RunState
      <4> QED BY <3>1, <4>1, <4>2
    <3> QED BY <3>2, <3>3
  <2> QED BY <2>2, <2>4, <2>5 DEF IsFirst
<1>8. ASSUME NEW u \in Pids, SwitchAhead(u), u # t PROVE SwitchAhead(u)'
  <2>1. CASE irq_is_in
    <3>1. CASE a # 0 /\ a = t
      <4>1. prio[t] = priority[t]
        BY <3>1
      <4> QED BY <1>3, <1>4, <1>8, <2>1, <3>1, <4>1 DEF SwitchAhead
    <3>2. CASE a # 0 /\ a # t
      <4>1. a \in Pids
        BY <1>0, <3>2
      <4> QED BY <1>3, <1>4, <1>8, <2>1, <3>2, <4>1 DEF SwitchAhead
    <3>3. CASE a = 0
      BY <3>3 DEF SwitchAhead
    <3> QED BY <3>1, <3>2, <3>3
  <2>2. CASE ~irq_is_in
    <3>1. a # 0 /\ pc[a] = "run" /\ a \in Pids /\ ~sched_context_switch_request
      BY <1>0, <1>4, <2>2 DEF RequestInIsr
    <3>2. IsFirst(sched, priority, a)
      BY <3>1 DEF ActiveIsFirst, Yields
    <3>3. a # t
      BY <3>2 DEF IsFirst
    <3>4. ~(sched.status[u] \in OnRunqueue /\ priority[u] < priority[a])
      BY <1>8, <3>1 DEF SwitchAhead, Yields
    <3> QED BY <1>3, <1>8, <3>1, <3>3, <3>4 DEF SwitchAhead
  <2> QED BY <2>1, <2>2
<1>9. ASSUME st \notin OnRunqueue PROVE SwitchAhead(t)'
  BY <1>3, <1>9 DEF SwitchAhead
<1>10. ASSUME SwitchTail(sched', prio[t]) PROVE SwitchAhead(t)'
  <2> SUFFICES ASSUME a # 0, prio[t] < prio[a]
               PROVE  \/ sched_context_switch_request'
                      \/ pc'[a] \in Yields
                      \/ pc'[a] = "sched_switch" /\ other_prio'[a] < prio[a]
    BY DEF SwitchAhead
  <2>1. a \in Pids /\ a # t /\ prio[a] = priority[a] /\ prio[t] \in Prios
    <3>1. a \in Pids
      BY <1>0
    <3>2. prio[a] \in Int /\ prio[t] \in Prios
      BY <3>1 DEF Prios
    <3> QED BY <3>1, <3>2 DEF Prios
  <2>2. CASE irq_is_in
    BY <1>10, <2>1, <2>2 DEF SwitchTail, MustSwitch
  <2>3. CASE ~irq_is_in
    BY <1>0, <1>10, <2>1, <2>3 DEF SwitchTail, Tail_
  <2> QED BY <2>2, <2>3
<1> QED BY <1>5, <1>6, <1>7, <1>8, <1>9, <1>10

(* A kernel call of the thread that runs, which changes the run queues in  *)
(* any way that keeps them in agreement and then gives the processor away. *)
LEMMA YieldTailStep ==
    ASSUME SchedInv, NEW t \in Pids, Runs(t), NEW l \in Yields,
           sched' \in RunState, Agree(sched', priority),
           sched'.status[IdlePid] \in OnRunqueue,
           Tail_(t, l, 0), UNCHANGED sched_context_switch_request, KeepsContext
    PROVE  SchedInv' /\ \A u \in Pids : SwitchAhead(u)'
<1> USE DEF SchedInv
<1>1. /\ priority \in [Pids -> Prios]
      /\ sched_context_switch_request \in BOOLEAN /\ irq_is_in \in BOOLEAN
      /\ pc \in [Pids -> Labels] /\ other_prio \in [Pids -> Prios]
      /\ 0 \in Prios /\ sched_active_thread = t /\ ~irq_is_in
      /\ sched_active_thread' = t /\ irq_is_in' = irq_is_in /\ priority' = priority
      /\ pc' = [pc EXCEPT ![t] = l]
      /\ other_prio' = [other_prio EXCEPT ![t] = 0]
      /\ sched_context_switch_request' = sched_context_switch_request
  BY PidFacts DEF SchedTypeOK, Runs, Executes, Tail_, KeepsContext
<1>2. SchedTypeOK'
  BY <1>1 DEF SchedTypeOK, Labels, Yields
<1>3. RunqueuesAgree' /\ IdleIsReady' /\ RequestInIsr' /\ ActiveIsFirst'
  BY <1>1 DEF RunqueuesAgree, IdleIsReady, RequestInIsr, ActiveIsFirst
<1>4. ASSUME NEW u \in Pids PROVE SwitchAhead(u)'
  BY <1>1 DEF SwitchAhead
<1> QED BY <1>2, <1>3, <1>4

(* A thread that runs may take itself off the run queues: it is the first  *)
(* of its queue, so clist_lpop() removes it and no other thread.           *)
LEMMA BlockKeeps ==
    ASSUME SchedInv, NEW t \in Pids, t # IdlePid, NEW st \in Blocked, NEW k \in RunState,
           Agree(k, priority), IsFirst(k, priority, t), k.status[IdlePid] \in OnRunqueue
    PROVE  LET n == sched_set_status(k, priority, t, st)
           IN  /\ n \in RunState /\ Agree(n, priority)
               /\ n.status = [k.status EXCEPT ![t] = st]
               /\ n.status[IdlePid] \in OnRunqueue
<1> DEFINE n == sched_set_status(k, priority, t, st)
<1>1. priority \in [Pids -> Prios] /\ st \in Status /\ k.status \in [Pids -> Status]
  BY DEF SchedInv, SchedTypeOK, Status, RunState
<1>2. n \in RunState /\ Agree(n, priority) /\ n.status = [k.status EXCEPT ![t] = st]
  BY <1>1, SetStatusAgrees DEF IsFirst
<1> HIDE DEF n
<1>3. n.status[IdlePid] = k.status[IdlePid]
  BY <1>1, <1>2, PidFacts
<1> QED BY <1>2, <1>3 DEF n

(* A kernel call in which the thread that runs blocks itself. *)
LEMMA BlockStep ==
    ASSUME SchedInv, NEW t \in Pids, Runs(t), t # IdlePid, NEW st \in Blocked,
           NEW l \in Yields,
           sched' = sched_set_status(sched, priority, t, st),
           Tail_(t, l, 0), UNCHANGED sched_context_switch_request, KeepsContext
    PROVE  /\ SchedInv' /\ \A u \in Pids : SwitchAhead(u)'
           /\ sched'.status = [sched.status EXCEPT ![t] = st]
<1>1. IsFirst(sched, priority, t)
  BY SchedInvFirst DEF RunnerIsFirst
<1>2. sched \in RunState /\ Agree(sched, priority) /\ sched.status[IdlePid] \in OnRunqueue
  BY DEF SchedInv, SchedTypeOK, RunqueuesAgree, IdleIsReady
<1>3. /\ sched' \in RunState /\ Agree(sched', priority)
      /\ sched'.status = [sched.status EXCEPT ![t] = st]
      /\ sched'.status[IdlePid] \in OnRunqueue
  BY <1>1, <1>2, BlockKeeps
<1> QED BY <1>3, YieldTailStep

(* A thread becomes ready, or is ready already. *)
LEMMA WakeKeeps ==
    ASSUME SchedInv, NEW k \in RunState, Agree(k, priority), NEW t \in Pids,
           NEW st \in OnRunqueue
    PROVE  LET n == sched_set_status(k, priority, t, st)
           IN  /\ n \in RunState /\ Agree(n, priority)
               /\ n.status = [k.status EXCEPT ![t] = st]
               /\ \A u \in Pids : IsFirst(k, priority, u) => IsFirst(n, priority, u)
               /\ k.status[IdlePid] \in OnRunqueue => n.status[IdlePid] \in OnRunqueue
<1> DEFINE n == sched_set_status(k, priority, t, st)
<1>1. priority \in [Pids -> Prios] /\ st \in Status /\ k.status \in [Pids -> Status]
  BY DEF SchedInv, SchedTypeOK, Status, RunState
<1>2. n \in RunState /\ Agree(n, priority) /\ n.status = [k.status EXCEPT ![t] = st]
  BY <1>1, SetStatusAgrees
<1>3. ASSUME NEW p \in Prios, k.runqueues[p] # <<>>
      PROVE  n.runqueues[p] # <<>> /\ Head(n.runqueues[p]) = Head(k.runqueues[p])
  BY <1>1, <1>3, WakeKeepsFirst
<1> HIDE DEF n
<1>4. ASSUME NEW u \in Pids, IsFirst(k, priority, u)
      PROVE  IsFirst(n, priority, u)
  <2>1. n.status[u] \in OnRunqueue
    BY <1>1, <1>2, <1>4 DEF IsFirst
  <2>2. priority[u] \in Prios
    BY <1>1
  <2> QED BY <1>3, <1>4, <2>1, <2>2 DEF IsFirst
<1>5. k.status[IdlePid] \in OnRunqueue => n.status[IdlePid] \in OnRunqueue
  BY <1>1, <1>2, PidFacts
<1> QED BY <1>2, <1>4, <1>5 DEF n

(* A handler makes a thread ready and asks for the scheduler, as           *)
(* thread_yield_higher() and msg_send_int() do.                            *)
LEMMA IsrWakeStep ==
    ASSUME SchedInv, irq_is_in, NEW t \in Pids, NEW st \in OnRunqueue,
           sched' = sched_set_status(sched, priority, t, st),
           sched_context_switch_request' = TRUE, UNCHANGED <<pc, other_prio>>, KeepsContext
    PROVE  /\ SchedInv' /\ \A u \in Pids : SwitchAhead(u)'
           /\ sched'.status = [sched.status EXCEPT ![t] = st]
<1>1. sched \in RunState /\ Agree(sched, priority) /\ sched.status[IdlePid] \in OnRunqueue
  BY DEF SchedInv, SchedTypeOK, RunqueuesAgree, IdleIsReady
<1>2. /\ sched' \in RunState /\ Agree(sched', priority)
      /\ sched'.status = [sched.status EXCEPT ![t] = st]
      /\ \A u \in Pids : IsFirst(sched, priority, u) => IsFirst(sched', priority, u)
      /\ sched'.status[IdlePid] \in OnRunqueue
  BY <1>1, WakeKeeps
<1>3. /\ priority' = priority /\ sched_active_thread' = sched_active_thread
      /\ irq_is_in' = irq_is_in /\ pc' = pc /\ other_prio' = other_prio
  BY DEF KeepsContext
<1>4. SchedTypeOK'
  BY <1>2, <1>3 DEF SchedInv, SchedTypeOK
<1>5. RunqueuesAgree' /\ IdleIsReady' /\ RequestInIsr'
  BY <1>2, <1>3 DEF RunqueuesAgree, IdleIsReady, RequestInIsr
<1>6. ActiveIsFirst'
  BY DEF ActiveIsFirst
<1>7. ASSUME NEW u \in Pids PROVE SwitchAhead(u)'
  BY DEF SwitchAhead
<1> QED BY <1>2, <1>4, <1>5, <1>6, <1>7 DEF SchedInv

(* thread_sleep(), thread_wakeup() and thread_yield(). *)
LEMMA SleepCall ==
    ASSUME SchedInv, NEW t \in Pids, thread_sleep(t)
    PROVE  /\ SchedInv' /\ \A u \in Pids : SwitchAhead(u)'
           /\ priority' = priority
           /\ sched'.status = [sched.status EXCEPT ![t] = "SLEEPING"]
<1>1. "SLEEPING" \in Blocked /\ "yield_higher" \in Yields
  BY DEF Blocked, Yields
<1> QED BY <1>1, BlockStep DEF thread_sleep, InThread, YieldTail, KeepsContext

LEMMA WakeupCall ==
    ASSUME SchedInv, NEW t \in Pids, thread_wakeup(t)
    PROVE  /\ SchedInv' /\ \A u \in Pids : SwitchAhead(u) \/ u = t => SwitchAhead(u)'
           /\ priority' = priority
           /\ sched'.status = [sched.status EXCEPT ![t] = "RUNNING"]
<1>1. /\ sched.status[t] = "SLEEPING"
      /\ sched' = sched_set_status(sched, priority, t, "RUNNING")
      /\ SwitchTail(sched', priority[t])
      /\ UNCHANGED <<priority, sched_active_thread, irq_is_in>>
      /\ irq_is_in \/ (sched_active_thread # 0 /\ pc[sched_active_thread] = "run")
  BY PidFacts DEF thread_wakeup, KeepsContext, InKernelCall, InThread, Runs, Executes
<1>2. sched.status[t] \notin OnRunqueue /\ "RUNNING" \in Status
  BY <1>1 DEF Status, OnRunqueue
<1>3. t # IdlePid /\ sched \in RunState /\ Agree(sched, priority) /\ priority \in [Pids -> Prios]
  BY <1>2 DEF SchedInv, SchedTypeOK, IdleIsReady, RunqueuesAgree
<1>4. SchedInv' /\ \A u \in Pids : SwitchAhead(u) \/ u = t => SwitchAhead(u)'
  BY <1>1, <1>2, <1>3, WakeStep
<1> QED BY <1>1, <1>4 DEF sched_set_status

LEMMA YieldCall ==
    ASSUME SchedInv, NEW t \in Pids, thread_yield(t)
    PROVE  /\ SchedInv' /\ \A u \in Pids : SwitchAhead(u)'
           /\ priority' = priority /\ sched'.status = sched.status
<1>1. /\ Runs(t) /\ sched' = Rotate(sched, t) /\ "yield_higher" \in Yields
      /\ Tail_(t, "yield_higher", 0) /\ KeepsContext
      /\ UNCHANGED sched_context_switch_request
  BY DEF thread_yield, InThread, YieldTail, Yields
<1>2. /\ sched \in RunState /\ Agree(sched, priority) /\ priority \in [Pids -> Prios]
      /\ sched.status[IdlePid] \in OnRunqueue
  BY DEF SchedInv, SchedTypeOK, RunqueuesAgree, IdleIsReady
<1>3. sched' \in RunState /\ Agree(sched', priority) /\ sched'.status = sched.status
  BY <1>1, <1>2, RotateKeeps
<1> QED BY <1>1, <1>2, <1>3, YieldTailStep DEF KeepsContext

(* The state kernel_init() leaves, with the other threads asleep. *)
LEMMA SchedInitInv ==
    ASSUME NEW prio \in [Pids -> Prios], SchedInit(prio)
    PROVE  /\ SchedInv /\ \A u \in Pids : SwitchAhead(u)
           /\ priority = prio
           /\ sched.status = [t \in Pids |-> IF t = IdlePid THEN "PENDING" ELSE "SLEEPING"]
<1> DEFINE empty == [status |-> [t \in Pids |-> "SLEEPING"],
                     runqueues |-> [p \in Prios |-> <<>>], bitcache |-> {}]
<1>1. empty \in RunState /\ Agree(empty, prio)
  <2>1. empty \in RunState
    BY DEF RunState, Status, Blocked
  <2>2. \A p \in Prios : Ready(empty, prio, p) = {}
    BY DEF Ready, OnRunqueue
  <2>3. Holds(<<>>, {})
    BY DEF Holds, InQueue, NoRepeats
  <2> QED BY <2>1, <2>2, <2>3 DEF Agree
<1>2. "PENDING" \in Status /\ "PENDING" \in OnRunqueue /\ "SLEEPING" \notin OnRunqueue
  BY DEF Status, OnRunqueue
<1>3. /\ sched \in RunState /\ Agree(sched, prio) /\ priority = prio
      /\ sched.status = [empty.status EXCEPT ![IdlePid] = "PENDING"]
  <2>1. \A t \in Pids : empty.status[t] \notin OnRunqueue
    BY <1>2
  <2>2. priority = prio /\ sched = sched_set_status(empty, prio, IdlePid, "PENDING")
    BY DEF SchedInit
  <2> HIDE DEF empty
  <2> QED BY <1>1, <1>2, <2>1, <2>2, PidFacts, SetStatusAgrees
<1>4. sched.status = [t \in Pids |-> IF t = IdlePid THEN "PENDING" ELSE "SLEEPING"]
  BY <1>3
<1>5. SchedTypeOK
  BY <1>3, PidFacts DEF SchedInit, SchedTypeOK, Labels
<1>6. RunqueuesAgree /\ IdleIsReady /\ ActiveIsFirst /\ RequestInIsr
  BY <1>2, <1>3, <1>4, PidFacts
     DEF SchedInit, RunqueuesAgree, IdleIsReady, ActiveIsFirst, RequestInIsr
<1>7. \A u \in Pids : SwitchAhead(u)
  BY DEF SchedInit, SwitchAhead
<1> QED BY <1>3, <1>4, <1>5, <1>6, <1>7 DEF SchedInv

(* What a step of the scheduler leaves alone: whether a thread is ready,   *)
(* the status of one that is not, the labels of inactive threads; and the  *)
(* thread it switches to is a ready one.                                   *)
LEMMA SchedStepFrame ==
    ASSUME ~YieldWindow, SchedInv, SchedStep
    PROVE  /\ \A u \in Pids :
                /\ sched'.status[u] \in OnRunqueue <=> sched.status[u] \in OnRunqueue
                /\ sched.status[u] \notin OnRunqueue =>
                        sched'.status[u] = sched.status[u]
                /\ u # sched_active_thread => pc'[u] = pc[u]
           /\ priority' = priority
           /\ \/ sched_active_thread' = sched_active_thread
              \/ /\ sched_active_thread' \in Pids
                 /\ sched.status[sched_active_thread'] \in OnRunqueue
<1> DEFINE Frame ==
        /\ \A u \in Pids :
             /\ sched'.status[u] \in OnRunqueue <=> sched.status[u] \in OnRunqueue
             /\ sched.status[u] \notin OnRunqueue => sched'.status[u] = sched.status[u]
        /\ \/ sched_active_thread' = sched_active_thread
           \/ /\ sched_active_thread' \in Pids
              /\ sched.status[sched_active_thread'] \in OnRunqueue
<1>0. /\ SchedTypeOK /\ sched \in RunState /\ Agree(sched, priority)
      /\ sched.status[IdlePid] \in OnRunqueue /\ IdlePid \in Pids
      /\ priority \in [Pids -> Prios] /\ pc \in [Pids -> Labels]
      /\ sched_active_thread \in Pids \cup {0}
  BY PidFacts DEF SchedInv, SchedTypeOK, RunqueuesAgree, IdleIsReady
<1>1. priority' = priority /\ \A u \in Pids : u # sched_active_thread => pc'[u] = pc[u]
  BY <1>0 DEF SchedStep, SwitchStep, YieldHigher, SchedSwitch, ThreadYield, IsrEnter,
              IsrExit, cpu_switch_context_exit, YieldTail, Tail_, Executes, KeepsContext
<1>2. ASSUME NEW k \in RunState, Agree(k, priority), k.status = sched.status, sched_run(k)
      PROVE  Frame
  BY <1>0, <1>1, <1>2, SchedRunFacts, ZenonT(30) DEF IsFirst
<1>3. ASSUME NEW p \in Prios, sched_run([sched EXCEPT !.runqueues[p] = clist_lpoprpush(@)])
      PROVE  Frame
  <2> DEFINE k == [sched EXCEPT !.runqueues[p] = clist_lpoprpush(@)]
  <2>1. k \in RunState /\ Agree(k, priority) /\ k.status = sched.status
    BY <1>0, RotateAgrees
  <2>2. sched_run(k)
    BY <1>3
  <2> HIDE DEF k, Frame
  <2> QED BY <1>2, <2>1, <2>2
<1>4. ASSUME sched_run(sched) PROVE Frame
  BY <1>0, <1>2, <1>4
<1>5. ASSUME sched_active_thread # 0, sched_run(Rotate(sched, sched_active_thread))
      PROVE  Frame
  <2>1. priority[sched_active_thread] \in Prios
    BY <1>0, <1>5
  <2> HIDE DEF Frame
  <2> QED BY <1>3, <1>4, <1>5, <2>1 DEF Rotate
<1>6. ASSUME UNCHANGED <<sched, sched_active_thread>> PROVE Frame
  BY <1>6
<1>7. Frame
  <2> HIDE DEF Frame
  <2>1. ASSUME NEW t \in Pids, YieldHigher(t) \/ SchedSwitch(t) PROVE Frame
    BY <1>4, <1>6, <2>1 DEF YieldHigher, SchedSwitch, KeepsContext
  <2>4. ASSUME NEW t \in Pids, ThreadYield(t) PROVE Frame
    <3>1. /\ sched' = Rotate(sched, t) /\ sched_active_thread' = sched_active_thread
      BY <2>4 DEF ThreadYield, KeepsContext
    <3>2. sched'.status = sched.status
      BY <1>0, <3>1, RotateKeeps
    <3> QED BY <3>1, <3>2 DEF Frame
  <2>2. ASSUME IsrEnter \/ cpu_switch_context_exit PROVE Frame
    BY <1>4, <1>6, <2>2 DEF IsrEnter, cpu_switch_context_exit
  <2>3. ASSUME IsrExit PROVE Frame
    BY <1>3, <1>4, <1>5, <1>6, <2>3 DEF IsrExit
  <2> QED BY <2>1, <2>2, <2>3, <2>4 DEF SchedStep, SwitchStep
<1> QED BY <1>1, <1>7
-----------------------------------------------------------------------------
(* Wait lists.  thread_add_to_list() finds a place for the thread, ...     *)
LEMMA InsertionPoint ==
    ASSUME priority \in [Pids -> Prios], NEW q \in Seq(Pids), NEW p \in Int
    PROVE  \E n \in 0 .. Len(q) :
                /\ \A i \in 1 .. n : priority[q[i]] <= p
                /\ n = Len(q) \/ priority[q[n + 1]] > p
<1>0. /\ Len(q) \in Nat
      /\ \A i \in 1 .. Len(q) : q[i] \in Pids /\ priority[q[i]] \in Int
  BY DEF Prios
<1> DEFINE Above == {i \in 1 .. Len(q) : priority[q[i]] > p}
<1>1. CASE Above = {}
  <2>1. \A i \in 1 .. Len(q) : priority[q[i]] <= p
    BY <1>0, <1>1
  <2> QED BY <1>0, <2>1
<1>2. CASE Above # {}
  <2>0. Above \in SUBSET Nat
    BY <1>0
  <2>1. PICK i \in Above : \A j \in Above : i <= j
    <3> HIDE DEF Above
    <3> QED BY <1>2, <2>0, LeastBit
  <2>2. i \in 1 .. Len(q) /\ priority[q[i]] > p
    OBVIOUS
  <2>3. \A j \in 1 .. i - 1 : priority[q[j]] <= p
    BY <1>0, <2>1, <2>2
  <2>4. i - 1 \in 0 .. Len(q) /\ (i - 1) + 1 = i
    BY <1>0, <2>2
  <2> HIDE DEF Above
  <2>5. priority[q[(i - 1) + 1]] > p
    BY <2>2, <2>4
  <2> QED BY <2>3, <2>4, <2>5
<1> QED BY <1>1, <1>2

(* ... where it stands behind the n threads that are at least as urgent    *)
(* and in front of the others.                                             *)
InsertedAt(q, r, t, n) ==
    /\ n \in 0 .. Len(q)
    /\ Len(r) = Len(q) + 1
    /\ \A i \in 1 .. n : r[i] = q[i]
    /\ r[n + 1] = t
    /\ \A i \in n + 1 .. Len(q) : r[i + 1] = q[i]

(* What concatenation yields. *)
LEMMA Concatenated ==
    ASSUME NEW S, NEW a \in Seq(S), NEW b \in Seq(S)
    PROVE  /\ a \o b \in Seq(S) /\ Len(a \o b) = Len(a) + Len(b)
           /\ \A i \in 1 .. Len(a) + Len(b) :
                (a \o b)[i] = IF i <= Len(a) THEN a[i] ELSE b[i - Len(a)]
BY SMT

LEMMA AddToListInserts ==
    ASSUME priority \in [Pids -> Prios], NEW S \in SUBSET Pids, NEW q \in Seq(S), NEW t \in S
    PROVE  LET r == thread_add_to_list(q, t)
           IN  /\ r \in Seq(S)
               /\ \E n \in 0 .. Len(q) :
                    /\ InsertedAt(q, r, t, n)
                    /\ \A i \in 1 .. n : priority[q[i]] <= priority[t]
                    /\ n = Len(q) \/ priority[q[n + 1]] > priority[t]
<1> DEFINE P(n) == /\ \A i \in 1 .. n : priority[q[i]] <= priority[t]
                   /\ n = Len(q) \/ priority[q[n + 1]] > priority[t]
           m == CHOOSE n \in 0 .. Len(q) : P(n)
           a == SubSeq(q, 1, m)
           b == SubSeq(q, m + 1, Len(q))
           r == thread_add_to_list(q, t)
<1>1. /\ q \in Seq(Pids) /\ Len(q) \in Nat /\ priority[t] \in Int
      /\ \A i \in 1 .. Len(q) : q[i] \in S
  BY DEF Prios
<1>2. m \in 0 .. Len(q) /\ P(m)
  <2>1. \E n \in 0 .. Len(q) : P(n)
    BY <1>1, InsertionPoint
  <2> QED BY <2>1
<1>3. r = a \o <<t>> \o b
  BY DEF thread_add_to_list
<1> HIDE DEF P, m, r
<1>4. /\ a \in Seq(S) /\ Len(a) = m
      /\ \A i \in 1 .. m : a[i] = q[i]
  <2>1. \A i \in 1 .. m : q[i] \in S
    BY <1>1, <1>2
  <2>2. m \in Int /\ 1 \in Int /\ m >= 0
    BY <1>1, <1>2
  <2>3. /\ a \in Seq(S) /\ Len(a) = (IF 1 <= m THEN m - 1 + 1 ELSE 0)
        /\ \A i \in 1 .. m - 1 + 1 : a[i] = q[1 + i - 1]
    BY <2>1, <2>2
  <2> HIDE DEF a
  <2> QED BY <2>2, <2>3
<1>5. /\ b \in Seq(S) /\ Len(b) = Len(q) - m
      /\ \A i \in 1 .. Len(q) - m : b[i] = q[m + i]
  <2>1. \A i \in m + 1 .. Len(q) : q[i] \in S
    BY <1>1, <1>2
  <2>2. m + 1 \in Int /\ Len(q) \in Int /\ m \in Nat /\ m <= Len(q)
    BY <1>1, <1>2
  <2>3. /\ b \in Seq(S) /\ Len(b) = (IF m + 1 <= Len(q) THEN Len(q) - (m + 1) + 1 ELSE 0)
        /\ \A i \in 1 .. Len(q) - (m + 1) + 1 : b[i] = q[(m + 1) + i - 1]
    BY <2>1, <2>2
  <2> HIDE DEF b
  <2> QED BY <2>2, <2>3
<1> HIDE DEF a, b
<1> DEFINE c == a \o <<t>>
<1>6. /\ c \in Seq(S) /\ Len(c) = m + 1
      /\ \A i \in 1 .. m : c[i] = q[i]
      /\ c[m + 1] = t
  <2>1. <<t>> \in Seq(S) /\ Len(<<t>>) = 1 /\ <<t>>[1] = t
    OBVIOUS
  <2>2. /\ c \in Seq(S) /\ Len(c) = Len(a) + Len(<<t>>)
        /\ \A i \in 1 .. Len(a) + Len(<<t>>) : c[i] =
                IF i <= Len(a) THEN a[i] ELSE <<t>>[i - Len(a)]
    BY <1>4, <2>1, Concatenated
  <2> HIDE DEF c
  <2>3. Len(a) = m /\ Len(<<t>>) = 1 /\ m \in Nat
    BY <1>1, <1>2, <1>4, <2>1
  <2>4. Len(c) = m + 1 /\ \A i \in 1 .. m : c[i] = q[i]
    BY <1>4, <2>2, <2>3
  <2>5. c[m + 1] = <<t>>[1]
    <3>1. m + 1 \in 1 .. m + 1 /\ ~(m + 1 <= m) /\ (m + 1) - m = 1
      BY <2>3
    <3> QED BY <2>2, <2>3, <3>1
  <2> QED BY <2>1, <2>2, <2>4, <2>5
<1>7. /\ r \in Seq(S) /\ Len(r) = Len(q) + 1
      /\ \A i \in 1 .. Len(q) + 1 : r[i] = IF i <= m + 1 THEN c[i] ELSE b[i - (m + 1)]
  <2>1. r = c \o b
    BY <1>3
  <2> HIDE DEF c
  <2>2. /\ r \in Seq(S) /\ Len(r) = Len(c) + Len(b)
        /\ \A i \in 1 .. Len(c) + Len(b) : r[i] =
                IF i <= Len(c) THEN c[i] ELSE b[i - Len(c)]
    <3>1. c \in Seq(S) /\ b \in Seq(S)
      BY <1>5, <1>6
    <3> QED BY <2>1, <3>1, Concatenated
  <2>3. Len(c) + Len(b) = Len(q) + 1
    BY <1>1, <1>2, <1>5, <1>6
  <2> QED BY <1>6, <2>2, <2>3
<1> HIDE DEF c
<1>8. InsertedAt(q, r, t, m)
  <2>0. /\ m + 1 \in 1 .. Len(q) + 1 /\ m + 1 <= m + 1
        /\ \A i \in 1 .. m : i \in 1 .. Len(q) + 1 /\ i <= m + 1
    BY <1>1, <1>2
  <2>1. \A i \in 1 .. m : r[i] = q[i]
    BY <1>6, <1>7, <2>0
  <2>2. r[m + 1] = t
    BY <1>6, <1>7, <2>0
  <2>3. ASSUME NEW i \in m + 1 .. Len(q) PROVE r[i + 1] = q[i]
    <3>1. /\ i \in Int /\ m \in Int /\ m + 1 <= i /\ i <= Len(q) /\ Len(q) \in Int /\ 0 <= m
      BY <1>1, <1>2
    <3>2. i + 1 \in 1 .. Len(q) + 1 /\ ~(i + 1 <= m + 1) /\ i - m \in 1 .. Len(q) - m
      BY <3>1
    <3>3. r[i + 1] = b[(i + 1) - (m + 1)] /\ b[i - m] = q[m + (i - m)]
      BY <1>5, <1>7, <3>2
    <3>4. (i + 1) - (m + 1) = i - m /\ m + (i - m) = i
      BY <3>1
    <3> QED BY <3>3, <3>4
  <2> QED BY <1>2, <1>7, <2>1, <2>2, <2>3 DEF InsertedAt
<1> QED BY <1>2, <1>7, <1>8 DEF P, r

(* A wait list keeps its threads, each once, in the order they are served. *)
LEMMA AddToList ==
    ASSUME priority \in [Pids -> Prios], NEW S \in SUBSET Pids, NEW q \in Seq(S), NEW t \in S,
           t \notin InQueue(q), NoRepeats(q), SortedByPriority(q)
    PROVE  LET r == thread_add_to_list(q, t)
           IN  /\ r \in Seq(S) /\ r # <<>>
               /\ InQueue(r) = InQueue(q) \cup {t}
               /\ NoRepeats(r) /\ SortedByPriority(r)
<1> DEFINE r == thread_add_to_list(q, t)
           L == Len(q)
<1>1. /\ r \in Seq(S)
      /\ \E n \in 0 .. L :
            /\ InsertedAt(q, r, t, n)
            /\ \A i \in 1 .. n : priority[q[i]] <= priority[t]
            /\ n = L \/ priority[q[n + 1]] > priority[t]
  BY AddToListInserts
<1> HIDE DEF r
<1>2. PICK n \in 0 .. L :
            /\ InsertedAt(q, r, t, n)
            /\ \A i \in 1 .. n : priority[q[i]] <= priority[t]
            /\ n = L \/ priority[q[n + 1]] > priority[t]
  BY <1>1
<1>3. /\ L \in Nat /\ DOMAIN q = 1 .. L
      /\ \A i \in 1 .. L : q[i] \in Pids
  OBVIOUS
<1>4. DOMAIN r = 1 .. L + 1
  <2>1. Len(r) = L + 1
    BY <1>2 DEF InsertedAt
  <2> QED BY <1>1, <2>1
<1>5. /\ \A i \in 1 .. n : r[i] = q[i]
      /\ r[n + 1] = t
      /\ \A i \in n + 1 .. L : r[i + 1] = q[i]
  BY <1>2 DEF InsertedAt
<1> HIDE DEF L
<1>6. /\ n \in Int /\ L \in Int /\ 0 <= n /\ n <= L
      /\ n + 1 \in 1 .. L + 1
      /\ \A i \in 1 .. n : i \in 1 .. L /\ i \in 1 .. L + 1
  BY <1>3
<1> DEFINE old(i) == IF i <= n THEN i ELSE i - 1
<1>7. ASSUME NEW i \in 1 .. L + 1, i # n + 1
      PROVE  old(i) \in 1 .. L /\ r[i] = q[old(i)]
  <2>0. i \in Int
    OBVIOUS
  <2>1. CASE i <= n
    <3>1. i \in 1 .. n /\ i \in 1 .. L /\ old(i) = i
      BY <1>6, <2>0, <2>1
    <3> QED BY <1>5, <3>1
  <2>2. CASE i > n
    <3>1. /\ i - 1 \in n + 1 .. L /\ (i - 1) + 1 = i /\ i - 1 \in 1 .. L
          /\ old(i) = i - 1
      BY <1>6, <1>7, <2>0, <2>2
    <3>2. r[(i - 1) + 1] = q[i - 1]
      BY <1>5, <3>1
    <3> QED BY <3>1, <3>2
  <2> QED BY <1>6, <2>0, <2>1, <2>2
<1>8. ASSUME NEW i \in 1 .. L
      PROVE  q[i] \in InQueue(r) /\ q[i] # t
  <2>0. q[i] # t
    BY <1>3 DEF InQueue
  <2>1. CASE i <= n
    <3>1. i \in 1 .. n /\ i \in DOMAIN r
      BY <1>4, <1>6, <2>1
    <3> QED BY <1>5, <2>0, <3>1 DEF InQueue
  <2>2. CASE i > n
    <3>1. i \in n + 1 .. L /\ i + 1 \in DOMAIN r
      BY <1>4, <1>6, <2>2
    <3> QED BY <1>5, <2>0, <3>1 DEF InQueue
  <2> QED BY <1>6, <2>1, <2>2
<1>9. InQueue(r) = InQueue(q) \cup {t}
  <2>1. t \in InQueue(r)
    BY <1>4, <1>5, <1>6 DEF InQueue
  <2>2. InQueue(q) \subseteq InQueue(r)
    BY <1>3, <1>8 DEF InQueue
  <2>3. ASSUME NEW i \in 1 .. L + 1 PROVE r[i] \in InQueue(q) \cup {t}
    <3>1. CASE i = n + 1
      BY <1>5, <3>1
    <3>2. CASE i # n + 1
      <4>1. old(i) \in DOMAIN q /\ r[i] = q[old(i)]
        BY <1>3, <1>7, <3>2
      <4> HIDE DEF old
      <4> QED BY <4>1 DEF InQueue
    <3> QED BY <3>1, <3>2
  <2> QED BY <1>4, <2>1, <2>2, <2>3 DEF InQueue
<1>10. NoRepeats(r)
  <2> SUFFICES ASSUME NEW i \in 1 .. L + 1, NEW j \in 1 .. L + 1, r[i] = r[j]
               PROVE  i = j
    BY <1>4 DEF NoRepeats
  <2>1. CASE i = n + 1 \/ j = n + 1
    BY <1>5, <1>7, <1>8, <2>1
  <2>2. CASE i # n + 1 /\ j # n + 1
    <3>1. old(i) \in DOMAIN q /\ old(j) \in DOMAIN q /\ q[old(i)] = q[old(j)]
      BY <1>3, <1>7, <2>2
    <3>2. old(i) = old(j)
      <4> HIDE DEF old
      <4> QED BY <3>1 DEF NoRepeats
    <3>3. i \in Int /\ j \in Int
      OBVIOUS
    <3> QED BY <1>6, <2>2, <3>2, <3>3
  <2> QED BY <2>1, <2>2
<1>11. SortedByPriority(r)
  <2>0. /\ priority[t] \in Int
        /\ \A i \in 1 .. L : priority[q[i]] \in Int
    BY <1>3 DEF Prios
  <2>1. \A i, j \in 1 .. L : i < j => priority[q[i]] <= priority[q[j]]
    BY <1>3 DEF SortedByPriority
  <2>2. ASSUME NEW j \in n + 1 .. L PROVE priority[t] <= priority[q[j]]
    <3>1. n + 1 \in 1 .. L /\ j \in 1 .. L /\ n # L /\ (j = n + 1 \/ n + 1 < j)
      BY <1>6
    <3>2. priority[q[n + 1]] > priority[t]
      BY <1>2, <3>1
    <3>3. j = n + 1 \/ priority[q[n + 1]] <= priority[q[j]]
      BY <2>1, <3>1
    <3>4. priority[q[j]] \in Int /\ priority[q[n + 1]] \in Int
      BY <2>0, <3>1
    <3> QED BY <2>0, <3>2, <3>3, <3>4
  <2> SUFFICES ASSUME NEW i \in 1 .. L + 1, NEW j \in 1 .. L + 1, i < j
               PROVE  priority[r[i]] <= priority[r[j]]
    BY <1>4 DEF SortedByPriority
  <2>3. CASE i = n + 1
    <3>1. old(j) \in n + 1 .. L /\ j # n + 1
      BY <1>6, <2>3
    <3>2. r[j] = q[old(j)] /\ r[i] = t
      BY <1>5, <1>7, <2>3, <3>1
    <3> HIDE DEF old
    <3> QED BY <2>2, <3>1, <3>2
  <2>4. CASE j = n + 1
    <3>1. old(i) \in 1 .. n /\ i # n + 1
      BY <1>6, <2>4
    <3>2. r[i] = q[old(i)] /\ r[j] = t
      BY <1>5, <1>7, <2>4, <3>1
    <3> HIDE DEF old
    <3> QED BY <1>2, <3>1, <3>2
  <2>5. CASE i # n + 1 /\ j # n + 1
    <3>1. old(i) < old(j)
      BY <1>6, <2>5
    <3>2. /\ old(i) \in 1 .. L /\ old(j) \in 1 .. L
          /\ r[i] = q[old(i)] /\ r[j] = q[old(j)]
      BY <1>7, <2>5
    <3> HIDE DEF old
    <3> QED BY <2>1, <3>1, <3>2
  <2> QED BY <2>3, <2>4, <2>5
<1>12. r # <<>>
  BY <1>4, <1>6
<1> QED BY <1>1, <1>9, <1>10, <1>11, <1>12 DEF r

(* The waker takes the first thread, which is as urgent as any. *)
LEMMA TailOfList ==
    ASSUME priority \in [Pids -> Prios], NEW S \in SUBSET Pids, NEW q \in Seq(S), q # <<>>,
           NoRepeats(q), SortedByPriority(q)
    PROVE  /\ Tail(q) \in Seq(S) /\ Head(q) \in S /\ Head(q) \in InQueue(q)
           /\ InQueue(Tail(q)) = InQueue(q) \ {Head(q)}
           /\ NoRepeats(Tail(q)) /\ SortedByPriority(Tail(q))
<1> DEFINE r == Tail(q)
<1>1. /\ r \in Seq(S) /\ Head(q) \in S /\ Head(q) = q[1]
      /\ Len(q) \in Nat \ {0} /\ Len(r) = Len(q) - 1
      /\ DOMAIN q = 1 .. Len(q) /\ DOMAIN r = 1 .. Len(q) - 1
      /\ \A i \in 1 .. Len(q) - 1 : r[i] = q[i + 1]
  OBVIOUS
<1>2. q \in Seq(Pids)
  OBVIOUS
<1>3. QueueOf(r, InQueue(q) \ {Head(q)}) /\ Head(q) \in InQueue(q)
  BY <1>2, LpopQueue DEF QueueOf, Holds, clist_lpop
<1>4. SortedByPriority(r)
  <2> SUFFICES ASSUME NEW i \in 1 .. Len(q) - 1, NEW j \in 1 .. Len(q) - 1, i < j
               PROVE  priority[r[i]] <= priority[r[j]]
    BY <1>1 DEF SortedByPriority
  <2>1. i + 1 \in DOMAIN q /\ j + 1 \in DOMAIN q /\ i + 1 < j + 1
    BY <1>1
  <2> HIDE DEF r
  <2> QED BY <1>1, <2>1 DEF SortedByPriority
<1> QED BY <1>1, <1>3, <1>4 DEF QueueOf, Holds

-----------------------------------------------------------------------------
(* Queues of messages, of message passing and of mailboxes: those of one   *)
(* sender are in the order of their numbers.                               *)
InOrder(q) ==
    \A i, j \in DOMAIN q : i < j /\ q[i].from = q[j].from => q[i].n < q[j].n

NumbersIn(q, s) == {q[i].n : i \in {i \in DOMAIN q : q[i].from = s}}

LEMMA AppendInOrder ==
    ASSUME NEW M, NEW q \in Seq(M), NEW m \in M, InOrder(q),
           \A k \in NumbersIn(q, m.from) : k < m.n
    PROVE  /\ InOrder(Append(q, m))
           /\ NumbersIn(Append(q, m), m.from) = NumbersIn(q, m.from) \cup {m.n}
           /\ \A s : s # m.from => NumbersIn(Append(q, m), s) = NumbersIn(q, s)
<1> DEFINE L == Len(q)
           a == Append(q, m)
<1>1. /\ L \in Nat /\ DOMAIN q = 1 .. L /\ DOMAIN a = 1 .. L + 1
      /\ a[L + 1] = m /\ \A i \in 1 .. L : a[i] = q[i]
  OBVIOUS
<1> HIDE DEF L, a
<1>2. \A i \in DOMAIN a : i \in DOMAIN q \/ i = L + 1
  BY <1>1
<1>3. \A i \in DOMAIN q : i \in DOMAIN a /\ a[i] = q[i] /\ i # L + 1
  BY <1>1
<1>4. L + 1 \in DOMAIN a
  BY <1>1
<1>5. InOrder(a)
  <2> SUFFICES ASSUME NEW i \in DOMAIN a, NEW j \in DOMAIN a, i < j,
                      a[i].from = a[j].from
               PROVE  a[i].n < a[j].n
    BY DEF InOrder
  <2>1. i \in DOMAIN q
    BY <1>1
  <2>2. CASE j \in DOMAIN q
    BY <1>3, <2>1, <2>2 DEF InOrder
  <2>3. CASE j = L + 1
    <3>1. a[j] = m /\ a[i] = q[i]
      BY <1>1, <1>3, <2>1, <2>3
    <3>2. q[i].n \in NumbersIn(q, m.from)
      BY <2>1, <3>1 DEF NumbersIn
    <3> QED BY <3>1, <3>2
  <2> QED BY <1>2, <2>2, <2>3
<1>6. NumbersIn(a, m.from) = NumbersIn(q, m.from) \cup {m.n}
  BY <1>1, <1>2, <1>3, <1>4 DEF NumbersIn
<1>7. ASSUME NEW s, s # m.from PROVE NumbersIn(a, s) = NumbersIn(q, s)
  BY <1>1, <1>2, <1>3, <1>7 DEF NumbersIn
<1> QED BY <1>5, <1>6, <1>7 DEF a

LEMMA TailInOrder ==
    ASSUME NEW M, \A m \in M : m.n \in Nat,
           NEW q \in Seq(M), q # <<>>, InOrder(q)
    PROVE  LET h == Head(q)
           IN  /\ h \in M /\ h.n \in NumbersIn(q, h.from)
               /\ Tail(q) \in Seq(M) /\ Len(Tail(q)) = Len(q) - 1
               /\ InOrder(Tail(q))
               /\ NumbersIn(Tail(q), h.from) = NumbersIn(q, h.from) \ {h.n}
               /\ \A k \in NumbersIn(q, h.from) : h.n = k \/ h.n < k
               /\ \A s : s # h.from => NumbersIn(Tail(q), s) = NumbersIn(q, s)
<1> DEFINE h == Head(q)
           r == Tail(q)
           L == Len(q)
<1>1. /\ r \in Seq(M) /\ h \in M /\ h = q[1]
      /\ L \in Nat \ {0} /\ Len(r) = L - 1
      /\ DOMAIN q = 1 .. L /\ DOMAIN r = 1 .. L - 1
      /\ \A i \in 1 .. L - 1 : r[i] = q[i + 1]
  OBVIOUS
<1> HIDE DEF h, r, L
<1>2. 1 \in DOMAIN q /\ \A i \in DOMAIN q : i = 1 \/ (i - 1 \in DOMAIN r /\ r[i - 1] = q[i])
  BY <1>1
<1>3. \A i \in DOMAIN r : i + 1 \in DOMAIN q /\ r[i] = q[i + 1] /\ 1 < i + 1
  BY <1>1
<1>4. InOrder(r)
  <2> SUFFICES ASSUME NEW i \in DOMAIN r, NEW j \in DOMAIN r, i < j,
                      r[i].from = r[j].from
               PROVE  r[i].n < r[j].n
    BY DEF InOrder
  <2>1. i + 1 < j + 1
    BY <1>1
  <2> QED BY <1>3, <2>1 DEF InOrder
<1>5. \A i \in DOMAIN r : r[i].from = h.from => h.n < r[i].n
  BY <1>1, <1>2, <1>3 DEF InOrder
<1>6. h.n \in Nat /\ \A i \in DOMAIN r : r[i].n \in Nat
  BY <1>1
<1>7. \A i \in DOMAIN r : r[i].from = h.from => h.n # r[i].n
  BY <1>5, <1>6
<1>8. h.n \in NumbersIn(q, h.from)
  BY <1>1, <1>2 DEF NumbersIn
<1>9. ASSUME NEW s PROVE NumbersIn(r, s) = NumbersIn(q, s) \ (IF s = h.from THEN {h.n} ELSE {})
  <2>1. ASSUME NEW i \in DOMAIN r, r[i].from = s
        PROVE  r[i].n \in NumbersIn(q, s) /\ (s = h.from => r[i].n # h.n)
    BY <1>3, <1>7, <2>1 DEF NumbersIn
  <2>2. ASSUME NEW i \in DOMAIN q, q[i].from = s, s = h.from => q[i].n # h.n
        PROVE  q[i].n \in NumbersIn(r, s)
    <3>1. i # 1
      BY <1>1, <2>2
    <3> QED BY <1>2, <2>2, <3>1 DEF NumbersIn
  <2> QED BY <2>1, <2>2 DEF NumbersIn
<1>10. \A k \in NumbersIn(q, h.from) : h.n = k \/ h.n < k
  <2> SUFFICES ASSUME NEW i \in DOMAIN q, q[i].from = h.from
               PROVE  h.n = q[i].n \/ h.n < q[i].n
    BY DEF NumbersIn
  <2>1. CASE i = 1
    BY <1>1, <2>1
  <2>2. CASE i # 1
    BY <1>2, <1>5, <2>2
  <2> QED BY <2>1, <2>2
<1>11. NumbersIn(r, h.from) = NumbersIn(q, h.from) \ {h.n}
  BY <1>9
<1>12. \A s : s # h.from => NumbersIn(r, s) = NumbersIn(q, s)
  BY <1>9
<1> QED BY <1>1, <1>4, <1>8, <1>10, <1>11, <1>12 DEF h, r, L

-----------------------------------------------------------------------------
(* Remainders, for the counters that wrap in the buffers of the modules   *)
(* that extend this one.                                                   *)
LEMMA ModUnique ==
    ASSUME NEW n \in Nat, n > 0, NEW x \in Int, NEW q \in Int, NEW r \in 0 .. n - 1, x = n * q + r
    PROVE  x % n = r
OBVIOUS

LEMMA ModRange == ASSUME NEW n \in Nat, n > 0, NEW x \in Int PROVE x % n \in 0 .. n - 1
OBVIOUS

LEMMA ModDivides ==
    ASSUME NEW n \in Nat, n > 0, NEW x \in Int
    PROVE  \E q \in Int, r \in 0 .. n - 1 : r = x % n /\ x = n * q + r
<1>1. x % n \in 0 .. n - 1 /\ x \div n \in Int
  OBVIOUS
<1>2. \A q, r \in Int : q = x \div n /\ r = x % n => x = n * q + r
  OBVIOUS
<1> QED BY <1>1, <1>2

LEMMA ModMultiple ==
    ASSUME NEW n \in Nat, n > 0, NEW x \in Int, NEW k \in Int
    PROVE  (x + n * k) % n = x % n
<1>1. PICK q \in Int, r \in 0 .. n - 1 : r = x % n /\ x = n * q + r
  BY ModDivides
<1>2. n * q + n * k = n * (q + k)
  BY <1>1
<1>3. n * q \in Int /\ n * k \in Int /\ x + n * k \in Int
  BY <1>1
<1>4. x + n * k = n * (q + k) + r
  BY <1>1, <1>2, <1>3
<1>5. (x + n * k) % n = r
  BY <1>1, <1>3, <1>4, ModUnique
<1> QED BY <1>1, <1>5

LEMMA ModSmall ==
    ASSUME NEW n \in Nat, n > 0, NEW x \in Int
    PROVE  /\ x \in 0 .. n - 1 => x % n = x
           /\ x \in n .. 2 * n - 1 => x % n = x - n
           /\ x \in -n .. -1 => x % n = x + n
OBVIOUS

(* A remainder may be taken of a part of a sum first. *)
LEMMA ModSum ==
    ASSUME NEW n \in Nat, n > 0, NEW x \in Int, NEW y \in Int
    PROVE  ((x % n) + y) % n = (x + y) % n
<1>1. PICK q \in Int, r \in 0 .. n - 1 : r = x % n /\ x = n * q + r
  BY ModDivides
<1>2. n * q \in Int /\ r + y \in Int
  BY <1>1
<1>3. (r + y + n * q) % n = (r + y) % n
  BY <1>1, <1>2, ModMultiple
<1>4. r + y + n * q = x + y
  BY <1>1, <1>2
<1> QED BY <1>1, <1>3, <1>4

(* The remainder by a multiple of n has the same remainder by n. *)
LEMMA ModOfMod ==
    ASSUME NEW n \in Nat, n > 0, NEW p \in Nat, p > 0, NEW x \in Int
    PROVE  (x % (n * p)) % n = x % n
<1>1. n * p \in Nat /\ n * p > 0
  OBVIOUS
<1>2. PICK q \in Int, r \in 0 .. (n * p) - 1 : r = x % (n * p) /\ x = (n * p) * q + r
  BY <1>1, ModDivides
<1>3. p * q \in Int /\ n * (p * q) \in Int /\ r \in Int
  BY <1>2
<1>4. (n * p) * q = n * (p * q)
  BY ONLY <1>2, p \in Nat, n \in Nat
<1>5. x = r + n * (p * q)
  BY <1>2, <1>3, <1>4
<1>6. (r + n * (p * q)) % n = r % n
  BY <1>2, <1>3, ModMultiple
<1> QED BY <1>2, <1>5, <1>6

(* Numbers less than n apart have different remainders. *)
LEMMA ModDiffers ==
    ASSUME NEW n \in Nat, n > 0, NEW x \in Int, NEW y \in Int, x <= y, y < x + n, x % n = y % n
    PROVE  x = y
<1>1. PICK q \in Int, r \in 0 .. n - 1 : r = x % n /\ x = n * q + r
  BY ModDivides
<1>2. ASSUME y # x PROVE FALSE
  <2> DEFINE d == y - x
  <2>1. d \in 1 .. n - 1
    BY <1>2
  <2>2. n * q \in Int
    BY <1>1
  <2>3. CASE r + d < n
    <3>1. y = n * q + (r + d) /\ r + d \in 0 .. n - 1
      BY <1>1, <2>1, <2>2, <2>3
    <3> HIDE DEF d
    <3>2. y % n = r + d
      BY <1>1, <3>1, ModUnique
    <3> QED BY <1>1, <2>1, <3>2
  <2>4. CASE r + d >= n
    <3>1. n * (q + 1) = n * q + n
      BY <1>1
    <3>2. y = n * (q + 1) + (r + d - n) /\ r + d - n \in 0 .. n - 1 /\ q + 1 \in Int
      BY <1>1, <2>1, <2>2, <2>4, <3>1
    <3> HIDE DEF d
    <3>3. y % n = r + d - n
      BY <1>1, <3>2, ModUnique
    <3> QED BY <1>1, <2>1, <3>3
  <2> QED BY <1>1, <2>1, <2>3, <2>4
<1> QED BY <1>2

(* The counters' difference, and the write position counted from the read  *)
(* position, when one of them is incremented.                              *)
LEMMA CountFacts ==
    ASSUME NEW m \in Nat, m > 0, NEW r \in 0 .. m - 1, NEW w \in 0 .. m - 1
    PROVE  LET a == (w - r) % m
           IN  /\ a \in 0 .. m - 1
               /\ (r + a) % m = w
               /\ a + 1 < m => (((w + 1) % m) - r) % m = a + 1
               /\ a > 0 => (w - ((r + 1) % m)) % m = a - 1
               /\ a = 0 => w = r
               /\ (w + 1) % m \in 0 .. m - 1 /\ (r + 1) % m \in 0 .. m - 1
<1> DEFINE a == (w - r) % m
           u == (w + 1) % m
           v == (r + 1) % m
<1>1. a \in Int /\ ((w >= r /\ a = w - r) \/ (w < r /\ a = w - r + m))
  BY ModSmall
<1>2. u \in Int /\ ((w + 1 < m /\ u = w + 1) \/ (w + 1 = m /\ u = 0))
  BY ModSmall
<1>3. v \in Int /\ ((r + 1 < m /\ v = r + 1) \/ (r + 1 = m /\ v = 0))
  BY ModSmall
<1> HIDE DEF a, u, v
<1>4. (r + a) % m = w
  <2>1. CASE a = w - r
    BY <2>1, ModSmall
  <2>2. CASE a = w - r + m
    BY <2>2, ModSmall
  <2> QED BY <1>1, <2>1, <2>2
<1>5. ASSUME a + 1 < m PROVE (u - r) % m = a + 1
  <2>1. u - r = a + 1 \/ u - r = a + 1 - m
    BY <1>1, <1>2, <1>5
  <2>2. a + 1 \in 0 .. m - 1
    BY <1>1, <1>5
  <2>3. CASE u - r = a + 1
    BY <2>2, <2>3, ModSmall
  <2>4. CASE u - r = a + 1 - m
    <3>1. u - r \in -m .. -1 /\ (u - r) + m = a + 1
      BY <1>1, <2>2, <2>4
    <3> QED BY <3>1, ModSmall
  <2> QED BY <2>1, <2>3, <2>4
<1>6. ASSUME a > 0 PROVE (w - v) % m = a - 1
  <2>1. w - v = a - 1 \/ w - v = a - 1 - m
    BY <1>1, <1>3, <1>6
  <2>2. a - 1 \in 0 .. m - 1
    BY <1>1, <1>6
  <2>3. CASE w - v = a - 1
    BY <2>2, <2>3, ModSmall
  <2>4. CASE w - v = a - 1 - m
    <3>1. w - v \in -m .. -1 /\ (w - v) + m = a - 1
      BY <1>1, <2>2, <2>4
    <3> QED BY <3>1, ModSmall
  <2> QED BY <2>1, <2>3, <2>4
<1> QED BY <1>1, <1>2, <1>3, <1>4, <1>5, <1>6 DEF a, u, v
=============================================================================
