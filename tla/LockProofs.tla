----------------------------- MODULE LockProofs -----------------------------
(***************************************************************************)
(* Semaphores and readers/writer locks, which hand a lock to threads that  *)
(* are still asleep, for every number of threads and priorities: each of   *)
(* them alone over the scheduler, as Sync composes them.                   *)
(***************************************************************************)
EXTENDS Sema, Rwlock, OpsProofs, FiniteSetTheorems

(* Time the provers are given for a leaf. *)
USE ZenonT(5), SMTT(20)

-----------------------------------------------------------------------------
(* sys/sema: a thread that has locked the mutex, or was handed it, looks   *)
(* at the semaphore before it waits again; on a destroyed one it unlocks   *)
(* the mutex for the next.                                                 *)
Passes(t) == wait[t].did_block /\ at[t] \in {"disarm", "woken"} /\ ~Waits(t)

Looks(t) == wait[t].did_block /\ at[t] = "test" /\ ~Waits(t)

UnlockDue == \E a \in Actors : at[a] = "unlock"

Frames == [did_block : BOOLEAN, block : BOOLEAN, us : BOOLEAN, timeout : BOOLEAN,
           timer : BOOLEAN]

(* A thread that looks at the value is enough while there is a value, but  *)
(* not when the semaphore is destroyed: it may take a value and leave.     *)
SemaInv ==
    /\ SyncInv /\ \A u \in Pids : SwitchAhead(u)
    /\ sema \in [value : 0 .. UINT_MAX, state : {"OK", "DESTROY"}]
    /\ wait \in [Pids -> Frames]
    /\ \A u \in Pids :
        /\ locking[u] \in {None, M}
        /\ at[u] \in {"out", "test", "arm", "lock", "disarm", "woken", "unlock"}
        /\ at[u] \in {"arm", "lock", "disarm", "woken"} => wait[u].did_block
        /\ at[u] = "test" /\ wait[u].block => wait[u].did_block
        /\ Waits(u) => at[u] \in {"disarm", "woken"}
    /\ sema.value > 0 /\ mutex[M].locked =>
            UnlockDue \/ \E t \in Pids : Passes(t) \/ Looks(t)
    /\ sema.state = "DESTROY" /\ mutex[M].locked =>
            UnlockDue \/ \E t \in Pids : Passes(t)

(* list_remove() takes out the thread, if it is there, and nothing else. *)
LEMMA ListRemoved ==
    ASSUME priority \in [Pids -> Prios], NEW q \in Seq(Pids), NoRepeats(q),
           SortedByPriority(q), NEW t \in Pids
    PROVE  LET r == list_remove(q, t)
           IN  /\ r \in Seq(Pids) /\ InQueue(r) = InQueue(q) \ {t}
               /\ NoRepeats(r) /\ SortedByPriority(r)
               /\ q = <<>> => r = <<>>
<1>1. CASE t \notin InQueue(q)
  BY <1>1 DEF list_remove
<1>2. CASE t \in InQueue(q)
  <2> DEFINE i == CHOOSE j \in DOMAIN q : q[j] = t
             S(j) == IF j < i THEN j ELSE j + 1
             r == [j \in 1 .. Len(q) - 1 |-> IF j < i THEN q[j] ELSE q[j + 1]]
  <2>1. i \in DOMAIN q /\ q[i] = t
    BY <1>2 DEF InQueue
  <2>2. list_remove(q, t) = r
    BY <1>2 DEF list_remove
  <2> HIDE DEF i
  <2>3. /\ DOMAIN q = 1 .. Len(q) /\ Len(q) \in Nat \ {0} /\ i \in 1 .. Len(q)
        /\ \A j \in 1 .. Len(q) : q[j] \in Pids
    BY <2>1
  <2>4. \A j \in 1 .. Len(q) - 1 : S(j) \in 1 .. Len(q) /\ S(j) # i
    BY <2>3
  <2>5. \A j \in 1 .. Len(q) - 1 : r[j] = q[S(j)]
    BY <2>3
  <2>6. \A j, k \in 1 .. Len(q) - 1 : (j < k => S(j) < S(k)) /\ (j # k => S(j) # S(k))
    BY <2>3
  <2>7. r \in Seq(Pids) /\ DOMAIN r = 1 .. Len(q) - 1
    <3>1. r \in [1 .. Len(q) - 1 -> Pids] /\ Len(q) - 1 \in Nat
      BY <2>3
    <3> QED BY <3>1
  <2>8. \A j \in 1 .. Len(q) : j # i => \E k \in 1 .. Len(q) - 1 : S(k) = j
    <3> TAKE j \in 1 .. Len(q)
    <3> HAVE j # i
    <3>1. CASE j < i
      <4>1. j \in 1 .. Len(q) - 1 /\ S(j) = j
        BY <2>3, <3>1
      <4> QED BY <4>1
    <3>2. CASE j > i
      <4>1. j - 1 \in 1 .. Len(q) - 1 /\ S(j - 1) = j
        BY <2>3, <3>2
      <4> QED BY <4>1
    <3> QED BY <2>3, <3>1, <3>2
  <2> HIDE DEF r, S
  <2>9. \A j, k \in DOMAIN q : q[j] = q[k] => j = k
    BY DEF NoRepeats
  <2>10. NoRepeats(r)
    BY <2>3, <2>4, <2>5, <2>6, <2>7, <2>9 DEF NoRepeats
  <2>11. SortedByPriority(r)
    BY <2>3, <2>4, <2>5, <2>6, <2>7 DEF SortedByPriority
  <2>12. InQueue(r) = InQueue(q) \ {t}
    <3>1. ASSUME NEW j \in 1 .. Len(q) - 1 PROVE r[j] \in InQueue(q) /\ r[j] # t
      BY <2>1, <2>3, <2>4, <2>5, <2>9 DEF InQueue
    <3>2. ASSUME NEW j \in 1 .. Len(q), q[j] # t PROVE q[j] \in InQueue(r)
      <4>1. PICK k \in 1 .. Len(q) - 1 : S(k) = j
        BY <2>1, <2>8, <3>2
      <4> QED BY <2>5, <2>7, <4>1 DEF InQueue
    <3> QED BY <2>3, <2>7, <3>1, <3>2 DEF InQueue
  <2> QED BY <2>2, <2>3, <2>7, <2>10, <2>11, <2>12
<1> QED BY <1>1, <1>2

(* _mutex_timeout() where it does not fault: the thread waits no longer,   *)
(* if it did, and the mutex is as locked as it was.                        *)
LEMMA TimeoutStep ==
    ASSUME SyncInv, NEW t \in Pids, locking[t] \in {None, M}, _mutex_timeout(t),
           ~(mutex[M].locked /\ mutex[M].queue = <<>>)
    PROVE  /\ SyncInv' /\ \A u \in Pids : SwitchAhead(u)'
           /\ UNCHANGED <<at, locking>> /\ (mutex'[M].locked <=> mutex[M].locked)
           /\ \A u \in Pids : Waits(u)' <=> Waits(u) /\ u # t
<1> DEFINE q == mutex[M].queue
           r == list_remove(q, t)
           x == [locked |-> mutex[M].locked, queue |-> r]
<1>1. /\ SchedInv /\ mutex \in [Mutexes -> [locked : BOOLEAN, queue : Seq(Pids)]]
      /\ priority \in [Pids -> Prios] /\ M \in Mutexes /\ q \in Seq(Pids)
      /\ mutex[M].locked \in BOOLEAN /\ sched.status \in [Pids -> Status]
      /\ locking \in [Pids -> Mutexes \cup {None}]
  BY OpsFacts, MutexOfObject DEF SyncInv
<1>2. /\ irq_is_in /\ mutex' = [mutex EXCEPT ![M].queue = list_remove(@, t)]
      /\ sched' = sched_set_status(sched, priority, t, "PENDING")
      /\ sched_context_switch_request' = TRUE
      /\ KeepsContext /\ UNCHANGED <<pc, other_prio, locking, at, priority>>
  BY DEF _mutex_timeout, At, KeepsContext
<1>3. /\ SchedInv' /\ \A u \in Pids : SwitchAhead(u)'
      /\ sched'.status = [sched.status EXCEPT ![t] = "PENDING"]
  BY <1>1, <1>2, IsrWakeStep DEF OnRunqueue
<1>4. /\ NoRepeats(q) /\ SortedByPriority(q) /\ (q # <<>> => mutex[M].locked)
  BY <1>1 DEF SyncInv, OpsInv
<1>5. /\ r \in Seq(Pids) /\ InQueue(r) = InQueue(q) \ {t}
      /\ NoRepeats(r) /\ SortedByPriority(r) /\ (q = <<>> => r = <<>>)
  BY <1>1, <1>4, ListRemoved
<1>6. mutex' = [mutex EXCEPT ![M] = x] /\ mutex'[M] = x
  <2>1. [mutex[M] EXCEPT !.queue = r] = x
    <3>1. mutex[M] \in [locked : BOOLEAN, queue : Seq(Pids)]
      BY <1>1
    <3> HIDE DEF r
    <3> QED BY <3>1
  <2>2. mutex' = [mutex EXCEPT ![M] = [mutex[M] EXCEPT !.queue = r]]
    BY <1>1, <1>2
  <2> HIDE DEF x, r
  <2> QED BY <1>1, <2>1, <2>2
<1>7. x \in [locked : BOOLEAN, queue : Seq(Pids)] /\ x.queue = r /\ x.locked = mutex[M].locked
  BY <1>1, <1>5
<1>8. \A n \in Mutexes \ {M} : t \notin InQueue(mutex[n].queue)
  BY <1>1, MutexOpsAssumption DEF SyncInv, OpsInv
<1>9. /\ sched'.status[t] = "PENDING"
      /\ \A u \in Pids \ {t} : sched'.status[u] = sched.status[u]
  BY <1>1, <1>3
<1> HIDE DEF x, r, q
<1>10. OneWaiterChanges(t, M, x)
  BY <1>1, <1>2, <1>4, <1>5, <1>6, <1>7, <1>8, <1>9 DEF OneWaiterChanges, q
<1>11. OpsInv'
  BY <1>1, <1>3, <1>10, OneWaiterStep DEF SyncInv
<1>12. \A u \in Pids : Waits(u)' <=> Waits(u) /\ u # t
  <2>1. mutex'[M].queue = r
    BY <1>6, <1>7
  <2>2. InQueue(mutex[M].queue)' = InQueue(r)
    BY <2>1 DEF InQueue
  <2> QED BY <1>5, <2>2 DEF Waits, q
<1> QED BY <1>2, <1>3, <1>6, <1>7, <1>11, <1>12 DEF SyncInv

LEMMA FrameFacts ==
    ASSUME NEW b \in BOOLEAN, NEW us \in BOOLEAN
    PROVE  Frame(b, us) \in Frames /\ Frame(b, us).did_block = b /\ Frame(b, us).block = b
BY DEF Frame, Frames

(* A step of actor a that makes no kernel call.  Whoever was going to pass *)
(* the mutex on still is, or a now unlocks it, or there is nothing to pass *)
(* on.                                                                     *)
LEMMA SemaLocal ==
    ASSUME SemaInv, NEW a \in Actors, NEW l, Local(a, l), a \in Pids => Runs(a),
           at[a] # "unlock",
           a \in Pids => l \in {"out", "test", "arm", "lock", "disarm", "woken", "unlock"},
           sema' \in [value : 0 .. UINT_MAX, state : {"OK", "DESTROY"}],
           wait' \in [Pids -> Frames],
           \A u \in Pids \ {a} : /\ wait'[u].did_block = wait[u].did_block
                                 /\ wait'[u].block = wait[u].block,
           a \in Pids /\ l \in {"arm", "lock", "disarm", "woken"} => wait'[a].did_block,
           a \in Pids /\ l = "test" /\ wait'[a].block => wait'[a].did_block,
           \/ l = "unlock" \/ ~(sema'.value > 0)
           \/ a \in Pids /\ l \in {"disarm", "woken", "test"} /\ wait'[a].did_block
           \/ /\ sema.value > 0
              /\ a \in Pids /\ wait[a].did_block => at[a] \notin {"disarm", "woken", "test"},
           \/ l = "unlock" \/ sema'.state # "DESTROY"
           \/ a \in Pids /\ l \in {"disarm", "woken"} /\ wait'[a].did_block
           \/ sema.state = "DESTROY" /\ at[a] \notin {"disarm", "woken"}
    PROVE  SemaInv'
<1>1. /\ SyncInv' /\ mutex' = mutex /\ locking' = locking
      /\ at'[a] = l /\ \A b \in Actors : b # a => at'[b] = at[b]
      /\ \A u \in Pids : (SwitchAhead(u) => SwitchAhead(u)') /\ (Waits(u)' <=> Waits(u))
  BY LocalStep DEF SemaInv
<1>2. a \in Pids => ~Waits(a)
  BY WaitsFacts DEF SemaInv, SyncInv
<1>3. \A u \in Pids : u # a => at'[u] = at[u]
  BY <1>1, ActorFacts
<1>4. UnlockDue => UnlockDue'
  BY <1>1 DEF UnlockDue
<1>5. l = "unlock" => UnlockDue'
  BY <1>1 DEF UnlockDue
<1>6. \A u \in Pids \ {a} : (Passes(u) => Passes(u)') /\ (Looks(u) => Looks(u)')
  BY <1>1, <1>3 DEF Passes, Looks
<1>7. /\ a \in Pids /\ l \in {"disarm", "woken"} /\ wait'[a].did_block => Passes(a)'
      /\ a \in Pids /\ l = "test" /\ wait'[a].did_block => Looks(a)'
  BY <1>1, <1>2 DEF Passes, Looks
<1>8. sema'.value > 0 /\ mutex'[M].locked =>
            UnlockDue' \/ \E t \in Pids : Passes(t)' \/ Looks(t)'
  <2> SUFFICES ASSUME sema'.value > 0, mutex'[M].locked, ~UnlockDue',
                      ~(a \in Pids /\ (Passes(a)' \/ Looks(a)'))
               PROVE  \E t \in Pids : Passes(t)' \/ Looks(t)'
    OBVIOUS
  <2>1. /\ sema.value > 0
        /\ a \in Pids /\ wait[a].did_block => at[a] \notin {"disarm", "woken", "test"}
    BY <1>5, <1>7
  <2>2. a \in Pids => ~Passes(a) /\ ~Looks(a)
    BY <2>1 DEF Passes, Looks
  <2>3. PICK t \in Pids : Passes(t) \/ Looks(t)
    BY <1>1, <1>4, <2>1 DEF SemaInv
  <2> QED BY <1>6, <2>2, <2>3
<1>9. sema'.state = "DESTROY" /\ mutex'[M].locked => UnlockDue' \/ \E t \in Pids : Passes(t)'
  <2> SUFFICES ASSUME sema'.state = "DESTROY", mutex'[M].locked, ~UnlockDue',
                      ~(a \in Pids /\ Passes(a)')
               PROVE  \E t \in Pids : Passes(t)'
    OBVIOUS
  <2>1. sema.state = "DESTROY" /\ at[a] \notin {"disarm", "woken"}
    BY <1>5, <1>7
  <2>2. a \in Pids => ~Passes(a)
    BY <2>1 DEF Passes
  <2>3. PICK t \in Pids : Passes(t)
    BY <1>1, <1>4, <2>1 DEF SemaInv
  <2> QED BY <1>6, <2>2, <2>3
<1>10. ASSUME NEW u \in Pids
       PROVE  /\ locking'[u] \in {None, M}
              /\ at'[u] \in {"out", "test", "arm", "lock", "disarm", "woken", "unlock"}
              /\ at'[u] \in {"arm", "lock", "disarm", "woken"} => wait'[u].did_block
              /\ at'[u] = "test" /\ wait'[u].block => wait'[u].did_block
              /\ Waits(u)' => at'[u] \in {"disarm", "woken"}
  <2>1. CASE u = a
    BY <1>1, <1>2, <2>1 DEF SemaInv
  <2>2. CASE u # a
    BY <1>1, <1>3, <2>2 DEF SemaInv
  <2> QED BY <2>1, <2>2
<1> QED BY <1>1, <1>8, <1>9, <1>10 DEF SemaInv

(* A thread moves on in _sema_wait() without a kernel call. *)
LEMMA SemaWaits ==
    ASSUME SemaInv, NEW t \in Pids,
           \/ \E block, us \in BOOLEAN : _sema_wait(t, block, us)
           \/ Arm(t) \/ Disarm(t) \/ Woken(t)
    PROVE  SemaInv'
<1>1. /\ sema' = sema /\ t \in Actors /\ At(t, at[t]) /\ wait[t] \in Frames
      /\ sema \in [value : 0 .. UINT_MAX, state : {"OK", "DESTROY"}]
      /\ wait \in [Pids -> Frames]
      /\ at[t] \in {"arm", "lock", "disarm", "woken"} => wait[t].did_block
  BY ActorFacts DEF SemaInv, _sema_wait, Arm, Disarm, Woken, At
<1>2. Runs(t) /\ t # Isr
  BY <1>1, AtFacts, ActorFacts
<1>3. ASSUME NEW block \in BOOLEAN, NEW us \in BOOLEAN, _sema_wait(t, block, us)
      PROVE  SemaInv'
  <2>1. /\ Local(t, "test") /\ at[t] = "out" /\ wait' = [wait EXCEPT ![t] = Frame(block, us)]
    BY <1>3 DEF _sema_wait, At
  <2>2. /\ wait' \in [Pids -> Frames] /\ wait'[t] = Frame(block, us)
        /\ \A u \in Pids \ {t} : wait'[u] = wait[u]
    BY <1>1, <2>1, FrameFacts
  <2>3. wait'[t].block => wait'[t].did_block
    BY <2>2, FrameFacts
  <2> QED BY <1>1, <1>2, <2>1, <2>2, <2>3, SemaLocal
<1>4. CASE Arm(t)
  <2>1. /\ Local(t, "lock") /\ at[t] = "arm"
        /\ wait' = [wait EXCEPT ![t].timer = TRUE, ![t].timeout = FALSE]
    BY <1>4 DEF Arm, At
  <2>2. /\ wait'[t] = [wait[t] EXCEPT !.timer = TRUE, !.timeout = FALSE]
        /\ wait' = [u \in Pids |-> IF u = t THEN wait'[t] ELSE wait[u]]
    BY <1>1, <2>1
  <2>3. wait'[t] \in Frames /\ wait'[t].did_block
    BY <1>1, <2>1, <2>2 DEF Frames
  <2>4. wait' \in [Pids -> Frames] /\ \A u \in Pids \ {t} : wait'[u] = wait[u]
    BY <1>1, <2>2, <2>3
  <2> QED BY <1>1, <1>2, <2>1, <2>3, <2>4, SemaLocal
<1>5. CASE Disarm(t)
  <2>1. PICK left \in BOOLEAN :
           wait' = [wait EXCEPT ![t].timer = FALSE, ![t].block = ~wait[t].timeout /\ left]
    BY <1>5 DEF Disarm
  <2>2. Local(t, "woken") /\ at[t] = "disarm"
    BY <1>5 DEF Disarm, At
  <2>3. /\ wait'[t] = [wait[t] EXCEPT !.timer = FALSE, !.block = ~wait[t].timeout /\ left]
        /\ wait' = [u \in Pids |-> IF u = t THEN wait'[t] ELSE wait[u]]
    BY <1>1, <2>1
  <2>4. wait'[t] \in Frames /\ wait'[t].did_block
    BY <1>1, <2>2, <2>3 DEF Frames
  <2>5. wait' \in [Pids -> Frames] /\ \A u \in Pids \ {t} : wait'[u] = wait[u]
    BY <1>1, <2>3, <2>4
  <2> QED BY <1>1, <1>2, <2>2, <2>4, <2>5, SemaLocal
<1>6. CASE Woken(t) /\ sema.state = "OK"
  <2>1. Local(t, "test") /\ at[t] = "woken" /\ wait' = wait
    BY <1>6 DEF Woken, At
  <2> QED BY <1>1, <1>2, <1>6, <2>1, SemaLocal
<1>7. CASE Woken(t) /\ sema.state # "OK"
  <2>1. /\ Local(t, "unlock") /\ at[t] = "woken"
        /\ wait' = [wait EXCEPT ![t] = Frame(FALSE, FALSE)]
    BY <1>7 DEF Woken, At
  <2>2. wait' \in [Pids -> Frames] /\ \A u \in Pids \ {t} : wait'[u] = wait[u]
    BY <1>1, <2>1, FrameFacts
  <2> QED BY <1>1, <1>2, <2>1, <2>2, SemaLocal
<1> QED BY <1>3, <1>4, <1>5, <1>6, <1>7

(* The critical section that takes a value or goes on to wait. *)
LEMMA SemaTests == ASSUME SemaInv, NEW t \in Pids, Test(t) PROVE SemaInv'
<1> DEFINE v == sema.value
           w == wait[t]
           l == IF v > 1 /\ w.did_block THEN "unlock"
                ELSE IF v > 0 \/ ~w.block THEN "out"
                ELSE IF w.us THEN "arm" ELSE "lock"
<1>1. /\ sema \in [value : 0 .. UINT_MAX, state : {"OK", "DESTROY"}]
      /\ wait \in [Pids -> Frames] /\ w \in Frames /\ t \in Actors
      /\ at[t] = "test" /\ (w.block => w.did_block)
  BY ActorFacts DEF SemaInv, Test, Tested, At
<1>2. Runs(t) /\ t # Isr
  BY AtFacts, ActorFacts DEF Test, Tested
<1>3. /\ sema' = [sema EXCEPT !.value = IF @ = 0 THEN 0 ELSE @ - 1] /\ Local(t, l)
      /\ wait' = IF l \in {"out", "unlock"} THEN [wait EXCEPT ![t] = Frame(FALSE, FALSE)]
                 ELSE wait
  BY DEF Test, Tested
<1>4. v \in 0 .. UINT_MAX /\ w.did_block \in BOOLEAN /\ w.block \in BOOLEAN /\ w.us \in BOOLEAN
  BY <1>1 DEF Frames
<1>5. /\ sema' \in [value : 0 .. UINT_MAX, state : {"OK", "DESTROY"}]
      /\ sema'.value = (IF v = 0 THEN 0 ELSE v - 1) /\ sema'.state = sema.state
  BY <1>1, <1>3, <1>4, SemaAssumption
<1>6. /\ wait' \in [Pids -> Frames] /\ \A u \in Pids \ {t} : wait'[u] = wait[u]
      /\ l \in {"arm", "lock"} => wait' = wait
  BY <1>1, <1>3, FrameFacts
<1>7. /\ l \in {"unlock", "out", "arm", "lock"}
      /\ l \in {"arm", "lock"} => w.block /\ v = 0
      /\ l = "out" => v <= 1 \/ ~w.did_block
  BY <1>4
<1>8. /\ sema'.value > 0 => v > 0
      /\ v <= 1 => ~(sema'.value > 0)
  BY <1>4, <1>5, SemaAssumption
<1>9. ~(sema'.value > 0) \/ l = "unlock" \/ (v > 0 /\ ~w.did_block)
  BY <1>4, <1>7, <1>8
<1> HIDE DEF l, v
<1>10. l \in {"arm", "lock"} => wait'[t].did_block
  BY <1>1, <1>6, <1>7
<1> QED BY <1>1, <1>2, <1>3, <1>5, <1>6, <1>7, <1>9, <1>10, SemaLocal DEF v

(* sema_post() and sema_destroy(), and a timer whose handler faults. *)
LEMMA SemaPosts ==
    ASSUME SemaInv, NEW a \in Actors,
           \/ sema_post(a)
           \/ a \in Pids /\ sema_destroy(a)
           \/ a = Isr /\ mutex[M].locked /\ mutex[M].queue = <<>>
              /\ \E t \in Pids : _mutex_timeout(t)
    PROVE  SemaInv'
<1>1. /\ sema \in [value : 0 .. UINT_MAX, state : {"OK", "DESTROY"}]
      /\ wait \in [Pids -> Frames] /\ At(a, "out") /\ at[a] = "out"
      /\ sema.value \in 0 .. UINT_MAX /\ sema.state \in {"OK", "DESTROY"}
  BY DEF SemaInv, sema_post, sema_destroy, _mutex_timeout, At
<1>2. a \in Pids => Runs(a)
  BY <1>1, AtFacts, ActorFacts
<1>3. CASE sema_post(a)
  <2>1. /\ Local(a, IF sema.value = 0 THEN "unlock" ELSE "out") /\ wait' = wait
        /\ sema' = [sema EXCEPT !.value = @ + 1] /\ sema.value < UINT_MAX
    BY <1>3 DEF sema_post
  <2>2. /\ sema' \in [value : 0 .. UINT_MAX, state : {"OK", "DESTROY"}]
        /\ sema'.state = sema.state
        /\ sema.value = 0 \/ sema.value > 0
    BY <1>1, <2>1, SemaAssumption
  <2> QED BY <1>1, <1>2, <2>1, <2>2, SemaLocal
<1>4. CASE a \in Pids /\ sema_destroy(a)
  <2>1. /\ Local(a, "unlock") /\ wait' = wait /\ sema' = [sema EXCEPT !.state = "DESTROY"]
    BY <1>4 DEF sema_destroy
  <2>2. sema' \in [value : 0 .. UINT_MAX, state : {"OK", "DESTROY"}]
    BY <1>1, <2>1
  <2> QED BY <1>1, <1>2, <2>1, <2>2, SemaLocal
<1>5. ASSUME a = Isr, mutex[M].locked, mutex[M].queue = <<>>, NEW t \in Pids,
             _mutex_timeout(t)
      PROVE  SemaInv'
  <2>1. /\ Local(a, "fault") /\ sema' = sema
        /\ wait' = [wait EXCEPT ![t].timer = FALSE, ![t].timeout = TRUE]
    BY <1>5 DEF _mutex_timeout
  <2>2. /\ wait[t] \in Frames /\ wait'[t] = [wait[t] EXCEPT !.timer = FALSE, !.timeout = TRUE]
        /\ wait' = [u \in Pids |-> IF u = t THEN wait'[t] ELSE wait[u]]
    BY <1>1, <2>1
  <2>3. /\ wait'[t] \in Frames /\ wait'[t].did_block = wait[t].did_block
        /\ wait'[t].block = wait[t].block
    BY <2>2 DEF Frames
  <2>4. /\ wait' \in [Pids -> Frames]
        /\ \A u \in Pids : /\ wait'[u].did_block = wait[u].did_block
                           /\ wait'[u].block = wait[u].block
    BY <1>1, <2>2, <2>3
  <2>5. a \notin Pids
    BY <1>5, ActorFacts
  <2> QED BY <1>1, <2>1, <2>4, <2>5, SemaLocal
<1> QED BY <1>3, <1>4, <1>5

(* The other steps change neither the value nor what the threads remember, *)
(* and positions only of actors that lock or unlock.                       *)
LEMMA SemaLocks == ASSUME SemaInv, NEW t \in Pids, LockSema(t) PROVE SemaInv'
<1> DEFINE l == IF wait[t].us THEN "disarm" ELSE "woken"
<1>1. /\ at[t] = "lock" /\ Lock(t, l) /\ UNCHANGED <<sema, wait>>
      /\ wait[t].did_block /\ l \in {"disarm", "woken"}
  BY DEF LockSema, At, semaVars, SemaInv
<1> HIDE DEF l
<1>2. /\ SyncInv' /\ at'[t] = l /\ \A b \in Actors : b # t => at'[b] = at[b]
      /\ \A u \in Pids : SwitchAhead(u) => SwitchAhead(u)'
      /\ \A u \in Pids \ {t} : (Waits(u)' <=> Waits(u)) /\ locking'[u] = locking[u]
      /\ locking'[t] \in {None, M} /\ (Waits(t)' <=> mutex[M].locked)
  BY <1>1, LockStep DEF SemaInv
<1>3. \A u \in Pids : u # t => at'[u] = at[u]
  BY <1>2, ActorFacts
<1>4. UnlockDue => UnlockDue'
  BY <1>1, <1>2 DEF UnlockDue
<1>5. ~Passes(t) /\ ~Looks(t)
  BY <1>1 DEF Passes, Looks
<1>6. \A u \in Pids \ {t} : (Passes(u) => Passes(u)') /\ (Looks(u) => Looks(u)')
  BY <1>1, <1>2, <1>3 DEF Passes, Looks
<1>7. ~mutex[M].locked => Passes(t)'
  BY <1>1, <1>2 DEF Passes
<1>8. sema'.value > 0 => UnlockDue' \/ \E u \in Pids : Passes(u)' \/ Looks(u)'
  BY <1>1, <1>4, <1>5, <1>6, <1>7 DEF SemaInv
<1>9. sema'.state = "DESTROY" => UnlockDue' \/ \E u \in Pids : Passes(u)'
  BY <1>1, <1>4, <1>5, <1>6, <1>7 DEF SemaInv
<1>10. ASSUME NEW u \in Pids
       PROVE  /\ locking'[u] \in {None, M}
              /\ at'[u] \in {"out", "test", "arm", "lock", "disarm", "woken", "unlock"}
              /\ at'[u] \in {"arm", "lock", "disarm", "woken"} => wait'[u].did_block
              /\ at'[u] = "test" /\ wait'[u].block => wait'[u].did_block
              /\ Waits(u)' => at'[u] \in {"disarm", "woken"}
  <2>1. CASE u = t
    BY <1>1, <1>2, <2>1
  <2>2. CASE u # t
    BY <1>1, <1>2, <1>3, <2>2 DEF SemaInv
  <2> QED BY <2>1, <2>2
<1> QED BY <1>1, <1>2, <1>8, <1>9, <1>10 DEF SemaInv

LEMMA SemaUnlocks == ASSUME SemaInv, NEW a \in Actors, UnlockSema(a) PROVE SemaInv'
<1>1. /\ at[a] = "unlock" /\ Unlock(a, "out") /\ UNCHANGED <<sema, wait>> /\ At(a, "unlock")
  BY DEF UnlockSema, At, semaVars
<1>2. InKernelCall
  BY <1>1, AtFacts
<1>3. /\ SyncInv' /\ HandsOver /\ locking' = locking
      /\ at'[a] = "out" /\ \A b \in Actors : b # a => at'[b] = at[b]
      /\ \A u \in Pids : SwitchAhead(u) => SwitchAhead(u)'
  BY <1>1, <1>2, UnlockMutex DEF SemaInv
<1>4. \A u \in Pids : u # a => at'[u] = at[u]
  BY <1>3, ActorFacts
<1>5. \A u \in Pids : Waits(u)' => Waits(u)
  BY <1>3 DEF HandsOver
<1>6. mutex'[M].locked => \E u \in Pids : Passes(u)'
  <2> SUFFICES ASSUME mutex'[M].locked PROVE \E u \in Pids : Passes(u)'
    OBVIOUS
  <2>1. PICK h \in Pids : Waits(h) /\ ~Waits(h)'
    BY <1>3 DEF HandsOver
  <2>2. at[h] \in {"disarm", "woken"} /\ wait[h].did_block
    BY <2>1 DEF SemaInv
  <2>3. at'[h] = at[h]
    BY <1>1, <1>4, <2>2
  <2> QED BY <1>1, <2>1, <2>2, <2>3 DEF Passes
<1>7. ASSUME NEW u \in Pids
      PROVE  /\ locking'[u] \in {None, M}
             /\ at'[u] \in {"out", "test", "arm", "lock", "disarm", "woken", "unlock"}
             /\ at'[u] \in {"arm", "lock", "disarm", "woken"} => wait'[u].did_block
             /\ at'[u] = "test" /\ wait'[u].block => wait'[u].did_block
             /\ Waits(u)' => at'[u] \in {"disarm", "woken"}
  <2>1. CASE u = a
    <3>1. ~Waits(u)
      BY <1>1, <2>1 DEF SemaInv
    <3> QED BY <1>3, <1>5, <2>1, <3>1 DEF SemaInv
  <2>2. CASE u # a
    BY <1>1, <1>3, <1>4, <1>5, <2>2 DEF SemaInv
  <2> QED BY <2>1, <2>2
<1> QED BY <1>1, <1>3, <1>6, <1>7 DEF SemaInv

(* Nobody moves in the functions, and who does not wait does not start to. *)
LEMMA SemaStays ==
    ASSUME SemaInv, SyncInv', \A u \in Pids : SwitchAhead(u)', UNCHANGED <<at, sema>>,
           mutex'[M].locked <=> mutex[M].locked, wait' \in [Pids -> Frames],
           \A u \in Pids : /\ locking'[u] \in {locking[u], None}
                           /\ Waits(u)' => Waits(u)
                           /\ wait'[u].did_block = wait[u].did_block
                           /\ wait'[u].block = wait[u].block
    PROVE  SemaInv'
<1>1. UnlockDue => UnlockDue'
  BY DEF UnlockDue
<1>2. \A u \in Pids : (Passes(u) => Passes(u)') /\ (Looks(u) => Looks(u)')
  BY DEF Passes, Looks
<1>3. /\ sema'.value > 0 /\ mutex'[M].locked =>
            UnlockDue' \/ \E t \in Pids : Passes(t)' \/ Looks(t)'
      /\ sema'.state = "DESTROY" /\ mutex'[M].locked =>
            UnlockDue' \/ \E t \in Pids : Passes(t)'
  BY <1>1, <1>2 DEF SemaInv
<1> QED BY <1>3 DEF SemaInv

LEMMA SemaTimeouts ==
    ASSUME SemaInv, NEW t \in Pids, _mutex_timeout(t),
           ~(mutex[M].locked /\ mutex[M].queue = <<>>)
    PROVE  SemaInv'
<1>1. /\ SyncInv' /\ \A u \in Pids : SwitchAhead(u)'
      /\ UNCHANGED <<at, locking>> /\ (mutex'[M].locked <=> mutex[M].locked)
      /\ \A u \in Pids : Waits(u)' <=> Waits(u) /\ u # t
  BY TimeoutStep DEF SemaInv
<1>2. /\ sema' = sema /\ wait \in [Pids -> Frames] /\ wait[t] \in Frames
      /\ wait' = [wait EXCEPT ![t].timer = FALSE, ![t].timeout = TRUE]
  BY DEF _mutex_timeout, SemaInv
<1>3. /\ wait'[t] = [wait[t] EXCEPT !.timer = FALSE, !.timeout = TRUE]
      /\ wait' = [u \in Pids |-> IF u = t THEN wait'[t] ELSE wait[u]]
  BY <1>2
<1>4. /\ wait'[t] \in Frames /\ wait'[t].did_block = wait[t].did_block
      /\ wait'[t].block = wait[t].block
  BY <1>2, <1>3 DEF Frames
<1>5. /\ wait' \in [Pids -> Frames]
      /\ \A u \in Pids : /\ wait'[u].did_block = wait[u].did_block
                         /\ wait'[u].block = wait[u].block
  BY <1>2, <1>3, <1>4
<1> QED BY <1>1, <1>2, <1>5, SemaStays

LEMMA SemaStarts == SyncInit(TRUE) /\ SemaInit(0) => SemaInv
<1> SUFFICES ASSUME SyncInit(TRUE), SemaInit(0) PROVE SemaInv
  OBVIOUS
<1>1. /\ MutexInit({M}) /\ at = [a \in Actors |-> "out"]
      /\ sema = [value |-> 0, state |-> "OK"] /\ wait = [t \in Pids |-> Frame(FALSE, FALSE)]
  BY DEF SyncInit, SemaInit
<1>2. OpsInv /\ \A u \in Pids : SwitchAhead(u)
  BY <1>1, InitOps, MutexOfObject
<1>3. \A u \in Pids : ~Waits(u) /\ at[u] = "out" /\ locking[u] = None
  <2>1. mutex[M].queue = <<>> /\ locking = [t \in Pids |-> None]
    BY <1>1, MutexOfObject DEF MutexInit
  <2> QED BY <1>1, <2>1, ActorFacts DEF Waits, InQueue
<1>4. /\ sema \in [value : 0 .. UINT_MAX, state : {"OK", "DESTROY"}]
      /\ ~(sema.value > 0) /\ sema.state # "DESTROY"
  BY <1>1, SemaAssumption
<1>5. wait \in [Pids -> Frames]
  BY <1>1, FrameFacts
<1>6. SyncInv
  BY <1>1, <1>2 DEF SyncInv
<1> QED BY <1>2, <1>3, <1>4, <1>5, <1>6 DEF SemaInv

(* SemaInv holds always, for every greatest value of the semaphore. *)
THEOREM SemaInvariant == ASSUME ~YieldWindow PROVE SemaSpec => []SemaInv
<1>1. ASSUME SemaInv, [SemaNext]_<<syncVars, semaVars>> PROVE SemaInv'
  <2>1. CASE SyncEnv(Pids) /\ UNCHANGED semaVars
    <3>1. /\ SyncInv' /\ UNCHANGED <<at, mutex, sema, wait>>
          /\ \A u \in Pids : /\ SwitchAhead(u)' /\ (Waits(u)' <=> Waits(u))
                             /\ locking'[u] \in {locking[u], None}
      BY <1>1, <2>1, EnvStep DEF SemaInv, semaVars
    <3>2. wait' \in [Pids -> Frames]
      BY <1>1, <3>1 DEF SemaInv
    <3> QED BY <1>1, <3>1, <3>2, SemaStays
  <2>2. CASE UNCHANGED <<syncVars, semaVars>>
    <3>1. /\ UNCHANGED <<schedVars, mutexOpsVars, mutex, locking, priority, sched>>
          /\ UNCHANGED <<at, sema, wait>>
      BY <2>2 DEF syncVars, schedVars, semaVars, mutexOpsVars
    <3>2. SchedInv' /\ \A u \in Pids : SwitchAhead(u)'
      BY <1>1, <3>1, SchedSame DEF SemaInv, SyncInv, OpsInv
    <3>3. OpsInv'
      BY <1>1, <3>1, <3>2, OpsFrame DEF SemaInv, SyncInv
    <3>4. \A u \in Pids : Waits(u)' <=> Waits(u)
      BY <3>1 DEF Waits, InQueue
    <3>5. SyncInv' /\ wait' \in [Pids -> Frames]
      BY <1>1, <3>1, <3>3 DEF SemaInv, SyncInv
    <3> QED BY <1>1, <3>1, <3>2, <3>4, <3>5, SemaStays
  <2>3. ASSUME NEW t \in Pids, _mutex_timeout(t) PROVE SemaInv'
    BY <1>1, <2>3, SemaTimeouts, SemaPosts, ActorFacts
  <2>4. ASSUME NEW t \in Pids, sema_destroy(t) PROVE SemaInv'
    BY <1>1, <2>4, SemaPosts, ActorFacts
  <2>5. ASSUME NEW t \in Pids,
               \/ \E block, us \in BOOLEAN : _sema_wait(t, block, us)
               \/ Test(t) \/ Arm(t) \/ LockSema(t) \/ Disarm(t) \/ Woken(t)
        PROVE  SemaInv'
    BY <1>1, <2>5, SemaWaits, SemaTests, SemaLocks
  <2>6. ASSUME NEW a \in Actors, sema_post(a) \/ UnlockSema(a) PROVE SemaInv'
    BY <1>1, <2>6, SemaPosts, SemaUnlocks
  <2> QED BY <1>1, <2>1, <2>2, <2>3, <2>4, <2>5, <2>6 DEF SemaNext
<1> QED BY <1>1, SemaStarts, PTL DEF SemaSpec

(* No post and no destruction of a semaphore is lost. *)
THEOREM SemaPost == ASSUME ~YieldWindow PROVE SemaSpec => []PostIsNotLost
<1>1. SemaInv => PostIsNotLost
  <2> SUFFICES ASSUME SemaInv PROVE PostIsNotLost
    OBVIOUS
  <2>1. sema.value \in 0 .. UINT_MAX
    BY DEF SemaInv
  <2>2. UnlockDue \/ (\E t \in Pids : Passes(t) \/ Looks(t)) => SemaWakeupDue
    BY DEF SemaWakeupDue, UnlockDue, Passes, Looks
  <2> QED BY <2>1, <2>2 DEF PostIsNotLost, SemaInv
<1> QED BY <1>1, SemaInvariant, PTL

(* The lists of the scheduler and of the semaphore's mutex agree, although *)
(* timers take threads out of the mutex's list.                            *)
THEOREM SemaLists == ASSUME ~YieldWindow PROVE SemaSpec => []SyncListsAgree
<1>1. SemaInv => SyncListsAgree
  <2> SUFFICES ASSUME SemaInv PROVE SyncListsAgree
    OBVIOUS
  <2>1. OpsInv /\ SchedInv /\ \A u \in Pids \ {} : SwitchAhead(u)
    BY DEF SemaInv, SyncInv, OpsInv
  <2> QED BY <2>1, OpsWaitersAgree, SchedInvFirst, SchedInvUrgent DEF SyncListsAgree
<1> QED BY <1>1, SemaInvariant, PTL

-----------------------------------------------------------------------------
(* sys/posix/pthread_rwlock.  The count and the queue belong to the thread *)
(* that has the mutex.                                                     *)
Inside == {"enter", "try_enter", "granted", "to_sleep", "check", "drop", "release", "wake",
           "drop_switch"}

Nodes == [is_writer : BOOLEAN, continue_ : BOOLEAN, prio : Prios]

RwTypes ==
    /\ rwlock \in [readers : Int, queue : Seq(Pids)]
    /\ node \in [Pids -> Nodes]
    /\ rwheld \in [Pids -> {"no", "read", "write"}]

(* The count n says who has the lock: the readers R, or a writer. *)
Counts(n, R, W) ==
    /\ W # {} => R = {}
    /\ \A t, u \in W : t = u
    /\ n = IF W # {} THEN -1 ELSE Cardinality(R)

RwQueue ==
    /\ NoRepeats(rwlock.queue) /\ SortedByPriority(rwlock.queue)
    /\ rwlock.queue # <<>> => rwlock.readers # 0

(* Where thread t is.  One that has been woken has been told to continue,  *)
(* and the lock has been counted for it.                                   *)
RwThread(t) ==
    /\ at[t] \in Inside \cup {"out", "slept", "switch"}
    /\ Waits(t) => at[t] \in {"enter", "check", "release"}
    /\ rwheld[t] # "no" => at[t] \in {"out", "release"}
    /\ at[t] = "release" => rwheld[t] # "no"
    /\ node[t].continue_ => at[t] \in {"slept", "check", "granted"}
    /\ at[t] = "slept" => (sched.status[t] = "SLEEPING" <=> ~node[t].continue_)
    /\ at[t] = "check" => node[t].continue_
    /\ at[t] = "wake" => rwlock.readers > 0
    /\ t \in InQueue(rwlock.queue) <=>
            at[t] = "to_sleep" \/ (at[t] = "slept" /\ sched.status[t] = "SLEEPING")

RwInv ==
    /\ SyncInv /\ Monitor(Inside) /\ RwTypes /\ RwQueue
    /\ Counts(rwlock.readers, RwHolders("read"), RwHolders("write"))
    /\ \A t \in Pids : RwThread(t)

LEMMA FinitePids == IsFiniteSet(Pids) /\ \A S \in SUBSET Pids : IsFiniteSet(S)
<1>1. IsFiniteSet(Pids)
  BY SchedAssumption, FS_Interval DEF Pids
<1> QED BY <1>1, FS_Subset

LEMMA CountsGrant ==
    ASSUME NEW n \in Int, NEW R \in SUBSET Pids, NEW W \in SUBSET Pids, Counts(n, R, W),
           NEW t \in Pids, t \notin R, t \notin W
    PROVE  /\ n >= 0 => Counts(n + 1, R \cup {t}, W) /\ n + 1 > 0
           /\ n = 0 => Counts(-1, R, W \cup {t})
<1>1. /\ IsFiniteSet(R) /\ Cardinality(R) \in Nat
      /\ Cardinality(R \cup {t}) = Cardinality(R) + 1
      /\ Cardinality(R) = 0 => R = {}
  BY FinitePids, FS_CardinalityType, FS_AddElement, FS_EmptySet
<1>2. n >= 0 => W = {} /\ n = Cardinality(R)
  BY DEF Counts
<1>3. ASSUME n >= 0 PROVE Counts(n + 1, R \cup {t}, W) /\ n + 1 > 0
  BY <1>1, <1>2, <1>3 DEF Counts
<1>4. ASSUME n = 0 PROVE Counts(-1, R, W \cup {t})
  <2>1. W = {} /\ R = {}
    BY <1>1, <1>2, <1>4
  <2> QED BY <2>1 DEF Counts
<1> QED BY <1>3, <1>4

LEMMA CountsRelease ==
    ASSUME NEW n \in Int, NEW R \in SUBSET Pids, NEW W \in SUBSET Pids, Counts(n, R, W),
           NEW t \in Pids, t \in R \/ t \in W
    PROVE  /\ Counts(IF n > 0 THEN n - 1 ELSE 0, R \ {t}, W \ {t})
           /\ n # 0
<1>1. /\ IsFiniteSet(R) /\ Cardinality(R) \in Nat
      /\ t \in R => Cardinality(R \ {t}) = Cardinality(R) - 1 /\ Cardinality(R) # 0
      /\ Cardinality({}) = 0
  BY FinitePids, FS_CardinalityType, FS_RemoveElement, FS_EmptySet
<1>2. CASE t \in W
  <2>1. W \ {t} = {} /\ R \ {t} = {} /\ n = -1
    BY <1>2 DEF Counts
  <2> QED BY <1>1, <2>1 DEF Counts
<1>3. CASE t \in R
  <2>1. W = {} /\ n = Cardinality(R) /\ W \ {t} = {}
    BY <1>3 DEF Counts
  <2> QED BY <1>1, <1>3, <2>1 DEF Counts
<1> QED BY <1>2, <1>3

LEMMA HoldersArePids == RwHolders("read") \subseteq Pids /\ RwHolders("write") \subseteq Pids
BY DEF RwHolders

(* A thread that does nothing, while another one does or nobody. *)
LEMMA RwOther ==
    ASSUME NEW u \in Pids, RwThread(u), at'[u] = at[u], node'[u] = node[u],
           rwheld'[u] = rwheld[u], Waits(u)' => Waits(u),
           at[u] = "slept" => (sched'.status[u] = "SLEEPING" <=> sched.status[u] = "SLEEPING"),
           u \in InQueue(rwlock'.queue) <=> u \in InQueue(rwlock.queue),
           at[u] = "wake" => rwlock'.readers = rwlock.readers
    PROVE  /\ RwThread(u)'
           /\ \A m \in {"read", "write"} : u \in RwHolders(m)' <=> u \in RwHolders(m)
<1>1. u \in InQueue(rwlock.queue)' <=> u \in InQueue(rwlock.queue)
  BY DEF InQueue
<1>2. RwThread(u)'
  BY <1>1 DEF RwThread
<1>3. \A m : u \in RwHolders(m)' <=> u \in RwHolders(m)
  BY DEF RwHolders, Mode
<1> QED BY <1>2, <1>3

(* A step of thread t, which has the mutex if it changes the lock. *)
LEMMA RwStep ==
    ASSUME RwInv, NEW t \in Pids, SyncInv', Monitor(Inside)', RwTypes', RwQueue', RwThread(t)',
           Counts(rwlock.readers, RwHolders("read"), RwHolders("write"))' ,
           rwlock'.readers = rwlock.readers \/ Has(Inside, t),
           \A u \in Pids \ {t} :
                /\ at'[u] = at[u] /\ node'[u] = node[u] /\ rwheld'[u] = rwheld[u]
                /\ Waits(u)' => Waits(u)
                /\ at[u] # "out" =>
                    (sched'.status[u] = "SLEEPING" <=> sched.status[u] = "SLEEPING")
                /\ u \in InQueue(rwlock'.queue) <=> u \in InQueue(rwlock.queue)
    PROVE  RwInv'
<1>1. ASSUME NEW u \in Pids \ {t} PROVE RwThread(u)'
  <2>1. RwThread(u)
    BY DEF RwInv
  <2>2. at[u] = "wake" => Has(Inside, u)
    BY <2>1 DEF RwThread, Has, Inside
  <2>3. at[u] = "wake" => rwlock'.readers = rwlock.readers
    BY <2>2 DEF RwInv, Monitor
  <2> QED BY <2>1, <2>3, RwOther
<1> QED BY <1>1 DEF RwInv

(* Such a step that leaves the lock as it is, and t with it or without it. *)
LEMMA RwKeeps ==
    ASSUME RwInv, NEW t \in Pids, SyncInv', Monitor(Inside)', RwTypes', RwThread(t)',
           UNCHANGED <<rwlock, priority>>,
           \A m \in {"read", "write"} : t \in RwHolders(m)' <=> t \in RwHolders(m),
           \A u \in Pids \ {t} :
                /\ at'[u] = at[u] /\ node'[u] = node[u] /\ rwheld'[u] = rwheld[u]
                /\ Waits(u)' => Waits(u)
                /\ at[u] # "out" =>
                    (sched'.status[u] = "SLEEPING" <=> sched.status[u] = "SLEEPING")
    PROVE  RwInv'
<1>1. RwQueue'
  BY DEF RwInv, RwQueue, SortedByPriority, NoRepeats
<1>2. \A m \in {"read", "write"} : RwHolders(m)' = RwHolders(m)
  <2>1. \A m : \A u \in Pids \ {t} : u \in RwHolders(m)' <=> u \in RwHolders(m)
    BY DEF RwHolders, Mode
  <2>2. \A m : RwHolders(m) \subseteq Pids /\ RwHolders(m)' \subseteq Pids
    BY DEF RwHolders
  <2>3. ASSUME NEW m \in {"read", "write"} PROVE RwHolders(m)' = RwHolders(m)
    <3>1. \A u \in Pids : u \in RwHolders(m)' <=> u \in RwHolders(m)
      BY <2>1
    <3> QED BY <2>2, <3>1
  <2> QED BY <2>3
<1>3. Counts(rwlock.readers, RwHolders("read"), RwHolders("write"))'
  BY <1>2 DEF RwInv, Counts
<1> QED BY <1>1, <1>3, RwStep

LEMMA RwFacts ==
    ASSUME RwInv, NEW t \in Pids, NEW l, At(t, l)
    PROVE  /\ SyncInv /\ t \in Actors /\ at[t] = l /\ Runs(t) /\ InKernelCall /\ ~Waits(t)
           /\ sched.status[t] # "SLEEPING"
           /\ RwThread(t) /\ node[t] \in Nodes /\ RwTypes
           /\ l \in Inside => Has(Inside, t)
<1>1. /\ SyncInv /\ t \in Actors /\ at[t] = l /\ Runs(t) /\ InKernelCall
      /\ RwThread(t) /\ node[t] \in Nodes /\ RwTypes
  BY AtFacts, ActorFacts DEF RwInv, RwTypes
<1>2. ~Waits(t) /\ sched.status[t] # "SLEEPING"
  BY <1>1, WaitsFacts DEF SyncInv, OnRunqueue
<1> QED BY <1>1, <1>2 DEF Has

LEMMA NodePrio ==
    ASSUME NEW n \in Nodes, NEW p \in Prios
    PROVE  LET x == [n EXCEPT !.prio = p]
           IN  x \in Nodes /\ x.continue_ = n.continue_ /\ x.is_writer = n.is_writer
BY DEF Nodes

(* A thread that has not got the lock may ask for it in either mode. *)
LEMMA RwMode ==
    ASSUME RwTypes, NEW t \in Pids, NEW w \in BOOLEAN,
           node' = [node EXCEPT ![t].is_writer = w], UNCHANGED <<rwlock, rwheld>>
    PROVE  /\ RwTypes' /\ node'[t].continue_ = node[t].continue_
           /\ \A u \in Pids \ {t} : node'[u] = node[u]
<1>1. /\ node \in [Pids -> Nodes] /\ node[t] \in Nodes
      /\ node'[t] = [node[t] EXCEPT !.is_writer = w]
      /\ node' = [u \in Pids |-> IF u = t THEN node'[t] ELSE node[u]]
  BY DEF RwTypes
<1>2. node'[t] \in Nodes /\ node'[t].continue_ = node[t].continue_
  <2> DEFINE n == node[t]
  <2>1. n \in Nodes
    BY <1>1
  <2> HIDE DEF n
  <2>2. LET x == [n EXCEPT !.is_writer = w] IN x \in Nodes /\ x.continue_ = n.continue_
    BY <2>1 DEF Nodes
  <2> QED BY <1>1, <2>2 DEF n
<1>3. node' \in [Pids -> Nodes] /\ \A u \in Pids \ {t} : node'[u] = node[u]
  BY <1>1, <1>2
<1> QED BY <1>2, <1>3 DEF RwTypes

(* mutex_lock() at the start of the functions and after the sleep *)
LEMMA RwLocks ==
    ASSUME RwInv, NEW t \in Pids, NEW l \in {"enter", "check", "release"}, Lock(t, l),
           At(t, at[t]), at[t] = IF l = "check" THEN "slept" ELSE "out",
           RwTypes', UNCHANGED <<rwlock, rwheld>>,
           l = "release" <=> rwheld[t] # "no",
           l = "enter" \/ node' = node, node'[t].continue_ = node[t].continue_,
           \A u \in Pids \ {t} : node'[u] = node[u]
    PROVE  RwInv'
<1>1. /\ SyncInv /\ Monitor(Inside) /\ RwThread(t) /\ ~Waits(t) /\ sched.status[t] # "SLEEPING"
  BY RwFacts DEF RwInv
<1>2. at[t] \notin Inside /\ at[t] \in {"out", "slept"}
  BY DEF Inside
<1>3. /\ SyncInv' /\ UNCHANGED priority /\ at'[t] = l
      /\ \A u \in Pids \ {t} : /\ at'[u] = at[u] /\ (Waits(u)' <=> Waits(u))
                               /\ sched'.status[u] = sched.status[u]
  BY <1>1, LockStep, ActorFacts
<1>4. Monitor(Inside)'
  BY <1>1, <1>2, MonitorLock
<1>5. /\ node[t].continue_ <=> l = "check"
      /\ t \notin InQueue(rwlock.queue)
  BY <1>1 DEF RwThread
<1>6. t \notin InQueue(rwlock.queue)'
  BY <1>5 DEF InQueue
<1>7. RwThread(t)'
  BY <1>3, <1>5, <1>6 DEF RwThread, Inside
<1>8. \A m \in {"read", "write"} : t \in RwHolders(m)' <=> t \in RwHolders(m)
  <2>1. at[t] # "granted" /\ at'[t] # "granted"
    BY <1>2, <1>3
  <2>2. CASE l = "enter"
    BY <1>5, <2>1, <2>2 DEF RwHolders
  <2>3. CASE node' = node
    BY <2>1, <2>3 DEF RwHolders, Mode
  <2> QED BY <2>2, <2>3
<1> QED BY <1>3, <1>4, <1>7, <1>8, RwKeeps

LEMMA RwLockCalls ==
    ASSUME RwInv, NEW t \in Pids,
           \/ \E w \in BOOLEAN : pthread_rwlock_lock(t, w)
           \/ Relock(t) \/ pthread_rwlock_unlock(t)
    PROVE  RwInv'
<1>1. RwTypes
  BY DEF RwInv
<1>2. ASSUME NEW w \in BOOLEAN, pthread_rwlock_lock(t, w) PROVE RwInv'
  <2>1. /\ At(t, "out") /\ at[t] = "out" /\ rwheld[t] = "no" /\ Lock(t, "enter")
        /\ node' = [node EXCEPT ![t].is_writer = w] /\ UNCHANGED <<rwlock, rwheld>>
    BY <1>2 DEF pthread_rwlock_lock, At
  <2>2. /\ RwTypes' /\ node'[t].continue_ = node[t].continue_
        /\ \A u \in Pids \ {t} : node'[u] = node[u]
    BY <1>1, <2>1, RwMode
  <2> QED BY <2>1, <2>2, RwLocks
<1>3. CASE Relock(t)
  <2>1. /\ At(t, "slept") /\ at[t] = "slept" /\ Lock(t, "check") /\ UNCHANGED rwlockVars
    BY <1>3 DEF Relock, At
  <2>2. RwTypes' /\ UNCHANGED <<rwlock, rwheld, node>>
    BY <1>1, <2>1 DEF RwTypes, rwlockVars
  <2>3. rwheld[t] = "no"
    BY <2>1 DEF RwInv, RwThread
  <2> QED BY <2>1, <2>2, <2>3, RwLocks
<1>4. CASE pthread_rwlock_unlock(t)
  <2>1. /\ At(t, "out") /\ at[t] = "out" /\ rwheld[t] # "no" /\ Lock(t, "release")
        /\ UNCHANGED rwlockVars
    BY <1>4 DEF pthread_rwlock_unlock, At
  <2>2. RwTypes' /\ UNCHANGED <<rwlock, rwheld, node>>
    BY <1>1, <2>1 DEF RwTypes, rwlockVars
  <2> QED BY <2>1, <2>2, RwLocks
<1> QED BY <1>2, <1>3, <1>4

LEMMA RwTries ==
    ASSUME RwInv, NEW t \in Pids, NEW w \in BOOLEAN, pthread_rwlock_trylock(t, w)
    PROVE  RwInv'
<1>1. /\ At(t, "out") /\ at[t] = "out" /\ rwheld[t] = "no" /\ TryLock(t, "try_enter", "out")
      /\ node' = [node EXCEPT ![t].is_writer = w] /\ UNCHANGED <<rwlock, rwheld>>
  BY DEF pthread_rwlock_trylock, At
<1>2. /\ SyncInv /\ Monitor(Inside) /\ RwThread(t) /\ ~Waits(t) /\ RwTypes
  BY <1>1, RwFacts DEF RwInv
<1>3. /\ RwTypes' /\ node'[t].continue_ = node[t].continue_
      /\ \A u \in Pids \ {t} : node'[u] = node[u]
  BY <1>1, <1>2, RwMode
<1>4. /\ SyncInv' /\ UNCHANGED <<priority, sched>> /\ at'[t] \in {"try_enter", "out"}
      /\ \A u \in Pids : Waits(u)' <=> Waits(u)
      /\ \A u \in Pids \ {t} : at'[u] = at[u]
  BY <1>1, <1>2, TryLockStep, ActorFacts
<1>5. Monitor(Inside)'
  BY <1>1, <1>2, MonitorTry DEF Inside
<1>6. ~node[t].continue_ /\ t \notin InQueue(rwlock.queue)
  BY <1>1, <1>2 DEF RwThread
<1>7. t \notin InQueue(rwlock.queue)'
  BY <1>1, <1>6 DEF InQueue
<1>8. RwThread(t)'
  BY <1>1, <1>2, <1>3, <1>4, <1>6, <1>7 DEF RwThread, Inside
<1>9. \A m \in {"read", "write"} : t \in RwHolders(m)' <=> t \in RwHolders(m)
  BY <1>1, <1>3, <1>4, <1>6 DEF RwHolders
<1> QED BY <1>1, <1>3, <1>4, <1>5, <1>8, <1>9, RwKeeps

(* A thread that has the mutex moves on inside without a kernel call. *)
LEMMA RwLocalFacts ==
    ASSUME RwInv, NEW t \in Pids, NEW k \in Inside, At(t, k), NEW l \in Inside, Local(t, l)
    PROVE  /\ SyncInv' /\ Monitor(Inside)' /\ UNCHANGED <<priority, sched>> /\ at'[t] = l
           /\ Has(Inside, t) /\ ~Waits(t)'
           /\ \A u \in Pids \ {t} : at'[u] = at[u]
           /\ \A u \in Pids : Waits(u)' <=> Waits(u)
<1>1. /\ SyncInv /\ Monitor(Inside) /\ t \in Actors /\ at[t] = k /\ ~Waits(t) /\ Has(Inside, t)
  BY RwFacts DEF RwInv
<1>2. /\ SyncInv' /\ UNCHANGED <<priority, sched, mutex>> /\ at'[t] = l
      /\ \A u \in Pids \ {t} : at'[u] = at[u]
      /\ \A u \in Pids : Waits(u)' <=> Waits(u)
  BY <1>1, LocalStep, ActorFacts
<1>3. Monitor(Inside)'
  BY <1>1, <1>2, MonitorKeeps
<1> QED BY <1>1, <1>2, <1>3

LEMMA RwChecks ==
    ASSUME RwInv, NEW t \in Pids, Check(t) \/ TryBusy(t) \/ WokeReaders(t)
    PROVE  RwInv'
<1> DEFINE l == CASE at[t] = "check" -> "granted"
                  [] at[t] = "try_enter" -> "drop"
                  [] OTHER -> "drop_switch"
<1>1. /\ At(t, at[t]) /\ at[t] \in {"check", "try_enter", "wake"} /\ at[t] \in Inside
      /\ UNCHANGED <<rwlock, node, rwheld>>
  BY DEF Check, TryBusy, WokeReaders, At, rwlockVars, Inside
<1>2. RwThread(t) /\ RwTypes
  BY <1>1, RwFacts
<1>3. Local(t, l) /\ l \in Inside /\ l \in {"granted", "drop", "drop_switch"}
  BY <1>2 DEF Check, TryBusy, WokeReaders, At, Inside, RwThread
<1>4. l = "granted" <=> at[t] = "check"
  BY <1>1
<1> HIDE DEF l
<1>5. /\ SyncInv' /\ Monitor(Inside)' /\ UNCHANGED <<priority, sched>> /\ at'[t] = l
      /\ ~Waits(t)'
      /\ \A u \in Pids \ {t} : at'[u] = at[u]
      /\ \A u \in Pids : Waits(u)' <=> Waits(u)
  BY <1>1, <1>3, RwLocalFacts
<1>6. t \notin InQueue(rwlock.queue) /\ t \notin InQueue(rwlock.queue)'
  BY <1>1, <1>2 DEF RwThread, InQueue
<1>7. RwThread(t)'
  BY <1>1, <1>2, <1>3, <1>4, <1>5, <1>6 DEF RwThread
<1>8. \A m \in {"read", "write"} : t \in RwHolders(m)' <=> t \in RwHolders(m)
  BY <1>1, <1>2, <1>3, <1>4, <1>5 DEF RwHolders, Mode, RwThread
<1>9. RwTypes'
  BY <1>1, <1>2 DEF RwTypes
<1> QED BY <1>1, <1>5, <1>7, <1>8, <1>9, RwKeeps

(* The lock is free for t, which is counted. *)
LEMMA RwEnters == ASSUME RwInv, NEW t \in Pids, EnterFree(t) PROVE RwInv'
<1> DEFINE n == rwlock.readers
           R == RwHolders("read")
           W == RwHolders("write")
<1>1. /\ At(t, at[t]) /\ at[t] \in {"enter", "try_enter"} /\ at[t] \in Inside
      /\ UNCHANGED <<node, rwheld>> /\ Local(t, "granted") /\ "granted" \in Inside
      /\ ~IsBlocked(t) /\ rwlock' = [rwlock EXCEPT !.readers = @ + Incr(t)]
  BY DEF EnterFree, At, Inside
<1>2. /\ RwThread(t) /\ RwTypes /\ node[t] \in Nodes /\ ~Waits(t)
  BY <1>1, RwFacts
<1>3. /\ SyncInv' /\ Monitor(Inside)' /\ UNCHANGED <<priority, sched>> /\ at'[t] = "granted"
      /\ Has(Inside, t) /\ ~Waits(t)'
      /\ \A u \in Pids \ {t} : at'[u] = at[u]
      /\ \A u \in Pids : Waits(u)' <=> Waits(u)
  BY <1>1, RwLocalFacts
<1>4. n \in Int /\ rwlock.queue \in Seq(Pids) /\ node[t].is_writer \in BOOLEAN
  BY <1>2 DEF RwTypes, Nodes
<1>5. /\ rwlock'.queue = rwlock.queue /\ rwlock' \in [readers : Int, queue : Seq(Pids)]
      /\ rwlock'.readers = n + Incr(t)
      /\ node[t].is_writer => n = 0 /\ Incr(t) = -1
      /\ ~node[t].is_writer => n >= 0 /\ Incr(t) = 1
  BY <1>1, <1>2, <1>4 DEF IsBlocked, blocked_readingly, blocked_writingly, Incr, RwTypes
<1>6. t \notin R /\ t \notin W /\ t \notin InQueue(rwlock.queue)
  BY <1>1, <1>2 DEF RwHolders, RwThread
<1>7. /\ node[t].is_writer => R' = R /\ W' = W \cup {t}
      /\ ~node[t].is_writer => R' = R \cup {t} /\ W' = W
  BY <1>1, <1>2, <1>3, <1>4, <1>6 DEF RwHolders, Mode, RwThread
<1>8. Counts(n, R, W) /\ R \in SUBSET Pids /\ W \in SUBSET Pids
  BY HoldersArePids DEF RwInv
<1> HIDE DEF n, R, W
<1>9. Counts(rwlock'.readers, R', W') /\ rwlock'.readers # 0
  <2>1. CASE node[t].is_writer
    <3>1. n = 0 /\ rwlock'.readers = -1
      BY <1>5, <2>1
    <3>2. Counts(-1, R, W \cup {t})
      BY <1>4, <1>6, <1>8, <3>1, CountsGrant
    <3> QED BY <1>7, <2>1, <3>1, <3>2
  <2>2. CASE ~node[t].is_writer
    <3>1. n >= 0 /\ rwlock'.readers = n + 1
      BY <1>5, <2>2
    <3>2. Counts(n + 1, R \cup {t}, W) /\ n + 1 > 0
      BY <1>4, <1>6, <1>8, <3>1, CountsGrant
    <3> QED BY <1>7, <2>2, <3>1, <3>2
  <2> QED BY <2>1, <2>2
<1>10. RwTypes'
  BY <1>1, <1>2, <1>5 DEF RwTypes
<1>11. RwQueue'
  BY <1>3, <1>5, <1>9 DEF RwInv, RwQueue, NoRepeats, SortedByPriority
<1>12. t \notin InQueue(rwlock.queue)'
  BY <1>5, <1>6 DEF InQueue
<1>13. RwThread(t)'
  BY <1>1, <1>2, <1>3, <1>12 DEF RwThread, Inside
<1>14. Counts(rwlock.readers, RwHolders("read"), RwHolders("write"))'
  BY <1>9 DEF R, W, Counts
<1> QED BY <1>1, <1>3, <1>5, <1>10, <1>11, <1>13, <1>14, RwStep

LEMMA RwQueues == ASSUME RwInv, NEW t \in Pids, EnterQueues(t) PROVE RwInv'
<1> DEFINE q == rwlock.queue
           r == thread_add_to_list(q, t)
<1>1. /\ At(t, "enter") /\ at[t] = "enter" /\ "enter" \in Inside
      /\ UNCHANGED <<node, rwheld>> /\ Local(t, "to_sleep") /\ "to_sleep" \in Inside
      /\ IsBlocked(t) /\ rwlock' = [rwlock EXCEPT !.queue = r]
  BY DEF EnterQueues, At, Inside, priority_queue_add
<1>2. /\ RwThread(t) /\ RwTypes /\ node[t] \in Nodes /\ ~Waits(t)
  BY <1>1, RwFacts
<1>3. /\ SyncInv' /\ Monitor(Inside)' /\ UNCHANGED <<priority, sched>> /\ at'[t] = "to_sleep"
      /\ Has(Inside, t) /\ ~Waits(t)'
      /\ \A u \in Pids \ {t} : at'[u] = at[u]
      /\ \A u \in Pids : Waits(u)' <=> Waits(u)
  BY <1>1, RwLocalFacts
<1>4. /\ rwlock.readers \in Int /\ q \in Seq(Pids) /\ t \notin InQueue(q) /\ NoRepeats(q)
      /\ SortedByPriority(q) /\ priority \in [Pids -> Prios]
  BY <1>1, <1>2, OpsFacts DEF RwTypes, RwThread, RwInv, RwQueue, SyncInv
<1>5. /\ r \in Seq(Pids) /\ InQueue(r) = InQueue(q) \cup {t}
      /\ NoRepeats(r) /\ SortedByPriority(r)
  BY <1>4, AddToList
<1> HIDE DEF r
<1>6. /\ rwlock'.queue = r /\ rwlock' \in [readers : Int, queue : Seq(Pids)]
      /\ rwlock'.readers = rwlock.readers
  BY <1>1, <1>2, <1>4, <1>5 DEF RwTypes
<1>7. rwlock.readers # 0
  <2>1. CASE node[t].is_writer
    BY <1>1, <2>1 DEF IsBlocked, blocked_writingly
  <2>2. CASE ~node[t].is_writer
    <3>1. rwlock.readers < 0 \/ q # <<>>
      BY <1>1, <2>2 DEF IsBlocked, blocked_readingly
    <3> QED BY <1>4, <3>1 DEF RwInv, RwQueue
  <2> QED BY <2>1, <2>2
<1>8. RwTypes'
  BY <1>1, <1>2, <1>6 DEF RwTypes
<1>9. RwQueue'
  <2>1. NoRepeats(rwlock.queue)'
    BY <1>5, <1>6 DEF NoRepeats
  <2>2. SortedByPriority(rwlock.queue)'
    BY <1>3, <1>5, <1>6 DEF SortedByPriority
  <2> QED BY <1>6, <1>7, <2>1, <2>2 DEF RwQueue
<1>10. t \in InQueue(rwlock.queue)' /\ InQueue(rwlock'.queue) = InQueue(q) \cup {t}
  <2>1. InQueue(rwlock.queue)' = InQueue(rwlock'.queue)
    BY DEF InQueue
  <2>2. InQueue(rwlock'.queue) = InQueue(r)
    BY <1>6
  <2> QED BY <1>5, <2>1, <2>2
<1>11. RwThread(t)'
  BY <1>1, <1>2, <1>3, <1>10 DEF RwThread, Inside
<1>12. \A m \in {"read", "write"} : RwHolders(m)' = RwHolders(m)
  BY <1>1, <1>3 DEF RwHolders, Mode
<1>13. Counts(rwlock.readers, RwHolders("read"), RwHolders("write"))'
  BY <1>6, <1>12 DEF RwInv, Counts
<1> QED BY <1>1, <1>3, <1>6, <1>8, <1>9, <1>10, <1>11, <1>13, RwStep

(* Thread t, which has the lock, has it no longer. *)
LEMMA RwReleased ==
    ASSUME RwInv, NEW t \in Pids, At(t, "release")
    PROVE  /\ Counts(Left, RwHolders("read") \ {t}, RwHolders("write") \ {t})
           /\ Left \in Nat
<1>1. RwThread(t) /\ RwTypes /\ at[t] = "release"
  BY RwFacts
<1>2. rwlock.readers \in Int /\ rwheld[t] \in {"read", "write"}
  BY <1>1 DEF RwThread, RwTypes
<1>3. t \in RwHolders("read") \/ t \in RwHolders("write")
  BY <1>2 DEF RwHolders
<1>4. /\ Counts(rwlock.readers, RwHolders("read"), RwHolders("write"))
      /\ RwHolders("read") \in SUBSET Pids /\ RwHolders("write") \in SUBSET Pids
  BY HoldersArePids DEF RwInv
<1>5. Left \in Nat
  BY <1>2 DEF Left
<1>6. Counts(Left, RwHolders("read") \ {t}, RwHolders("write") \ {t})
  BY <1>2, <1>3, <1>4, CountsRelease DEF Left
<1> QED BY <1>5, <1>6

LEMMA RwReleases == ASSUME RwInv, NEW t \in Pids, ReleaseKeeps(t) PROVE RwInv'
<1> DEFINE R == RwHolders("read")
           W == RwHolders("write")
<1>1. /\ At(t, "release") /\ at[t] = "release" /\ "release" \in Inside
      /\ node' = node /\ rwheld' = [rwheld EXCEPT ![t] = "no"]
      /\ Local(t, "drop") /\ "drop" \in Inside
      /\ rwlock' = [rwlock EXCEPT !.readers = Left]
  BY DEF ReleaseKeeps, At, Inside
<1>2. /\ RwThread(t) /\ RwTypes /\ node[t] \in Nodes /\ ~Waits(t)
  BY <1>1, RwFacts
<1>3. /\ SyncInv' /\ Monitor(Inside)' /\ UNCHANGED <<priority, sched>> /\ at'[t] = "drop"
      /\ Has(Inside, t) /\ ~Waits(t)'
      /\ \A u \in Pids \ {t} : at'[u] = at[u]
      /\ \A u \in Pids : Waits(u)' <=> Waits(u)
  BY <1>1, RwLocalFacts
<1>4. /\ Counts(Left, R \ {t}, W \ {t}) /\ Left \in Int
  BY <1>1, RwReleased
<1>5. /\ rwlock'.queue = rwlock.queue /\ rwlock' \in [readers : Int, queue : Seq(Pids)]
      /\ rwlock'.readers = Left
  BY <1>2, <1>4 DEF ReleaseKeeps, RwTypes
<1>6. /\ rwheld' \in [Pids -> {"no", "read", "write"}] /\ rwheld'[t] = "no"
      /\ \A u \in Pids \ {t} : rwheld'[u] = rwheld[u]
  BY <1>1, <1>2 DEF RwTypes
<1>7. ~node[t].continue_ /\ t \notin InQueue(rwlock.queue)
  BY <1>1, <1>2 DEF RwThread
<1>8. R' = R \ {t} /\ W' = W \ {t}
  BY <1>1, <1>3, <1>6, <1>7 DEF RwHolders, Mode
<1> HIDE DEF R, W
<1>9. Counts(rwlock'.readers, R', W')
  BY <1>4, <1>5, <1>8
<1>10. Counts(rwlock.readers, RwHolders("read"), RwHolders("write"))'
  BY <1>9 DEF R, W, Counts
<1>11. RwTypes'
  BY <1>1, <1>2, <1>5, <1>6 DEF RwTypes
<1>12. RwQueue'
  <2>1. Left # 0 \/ rwlock.queue = <<>>
    BY DEF ReleaseKeeps
  <2> QED BY <1>3, <1>5, <2>1 DEF RwInv, RwQueue, NoRepeats, SortedByPriority
<1>13. t \notin InQueue(rwlock.queue)'
  BY <1>5, <1>7 DEF InQueue
<1>14. RwThread(t)'
  BY <1>1, <1>2, <1>3, <1>6, <1>13 DEF RwThread, Inside
<1> QED BY <1>1, <1>3, <1>5, <1>6, <1>10, <1>11, <1>12, <1>14, RwStep

(* Thread t, which has the mutex, passes the lock on to the first thread   *)
(* of the queue: n is the count without both.                              *)
LEMMA RwContinues ==
    ASSUME RwInv, NEW t \in Pids, NEW n \in Nat, NEW p \in Prios,
           NEW k \in {"release", "wake"}, At(t, k), NEW l \in {"wake", "drop_switch"},
           rwlock.queue # <<>>, Continues(t, n, p, l), rwheld' = [rwheld EXCEPT ![t] = "no"],
           Counts(n, RwHolders("read") \ {t}, RwHolders("write") \ {t}),
           node[Head(rwlock.queue)].is_writer => n = 0 /\ l = "drop_switch"
    PROVE  RwInv'
<1> DEFINE q == rwlock.queue
           R == RwHolders("read")
           W == RwHolders("write")
<1>0. PICK u : u = Head(q)
  OBVIOUS
<1>1. /\ SyncInv /\ Monitor(Inside) /\ RwThread(t) /\ RwTypes /\ ~Waits(t) /\ at[t] = k
      /\ Has(Inside, t) /\ Runs(t) /\ t \in Actors
  BY RwFacts DEF RwInv, Inside
<1>2. /\ q \in Seq(Pids) /\ NoRepeats(q) /\ SortedByPriority(q) /\ priority \in [Pids -> Prios]
      /\ at = [b \in Actors |-> at[b]]
  BY <1>1, OpsFacts DEF RwTypes, RwInv, RwQueue, SyncInv
<1>3. /\ Tail(q) \in Seq(Pids) /\ u \in Pids /\ u \in InQueue(q)
      /\ InQueue(Tail(q)) = InQueue(q) \ {u}
      /\ NoRepeats(Tail(q)) /\ SortedByPriority(Tail(q))
  BY <1>0, <1>2, TailOfList
<1>4. /\ rwlock' = [readers |-> n + Incr(u), queue |-> Tail(q)]
      /\ node' = [node EXCEPT ![u].continue_ = TRUE, ![t].prio = p]
      /\ sched' = sched_set_status(sched, priority, u, "PENDING")
      /\ Goto(t, l) /\ KeepsContext
      /\ UNCHANGED <<sched_context_switch_request, pc, other_prio, mutexOpsVars>>
  BY <1>0 DEF Continues
<1> HIDE DEF q
<1>5. RwThread(u) /\ u # t /\ at[u] = "slept" /\ sched.status[u] = "SLEEPING"
  <2>1. RwThread(u) /\ u # t
    BY <1>1, <1>3 DEF RwInv, RwThread, q
  <2>2. at[u] # "to_sleep"
    <3>1. at[u] = "to_sleep" => Has(Inside, u)
      BY <2>1 DEF RwThread, Has, Inside
    <3> QED BY <1>1, <1>3, <2>1, <3>1 DEF Monitor
  <2> QED BY <1>3, <2>1, <2>2 DEF RwThread, q
<1>6. ~node[u].continue_ /\ rwheld[u] = "no" /\ ~node[t].continue_ /\ t \notin InQueue(q)
  BY <1>1, <1>5 DEF RwThread, q
<1>7. /\ at' = [b \in Actors |-> at'[b]] /\ at'[t] = l
      /\ \A b \in Pids \ {t} : at'[b] = at[b]
  BY <1>1, <1>2, <1>4, GotoFacts, ActorFacts
<1>8. /\ SyncInv' /\ UNCHANGED <<priority, mutex>>
      /\ sched'.status[u] = "PENDING"
      /\ \A v \in Pids \ {u} : sched'.status[v] = sched.status[v]
      /\ \A v \in Pids : Waits(v)' <=> Waits(v)
  BY <1>1, <1>3, <1>4, <1>5, <1>7, AwakenStep
<1>9. Monitor(Inside)'
  <2>1. \A v \in Pids : at'[v] \in Inside => at[v] \in Inside
    BY <1>1, <1>7 DEF Has
  <2> QED BY <1>1, <1>8, <2>1, MonitorKeeps
<1>10. /\ node \in [Pids -> Nodes] /\ node[u] \in Nodes /\ node[t] \in Nodes
       /\ node[u].is_writer \in BOOLEAN
  BY <1>1, <1>3 DEF RwTypes, Nodes
<1>11. /\ node'[u] = [node[u] EXCEPT !.continue_ = TRUE]
       /\ node'[t] = [node[t] EXCEPT !.prio = p]
       /\ node' = [v \in Pids |-> IF v = u THEN node'[u] ELSE IF v = t THEN node'[t] ELSE node[v]]
  <2> DEFINE f == [node EXCEPT ![u].continue_ = TRUE]
             x == [node[u] EXCEPT !.continue_ = TRUE]
  <2>1. /\ f = [v \in Pids |-> IF v = u THEN x ELSE node[v]] /\ f[t] = node[t]
    BY <1>3, <1>5, <1>10
  <2>2. node' = [f EXCEPT ![t].prio = p]
    BY <1>4
  <2> HIDE DEF f, x
  <2>3. node' = [v \in Pids |-> IF v = t THEN [f[t] EXCEPT !.prio = p] ELSE f[v]]
    BY <2>1, <2>2
  <2>4. node'[u] = x /\ node'[t] = [node[t] EXCEPT !.prio = p]
    BY <1>3, <1>5, <2>1, <2>3
  <2> QED BY <1>3, <1>5, <2>1, <2>3, <2>4 DEF x
<1>12. /\ node'[u] \in Nodes /\ node'[u].continue_ /\ node'[u].is_writer = node[u].is_writer
       /\ node'[t] \in Nodes /\ node'[t].continue_ = node[t].continue_
  <2> DEFINE y == node[u]
  <2>1. y \in Nodes
    BY <1>10
  <2> HIDE DEF y
  <2>2. LET x == [y EXCEPT !.continue_ = TRUE]
        IN  x \in Nodes /\ x.continue_ /\ x.is_writer = y.is_writer
    BY <2>1 DEF Nodes
  <2>3. node'[u] \in Nodes /\ node'[u].continue_ /\ node'[u].is_writer = node[u].is_writer
    BY <1>11, <2>2 DEF y
  <2>4. node'[t] \in Nodes /\ node'[t].continue_ = node[t].continue_
    BY <1>10, <1>11, NodePrio
  <2> QED BY <2>3, <2>4
<1>13. node' \in [Pids -> Nodes] /\ \A v \in Pids \ {t, u} : node'[v] = node[v]
  <2>1. node'[u] \in Nodes /\ node'[t] \in Nodes /\ node \in [Pids -> Nodes]
    BY <1>10, <1>12
  <2> DEFINE y == node'[u]
             z == node'[t]
  <2>2. node' = [v \in Pids |-> IF v = u THEN y ELSE IF v = t THEN z ELSE node[v]]
    BY <1>11
  <2> HIDE DEF y, z
  <2> QED BY <2>1, <2>2 DEF y, z
<1>14. /\ rwheld' \in [Pids -> {"no", "read", "write"}] /\ rwheld'[t] = "no"
       /\ \A v \in Pids \ {t} : rwheld'[v] = rwheld[v]
  BY <1>1 DEF RwTypes
<1>15. /\ u \notin R /\ u \notin W
       /\ node[u].is_writer => R' = R \ {t} /\ W' = (W \ {t}) \cup {u}
       /\ ~node[u].is_writer => R' = (R \ {t}) \cup {u} /\ W' = W \ {t}
  <2>1. \A v \in Pids \ {t, u} : (v \in R' <=> v \in R) /\ (v \in W' <=> v \in W)
    BY <1>3, <1>7, <1>13, <1>14 DEF RwHolders, Mode
  <2>2. t \notin R' /\ t \notin W'
    BY <1>6, <1>7, <1>12, <1>14 DEF RwHolders
  <2>3. u \notin R /\ u \notin W
    BY <1>5, <1>6 DEF RwHolders
  <2>4. (u \in R' <=> ~node[u].is_writer) /\ (u \in W' <=> node[u].is_writer)
    BY <1>3, <1>5, <1>6, <1>7, <1>10, <1>12, <1>14 DEF RwHolders, Mode
  <2>5. R \subseteq Pids /\ W \subseteq Pids /\ R' \subseteq Pids /\ W' \subseteq Pids
    BY DEF RwHolders
  <2> HIDE DEF R, W
  <2> QED BY <1>3, <1>5, <2>1, <2>2, <2>3, <2>4, <2>5
<1>16. /\ Counts(n, R \ {t}, W \ {t}) /\ R \ {t} \in SUBSET Pids /\ W \ {t} \in SUBSET Pids
       /\ u \notin R \ {t} /\ u \notin W \ {t}
  BY <1>15, HoldersArePids
<1> HIDE DEF R, W
<1>17. /\ rwlock'.queue = Tail(q) /\ rwlock'.readers = n + Incr(u)
       /\ Incr(u) = IF node[u].is_writer THEN -1 ELSE 1
       /\ rwlock' \in [readers : Int, queue : Seq(Pids)]
  <2>1. Incr(u) = (IF node[u].is_writer THEN -1 ELSE 1)
    BY DEF Incr
  <2>2. n + Incr(u) \in Int
    BY <2>1
  <2> QED BY <1>3, <1>4, <2>1, <2>2
<1>18. /\ Counts(rwlock'.readers, R', W') /\ rwlock'.readers # 0
       /\ l = "wake" => rwlock'.readers > 0
  <2>1. CASE node[u].is_writer
    <3>1. n = 0 /\ l = "drop_switch"
      BY <1>0, <2>1 DEF q
    <3>2. n \in Int /\ rwlock'.readers = -1 /\ rwlock'.readers # 0
      BY <1>17, <2>1, <3>1
    <3>3. Counts(-1, R \ {t}, (W \ {t}) \cup {u})
      BY <1>3, <1>16, <3>1, <3>2, CountsGrant
    <3>4. Counts(rwlock'.readers, R', W')
      BY <1>15, <2>1, <3>2, <3>3
    <3> QED BY <3>1, <3>2, <3>4
  <2>2. CASE ~node[u].is_writer
    <3>1. n \in Int /\ n >= 0 /\ rwlock'.readers = n + 1 /\ n + 1 # 0 /\ n + 1 > 0
      BY <1>17, <2>2
    <3>2. Counts(n + 1, (R \ {t}) \cup {u}, W \ {t})
      BY <1>3, <1>16, <3>1, CountsGrant
    <3>3. Counts(rwlock'.readers, R', W')
      BY <1>15, <2>2, <3>1, <3>2
    <3> QED BY <3>1, <3>3
  <2> QED BY <2>1, <2>2
<1>19. Counts(rwlock.readers, RwHolders("read"), RwHolders("write"))'
  BY <1>18 DEF R, W, Counts
<1>20. RwTypes' /\ RwQueue'
  <2>1. RwTypes'
    BY <1>13, <1>14, <1>17 DEF RwTypes
  <2>2. NoRepeats(rwlock.queue)' /\ SortedByPriority(rwlock.queue)'
    BY <1>3, <1>8, <1>17 DEF NoRepeats, SortedByPriority
  <2> QED BY <1>18, <2>1, <2>2 DEF RwQueue
<1>21. InQueue(rwlock.queue)' = InQueue(q) \ {u} /\ InQueue(rwlock'.queue) = InQueue(q) \ {u}
  BY <1>3, <1>17 DEF InQueue
<1>22. RwThread(t)'
  BY <1>1, <1>6, <1>7, <1>8, <1>12, <1>14, <1>18, <1>21 DEF RwThread, Inside
<1>23. RwThread(u)'
  <2>1. /\ at'[u] = "slept" /\ rwheld'[u] = "no" /\ sched'.status[u] # "SLEEPING"
        /\ u \notin InQueue(rwlock.queue)'
    BY <1>3, <1>5, <1>6, <1>7, <1>8, <1>14, <1>21
  <2>2. ~Waits(u)'
    BY <1>3, <1>5, <1>8 DEF RwThread
  <2> QED BY <1>12, <2>1, <2>2 DEF RwThread
<1>24. ASSUME NEW v \in Pids \ {t, u} PROVE RwThread(v)'
  <2>1. RwThread(v)
    BY DEF RwInv
  <2>2. at[v] # "wake"
    <3>1. at[v] = "wake" => Has(Inside, v)
      BY <2>1 DEF RwThread, Has, Inside
    <3> QED BY <1>1, <3>1 DEF Monitor
  <2>3. v \in InQueue(rwlock'.queue) <=> v \in InQueue(rwlock.queue)
    BY <1>21 DEF q
  <2> QED BY <1>7, <1>8, <1>13, <1>14, <2>1, <2>2, <2>3, RwOther
<1>25. \A v \in Pids : RwThread(v)'
  <2> TAKE v \in Pids
  <2>1. v = t \/ v = u \/ v \in Pids \ {t, u}
    OBVIOUS
  <2> QED BY <1>22, <1>23, <1>24, <2>1
<1> QED BY <1>8, <1>9, <1>19, <1>20, <1>25 DEF RwInv

LEMMA RwWakes ==
    ASSUME RwInv, NEW t \in Pids, ReleaseWakes(t) \/ WakeReader(t)
    PROVE  RwInv'
<1> DEFINE u == Head(rwlock.queue)
<1>1. /\ priority \in [Pids -> Prios] /\ RwTypes /\ RwThread(t) /\ node[t] \in Nodes
  BY OpsFacts DEF RwInv, SyncInv, RwTypes
<1>2. rwlock.queue # <<>> => u \in Pids /\ priority[u] \in Prios
  BY <1>1, TailOfList DEF RwInv, RwTypes, RwQueue
<1>3. CASE ReleaseWakes(t)
  <2> DEFINE l == IF node[u].is_writer THEN "drop_switch" ELSE "wake"
  <2>1. /\ At(t, "release") /\ Left = 0 /\ rwlock.queue # <<>>
        /\ Continues(t, Left, priority[u], l)
        /\ rwheld' = [rwheld EXCEPT ![t] = "no"]
    BY <1>3 DEF ReleaseWakes
  <2>2. /\ Counts(Left, RwHolders("read") \ {t}, RwHolders("write") \ {t}) /\ Left \in Nat
    BY <2>1, RwReleased
  <2>3. /\ l \in {"wake", "drop_switch"}
        /\ node[u].is_writer => Left = 0 /\ l = "drop_switch"
    BY <2>1
  <2> HIDE DEF l
  <2> QED BY <1>2, <2>1, <2>2, <2>3, RwContinues
<1>4. CASE WakeReader(t)
  <2> DEFINE p == Least(node[t].prio, priority[u])
  <2>1. /\ At(t, "wake") /\ at[t] = "wake" /\ rwlock.queue # <<>> /\ ~node[u].is_writer
        /\ Continues(t, rwlock.readers, p, "wake") /\ rwheld' = rwheld
    BY <1>4 DEF WakeReader, MoreReaders, At
  <2>2. p \in Prios
    BY <1>1, <1>2, <2>1 DEF Least, Nodes
  <2>3. rwlock.readers \in Nat /\ rwheld[t] = "no" /\ ~node[t].continue_
    BY <1>1, <2>1 DEF RwThread, RwTypes
  <2>4. rwheld' = [rwheld EXCEPT ![t] = "no"]
    BY <1>1, <2>1, <2>3 DEF RwTypes
  <2>5. t \notin RwHolders("read") /\ t \notin RwHolders("write")
    BY <2>1, <2>3 DEF RwHolders
  <2>6. Counts(rwlock.readers, RwHolders("read") \ {t}, RwHolders("write") \ {t})
    <3>1. /\ RwHolders("read") \ {t} = RwHolders("read")
          /\ RwHolders("write") \ {t} = RwHolders("write")
      BY <2>5
    <3> QED BY <3>1 DEF RwInv
  <2> HIDE DEF p
  <2> QED BY <1>2, <2>1, <2>2, <2>3, <2>4, <2>6, RwContinues
<1> QED BY <1>3, <1>4

(* mutex_unlock() at the end of the functions *)
LEMMA RwUnlockFacts ==
    ASSUME RwInv, NEW t \in Pids, NEW k \in Inside, At(t, k), NEW l, l \notin Inside, Unlock(t, l)
    PROVE  /\ SyncInv' /\ Monitor(Inside)' /\ UNCHANGED priority /\ at'[t] = l /\ ~Waits(t)'
           /\ \A u \in Pids \ {t} : at'[u] = at[u]
           /\ \A u \in Pids :
                /\ Waits(u)' => Waits(u)
                /\ sched'.status[u] = "SLEEPING" <=> sched.status[u] = "SLEEPING"
<1>1. /\ SyncInv /\ Monitor(Inside) /\ t \in Actors /\ InKernelCall /\ ~Waits(t)
      /\ Has(Inside, t)
  BY RwFacts DEF RwInv
<1>2. /\ SyncInv' /\ UNCHANGED priority /\ HandsOver /\ at'[t] = l
      /\ \A b \in Actors : b # t => at'[b] = at[b]
      /\ \A u \in Pids : \/ sched'.status[u] = sched.status[u]
                         \/ sched.status[u] = "MUTEX_BLOCKED" /\ sched'.status[u] = "PENDING"
  BY <1>1, UnlockMutex
<1>3. \A u \in Pids \ {t} : at'[u] = at[u]
  BY <1>2, ActorFacts
<1>4. Monitor(Inside)'
  BY <1>1, <1>2, <1>3, MonitorUnlock
<1>5. \A u \in Pids : Waits(u)' => Waits(u)
  BY <1>2 DEF HandsOver
<1> QED BY <1>1, <1>2, <1>3, <1>4, <1>5

LEMMA RwUnlocks ==
    ASSUME RwInv, NEW t \in Pids, Drop(t) \/ DropSwitch(t)
    PROVE  RwInv'
<1> DEFINE l == IF at[t] = "drop" THEN "out" ELSE "switch"
<1>1. /\ At(t, at[t]) /\ at[t] \in {"drop", "drop_switch"} /\ at[t] \in Inside
      /\ Unlock(t, l) /\ l \in {"out", "switch"} /\ l \notin Inside
      /\ UNCHANGED <<rwlock, node, rwheld>>
  BY DEF Drop, DropSwitch, At, rwlockVars, Inside
<1> HIDE DEF l
<1>2. RwThread(t) /\ RwTypes
  BY <1>1, RwFacts
<1>3. /\ SyncInv' /\ Monitor(Inside)' /\ UNCHANGED priority /\ at'[t] = l /\ ~Waits(t)'
      /\ \A u \in Pids \ {t} : at'[u] = at[u]
      /\ \A u \in Pids :
           /\ Waits(u)' => Waits(u)
           /\ sched'.status[u] = "SLEEPING" <=> sched.status[u] = "SLEEPING"
  BY <1>1, RwUnlockFacts
<1>4. t \notin InQueue(rwlock.queue) /\ t \notin InQueue(rwlock.queue)'
  BY <1>1, <1>2 DEF RwThread, InQueue
<1>5. RwThread(t)'
  BY <1>1, <1>2, <1>3, <1>4 DEF RwThread
<1>6. \A m \in {"read", "write"} : t \in RwHolders(m)' <=> t \in RwHolders(m)
  BY <1>1, <1>3 DEF RwHolders, Mode
<1>7. RwTypes'
  BY <1>1, <1>2 DEF RwTypes
<1> QED BY <1>1, <1>3, <1>5, <1>6, <1>7, RwKeeps

LEMMA RwLeaves == ASSUME RwInv, NEW t \in Pids, Leave(t) PROVE RwInv'
<1>1. /\ At(t, "granted") /\ at[t] = "granted" /\ "granted" \in Inside
      /\ Unlock(t, "out") /\ "out" \notin Inside /\ rwlock' = rwlock
      /\ rwheld' = [rwheld EXCEPT ![t] = Mode(t)]
      /\ node' = [node EXCEPT ![t].continue_ = FALSE]
  BY DEF Leave, At, Inside
<1>2. RwThread(t) /\ RwTypes /\ node[t] \in Nodes
  BY <1>1, RwFacts
<1>3. /\ SyncInv' /\ Monitor(Inside)' /\ UNCHANGED priority /\ at'[t] = "out" /\ ~Waits(t)'
      /\ \A u \in Pids \ {t} : at'[u] = at[u]
      /\ \A u \in Pids :
           /\ Waits(u)' => Waits(u)
           /\ sched'.status[u] = "SLEEPING" <=> sched.status[u] = "SLEEPING"
  BY <1>1, RwUnlockFacts
<1>4. /\ node \in [Pids -> Nodes] /\ node'[t] = [node[t] EXCEPT !.continue_ = FALSE]
      /\ node' = [u \in Pids |-> IF u = t THEN node'[t] ELSE node[u]]
  BY <1>1, <1>2 DEF RwTypes
<1>5. node'[t] \in Nodes /\ ~node'[t].continue_ /\ node'[t].is_writer = node[t].is_writer
  <2> DEFINE n == node[t]
  <2>1. n \in Nodes
    BY <1>2
  <2> HIDE DEF n
  <2>2. LET x == [n EXCEPT !.continue_ = FALSE]
        IN  x \in Nodes /\ ~x.continue_ /\ x.is_writer = n.is_writer
    BY <2>1 DEF Nodes
  <2> QED BY <1>4, <2>2 DEF n
<1>6. node' \in [Pids -> Nodes] /\ \A u \in Pids \ {t} : node'[u] = node[u]
  BY <1>4, <1>5
<1>7. Mode(t) \in {"read", "write"}
  BY DEF Mode
<1>8. /\ rwheld' \in [Pids -> {"no", "read", "write"}] /\ rwheld'[t] = Mode(t)
      /\ \A u \in Pids \ {t} : rwheld'[u] = rwheld[u] 
  BY <1>1, <1>2, <1>7 DEF RwTypes
<1>9. t \notin InQueue(rwlock.queue) /\ t \notin InQueue(rwlock.queue)' /\ rwheld[t] = "no"
  BY <1>1, <1>2 DEF RwThread, InQueue
<1>10. RwThread(t)'
  BY <1>3, <1>5, <1>9 DEF RwThread
<1>11. \A m \in {"read", "write"} : t \in RwHolders(m)' <=> t \in RwHolders(m)
  <2>1. ASSUME NEW m \in {"read", "write"} PROVE t \in RwHolders(m)' <=> t \in RwHolders(m)
    <3>1. t \in RwHolders(m) <=> Mode(t) = m
      BY <1>1, <1>9 DEF RwHolders
    <3>2. t \in RwHolders(m)' <=> Mode(t) = m
      BY <1>3, <1>5, <1>8 DEF RwHolders
    <3> QED BY <3>1, <3>2
  <2> QED BY <2>1
<1>12. RwTypes'
  BY <1>1, <1>2, <1>6, <1>8 DEF RwTypes
<1> QED BY <1>1, <1>3, <1>6, <1>8, <1>10, <1>11, <1>12, RwKeeps

LEMMA RwNaps == ASSUME RwInv, NEW t \in Pids, NapQueued(t) PROVE RwInv'
<1>1. /\ At(t, "to_sleep") /\ at[t] = "to_sleep" /\ "to_sleep" \in Inside
      /\ Nap(t, "slept") /\ UNCHANGED <<rwlock, node, rwheld>>
  BY DEF NapQueued, At, Inside, rwlockVars
<1>2. /\ RwThread(t) /\ RwTypes /\ SyncInv /\ Monitor(Inside) /\ Has(Inside, t) /\ ~Waits(t)
  BY <1>1, RwFacts DEF RwInv
<1>3. /\ SyncInv' /\ UNCHANGED priority /\ HandsOver /\ at'[t] = "slept"
      /\ \A b \in Actors : b # t => at'[b] = at[b]
      /\ sched'.status[t] = "SLEEPING"
      /\ \A u \in Pids \ {t} : sched'.status[u] = "SLEEPING" <=> sched.status[u] = "SLEEPING"
  BY <1>1, <1>2, NapStep
<1>4. \A u \in Pids \ {t} : at'[u] = at[u]
  BY <1>3, ActorFacts
<1>5. Monitor(Inside)'
  <2>1. at'[t] \notin Inside
    BY <1>3 DEF Inside
  <2> QED BY <1>2, <1>3, <1>4, <2>1, MonitorUnlock
<1>6. \A u \in Pids : Waits(u)' => Waits(u)
  BY <1>3 DEF HandsOver
<1>7. /\ t \in InQueue(rwlock.queue) /\ t \in InQueue(rwlock.queue)' /\ ~node[t].continue_
  BY <1>1, <1>2 DEF RwThread, InQueue
<1>8. RwThread(t)'
  BY <1>1, <1>2, <1>3, <1>6, <1>7 DEF RwThread
<1>9. \A m \in {"read", "write"} : t \in RwHolders(m)' <=> t \in RwHolders(m)
  BY <1>1, <1>3 DEF RwHolders, Mode
<1>10. RwTypes'
  BY <1>1, <1>2 DEF RwTypes
<1> QED BY <1>1, <1>3, <1>4, <1>5, <1>6, <1>8, <1>9, <1>10, RwKeeps

LEMMA RwSwitches == ASSUME RwInv, NEW t \in Pids, SwitchToWoken(t) PROVE RwInv'
<1>1. /\ At(t, "switch") /\ at[t] = "switch" /\ Switch(t, node[t].prio, "out")
      /\ node' = [node EXCEPT ![t].prio = 0] /\ UNCHANGED <<rwlock, rwheld>>
  BY DEF SwitchToWoken, At
<1>2. /\ RwThread(t) /\ RwTypes /\ SyncInv /\ Monitor(Inside) /\ Runs(t) /\ ~Waits(t)
      /\ node[t] \in Nodes /\ node[t].prio \in Prios
  BY <1>1, RwFacts DEF RwInv, Nodes
<1>3. /\ SyncInv' /\ UNCHANGED <<priority, sched, mutex>> /\ at'[t] = "out"
      /\ \A u \in Pids \ {t} : at'[u] = at[u]
      /\ \A u \in Pids : Waits(u)' <=> Waits(u)
  BY <1>1, <1>2, SwitchCall, ActorFacts
<1>4. Monitor(Inside)'
  <2>1. "out" \notin Inside
    BY DEF Inside
  <2> QED BY <1>2, <1>3, <2>1, MonitorKeeps
<1>5. /\ node \in [Pids -> Nodes] /\ node'[t] = [node[t] EXCEPT !.prio = 0]
      /\ node' = [u \in Pids |-> IF u = t THEN node'[t] ELSE node[u]]
  BY <1>1, <1>2 DEF RwTypes
<1>6. 0 \in Prios
  BY SchedAssumption DEF Prios
<1>7. /\ node'[t] \in Nodes /\ node'[t].continue_ = node[t].continue_
      /\ node'[t].is_writer = node[t].is_writer
  BY <1>2, <1>5, <1>6, NodePrio
<1>8. node' \in [Pids -> Nodes] /\ \A u \in Pids \ {t} : node'[u] = node[u]
  BY <1>5, <1>7
<1>9. t \notin InQueue(rwlock.queue) /\ t \notin InQueue(rwlock.queue)' /\ ~node[t].continue_
  BY <1>1, <1>2 DEF RwThread, InQueue
<1>10. RwThread(t)'
  BY <1>1, <1>2, <1>3, <1>7, <1>9 DEF RwThread
<1>11. \A m \in {"read", "write"} : t \in RwHolders(m)' <=> t \in RwHolders(m)
  BY <1>1, <1>3, <1>7, <1>9 DEF RwHolders
<1>12. RwTypes'
  BY <1>1, <1>2, <1>8 DEF RwTypes
<1> QED BY <1>1, <1>3, <1>4, <1>8, <1>10, <1>11, <1>12, RwKeeps

(* Nobody takes a step of the lock. *)
LEMMA RwSame ==
    ASSUME RwInv, SyncInv', UNCHANGED <<priority, at, mutex, rwlock, node, rwheld>>,
           \A u \in Pids :
                /\ Waits(u)' <=> Waits(u)
                /\ at[u] # "out" =>
                     (sched'.status[u] = "SLEEPING" <=> sched.status[u] = "SLEEPING")
    PROVE  RwInv'
<1>1. Monitor(Inside)'
  BY MonitorKeeps DEF RwInv
<1>2. RwTypes' /\ RwQueue'
  BY DEF RwInv, RwTypes, RwQueue, NoRepeats, SortedByPriority
<1>3. \A m \in {"read", "write"} : RwHolders(m)' = RwHolders(m)
  BY DEF RwHolders, Mode
<1>4. Counts(rwlock.readers, RwHolders("read"), RwHolders("write"))'
  BY <1>3 DEF RwInv, Counts
<1>5. \A u \in Pids : RwThread(u)'
  BY RwOther DEF RwInv
<1> QED BY <1>1, <1>2, <1>4, <1>5 DEF RwInv

LEMMA RwStarts == SyncInit(FALSE) /\ pthread_rwlock_init => RwInv
<1> SUFFICES ASSUME SyncInit(FALSE), pthread_rwlock_init PROVE RwInv
  OBVIOUS
<1>1. MutexInit({}) /\ at = [a \in Actors |-> "out"]
  BY DEF SyncInit
<1>2. OpsInv
  BY <1>1, InitOps
<1>3. \A u \in Pids : ~Waits(u) /\ at[u] = "out"
  <2>1. mutex[M].queue = <<>>
    BY <1>1, MutexOfObject DEF MutexInit
  <2> QED BY <1>1, <2>1, ActorFacts DEF Waits, InQueue
<1>4. Monitor(Inside)
  BY <1>3 DEF Monitor, Has, Inside
<1>5. /\ rwlock.readers = 0 /\ rwlock.queue = <<>> /\ rwlock \in [readers : Int, queue : Seq(Pids)]
      /\ 0 \in Prios
  BY SchedAssumption DEF pthread_rwlock_init, Prios
<1>6. \A u \in Pids : rwheld[u] = "no" /\ ~node[u].continue_ /\ node[u] \in Nodes
  BY <1>5 DEF pthread_rwlock_init, Nodes
<1>7. RwTypes
  <2>1. rwheld \in [Pids -> {"no", "read", "write"}]
    BY DEF pthread_rwlock_init
  <2>2. node \in [Pids -> Nodes]
    BY <1>6 DEF pthread_rwlock_init
  <2> QED BY <1>5, <2>1, <2>2 DEF RwTypes
<1>8. RwHolders("read") = {} /\ RwHolders("write") = {}
  BY <1>3, <1>6 DEF RwHolders
<1>9. Counts(rwlock.readers, RwHolders("read"), RwHolders("write"))
  BY <1>5, <1>8, FS_EmptySet DEF Counts
<1>10. RwQueue
  BY <1>5 DEF RwQueue, NoRepeats, SortedByPriority
<1>11. \A u \in Pids : RwThread(u)
  BY <1>3, <1>5, <1>6 DEF RwThread, InQueue
<1> QED BY <1>1, <1>2, <1>4, <1>7, <1>9, <1>10, <1>11 DEF RwInv, SyncInv

(* RwInv holds always, for every number of threads and every priority. *)
THEOREM RwlockInvariant == ASSUME ~YieldWindow PROVE RwlockSpec => []RwInv
<1>1. ASSUME RwInv, [RwlockNext]_<<syncVars, rwlockVars>> PROVE RwInv'
  <2>1. CASE SyncEnv(Pids) /\ UNCHANGED rwlockVars
    <3>1. /\ SyncInv' /\ UNCHANGED <<priority, at, mutex>>
          /\ \A u \in Pids :
               /\ Waits(u)' <=> Waits(u)
               /\ at[u] # "out" =>
                    (sched'.status[u] = "SLEEPING" <=> sched.status[u] = "SLEEPING")
      BY <1>1, <2>1, EnvStep DEF RwInv
    <3> QED BY <1>1, <2>1, <3>1, RwSame DEF rwlockVars
  <2>2. ASSUME NEW t \in Pids,
               \E w \in BOOLEAN : pthread_rwlock_lock(t, w) \/ pthread_rwlock_trylock(t, w)
        PROVE  RwInv'
    BY <1>1, <2>2, RwLockCalls, RwTries
  <2>3. ASSUME NEW t \in Pids,
               \/ EnterFree(t) \/ EnterQueues(t) \/ NapQueued(t) \/ Relock(t) \/ Check(t)
               \/ Leave(t) \/ TryBusy(t) \/ Drop(t)
        PROVE  RwInv'
    BY <1>1, <2>3, RwEnters, RwQueues, RwNaps, RwLockCalls, RwChecks, RwLeaves, RwUnlocks
  <2>4. ASSUME NEW t \in Pids,
               \/ pthread_rwlock_unlock(t) \/ ReleaseKeeps(t) \/ ReleaseWakes(t)
               \/ WakeReader(t) \/ WokeReaders(t) \/ DropSwitch(t) \/ SwitchToWoken(t)
        PROVE  RwInv'
    BY <1>1, <2>4, RwLockCalls, RwReleases, RwWakes, RwChecks, RwUnlocks, RwSwitches
  <2>5. CASE UNCHANGED <<syncVars, rwlockVars>>
    <3>1. /\ UNCHANGED <<schedVars, mutexOpsVars, mutex, locking, priority, sched>>
          /\ UNCHANGED <<at, rwlock, node, rwheld>>
      BY <2>5 DEF syncVars, schedVars, rwlockVars, mutexOpsVars
    <3>2. SchedInv'
      BY <1>1, <3>1, SchedSame DEF RwInv, SyncInv, OpsInv
    <3>3. OpsInv'
      BY <1>1, <3>1, <3>2, OpsFrame DEF RwInv, SyncInv
    <3>4. \A u \in Pids : Waits(u)' <=> Waits(u)
      BY <3>1 DEF Waits, InQueue
    <3>5. SyncInv'
      BY <1>1, <3>1, <3>3 DEF RwInv, SyncInv
    <3> QED BY <1>1, <3>1, <3>4, <3>5, RwSame
  <2> QED BY <1>1, <2>1, <2>2, <2>3, <2>4, <2>5 DEF RwlockNext
<1> QED BY <1>1, RwStarts, PTL DEF RwlockSpec

(* A writer has the lock alone, the count says who has it, and the queue   *)
(* is that of the threads that sleep: no thread is left asleep beside an   *)
(* open lock by pthread_rwlock_unlock().                                   *)
THEOREM RwlockExclusion == ASSUME ~YieldWindow PROVE RwlockSpec => []RwlockExcludes
<1>1. RwInv => RwlockExcludes
  <2> SUFFICES ASSUME RwInv PROVE RwlockExcludes
    OBVIOUS
  <2> DEFINE R == RwHolders("read")
             W == RwHolders("write")
  <2>1. Counts(rwlock.readers, R, W)
    BY DEF RwInv
  <2>2. ASSUME W # {} PROVE Cardinality(W) = 1
    <3>1. PICK t : t \in W
      BY <2>2
    <3>2. W = {t}
      BY <2>1, <3>1 DEF Counts
    <3> HIDE DEF W
    <3> QED BY <3>2, FS_Singleton
  <2>3. /\ W # {} => R = {} /\ Cardinality(W) = 1
        /\ rwlock.readers = IF W # {} THEN -1 ELSE Cardinality(R)
    BY <2>1, <2>2 DEF Counts
  <2>4. /\ rwlock.queue # <<>> => rwlock.readers # 0
        /\ NoRepeats(rwlock.queue) /\ SortedByPriority(rwlock.queue)
    BY DEF RwInv, RwQueue
  <2>5. \A t \in Pids : t \in InQueue(rwlock.queue) <=>
             \/ at[t] = "to_sleep"
             \/ at[t] = "slept" /\ sched.status[t] = "SLEEPING"
    BY DEF RwInv, RwThread
  <2> QED BY <2>3, <2>4, <2>5 DEF RwlockExcludes
<1> QED BY <1>1, RwlockInvariant, PTL
=============================================================================
