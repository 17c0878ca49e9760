----------------------------- MODULE CoreProofs -----------------------------
(***************************************************************************)
(* Threads, for every thread table, number of priorities and port: types,  *)
(* the agreement of run queues and statuses, the thread table, and fixed-  *)
(* priority preemption.  Then thread flags, for every number of threads,   *)
(* priorities and flags: no notification is missed, and the waiting        *)
(* functions return what was awaited.  Then mailboxes, for every number of *)
(* threads, priorities and messages and every queue size: wait lists and   *)
(* statuses agree, blocked calls return with their work done, and the      *)
(* mailbox is a FIFO as long as no mbox_put() found it full.               *)
(***************************************************************************)
EXTENDS Threads, ThreadFlags, Mbox, SchedProofs, FiniteSetTheorems, TLAPS

(* Time the provers are given for a leaf. *)
USE ZenonT(5), SMTT(20)

(* The inductive invariant.  RunnerIsFirst and PriorityRespected speak of  *)
(* a thread in its own code; SchedInv and SwitchAhead say what holds while *)
(* a kernel call or a handler is under way.                                *)
IInv ==
    /\ SchedInv
    /\ sched_threads \subseteq Pids
    /\ sched_num_threads \in Nat
    /\ lazy \subseteq Pids
    /\ IdlePid \in sched_threads
    /\ TableAgrees
    /\ \A u \in Pids \ lazy : SwitchAhead(u)

LEMMA BootFacts == /\ MainPid \in Pids /\ IdlePid # MainPid
                   /\ THREAD_PRIORITY_IDLE \in Prios /\ MainPrio \in Prios
BY SchedAssumption, ThreadsAssumption
   DEF Pids, Prios, IdlePid, MainPid, THREAD_PRIORITY_IDLE

LEMMA TableFinite == ASSUME NEW S, S \subseteq Pids PROVE IsFiniteSet(S)
<1>1. IsFiniteSet(Pids)
  BY FS_Interval, SchedAssumption DEF Pids
<1> QED BY <1>1, FS_Subset

(* The state kernel_init() leaves. *)
LEMMA InitIInv == Init => IInv
<1> SUFFICES ASSUME Init PROVE IInv
  OBVIOUS
<1> DEFINE empty == [status |-> [t \in Pids |-> "STOPPED"],
                     runqueues |-> [p \in Prios |-> <<>>], bitcache |-> {}]
           one == sched_set_status(empty, priority, IdlePid, "PENDING")
<1>1. priority \in [Pids -> Prios]
  BY PidFacts, BootFacts DEF Init
<1>2. empty \in RunState /\ Agree(empty, priority)
  <2>1. empty \in RunState
    BY DEF RunState, Status, Blocked
  <2>2. \A p \in Prios : Ready(empty, priority, p) = {}
    BY DEF Ready, OnRunqueue
  <2>3. Holds(<<>>, {})
    BY DEF Holds, InQueue, NoRepeats
  <2> QED BY <2>1, <2>2, <2>3 DEF Agree
<1>3. "PENDING" \in Status /\ "PENDING" \in OnRunqueue /\ "STOPPED" \notin OnRunqueue
  BY DEF Status, OnRunqueue
<1>4. /\ one \in RunState /\ Agree(one, priority)
      /\ one.status = [empty.status EXCEPT ![IdlePid] = "PENDING"]
  <2>1. \A t \in Pids : empty.status[t] \notin OnRunqueue
    BY <1>3
  <2> HIDE DEF empty
  <2> QED BY <1>1, <1>2, <1>3, <2>1, PidFacts, SetStatusAgrees
<1>5. sched = sched_set_status(one, priority, MainPid, "PENDING")
  BY DEF Init
<1>6. /\ sched \in RunState /\ Agree(sched, priority)
      /\ sched.status = [one.status EXCEPT ![MainPid] = "PENDING"]
  <2>1. one.status[MainPid] \notin OnRunqueue
    BY <1>3, <1>4, PidFacts, BootFacts
  <2> HIDE DEF one, empty
  <2> QED BY <1>1, <1>3, <1>4, <1>5, <2>1, BootFacts, SetStatusAgrees
<1>7. \A t \in Pids : sched.status[t] =
                IF t \in {IdlePid, MainPid} THEN "PENDING" ELSE "STOPPED"
  <2> HIDE DEF one
  <2> QED BY <1>4, <1>6, PidFacts, BootFacts
<1>8. SchedInv
  <2>1. SchedTypeOK
    BY <1>1, <1>6, PidFacts DEF Init, SchedTypeOK, Labels
  <2>2. RunqueuesAgree /\ IdleIsReady /\ ActiveIsFirst /\ RequestInIsr
    BY <1>3, <1>6, <1>7, PidFacts
       DEF Init, RunqueuesAgree, IdleIsReady, ActiveIsFirst, RequestInIsr
  <2> QED BY <2>1, <2>2 DEF SchedInv
<1>9. TableAgrees
  <2>1. Cardinality({IdlePid, MainPid}) = 2
    <3>1. IsFiniteSet({IdlePid}) /\ Cardinality({IdlePid}) = 1
      BY FS_Singleton
    <3>2. Cardinality({IdlePid} \cup {MainPid}) = Cardinality({IdlePid}) + 1
      BY <3>1, FS_AddElement, BootFacts
    <3>3. {IdlePid} \cup {MainPid} = {IdlePid, MainPid}
      OBVIOUS
    <3> QED BY <3>1, <3>2, <3>3
  <2> QED BY <1>7, <2>1 DEF Init, TableAgrees
<1>10. \A u \in Pids \ lazy : SwitchAhead(u)
  BY DEF Init, SwitchAhead
<1> QED
  BY <1>8, <1>9, <1>10, PidFacts, BootFacts DEF Init, IInv

(* A step in which the thread table stays as it is, the active thread only *)
(* moves within it, and the statuses and labels of free entries stay.      *)
LEMMA TableStep ==
    ASSUME IInv, UNCHANGED threadVars,
           sched_active_thread' \in sched_threads \cup {0},
           \A t \in Pids \ sched_threads : sched'.status[t] = "STOPPED" /\ pc'[t] = "run"
    PROVE  TableAgrees'
BY DEF IInv, TableAgrees, threadVars

-----------------------------------------------------------------------------
(* Facts of IInv that every step uses. *)
LEMMA IInvFacts ==
    ASSUME IInv
    PROVE  /\ SchedInv /\ sched \in RunState /\ Agree(sched, priority)
           /\ priority \in [Pids -> Prios] /\ pc \in [Pids -> Labels]
           /\ sched.status \in [Pids -> Status]
           /\ sched_active_thread \in sched_threads \cup {0}
           /\ sched_threads \subseteq Pids /\ IdlePid \in sched_threads
           /\ \A t \in Pids \ sched_threads :
                    sched.status[t] = "STOPPED" /\ pc[t] = "run"
           /\ lazy \subseteq Pids
           /\ \A u \in Pids \ lazy : SwitchAhead(u)
BY DEF IInv, SchedInv, SchedTypeOK, RunState, RunqueuesAgree, TableAgrees

(* The history variable: the active thread is never more urgent than       *)
(* itself, so dropping it from lazy asks nothing new.                      *)
LEMMA RanStep ==
    ASSUME IInv, Ran, SchedInv', \A u \in Pids \ lazy : SwitchAhead(u)'
    PROVE  lazy' \subseteq Pids /\ \A u \in Pids \ lazy' : SwitchAhead(u)'
<1> SUFFICES ASSUME NEW u \in Pids \ lazy' PROVE SwitchAhead(u)'
  BY DEF IInv, Ran
<1>1. CASE u \notin lazy
  BY <1>1
<1>2. CASE u \in lazy
  <2>1. u = sched_active_thread'
    BY <1>2 DEF Ran
  <2>2. priority'[u] \in Int
    BY DEF SchedInv, SchedTypeOK, Prios
  <2> QED BY <2>1, <2>2 DEF SwitchAhead
<1> QED BY <1>1, <1>2

LEMMA CreateStep ==
    ASSUME IInv, NEW p \in Prios, NEW flag \in {"YIELD", "WOUT_YIELD", "SLEEPING"},
           thread_create(p, flag)
    PROVE  IInv'
<1> DEFINE prio(pid) == [priority EXCEPT ![pid] = p]
           k0(pid) == [sched EXCEPT !.status[pid] = "STOPPED"]
           st == IF flag = "SLEEPING" THEN "SLEEPING" ELSE "PENDING"
<1>1. PICK pid \in Pids \ sched_threads :
        /\ priority' = prio(pid)
        /\ sched' = sched_set_status(k0(pid), prio(pid), pid, st)
        /\ sched_threads' = sched_threads \cup {pid}
        /\ sched_num_threads' = sched_num_threads + 1
        /\ IF flag = "YIELD" THEN SwitchTail(sched', p)
           ELSE UNCHANGED <<sched_context_switch_request, pc, other_prio>>
        /\ lazy' = IF flag = "WOUT_YIELD" THEN lazy \cup {pid} ELSE lazy
  BY DEF thread_create
<1>2. /\ UNCHANGED <<sched_active_thread, irq_is_in>>
      /\ irq_is_in \/ (sched_active_thread # 0 /\ pc[sched_active_thread] = "run")
  BY PidFacts DEF thread_create, InKernelCall, InThread, Runs, Executes
<1>3. /\ sched.status[pid] = "STOPPED" /\ pid # IdlePid /\ pid # sched_active_thread
      /\ pid \in Pids
  BY IInvFacts, PidFacts
<1>4. k0(pid) = sched
  <2>1. sched = [status |-> sched.status, runqueues |-> sched.runqueues,
                 bitcache |-> sched.bitcache]
    BY IInvFacts DEF RunState
  <2>2. [sched.status EXCEPT ![pid] = "STOPPED"] = sched.status
    BY <1>3, IInvFacts
  <2>3. k0(pid) = [status |-> [sched.status EXCEPT ![pid] = "STOPPED"],
                   runqueues |-> sched.runqueues, bitcache |-> sched.bitcache]
    BY <2>1
  <2> QED BY <2>1, <2>2, <2>3
<1>5. prio(pid) \in [Pids -> Prios] /\ prio(pid)[pid] = p
        /\ \A u \in Pids : u # pid => prio(pid)[u] = priority[u]
  BY <1>3, IInvFacts
<1>6. st \in Status /\ "STOPPED" \notin OnRunqueue
        /\ ("SLEEPING" \notin OnRunqueue)
  BY DEF Status, Blocked, OnRunqueue
<1>7. Agree(sched, prio(pid))
  <2>1. \A r \in Prios : Ready(sched, prio(pid), r) = Ready(sched, priority, r)
    BY <1>3, <1>5, <1>6 DEF Ready
  <2> QED BY <2>1, IInvFacts DEF Agree
<1>8. /\ SchedInv'
      /\ \A u \in Pids : SwitchAhead(u) /\ u # pid => SwitchAhead(u)'
      /\ st \notin OnRunqueue \/ SwitchTail(sched', prio(pid)[pid]) => SwitchAhead(pid)'
  <2> HIDE DEF prio, st
  <2> QED BY <1>1, <1>2, <1>3, <1>4, <1>5, <1>6, <1>7, IInvFacts, WakeStep
<1>9. \A u \in Pids \ lazy' : SwitchAhead(u)'
  BY <1>1, <1>5, <1>6, <1>8, IInvFacts
<1>10. TableAgrees'
  <2>1. /\ IsFiniteSet(sched_threads)
        /\ Cardinality(sched_threads \cup {pid}) = Cardinality(sched_threads) + 1
    BY <1>1, IInvFacts, TableFinite, FS_AddElement
  <2>2. sched'.status = [sched.status EXCEPT ![pid] = st]
    BY <1>1, <1>4 DEF sched_set_status
  <2>3. ASSUME NEW t \in Pids \ sched_threads'
        PROVE  sched'.status[t] = "STOPPED" /\ pc'[t] = "run"
    <3>1. t \in Pids \ sched_threads /\ t # pid
      BY <1>1
    <3>2. t # sched_active_thread
      BY <3>1, IInvFacts, PidFacts
    <3>3. pc'[t] = pc[t]
      BY <1>1, <3>1, <3>2, IInvFacts DEF SwitchTail, Tail_
    <3> QED BY <2>2, <3>1, <3>3, IInvFacts
  <2> QED BY <1>1, <1>2, <2>1, <2>3 DEF TableAgrees, IInv
<1>11. /\ sched_threads' \subseteq Pids /\ sched_num_threads' \in Nat
       /\ lazy' \subseteq Pids /\ IdlePid \in sched_threads'
  BY <1>1, <1>3 DEF IInv
<1> QED BY <1>8, <1>9, <1>10, <1>11 DEF IInv

LEMMA WakeupStep ==
    ASSUME IInv, NEW pid \in Pids, thread_wakeup(pid), Ran, UNCHANGED threadVars PROVE IInv'
<1>1. /\ sched.status[pid] = "SLEEPING" /\ SwitchTail(sched', priority[pid])
      /\ sched_active_thread' = sched_active_thread
      /\ irq_is_in \/ sched_active_thread # 0
      /\ Ran /\ UNCHANGED threadVars
  BY PidFacts DEF thread_wakeup, KeepsContext, InKernelCall, InThread, Runs, Executes
<1>2. /\ SchedInv' /\ \A u \in Pids \ lazy : SwitchAhead(u)'
      /\ sched'.status = [sched.status EXCEPT ![pid] = "RUNNING"]
  BY IInvFacts, WakeupCall
<1>3. TableAgrees'
  <2>1. ASSUME NEW t \in Pids \ sched_threads
        PROVE  sched'.status[t] = "STOPPED" /\ pc'[t] = "run"
    <3>1. t # pid /\ t # sched_active_thread
      BY <1>1, <2>1, IInvFacts, PidFacts
    <3>2. pc'[t] = pc[t]
      BY <1>1, <3>1, IInvFacts DEF SwitchTail, Tail_
    <3> QED BY <1>2, <3>1, <3>2, IInvFacts
  <2> QED BY <1>1, <2>1, IInvFacts, TableStep
<1>4. lazy' \subseteq Pids /\ \A u \in Pids \ lazy' : SwitchAhead(u)'
  BY <1>1, <1>2, RanStep
<1> QED BY <1>1, <1>2, <1>3, <1>4 DEF IInv, threadVars

LEMMA SleepStep ==
    ASSUME IInv, NEW t \in Pids, thread_sleep(t), Ran, UNCHANGED threadVars PROVE IInv'
<1>1. /\ Ran /\ UNCHANGED threadVars
      /\ sched_active_thread' = t /\ sched_active_thread = t
      /\ pc' = [pc EXCEPT ![t] = "yield_higher"]
  BY DEF thread_sleep, InThread, Runs, Executes, KeepsContext, YieldTail, Tail_
<1>2. /\ SchedInv' /\ \A u \in Pids : SwitchAhead(u)'
      /\ sched'.status = [sched.status EXCEPT ![t] = "SLEEPING"]
  BY IInvFacts, SleepCall
<1>3. TableAgrees'
  <2>1. t \in sched_threads
    BY <1>1, IInvFacts, PidFacts
  <2>2. \A u \in Pids \ sched_threads : sched'.status[u] = "STOPPED" /\ pc'[u] = "run"
    BY <1>1, <1>2, <2>1, IInvFacts
  <2> QED BY <1>1, <2>1, <2>2, TableStep
<1>4. lazy' \subseteq Pids /\ \A u \in Pids \ lazy' : SwitchAhead(u)'
  BY <1>1, <1>2, RanStep
<1> QED BY <1>1, <1>2, <1>3, <1>4 DEF IInv, threadVars

LEMMA YieldStep ==
    ASSUME IInv, NEW t \in Pids, thread_yield(t), Ran, UNCHANGED threadVars PROVE IInv'
<1>1. /\ Ran /\ UNCHANGED threadVars
      /\ sched_active_thread' = t /\ sched_active_thread = t
      /\ pc' = [pc EXCEPT ![t] = "yield_higher"]
  BY DEF thread_yield, InThread, Runs, Executes, KeepsContext, YieldTail, Tail_
<1>2. /\ SchedInv' /\ \A u \in Pids : SwitchAhead(u)'
      /\ sched'.status = sched.status
  BY IInvFacts, YieldCall
<1>3. TableAgrees'
  <2>1. t \in sched_threads
    BY <1>1, IInvFacts, PidFacts
  <2> QED BY <1>1, <1>2, <2>1, IInvFacts, TableStep
<1>4. lazy' \subseteq Pids /\ \A u \in Pids \ lazy' : SwitchAhead(u)'
  BY <1>1, <1>2, RanStep
<1> QED BY <1>1, <1>2, <1>3, <1>4 DEF IInv, threadVars

LEMMA ExitStep ==
    ASSUME IInv, NEW t \in Pids, sched_task_exit(t) PROVE IInv'
<1>1. /\ t # IdlePid /\ Runs(t) /\ sched_active_thread = t /\ ~irq_is_in /\ pc[t] = "run"
      /\ sched' = sched_set_status(sched, priority, t, "STOPPED")
      /\ sched_threads' = sched_threads \ {t}
      /\ sched_num_threads' = sched_num_threads - 1
      /\ sched_active_thread' = 0
      /\ lazy' = lazy \ {t}
      /\ UNCHANGED <<priority, sched_context_switch_request, irq_is_in, pc, other_prio>>
  BY DEF sched_task_exit, InThread, Runs, Executes
<1>2. IsFirst(sched, priority, t)
  BY <1>1, IInvFacts, SchedInvFirst DEF RunnerIsFirst
<1>3. "STOPPED" \in Status
  BY DEF Status, Blocked
<1>4. /\ sched' \in RunState /\ Agree(sched', priority)
      /\ sched'.status = [sched.status EXCEPT ![t] = "STOPPED"]
  <2>1. sched.runqueues[priority[t]] # <<>> /\ Head(sched.runqueues[priority[t]]) = t
    BY <1>2 DEF IsFirst
  <2>2. sched \in RunState /\ Agree(sched, priority) /\ priority \in [Pids -> Prios]
    BY IInvFacts
  <2>3. sched' = sched_set_status(sched, priority, t, "STOPPED")
    BY <1>1
  <2> QED BY <1>3, <2>1, <2>2, <2>3, SetStatusAgrees
<1>5. SchedInv'
  <2>1. SchedTypeOK'
    BY <1>1, <1>4 DEF IInv, SchedInv, SchedTypeOK
  <2>2. sched'.status[IdlePid] = sched.status[IdlePid]
    BY <1>1, <1>4, IInvFacts
  <2>3. RunqueuesAgree' /\ IdleIsReady' /\ RequestInIsr' /\ ActiveIsFirst'
    BY <1>1, <1>4, <2>2, IInvFacts
       DEF SchedInv, RunqueuesAgree, IdleIsReady, RequestInIsr, ActiveIsFirst
  <2> QED BY <2>1, <2>3 DEF SchedInv
<1>6. \A u \in Pids : SwitchAhead(u)'
  BY <1>1 DEF SwitchAhead
<1>7. TableAgrees' /\ sched_num_threads' \in Nat
  <2>1. t \in sched_threads
    BY <1>1, IInvFacts, PidFacts
  <2>2. /\ IsFiniteSet(sched_threads)
        /\ Cardinality(sched_threads \ {t}) = Cardinality(sched_threads) - 1
    BY <2>1, IInvFacts, TableFinite, FS_RemoveElement
  <2>3. IsFiniteSet(sched_threads \ {t})
    BY IInvFacts, TableFinite
  <2>4. Cardinality(sched_threads \ {t}) \in Nat
    BY <2>3, FS_CardinalityType
  <2>5. \A u \in Pids \ sched_threads' : sched'.status[u] = "STOPPED" /\ pc'[u] = "run"
    BY <1>1, <1>4, IInvFacts
  <2> QED BY <1>1, <2>2, <2>4, <2>5 DEF TableAgrees, IInv
<1> QED BY <1>1, <1>5, <1>6, <1>7 DEF IInv

LEMMA KernelStep ==
    ASSUME ~YieldWindow, IInv, SchedStep, Ran, UNCHANGED threadVars PROVE IInv'
<1>1. SchedInv' /\ \A u \in Pids \ lazy : SwitchAhead(u)'
  <2>1. Pids \ lazy \subseteq Pids
    OBVIOUS
  <2> QED BY <2>1, IInvFacts, PidFacts, SchedStepInv
<1>2. lazy' \subseteq Pids /\ \A u \in Pids \ lazy' : SwitchAhead(u)'
  BY <1>1, RanStep
<1>3. /\ \A u \in Pids :
            /\ sched.status[u] \notin OnRunqueue => sched'.status[u] = sched.status[u]
            /\ u # sched_active_thread => pc'[u] = pc[u]
      /\ \/ sched_active_thread' = sched_active_thread
         \/ /\ sched_active_thread' \in Pids
            /\ sched.status[sched_active_thread'] \in OnRunqueue
  BY IInvFacts, SchedStepFrame
<1>4. \A t \in Pids \ sched_threads : sched.status[t] \notin OnRunqueue
  BY IInvFacts DEF OnRunqueue
<1>5. TableAgrees'
  <2>1. sched_active_thread' \in sched_threads \cup {0}
    BY <1>3, <1>4, IInvFacts
  <2>2. \A t \in Pids \ sched_threads : sched'.status[t] = "STOPPED" /\ pc'[t] = "run"
    BY <1>3, <1>4, IInvFacts, PidFacts
  <2> QED BY <2>1, <2>2, TableStep
<1> QED BY <1>1, <1>2, <1>5 DEF IInv, threadVars

-----------------------------------------------------------------------------
LEMMA StutterStep == ASSUME IInv, UNCHANGED vars PROVE IInv'
<1>1. SchedInv'
  BY DEF IInv, vars, schedVars, SchedInv, SchedTypeOK, RunqueuesAgree, IdleIsReady,
         ActiveIsFirst, RequestInIsr
<1>2. TableAgrees'
  BY DEF IInv, vars, schedVars, threadVars, TableAgrees
<1>3. \A u \in Pids \ lazy' : SwitchAhead(u)'
  BY DEF IInv, vars, schedVars, SwitchAhead
<1> QED BY <1>1, <1>2, <1>3 DEF IInv, vars, threadVars

(* IInv is an invariant of the specification, for every thread table,      *)
(* number of priorities and port (kernel calls of core/thread.c and        *)
(* core/sched.c, interrupts, context switches), as long as no signal meets *)
(* the window of native's thread_yield_higher(); interrupts in Cortex-M's  *)
(* window are included.                                                    *)
THEOREM ThreadsInvariant == ASSUME ~YieldWindow PROVE Spec => []IInv
<1>1. Init => IInv
  BY InitIInv
<1>2. IInv /\ [Next]_vars => IInv'
  <2> SUFFICES ASSUME IInv, [Next]_vars PROVE IInv'
    OBVIOUS
  <2>1. ASSUME NEW p \in CreatePrios, NEW flag \in {"YIELD", "WOUT_YIELD", "SLEEPING"},
               thread_create(p, flag)
        PROVE  IInv'
    BY <2>1, CreateStep, ThreadsAssumption
  <2>2. ASSUME NEW t \in Pids, sched_task_exit(t) PROVE IInv'
    BY <2>2, ExitStep
  <2>5. ASSUME SleepWakeYield, Ran, UNCHANGED threadVars PROVE IInv'
    BY <2>5, SleepStep, WakeupStep, YieldStep DEF SleepWakeYield
  <2>3. ASSUME SchedStep /\ Ran /\ UNCHANGED threadVars PROVE IInv'
    BY <2>3, KernelStep
  <2>4. CASE UNCHANGED vars
    BY <2>4, StutterStep
  <2> QED BY <2>1, <2>2, <2>3, <2>4, <2>5 DEF Next, ThreadStep
<1> QED BY <1>1, <1>2, PTL DEF Spec

(* Type correctness. *)
THEOREM ThreadsTypes == ASSUME ~YieldWindow PROVE Spec => []TypeOK
<1>1. IInv => TypeOK
  BY DEF IInv, SchedInv, TypeOK
<1> QED BY <1>1, ThreadsInvariant, PTL

(* Run queues, statuses and bit cache always agree: sched_set_status()     *)
(* never loses, duplicates or misfiles a thread.                           *)
THEOREM ThreadsRunqueues == ASSUME ~YieldWindow PROVE Spec => []RunqueuesAgree
<1>1. IInv => RunqueuesAgree
  BY DEF IInv, SchedInv
<1> QED BY <1>1, ThreadsInvariant, PTL

(* A thread that executes its own code is first of its run queue, which is *)
(* what makes the clist_lpop() of sched_set_status() remove the thread     *)
(* that blocks.                                                            *)
THEOREM ThreadsRunnerIsFirst == ASSUME ~YieldWindow PROVE Spec => []RunnerIsFirst
<1>1. IInv => RunnerIsFirst
  BY SchedInvFirst DEF IInv
<1> QED BY <1>1, ThreadsInvariant, PTL

(* The thread table, its counter and the active thread agree. *)
THEOREM ThreadsTable == ASSUME ~YieldWindow PROVE Spec => []TableAgrees
<1>1. IInv => TableAgrees
  BY DEF IInv
<1> QED BY <1>1, ThreadsInvariant, PTL

(* Fixed-priority preemption. *)
THEOREM ThreadsPriority == ASSUME ~YieldWindow PROVE Spec => []PriorityRespected
<1>1. IInv => PriorityRespected
  BY SchedInvUrgent DEF IInv, PriorityRespected
<1> QED BY <1>1, ThreadsInvariant, PTL

-----------------------------------------------------------------------------
FlagBlocked == {"FLAG_BLOCKED_ANY", "FLAG_BLOCKED_ALL"}

(* What is true of thread t inside a waiting function: while it is blocked *)
(* its condition does not hold, and from then on, until it has cleared the *)
(* flags, it does: other threads and handlers only set flags.              *)
WaitInv(t) ==
    /\ sched.status[t] = "FLAG_BLOCKED_ANY" =>
            at[t] \in {"clear", "choose"} /\ flags[t] \cap wait_data[t] = {}
    /\ sched.status[t] = "FLAG_BLOCKED_ALL" =>
            at[t] = "clear_all" /\ ~(wait_data[t] \subseteq flags[t])
    /\ sched.status[t] \notin FlagBlocked =>
        /\ at[t] \in {"clear", "choose"} => flags[t] \cap wait_data[t] # {}
        /\ at[t] = "clear_all" => wait_data[t] \subseteq flags[t]
        /\ at[t] = "clear_one" => Cardinality(tmp[t]) = 1 /\ tmp[t] \subseteq flags[t]

(* The inductive invariant. *)
FlagsIInv ==
    /\ SchedInv
    /\ \A u \in Pids : SwitchAhead(u)
    /\ FlagTypeOK
    /\ \A t \in Waiters : WaitInv(t)

-----------------------------------------------------------------------------
LEMMA WaiterFacts ==
    ASSUME NEW t \in Waiters
    PROVE  t \in Pids /\ t # IdlePid
BY FlagsAssumption

(* A thread that executes is ready: it is not blocked on its flags. *)
LEMMA RunnerNotBlocked ==
    ASSUME SchedInv, NEW t \in Waiters, Runs(t)
    PROVE  sched.status[t] \notin FlagBlocked
<1>1. sched.status[t] \in OnRunqueue
  BY SchedInvFirst, WaiterFacts DEF RunnerIsFirst, IsFirst
<1> QED BY <1>1 DEF OnRunqueue, FlagBlocked

(* A step that leaves everything of thread u alone, and does not change    *)
(* whether and for what it is blocked.                                     *)
SameWait(u) ==
    /\ flags'[u] = flags[u] /\ wait_data'[u] = wait_data[u]
    /\ at'[u] = at[u] /\ tmp'[u] = tmp[u]
    /\ \A st \in FlagBlocked : sched'.status[u] = st <=> sched.status[u] = st

LEMMA SameWaitInv ==
    ASSUME NEW u, WaitInv(u), SameWait(u)
    PROVE  WaitInv(u)'
BY DEF WaitInv, SameWait, FlagBlocked

(* A step that changes the flags of no thread. *)
LEMMA FlagsKept ==
    ASSUME FlagsIInv, UNCHANGED flagVars,
           \A u \in Waiters : \A st \in FlagBlocked :
                sched'.status[u] = st <=> sched.status[u] = st
    PROVE  FlagTypeOK' /\ \A u \in Waiters : WaitInv(u)'
<1>1. FlagTypeOK'
  BY DEF FlagsIInv, FlagTypeOK, flagVars
<1>2. ASSUME NEW u \in Waiters PROVE SameWait(u)
  BY DEF SameWait, flagVars
<1> QED BY <1>1, <1>2, SameWaitInv DEF FlagsIInv

LEMMA SchedStepFlags ==
    ASSUME ~YieldWindow, FlagsIInv, SchedStep, UNCHANGED flagVars
    PROVE  FlagsIInv'
<1>1. SchedInv' /\ \A u \in Pids : SwitchAhead(u)'
  BY SchedStepInv, PidFacts DEF FlagsIInv
<1>2. ASSUME NEW u \in Waiters, NEW st \in FlagBlocked
      PROVE  sched'.status[u] = st <=> sched.status[u] = st
  <2>1. st \notin OnRunqueue
    BY DEF FlagBlocked, OnRunqueue
  <2> QED BY <2>1, SchedStepFrame, WaiterFacts DEF FlagsIInv
<1> QED BY <1>1, <1>2, FlagsKept DEF FlagsIInv

LEMMA OtherFlags ==
    ASSUME FlagsIInv, OtherFlagsCall
    PROVE  FlagsIInv'
<1>1. PICK t \in Pids : thread_wakeup(t)
  BY DEF OtherFlagsCall
<1>2. /\ SchedInv' /\ \A u \in Pids : SwitchAhead(u)'
      /\ sched'.status = [sched.status EXCEPT ![t] = "RUNNING"]
  BY <1>1, WakeupCall DEF FlagsIInv
<1>3. sched.status[t] = "SLEEPING" /\ sched.status \in [Pids -> Status]
  BY <1>1 DEF thread_wakeup, FlagsIInv, SchedInv, SchedTypeOK, RunState
<1>4. ASSUME NEW u \in Waiters, NEW st \in FlagBlocked
      PROVE  sched'.status[u] = st <=> sched.status[u] = st
  BY <1>2, <1>3, WaiterFacts DEF FlagBlocked
<1> QED BY <1>2, <1>4, FlagsKept DEF FlagsIInv, OtherFlagsCall

(* A step that changes the flags of one thread. *)
LEMMA OneThread ==
    ASSUME FlagsIInv, NEW t \in Waiters, FlagTypeOK',
           \A u \in Waiters : u # t => SameWait(u), WaitInv(t)'
    PROVE  \A u \in Waiters : WaitInv(u)'
<1> SUFFICES ASSUME NEW u \in Waiters PROVE WaitInv(u)'
  OBVIOUS
<1>1. CASE u = t
  BY <1>1
<1>2. CASE u # t
  BY <1>2, SameWaitInv DEF FlagsIInv
<1> QED BY <1>1, <1>2

-----------------------------------------------------------------------------
(* The first critical section of a waiting function. *)
LEMMA WaitStep ==
    ASSUME FlagsIInv, NEW t \in Waiters, NEW ms \in Masks,
           NEW fn \in {"clear", "choose", "clear_all"},
           NEW st \in FlagBlocked, NEW satisfied \in BOOLEAN,
           fn = "clear_all" <=> st = "FLAG_BLOCKED_ALL",
           satisfied = IF fn = "clear_all" THEN ms \subseteq flags[t]
                       ELSE flags[t] \cap ms # {},
           _thread_flags_wait(t, ms, fn, satisfied, st)
    PROVE  FlagsIInv'
<1>1. /\ Runs(t) /\ t \in Pids /\ t # IdlePid
      /\ at' = [at EXCEPT ![t] = fn]
      /\ wait_data' = [wait_data EXCEPT ![t] = ms]
      /\ flags' = flags /\ tmp' = tmp
  BY WaiterFacts DEF _thread_flags_wait, CallsFlags, InThread
<1>2. FlagTypeOK /\ SchedInv /\ sched.status \in [Pids -> Status]
  BY DEF FlagsIInv, SchedInv, SchedTypeOK, RunState
<1>3. FlagTypeOK'
  BY <1>1, <1>2 DEF FlagTypeOK, Masks
<1>4. sched.status[t] \notin FlagBlocked
  BY <1>1, <1>2, RunnerNotBlocked
<1>5. at'[t] = fn /\ wait_data'[t] = ms
  BY <1>1, <1>2 DEF FlagTypeOK
<1>6. CASE satisfied
  <2>1. UNCHANGED schedVars
    BY <1>6 DEF _thread_flags_wait
  <2>2. SchedInv' /\ \A u \in Pids : SwitchAhead(u)'
    BY <2>1, SchedSame DEF FlagsIInv
  <2>3. sched' = sched
    BY <2>1 DEF schedVars
  <2>4. WaitInv(t)'
    BY <1>1, <1>4, <1>5, <1>6, <2>3 DEF WaitInv, FlagBlocked
  <2>5. \A u \in Waiters : u # t => SameWait(u)
    BY <1>1, <1>2, <2>3 DEF SameWait, FlagTypeOK
  <2> QED BY <1>3, <2>2, <2>4, <2>5, OneThread DEF FlagsIInv
<1>7. CASE ~satisfied
  <2>1. /\ sched' = sched_set_status(sched, priority, t, st)
        /\ Tail_(t, "yield_higher", 0) /\ UNCHANGED sched_context_switch_request
        /\ KeepsContext
    BY <1>7 DEF _thread_flags_wait, YieldTail
  <2>2. "yield_higher" \in Yields /\ st \in Blocked
    BY DEF Yields, Blocked, FlagBlocked
  <2>3. /\ SchedInv' /\ \A u \in Pids : SwitchAhead(u)'
        /\ sched'.status = [sched.status EXCEPT ![t] = st]
    BY <1>1, <1>2, <2>1, <2>2, BlockStep
  <2>4. sched'.status[t] = st
    BY <1>1, <1>2, <2>3
  <2>5. WaitInv(t)'
    BY <1>1, <1>5, <1>7, <2>4 DEF WaitInv, FlagBlocked
  <2>6. \A u \in Waiters : u # t => SameWait(u)
    BY <1>1, <1>2, <2>3, WaiterFacts DEF SameWait, FlagTypeOK
  <2> QED BY <1>3, <2>3, <2>5, <2>6, OneThread DEF FlagsIInv
<1> QED BY <1>6, <1>7

(* A step of the thread that runs that leaves the scheduler alone. *)
LEMMA OwnStep ==
    ASSUME FlagsIInv, NEW t \in Waiters, Runs(t), UNCHANGED schedVars, FlagTypeOK',
           \A u \in Waiters : u # t =>
                /\ flags'[u] = flags[u] /\ wait_data'[u] = wait_data[u]
                /\ at'[u] = at[u] /\ tmp'[u] = tmp[u],
           /\ at'[t] \in {"clear", "choose"} => flags'[t] \cap wait_data'[t] # {}
           /\ at'[t] = "clear_all" => wait_data'[t] \subseteq flags'[t]
           /\ at'[t] = "clear_one" => Cardinality(tmp'[t]) = 1 /\ tmp'[t] \subseteq flags'[t]
    PROVE  FlagsIInv'
<1>1. SchedInv' /\ \A u \in Pids : SwitchAhead(u)'
  BY SchedSame DEF FlagsIInv
<1>2. sched' = sched
  BY DEF schedVars
<1>3. WaitInv(t)'
  BY <1>2, RunnerNotBlocked DEF FlagsIInv, WaitInv, FlagBlocked
<1>4. \A u \in Waiters : u # t => SameWait(u)
  BY <1>2 DEF SameWait
<1> QED BY <1>1, <1>3, <1>4, OneThread DEF FlagsIInv

LEMMA OneLeast ==
    ASSUME NEW S \in SUBSET Flags, S # {}
    PROVE  Cardinality({f \in S : \A g \in S : f <= g}) = 1
<1>1. S \subseteq Nat
  BY FlagsAssumption
<1>2. PICK p \in S : \A r \in S : p <= r
  BY <1>1, LeastBit
<1>3. {f \in S : \A g \in S : f <= g} = {p}
  <2>1. ASSUME NEW f \in S, \A g \in S : f <= g PROVE f = p
    <3>1. f <= p /\ p <= f /\ f \in Nat /\ p \in Nat
      BY <1>1, <1>2, <2>1
    <3> QED BY <3>1
  <2> QED BY <1>2, <2>1
<1> QED BY <1>3, FS_Singleton

(* thread_flags_wait_one() chooses exactly one of the flags. *)
LEMMA ChooseStep ==
    ASSUME FlagsIInv, NEW t \in Waiters, Choose(t)
    PROVE  FlagsIInv'
<1> DEFINE set == flags[t] \cap wait_data[t]
           least == {f \in set : \A g \in set : f <= g}
<1>1. /\ Runs(t) /\ at[t] = "choose" /\ UNCHANGED schedVars
      /\ tmp' = [tmp EXCEPT ![t] = least]
      /\ at' = [at EXCEPT ![t] = "clear_one"]
      /\ flags' = flags /\ wait_data' = wait_data
  BY DEF Choose, InThread
<1>2. FlagTypeOK /\ SchedInv /\ WaitInv(t)
  BY DEF FlagsIInv
<1>3. set # {} /\ set \in SUBSET Flags
  BY <1>1, <1>2, RunnerNotBlocked DEF WaitInv, FlagTypeOK
<1>4. Cardinality(least) = 1 /\ least \subseteq flags[t] /\ least \in SUBSET Flags
  BY <1>3, OneLeast
<1> HIDE DEF least
<1>5. FlagTypeOK'
  BY <1>1, <1>2, <1>4 DEF FlagTypeOK
<1>6. tmp'[t] = least /\ at'[t] = "clear_one"
  BY <1>1, <1>2 DEF FlagTypeOK
<1>7. \A u \in Waiters : u # t =>
        /\ flags'[u] = flags[u] /\ wait_data'[u] = wait_data[u]
        /\ at'[u] = at[u] /\ tmp'[u] = tmp[u]
  BY <1>1, <1>2 DEF FlagTypeOK
<1> QED BY <1>1, <1>4, <1>5, <1>6, <1>7, OwnStep

LEMMA ClearAtomicStep ==
    ASSUME FlagsIInv, NEW t \in Waiters, _thread_flags_clear_atomic(t)
    PROVE  FlagsIInv'
<1>1. PICK S : flags' = [flags EXCEPT ![t] = @ \ S]
  BY DEF _thread_flags_clear_atomic
<1>2. /\ Runs(t) /\ UNCHANGED schedVars
      /\ at' = [at EXCEPT ![t] = "none"]
      /\ tmp' = [tmp EXCEPT ![t] = {}]
      /\ wait_data' = [wait_data EXCEPT ![t] = {}]
  BY DEF _thread_flags_clear_atomic, InThread
<1>3. FlagTypeOK
  BY DEF FlagsIInv
<1>4. FlagTypeOK'
  BY <1>1, <1>2, <1>3 DEF FlagTypeOK
<1>5. /\ at'[t] = "none"
      /\ \A u \in Waiters : u # t =>
            /\ flags'[u] = flags[u] /\ wait_data'[u] = wait_data[u]
            /\ at'[u] = at[u] /\ tmp'[u] = tmp[u]
  BY <1>1, <1>2, <1>3 DEF FlagTypeOK
<1> QED BY <1>2, <1>4, <1>5, OwnStep

LEMMA ClearStep ==
    ASSUME FlagsIInv, NEW t \in Waiters, NEW ms \in Masks, thread_flags_clear(t, ms)
    PROVE  FlagsIInv'
<1>1. /\ Runs(t) /\ UNCHANGED schedVars /\ at[t] = "none"
      /\ flags' = [flags EXCEPT ![t] = @ \ ms]
      /\ at' = at /\ tmp' = tmp /\ wait_data' = wait_data
  BY DEF thread_flags_clear, CallsFlags, InThread
<1>2. FlagTypeOK
  BY DEF FlagsIInv
<1>3. FlagTypeOK'
  BY <1>1, <1>2 DEF FlagTypeOK
<1>4. \A u \in Waiters : u # t => flags'[u] = flags[u]
  BY <1>1, <1>2 DEF FlagTypeOK
<1> QED BY <1>1, <1>3, <1>4, OwnStep

-----------------------------------------------------------------------------
(* thread_flags_set(), which wakes a thread whose condition now holds. *)
LEMMA SetStep ==
    ASSUME FlagsIInv, NEW u \in Waiters, NEW ms \in Masks, thread_flags_set(u, ms)
    PROVE  FlagsIInv'
<1>1. /\ flags' = [flags EXCEPT ![u] = @ \cup ms]
      /\ wait_data' = wait_data /\ at' = at /\ tmp' = tmp /\ KeepsContext
      /\ u \in Pids /\ u # IdlePid
  BY WaiterFacts DEF thread_flags_set
<1>2. FlagTypeOK /\ SchedInv /\ sched.status \in [Pids -> Status] /\ WaitInv(u)
  BY DEF FlagsIInv, SchedInv, SchedTypeOK, RunState
<1>3. FlagTypeOK'
  BY <1>1, <1>2 DEF FlagTypeOK, Masks
<1>4. flags'[u] = flags[u] \cup ms
  BY <1>1, <1>2 DEF FlagTypeOK
<1>5. \A v \in Waiters : v # u => flags'[v] = flags[v]
  BY <1>1, <1>2 DEF FlagTypeOK
<1>6. CASE thread_flags_wake(u, flags'[u])
  <2>1. sched' = sched_set_status(sched, priority, u, "RUNNING")
    BY <1>6 DEF thread_flags_set
  <2>2. sched.status[u] \notin OnRunqueue /\ "RUNNING" \in OnRunqueue
    BY <1>6 DEF thread_flags_wake, OnRunqueue
  <2>3. /\ SchedInv' /\ \A v \in Pids : SwitchAhead(v)'
        /\ sched'.status = [sched.status EXCEPT ![u] = "RUNNING"]
    <3>1. CASE irq_is_in
      <4>1. sched_context_switch_request' = TRUE /\ UNCHANGED <<pc, other_prio>>
        BY <1>6, <3>1 DEF thread_flags_set
      <4> QED BY <1>1, <1>2, <2>1, <2>2, <3>1, <4>1, IsrWakeStep
    <3>2. CASE ~irq_is_in
      <4>1. PICK t \in Pids : Runs(t)
        BY <3>2 DEF thread_flags_set, InThread
      <4>2. /\ Tail_(t, "yield_higher", 0) /\ UNCHANGED sched_context_switch_request
            /\ "yield_higher" \in Yields
        BY <1>6, <3>2, <4>1 DEF thread_flags_set, YieldTail, Runs, Executes, Yields
      <4>3. /\ sched \in RunState /\ Agree(sched, priority)
            /\ sched.status[IdlePid] \in OnRunqueue
        BY <1>2 DEF SchedInv, SchedTypeOK, RunqueuesAgree, IdleIsReady
      <4>4. /\ sched' \in RunState /\ Agree(sched', priority)
            /\ sched'.status[IdlePid] \in OnRunqueue
            /\ sched'.status = [sched.status EXCEPT ![u] = "RUNNING"]
        BY <1>1, <1>2, <2>1, <2>2, <4>3, WakeKeeps
      <4> QED BY <1>1, <1>2, <4>1, <4>2, <4>4, YieldTailStep
    <3> QED BY <3>1, <3>2
  <2>4. sched'.status[u] = "RUNNING"
    BY <1>1, <1>2, <2>3
  <2>5. WaitInv(u)'
    BY <1>1, <1>2, <1>4, <1>6, <2>4 DEF WaitInv, FlagBlocked, thread_flags_wake
  <2>6. \A v \in Waiters : v # u => SameWait(v)
    BY <1>1, <1>2, <1>5, <2>3, WaiterFacts DEF SameWait
  <2> QED BY <1>3, <2>3, <2>5, <2>6, OneThread DEF FlagsIInv
<1>7. CASE ~thread_flags_wake(u, flags'[u])
  <2>1. UNCHANGED schedVars
    BY <1>7 DEF thread_flags_set, schedVars, KeepsContext
  <2>2. SchedInv' /\ \A v \in Pids : SwitchAhead(v)'
    BY <2>1, SchedSame DEF FlagsIInv
  <2>3. sched' = sched
    BY <2>1 DEF schedVars
  <2>4. WaitInv(u)'
    BY <1>1, <1>2, <1>4, <1>7, <2>3 DEF WaitInv, FlagBlocked, thread_flags_wake
  <2>5. \A v \in Waiters : v # u => SameWait(v)
    BY <1>1, <1>5, <2>3 DEF SameWait
  <2> QED BY <1>3, <2>2, <2>4, <2>5, OneThread DEF FlagsIInv
<1> QED BY <1>6, <1>7

-----------------------------------------------------------------------------
LEMMA InitFlags ==
    ASSUME FlagsInit
    PROVE  FlagsIInv
<1>1. /\ SchedInv /\ \A u \in Pids : SwitchAhead(u)
      /\ sched.status = [t \in Pids |-> IF t = IdlePid THEN "PENDING" ELSE "SLEEPING"]
  BY SchedInitInv, PrioAssumption DEF FlagsInit
<1>2. FlagTypeOK
  BY DEF FlagsInit, FlagTypeOK
<1>3. ASSUME NEW t \in Waiters PROVE WaitInv(t)
  <2>1. sched.status[t] = "SLEEPING" /\ at[t] = "none"
    BY <1>1, <1>3, WaiterFacts DEF FlagsInit
  <2> QED BY <2>1 DEF WaitInv
<1> QED BY <1>1, <1>2, <1>3 DEF FlagsIInv

LEMMA FlagStepInv ==
    ASSUME FlagsIInv, FlagStep
    PROVE  FlagsIInv'
<1>1. CASE \E t \in Waiters, ms \in Masks : thread_flags_wait_any(t, ms)
  <2>1. PICK t \in Waiters, ms \in Masks :
            _thread_flags_wait(t, ms, "clear", flags[t] \cap ms # {}, "FLAG_BLOCKED_ANY")
    BY <1>1 DEF thread_flags_wait_any, _thread_flags_wait_any
  <2> QED BY <2>1, WaitStep DEF FlagBlocked
<1>2. CASE \E t \in Waiters, ms \in Masks : thread_flags_wait_one(t, ms)
  <2>1. PICK t \in Waiters, ms \in Masks :
            _thread_flags_wait(t, ms, "choose", flags[t] \cap ms # {}, "FLAG_BLOCKED_ANY")
    BY <1>2 DEF thread_flags_wait_one, _thread_flags_wait_any
  <2> QED BY <2>1, WaitStep DEF FlagBlocked
<1>3. CASE \E t \in Waiters, ms \in Masks : thread_flags_wait_all(t, ms)
  <2>1. PICK t \in Waiters, ms \in Masks :
            _thread_flags_wait(t, ms, "clear_all", ms \subseteq flags[t], "FLAG_BLOCKED_ALL")
    BY <1>3 DEF thread_flags_wait_all
  <2> QED BY <2>1, WaitStep DEF FlagBlocked
<1>4. CASE \E t \in Waiters, ms \in Masks : thread_flags_clear(t, ms)
  BY <1>4, ClearStep
<1>5. CASE \E t \in Waiters, ms \in Masks : thread_flags_set(t, ms)
  BY <1>5, SetStep
<1>6. CASE \E t \in Waiters : Choose(t)
  BY <1>6, ChooseStep
<1>7. CASE \E t \in Waiters : _thread_flags_clear_atomic(t)
  BY <1>7, ClearAtomicStep
<1> QED BY <1>1, <1>2, <1>3, <1>4, <1>5, <1>6, <1>7 DEF FlagStep

(* The invariant behind the two theorems below: a thread blocked on its    *)
(* flags waits for what does not hold, and a thread past its wait finds    *)
(* what it waited for until it clears it, whatever thread_flags_set()      *)
(* calls come in between.                                                  *)
THEOREM FlagsInvariant ==
    ASSUME ~YieldWindow, Port = "native"
    PROVE  FlagsSpec => []FlagsIInv
<1>1. FlagsInit => FlagsIInv
  BY InitFlags
<1>2. FlagsIInv /\ [FlagsNext]_flagsSpecVars => FlagsIInv'
  <2> SUFFICES ASSUME FlagsIInv, [FlagsNext]_flagsSpecVars PROVE FlagsIInv'
    OBVIOUS
  <2>1. CASE FlagStep
    BY <2>1, FlagStepInv
  <2>2. CASE OtherFlagsCall
    BY <2>2, OtherFlags
  <2>3. CASE SchedStep /\ UNCHANGED flagVars
    BY <2>3, SchedStepFlags
  <2>4. CASE UNCHANGED flagsSpecVars
    <3>1. UNCHANGED schedVars /\ UNCHANGED flagVars /\ sched' = sched
      BY <2>4 DEF flagsSpecVars, schedVars
    <3>2. SchedInv' /\ \A u \in Pids : SwitchAhead(u)'
      BY <3>1, SchedSame DEF FlagsIInv
    <3> QED BY <3>1, <3>2, FlagsKept DEF FlagsIInv
  <2> QED BY <2>1, <2>2, <2>3, <2>4 DEF FlagsNext
<1> QED BY <1>1, <1>2, PTL DEF FlagsSpec

(* No notification is missed by thread_flags_set() and the waiting         *)
(* functions, for every number of threads and flags: a thread is blocked   *)
(* only while its condition does not hold, and a woken thread that is more *)
(* urgent gets the processor.                                              *)
THEOREM FlagsNotMissed ==
    ASSUME ~YieldWindow, Port = "native"
    PROVE  FlagsSpec => []BlockedOnlyIfUnset
<1>1. FlagsIInv => BlockedOnlyIfUnset
  <2> SUFFICES ASSUME FlagsIInv PROVE BlockedOnlyIfUnset
    OBVIOUS
  <2>1. SchedTypeOK /\ FlagTypeOK /\ RunqueuesAgree
    BY DEF FlagsIInv, SchedInv
  <2>2. NoneMoreUrgent({})
    BY SchedInvUrgent DEF FlagsIInv
  <2>3. \A t \in Waiters :
          /\ sched.status[t] = "FLAG_BLOCKED_ANY" => flags[t] \cap wait_data[t] = {}
          /\ sched.status[t] = "FLAG_BLOCKED_ALL" => ~(wait_data[t] \subseteq flags[t])
    BY DEF FlagsIInv, WaitInv
  <2> QED BY <2>1, <2>2, <2>3 DEF BlockedOnlyIfUnset
<1> QED BY <1>1, FlagsInvariant, PTL

(* thread_flags_wait_any(), _all() and _one() return what was awaited,     *)
(* although they clear the flags in a later critical section than the one  *)
(* in which they waited.                                                   *)
THEOREM FlagsReturned ==
    ASSUME ~YieldWindow, Port = "native"
    PROVE  FlagsSpec => []ReturnsWhatWasAwaited
<1>1. FlagsIInv => ReturnsWhatWasAwaited
  BY RunnerNotBlocked DEF FlagsIInv, WaitInv, ReturnsWhatWasAwaited
<1> QED BY <1>1, FlagsInvariant, PTL

-----------------------------------------------------------------------------
(* core/mbox.c. *)

(* The threads blocked in function fn. *)
BlockedIn(fn) == {t \in Pids : sched.status[t] = "MBOX_BLOCKED" /\ call[t] = fn}

(* The two wait lists hold the blocked threads, in order. *)
ListInv ==
    /\ Holds(mbox.readers, BlockedIn("get")) /\ SortedByPriority(mbox.readers)
    /\ Holds(mbox.writers, BlockedIn("put")) /\ SortedByPriority(mbox.writers)
    /\ \A t \in Pids : sched.status[t] = "MBOX_BLOCKED" => call[t] # "none"

(* What thread t's buffer holds: a woken reader has its message, a writer  *)
(* that had to wait still has its own.                                     *)
BufInv(t) ==
    /\ call[t] = "get" /\ sched.status[t] # "MBOX_BLOCKED" => buf[t] # NoMsg
    /\ call[t] = "put" => buf[t] # NoMsg /\ waited

MboxTypes ==
    /\ mbox \in [readers : Seq(Readers), writers : Seq(BlockingWriters), cib : Seq(Msgs)]
    /\ buf \in [Pids -> Msgs \cup {NoMsg}]
    /\ call \in [Pids -> {"none", "put", "get"}]
    /\ sent \in [Senders -> 0 .. MaxMsgs]
    /\ last \in [Senders -> 0 .. MaxMsgs]
    /\ waited \in BOOLEAN

(* The inductive invariant. *)
MboxIInv ==
    /\ SchedInv
    /\ \A u \in Pids : SwitchAhead(u)
    /\ MboxTypes
    /\ ListInv
    /\ \A t \in Pids : BufInv(t)
    /\ FifoUnlessWaited

-----------------------------------------------------------------------------
LEMMA MboxFacts ==
    ASSUME MboxIInv
    PROVE  /\ SchedInv /\ sched \in RunState /\ sched.status \in [Pids -> Status]
           /\ priority \in [Pids -> Prios] /\ Agree(sched, priority)
           /\ mbox.readers \in Seq(Readers) /\ mbox.writers \in Seq(BlockingWriters)
           /\ mbox.cib \in Seq(Msgs)
           /\ mbox = [readers |-> mbox.readers, writers |-> mbox.writers, cib |-> mbox.cib]
           /\ Readers \in SUBSET Pids /\ BlockingWriters \in SUBSET Pids
           /\ BlockingWriters \subseteq Senders
BY MboxAssumption DEF MboxIInv, MboxTypes, SchedInv, SchedTypeOK, RunqueuesAgree, RunState, Senders

(* A thread that executes is not blocked. *)
LEMMA MboxRunner ==
    ASSUME SchedInv, NEW t \in Pids, Runs(t)
    PROVE  sched.status[t] # "MBOX_BLOCKED"
<1>1. sched.status[t] \in OnRunqueue
  BY SchedInvFirst DEF RunnerIsFirst, IsFirst
<1> QED BY <1>1 DEF OnRunqueue

(* The lists of a step that blocks and wakes no thread, and that changes   *)
(* the call only of a thread that is not blocked.                          *)
SameBlocked ==
    \A u \in Pids :
        /\ sched'.status[u] = "MBOX_BLOCKED" <=> sched.status[u] = "MBOX_BLOCKED"
        /\ sched.status[u] = "MBOX_BLOCKED" => call'[u] = call[u]

LEMMA ListsKept ==
    ASSUME ListInv, SameBlocked, priority' = priority,
           mbox'.readers = mbox.readers, mbox'.writers = mbox.writers
    PROVE  ListInv'
<1>1. BlockedIn("get")' = BlockedIn("get") /\ BlockedIn("put")' = BlockedIn("put")
  BY DEF BlockedIn, SameBlocked
<1>2. \A t \in Pids : sched'.status[t] = "MBOX_BLOCKED" => call'[t] # "none"
  BY DEF ListInv, SameBlocked
<1>3. (mbox.readers)' = mbox.readers /\ (mbox.writers)' = mbox.writers
  OBVIOUS
<1>4. /\ SortedByPriority(mbox.readers)' /\ SortedByPriority(mbox.writers)'
  BY <1>3 DEF ListInv, SortedByPriority
<1> QED BY <1>1, <1>2, <1>3, <1>4 DEF ListInv

(* A step that does nothing to the mailbox. *)
LEMMA MboxKept ==
    ASSUME MboxIInv, UNCHANGED mboxVars, priority' = priority,
           SchedInv', \A u \in Pids : SwitchAhead(u)',
           \A u \in Pids :
                sched'.status[u] = "MBOX_BLOCKED" <=> sched.status[u] = "MBOX_BLOCKED"
    PROVE  MboxIInv'
<1>1. /\ mbox' = mbox /\ buf' = buf /\ call' = call /\ sent' = sent /\ last' = last
      /\ waited' = waited
  BY DEF mboxVars
<1>2. MboxTypes'
  BY <1>1 DEF MboxIInv, MboxTypes
<1>3. ListInv'
  BY <1>1, ListsKept DEF MboxIInv, SameBlocked
<1>4. \A t \in Pids : BufInv(t)'
  BY <1>1 DEF MboxIInv, BufInv
<1>5. FifoUnlessWaited'
  BY <1>1 DEF MboxIInv, FifoUnlessWaited, NoOverflow, ReaderWaitsOnlyIfEmpty, Queued
<1> QED BY <1>2, <1>3, <1>4, <1>5 DEF MboxIInv

LEMMA SchedStepMbox ==
    ASSUME ~YieldWindow, MboxIInv, SchedStep, UNCHANGED mboxVars
    PROVE  MboxIInv'
<1>1. SchedInv' /\ \A u \in Pids : SwitchAhead(u)'
  BY SchedStepInv, PidFacts DEF MboxIInv
<1>2. "MBOX_BLOCKED" \notin OnRunqueue
  BY DEF OnRunqueue
<1>3. /\ priority' = priority
      /\ \A u \in Pids :
            sched'.status[u] = "MBOX_BLOCKED" <=> sched.status[u] = "MBOX_BLOCKED"
  BY <1>2, SchedStepFrame DEF MboxIInv
<1> QED BY <1>1, <1>3, MboxKept

LEMMA OtherMbox ==
    ASSUME MboxIInv, OtherCall
    PROVE  MboxIInv'
<1>1. PICK t \in Pids : thread_wakeup(t)
  BY DEF OtherCall
<1>2. /\ SchedInv' /\ (\A u \in Pids : SwitchAhead(u)') /\ priority' = priority
      /\ sched'.status = [sched.status EXCEPT ![t] = "RUNNING"]
  BY <1>1, WakeupCall DEF MboxIInv
<1>3. sched.status[t] = "SLEEPING"
  BY <1>1 DEF thread_wakeup
<1>4. \A u \in Pids : sched'.status[u] = "MBOX_BLOCKED" <=> sched.status[u] = "MBOX_BLOCKED"
  BY <1>2, <1>3, MboxFacts
<1> QED BY <1>2, <1>4, MboxKept DEF OtherCall

-----------------------------------------------------------------------------
(* What _wait() and _wake_waiter() do to the scheduler. *)
LEMMA WaitCall ==
    ASSUME MboxIInv, NEW t \in Pids, InThread(t), NEW fn, _wait(t, fn), KeepsContext
    PROVE  /\ SchedInv' /\ (\A u \in Pids : SwitchAhead(u)') /\ priority' = priority
           /\ sched'.status = [sched.status EXCEPT ![t] = "MBOX_BLOCKED"]
<1>1. /\ sched' = sched_set_status(sched, priority, t, "MBOX_BLOCKED")
      /\ Tail_(t, "thread_yield", 0) /\ UNCHANGED sched_context_switch_request
      /\ Runs(t) /\ t # IdlePid
  BY DEF _wait, InThread
<1>2. "thread_yield" \in Yields /\ "MBOX_BLOCKED" \in Blocked
  BY DEF Yields, Blocked
<1>3. /\ SchedInv' /\ (\A u \in Pids : SwitchAhead(u)')
      /\ sched'.status = [sched.status EXCEPT ![t] = "MBOX_BLOCKED"]
  BY <1>1, <1>2, BlockStep, MboxFacts
<1> QED BY <1>3 DEF KeepsContext

LEMMA WakeCall ==
    ASSUME MboxIInv, NEW t \in Pids, sched.status[t] = "MBOX_BLOCKED",
           irq_is_in \/ \E u \in Pids : Runs(u),
           _wake_waiter(t), KeepsContext
    PROVE  /\ SchedInv' /\ (\A u \in Pids : SwitchAhead(u)') /\ priority' = priority
           /\ sched'.status = [sched.status EXCEPT ![t] = "PENDING"]
<1>1. /\ sched' = sched_set_status(sched, priority, t, "PENDING")
      /\ SwitchTail(sched', priority[t])
      /\ UNCHANGED <<priority, sched_active_thread, irq_is_in>>
      /\ irq_is_in \/ (sched_active_thread # 0 /\ pc[sched_active_thread] = "run")
  BY PidFacts DEF _wake_waiter, KeepsContext, Runs, Executes
<1>2. /\ sched.status[t] \notin OnRunqueue
      /\ "PENDING" \in Status /\ "PENDING" \in OnRunqueue
  BY DEF Status, OnRunqueue
<1>3. t # IdlePid
  BY <1>2 DEF MboxIInv, SchedInv, IdleIsReady
<1>4. SchedInv' /\ \A u \in Pids : SwitchAhead(u)'
  <2>1. /\ SchedInv'
        /\ \A u \in Pids : SwitchAhead(u) /\ u # t => SwitchAhead(u)'
        /\ SwitchAhead(t)'
    BY <1>1, <1>2, <1>3, WakeStep, MboxFacts
  <2> QED BY <2>1 DEF MboxIInv
<1>5. sched'.status = [sched.status EXCEPT ![t] = "PENDING"]
  BY <1>1, <1>2, WakeKeeps, MboxFacts
<1> QED BY <1>1, <1>4, <1>5

-----------------------------------------------------------------------------
(* A thread that blocks joins those blocked in its function; one that is   *)
(* woken leaves them.                                                      *)
LEMMA BlockAdds ==
    ASSUME MboxIInv, NEW t \in Pids, Runs(t), NEW fn \in {"get", "put"},
           sched'.status = [sched.status EXCEPT ![t] = "MBOX_BLOCKED"],
           call' = [call EXCEPT ![t] = fn]
    PROVE  /\ t \notin BlockedIn("get") \cup BlockedIn("put")
           /\ BlockedIn(fn)' = BlockedIn(fn) \cup {t}
           /\ \A gn \in {"get", "put"} : gn # fn => BlockedIn(gn)' = BlockedIn(gn)
           /\ \A u \in Pids : sched'.status[u] = "MBOX_BLOCKED" => call'[u] # "none"
<1>1. sched.status[t] # "MBOX_BLOCKED"
  BY MboxRunner, MboxFacts
<1>2. /\ sched.status \in [Pids -> Status]
      /\ call \in [Pids -> {"none", "put", "get"}]
  BY MboxFacts DEF MboxIInv, MboxTypes
<1>3. \A u \in Pids :
        /\ u # t => sched'.status[u] = sched.status[u] /\ call'[u] = call[u]
        /\ u = t => sched'.status[u] = "MBOX_BLOCKED" /\ call'[u] = fn
  BY <1>2
<1> QED BY <1>1, <1>3 DEF BlockedIn, MboxIInv, ListInv

LEMMA WakeRemoves ==
    ASSUME MboxIInv, NEW t \in Pids, NEW fn \in {"get", "put"}, t \in BlockedIn(fn),
           sched'.status = [sched.status EXCEPT ![t] = "PENDING"], call' = call
    PROVE  /\ BlockedIn(fn)' = BlockedIn(fn) \ {t}
           /\ \A gn \in {"get", "put"} : gn # fn => BlockedIn(gn)' = BlockedIn(gn)
           /\ \A u \in Pids : sched'.status[u] = "MBOX_BLOCKED" => call'[u] # "none"
<1>1. sched.status \in [Pids -> Status]
  BY MboxFacts
<1>2. \A u \in Pids :
        /\ u # t => sched'.status[u] = sched.status[u]
        /\ u = t => sched'.status[u] = "PENDING"
  BY <1>1
<1> QED BY <1>2 DEF BlockedIn, MboxIInv, ListInv

(* The lists after a step, from what they hold. *)
LEMMA ListsNext ==
    ASSUME priority' = priority,
           NEW r, mbox'.readers = r, InQueue(r) = BlockedIn("get")', NoRepeats(r),
           SortedByPriority(r),
           NEW w, mbox'.writers = w, InQueue(w) = BlockedIn("put")', NoRepeats(w),
           SortedByPriority(w),
           \A t \in Pids : sched'.status[t] = "MBOX_BLOCKED" => call'[t] # "none"
    PROVE  ListInv'
<1>1. (mbox.readers)' = r /\ (mbox.writers)' = w
  OBVIOUS
<1>2. SortedByPriority(mbox.readers)' /\ SortedByPriority(mbox.writers)'
  BY <1>1 DEF SortedByPriority
<1>3. Holds(mbox.readers, BlockedIn("get"))' /\ Holds(mbox.writers, BlockedIn("put"))'
  BY <1>1 DEF Holds, InQueue, NoRepeats
<1> QED BY <1>2, <1>3 DEF ListInv

LEMMA ListFacts ==
    ASSUME MboxIInv
    PROVE  /\ InQueue(mbox.readers) = BlockedIn("get") /\ NoRepeats(mbox.readers)
           /\ InQueue(mbox.writers) = BlockedIn("put") /\ NoRepeats(mbox.writers)
           /\ SortedByPriority(mbox.readers) /\ SortedByPriority(mbox.writers)
BY DEF MboxIInv, ListInv, Holds

-----------------------------------------------------------------------------
(* cib_put_unsafe() writes one message, at the end if there is room. *)
LEMMA PutUnsafe ==
    ASSUME NEW q \in Seq(Msgs), NEW m \in Msgs
    PROVE  /\ cib_put_unsafe(q, m) \in Seq(Msgs)
           /\ Len(q) < Size => cib_put_unsafe(q, m) = Append(q, m)
<1> DEFINE L == Len(q) + 1
           p == cib_put_unsafe(q, m)
<1>1. Len(q) \in Nat /\ L \in Nat /\ Size \in Nat \ {0} /\ DOMAIN q = 1 .. Len(q)
  BY MboxAssumption
<1>2. p = [i \in 1 .. L |-> IF i % Size = L % Size THEN m ELSE q[i]]
  BY DEF cib_put_unsafe
<1>3. ASSUME NEW i \in 1 .. L PROVE p[i] \in Msgs
  <2>1. CASE i = L
    BY <1>2, <2>1
  <2>2. CASE i # L
    <3>1. i \in 1 .. Len(q)
      BY <1>1, <2>2
    <3> QED BY <1>2, <3>1
  <2> QED BY <2>1, <2>2
<1>4. p \in [1 .. L -> Msgs]
  BY <1>2, <1>3
<1>5. p \in Seq(Msgs)
  BY <1>1, <1>4
<1>6. ASSUME Len(q) < Size PROVE p = Append(q, m)
  <2>1. ASSUME NEW i \in 1 .. Len(q) PROVE i % Size # L % Size
    <3>1. i \in Nat /\ i < L /\ L <= Size /\ i > 0
      BY <1>1, <1>6
    <3>2. i % Size = i
      BY <1>1, <3>1
    <3>3. CASE L = Size
      BY <1>1, <3>1, <3>2, <3>3
    <3>4. CASE L < Size
      BY <1>1, <3>1, <3>2, <3>4
    <3> QED BY <1>1, <3>1, <3>3, <3>4
  <2>2. /\ Append(q, m) \in Seq(Msgs) /\ Len(Append(q, m)) = L
        /\ \A i \in 1 .. L : Append(q, m)[i] = IF i = L THEN m ELSE q[i]
    BY <1>1
  <2>3. ASSUME NEW i \in 1 .. L
        PROVE  (i % Size = L % Size) <=> i = L
    <3>1. i = L \/ i \in 1 .. Len(q)
      BY <1>1
    <3> QED BY <1>1, <2>1, <3>1
  <2>4. Len(p) = L
    BY <1>1, <1>2, <1>5
  <2>5. \A i \in 1 .. L : p[i] = Append(q, m)[i]
    BY <1>2, <2>2, <2>3
  <2>6. ASSUME NEW r \in Seq(Msgs), NEW s \in Seq(Msgs), Len(r) = Len(s),
               \A i \in 1 .. Len(r) : r[i] = s[i]
        PROVE  r = s
    BY <2>6
  <2> HIDE DEF L, p
  <2> QED BY <1>5, <2>2, <2>4, <2>5, <2>6
<1> QED BY <1>5, <1>6

-----------------------------------------------------------------------------
(* FifoUnlessWaited after a step, from what the mailbox is then. *)
LEMMA FifoNext ==
    ASSUME NEW q, mbox'.cib = q, Len(q) <= Size, mbox'.readers # <<>> => q = <<>>,
           InOrder(q),
           \A s \in Senders : last'[s] <= sent'[s] /\ NumbersIn(q, s) = (last'[s] + 1) .. sent'[s]
    PROVE  FifoUnlessWaited'
<1>1. (mbox.cib)' = q
  OBVIOUS
<1>2. NoOverflow' /\ ReaderWaitsOnlyIfEmpty'
  BY <1>1 DEF NoOverflow, ReaderWaitsOnlyIfEmpty
<1>3. \A s \in Senders : Queued(s)' = NumbersIn(q, s)
  BY <1>1 DEF Queued, NumbersIn
<1> QED BY <1>1, <1>2, <1>3 DEF FifoUnlessWaited, InOrder

LEMMA FifoFacts ==
    ASSUME MboxIInv, ~waited
    PROVE  /\ Len(mbox.cib) <= Size /\ (mbox.readers # <<>> => mbox.cib = <<>>)
           /\ InOrder(mbox.cib)
           /\ \A s \in Senders :
                last[s] <= sent[s] /\ NumbersIn(mbox.cib, s) = (last[s] + 1) .. sent[s]
BY DEF MboxIInv, FifoUnlessWaited, NoOverflow, ReaderWaitsOnlyIfEmpty, Queued, InOrder, NumbersIn

(* The next message of a sender. *)
LEMMA PutFacts ==
    ASSUME MboxIInv, NEW s \in Senders, Puts(s)
    PROVE  /\ NextMsg(s) \in Msgs /\ NextMsg(s) # NoMsg
           /\ NextMsg(s).from = s /\ NextMsg(s).n = sent[s] + 1
           /\ \A t : t \in Senders => last[t] \in Nat /\ sent[t] \in Nat
           /\ sent[s] + 1 \in 0 .. MaxMsgs
           /\ irq_is_in \/ \E u \in Pids : InThread(u) /\ call[u] = "none"
<1>1. sent[s] \in Nat /\ sent[s] < MaxMsgs /\ MaxMsgs \in Nat
  BY MboxAssumption DEF Puts, MboxIInv, MboxTypes
<1>2. sent[s] + 1 \in 1 .. MaxMsgs
  BY <1>1
<1>3. s # 0
  BY MboxAssumption, SchedAssumption DEF Senders, ISR, Pids
<1>4. NextMsg(s).from = s /\ NextMsg(s).n = sent[s] + 1 /\ NextMsg(s) \in Msgs
  BY <1>2 DEF NextMsg, Msgs
<1>5. NoMsg.from = 0
  BY DEF NoMsg
<1>6. irq_is_in \/ \E u \in Pids : InThread(u) /\ call[u] = "none"
  BY MboxAssumption DEF Puts, Senders, Calls
<1>7. \A t : t \in Senders => last[t] \in Nat /\ sent[t] \in Nat
  BY MboxAssumption DEF MboxIInv, MboxTypes
<1> QED BY <1>1, <1>2, <1>3, <1>4, <1>5, <1>6, <1>7

-----------------------------------------------------------------------------
(* _mbox_put(): a waiting reader gets the message. *)
LEMMA PutToReaderStep ==
    ASSUME MboxIInv, NEW s \in Senders, PutToReader(s)
    PROVE  MboxIInv'
<1> DEFINE r == Head(mbox.readers)
           m == NextMsg(s)
<1>1. /\ Puts(s) /\ mbox.readers # <<>> /\ _wake_waiter(r) /\ KeepsContext
      /\ buf' = [buf EXCEPT ![r] = m]
      /\ mbox' = [mbox EXCEPT !.readers = Tail(@)]
      /\ sent' = [sent EXCEPT ![s] = @ + 1]
      /\ last' = [last EXCEPT ![m.from] = m.n]
      /\ call' = call /\ waited' = waited
  BY DEF PutToReader, Deliver, Sent, Taken
<1>2. /\ m \in Msgs /\ m # NoMsg /\ m.from = s /\ m.n = sent[s] + 1
      /\ sent[s] + 1 \in 0 .. MaxMsgs
      /\ irq_is_in \/ \E u \in Pids : Runs(u)
  BY <1>1, PutFacts DEF InThread
<1> HIDE DEF m
<1>3. /\ Tail(mbox.readers) \in Seq(Readers) /\ r \in Pids /\ r \in BlockedIn("get")
      /\ InQueue(Tail(mbox.readers)) = BlockedIn("get") \ {r}
      /\ NoRepeats(Tail(mbox.readers)) /\ SortedByPriority(Tail(mbox.readers))
  BY <1>1, ListFacts, MboxFacts, TailOfList, ZenonT(30)
<1> HIDE DEF r
<1>4. /\ mbox'.readers = Tail(mbox.readers) /\ mbox'.writers = mbox.writers
      /\ mbox'.cib = mbox.cib
      /\ mbox' \in [readers : Seq(Readers), writers : Seq(BlockingWriters), cib : Seq(Msgs)]
  BY <1>1, <1>3, MboxFacts
<1>5. sched.status[r] = "MBOX_BLOCKED" /\ call[r] = "get"
  BY <1>3 DEF BlockedIn
<1>6. /\ SchedInv' /\ (\A u \in Pids : SwitchAhead(u)') /\ priority' = priority
      /\ sched'.status = [sched.status EXCEPT ![r] = "PENDING"]
  BY <1>1, <1>2, <1>3, <1>5, WakeCall
<1>7. /\ BlockedIn("get")' = BlockedIn("get") \ {r}
      /\ BlockedIn("put")' = BlockedIn("put")
      /\ \A u \in Pids : sched'.status[u] = "MBOX_BLOCKED" => call'[u] # "none"
  BY <1>1, <1>3, <1>6, WakeRemoves
<1>8. ListInv'
  BY <1>3, <1>4, <1>6, <1>7, ListFacts, ListsNext
<1>9. MboxTypes'
  BY <1>1, <1>2, <1>4 DEF MboxIInv, MboxTypes
<1>10. ASSUME NEW u \in Pids PROVE BufInv(u)'
  <2>1. buf \in [Pids -> Msgs \cup {NoMsg}] /\ sched.status \in [Pids -> Status]
    BY MboxFacts DEF MboxIInv, MboxTypes
  <2>2. CASE u = r
    BY <1>1, <1>2, <1>5, <2>1, <2>2 DEF BufInv
  <2>3. CASE u # r
    BY <1>1, <1>6, <2>1, <2>3 DEF BufInv, MboxIInv
  <2> QED BY <2>2, <2>3
<1>11. FifoUnlessWaited'
  <2>1. CASE waited
    BY <1>1, <2>1 DEF FifoUnlessWaited
  <2>2. CASE ~waited
    <3>1. mbox.cib = <<>>
      BY <1>1, <2>2, FifoFacts
    <3>2. \A t \in Senders : NumbersIn(mbox.cib, t) = {}
      BY <3>1 DEF NumbersIn
    <3>3. ASSUME NEW t \in Senders
          PROVE  last'[t] <= sent'[t] /\ NumbersIn(mbox.cib, t) = (last'[t] + 1) .. sent'[t]
      <4>1. last[t] \in Nat /\ sent[t] \in Nat /\ last[t] <= sent[t]
            /\ (last[t] + 1) .. sent[t] = {}
        BY <1>1, <2>2, <3>2, FifoFacts, PutFacts
      <4>2. last[t] = sent[t]
        BY <4>1
      <4>3. last'[t] = sent'[t] /\ sent'[t] \in Nat
        BY <1>1, <1>2, <4>1, <4>2 DEF MboxIInv, MboxTypes
      <4> QED BY <3>2, <4>3
    <3> QED BY <1>4, <2>2, <3>1, <3>3, FifoFacts, FifoNext
  <2> QED BY <2>1, <2>2
<1> QED BY <1>6, <1>8, <1>9, <1>10, <1>11 DEF MboxIInv

(* A step that leaves the scheduler and the wait lists alone, and changes  *)
(* the call only of a thread that is not blocked.                          *)
LEMMA QuietStep ==
    ASSUME MboxIInv, UNCHANGED schedVars,
           mbox'.readers = mbox.readers, mbox'.writers = mbox.writers,
           \A u \in Pids : sched.status[u] = "MBOX_BLOCKED" => call'[u] = call[u]
    PROVE  SchedInv' /\ (\A u \in Pids : SwitchAhead(u)') /\ sched' = sched /\ ListInv'
<1>1. sched' = sched /\ priority' = priority
  BY DEF schedVars
<1>2. SchedInv' /\ \A u \in Pids : SwitchAhead(u)'
  BY SchedSame DEF MboxIInv
<1>3. SameBlocked
  BY <1>1 DEF SameBlocked
<1> QED BY <1>1, <1>2, <1>3, ListsKept DEF MboxIInv

(* _mbox_put(): the message goes to the end of the queue. *)
LEMMA PutQueuedStep ==
    ASSUME MboxIInv, NEW s \in Senders, PutQueued(s)
    PROVE  MboxIInv'
<1> DEFINE m == NextMsg(s)
           q == cib_put_unsafe(mbox.cib, m)
<1>1. /\ Puts(s) /\ mbox.readers = <<>> /\ ~(Len(mbox.cib) >= Size)
      /\ mbox' = [mbox EXCEPT !.cib = q]
      /\ sent' = [sent EXCEPT ![s] = @ + 1]
      /\ UNCHANGED schedVars
      /\ buf' = buf /\ call' = call /\ last' = last /\ waited' = waited
  BY DEF PutQueued, Sent, cib_full
<1>2. /\ m \in Msgs /\ m.from = s /\ m.n = sent[s] + 1 /\ sent[s] + 1 \in 0 .. MaxMsgs
  BY <1>1, PutFacts
<1>3. mbox.cib \in Seq(Msgs) /\ Len(mbox.cib) \in Nat /\ Size \in Nat
  BY MboxFacts, MboxAssumption
<1> HIDE DEF m
<1>4. q \in Seq(Msgs) /\ q = Append(mbox.cib, m) /\ Len(mbox.cib) < Size
  <2>1. Len(mbox.cib) < Size
    BY <1>1, <1>3
  <2> QED BY <1>2, <1>3, <2>1, PutUnsafe
<1> HIDE DEF q
<1>5. /\ mbox'.readers = mbox.readers /\ mbox'.writers = mbox.writers /\ mbox'.cib = q
      /\ mbox' \in [readers : Seq(Readers), writers : Seq(BlockingWriters), cib : Seq(Msgs)]
  BY <1>1, <1>4, MboxFacts
<1>6. SchedInv' /\ (\A u \in Pids : SwitchAhead(u)') /\ sched' = sched /\ ListInv'
  BY <1>1, <1>5, QuietStep
<1>7. MboxTypes'
  BY <1>1, <1>2, <1>5 DEF MboxIInv, MboxTypes
<1>8. \A u \in Pids : BufInv(u)'
  BY <1>1, <1>6 DEF BufInv, MboxIInv
<1>9. FifoUnlessWaited'
  <2>1. CASE waited
    BY <1>1, <2>1 DEF FifoUnlessWaited
  <2>2. CASE ~waited
    <3>1. /\ InOrder(mbox.cib)
          /\ \A t \in Senders : /\ last[t] \in Nat /\ sent[t] \in Nat /\ last[t] <= sent[t]
                                /\ NumbersIn(mbox.cib, t) = (last[t] + 1) .. sent[t]
      BY <1>1, <2>2, FifoFacts, PutFacts
    <3>2. \A k \in NumbersIn(mbox.cib, m.from) : k < m.n
      BY <1>2, <3>1
    <3>3. /\ InOrder(q) /\ NumbersIn(q, s) = NumbersIn(mbox.cib, s) \cup {sent[s] + 1}
          /\ \A t : t # s => NumbersIn(q, t) = NumbersIn(mbox.cib, t)
      <4> DEFINE c == mbox.cib
      <4>1. c \in Seq(Msgs) /\ m \in Msgs /\ InOrder(c) /\ \A k \in NumbersIn(c, m.from) : k < m.n
        BY <1>2, <1>3, <3>1, <3>2
      <4> HIDE DEF c
      <4>2. /\ InOrder(Append(c, m))
            /\ NumbersIn(Append(c, m), m.from) = NumbersIn(c, m.from) \cup {m.n}
            /\ \A t : t # m.from => NumbersIn(Append(c, m), t) = NumbersIn(c, t)
        BY <4>1, AppendInOrder
      <4> QED BY <1>2, <1>4, <4>2 DEF c
    <3>4. Len(q) <= Size
      BY <1>3, <1>4
    <3>5. ASSUME NEW t \in Senders
          PROVE  last'[t] <= sent'[t] /\ NumbersIn(q, t) = (last'[t] + 1) .. sent'[t]
      <4>1. last' = last /\ sent \in [Senders -> 0 .. MaxMsgs]
        BY <1>1 DEF MboxIInv, MboxTypes
      <4>2. CASE t = s
        <5>1. sent'[t] = sent[s] + 1
          BY <1>1, <4>1, <4>2
        <5>2. last[s] \in Nat /\ sent[s] \in Nat /\ last[s] <= sent[s]
          BY <3>1
        <5>3. ((last[s] + 1) .. sent[s]) \cup {sent[s] + 1} = (last[s] + 1) .. (sent[s] + 1)
          BY <5>2
        <5>4. NumbersIn(q, s) = (last[s] + 1) .. (sent[s] + 1)
          BY <3>1, <3>3, <5>3
        <5>5. last[s] <= sent[s] + 1
          BY <5>2
        <5> QED BY <4>1, <4>2, <5>1, <5>4, <5>5
      <4>3. CASE t # s
        BY <1>1, <3>1, <3>3, <4>1, <4>3
      <4> QED BY <4>2, <4>3
    <3> QED BY <1>1, <1>5, <3>3, <3>4, <3>5, FifoNext
  <2> QED BY <2>1, <2>2
<1> QED BY <1>6, <1>7, <1>8, <1>9 DEF MboxIInv

(* mbox_put() finds the mailbox full and waits. *)
LEMMA PutWaitsStep ==
    ASSUME MboxIInv, NEW t \in Pids, PutWaits(t)
    PROVE  MboxIInv'
<1> DEFINE m == NextMsg(t)
           w == thread_add_to_list(mbox.writers, t)
<1>1. /\ t \in BlockingWriters /\ Puts(t) /\ _wait(t, "put") /\ KeepsContext
      /\ mbox' = [mbox EXCEPT !.writers = w]
      /\ buf' = [buf EXCEPT ![t] = m]
      /\ call' = [call EXCEPT ![t] = "put"]
      /\ sent' = [sent EXCEPT ![t] = @ + 1]
      /\ waited' = TRUE /\ last' = last
  BY DEF PutWaits, Sent, _wait
<1>2. t \in Senders /\ t # ISR
  BY <1>1, MboxFacts, SchedAssumption DEF ISR, Pids
<1>3. InThread(t) /\ Runs(t) /\ m \in Msgs /\ m # NoMsg /\ sent[t] + 1 \in 0 .. MaxMsgs
  BY <1>1, <1>2, PutFacts DEF Puts, Calls, InThread
<1>4. /\ SchedInv' /\ (\A u \in Pids : SwitchAhead(u)') /\ priority' = priority
      /\ sched'.status = [sched.status EXCEPT ![t] = "MBOX_BLOCKED"]
  BY <1>1, <1>3, WaitCall
<1>5. /\ t \notin BlockedIn("put")
      /\ BlockedIn("put")' = BlockedIn("put") \cup {t}
      /\ BlockedIn("get")' = BlockedIn("get")
      /\ \A u \in Pids : sched'.status[u] = "MBOX_BLOCKED" => call'[u] # "none"
  BY <1>1, <1>3, <1>4, BlockAdds
<1>6. /\ w \in Seq(BlockingWriters) /\ InQueue(w) = BlockedIn("put") \cup {t}
      /\ NoRepeats(w) /\ SortedByPriority(w)
  BY <1>1, <1>5, ListFacts, MboxFacts, AddToList
<1> HIDE DEF m, w
<1>7. /\ mbox'.readers = mbox.readers /\ mbox'.writers = w
      /\ mbox' \in [readers : Seq(Readers), writers : Seq(BlockingWriters), cib : Seq(Msgs)]
  BY <1>1, <1>6, MboxFacts
<1>8. ListInv'
  BY <1>4, <1>5, <1>6, <1>7, ListFacts, ListsNext
<1>9. MboxTypes'
  BY <1>1, <1>2, <1>3, <1>7 DEF MboxIInv, MboxTypes
<1>10. \A u \in Pids : BufInv(u)'
  BY <1>1, <1>3, <1>4, MboxFacts DEF MboxIInv, MboxTypes, BufInv
<1>11. FifoUnlessWaited'
  BY <1>1 DEF FifoUnlessWaited
<1> QED BY <1>4, <1>8, <1>9, <1>10, <1>11 DEF MboxIInv

(* mbox_put() goes on after _wait(): it writes, wherever that is. *)
LEMMA PutResumesStep ==
    ASSUME MboxIInv, NEW t \in Pids, PutResumes(t)
    PROVE  MboxIInv'
<1> DEFINE q == cib_put_unsafe(mbox.cib, buf[t])
<1>1. /\ Runs(t) /\ call[t] = "put" /\ UNCHANGED schedVars
      /\ mbox' = [mbox EXCEPT !.cib = q]
      /\ buf' = [buf EXCEPT ![t] = NoMsg]
      /\ call' = [call EXCEPT ![t] = "none"]
      /\ sent' = sent /\ last' = last /\ waited' = waited
  BY DEF PutResumes, InThread
<1>2. /\ buf \in [Pids -> Msgs \cup {NoMsg}] /\ call \in [Pids -> {"none", "put", "get"}]
      /\ BufInv(t)
  BY DEF MboxIInv, MboxTypes
<1>3. buf[t] \in Msgs /\ waited
  BY <1>1, <1>2 DEF BufInv
<1>4. q \in Seq(Msgs)
  BY <1>3, MboxFacts, PutUnsafe
<1> HIDE DEF q
<1>5. /\ mbox'.readers = mbox.readers /\ mbox'.writers = mbox.writers
      /\ mbox' \in [readers : Seq(Readers), writers : Seq(BlockingWriters), cib : Seq(Msgs)]
  BY <1>1, <1>4, MboxFacts
<1>6. sched.status[t] # "MBOX_BLOCKED"
  BY <1>1, MboxRunner, MboxFacts
<1>7. SchedInv' /\ (\A u \in Pids : SwitchAhead(u)') /\ sched' = sched /\ ListInv'
  BY <1>1, <1>2, <1>5, <1>6, QuietStep
<1>8. MboxTypes'
  BY <1>1, <1>5 DEF MboxIInv, MboxTypes
<1>9. \A u \in Pids : BufInv(u)'
  BY <1>1, <1>2, <1>7 DEF MboxIInv, BufInv
<1>10. FifoUnlessWaited'
  BY <1>1, <1>3 DEF FifoUnlessWaited
<1> QED BY <1>7, <1>8, <1>9, <1>10 DEF MboxIInv

(* mbox_get() finds the mailbox empty and waits. *)
LEMMA GetWaitsStep ==
    ASSUME MboxIInv, NEW t \in Pids, GetWaits(t)
    PROVE  MboxIInv'
<1> DEFINE r == thread_add_to_list(mbox.readers, t)
<1>1. /\ t \in Readers /\ InThread(t) /\ Runs(t) /\ _wait(t, "get") /\ KeepsContext
      /\ mbox.cib = <<>>
      /\ mbox' = [mbox EXCEPT !.readers = r]
      /\ buf' = [buf EXCEPT ![t] = NoMsg]
      /\ call' = [call EXCEPT ![t] = "get"]
      /\ sent' = sent /\ last' = last /\ waited' = waited
  BY DEF GetWaits, Calls, InThread, _wait
<1>2. /\ SchedInv' /\ (\A u \in Pids : SwitchAhead(u)') /\ priority' = priority
      /\ sched'.status = [sched.status EXCEPT ![t] = "MBOX_BLOCKED"]
  BY <1>1, WaitCall
<1>3. /\ t \notin BlockedIn("get")
      /\ BlockedIn("get")' = BlockedIn("get") \cup {t}
      /\ BlockedIn("put")' = BlockedIn("put")
      /\ \A u \in Pids : sched'.status[u] = "MBOX_BLOCKED" => call'[u] # "none"
  BY <1>1, <1>2, BlockAdds
<1>4. /\ r \in Seq(Readers) /\ InQueue(r) = BlockedIn("get") \cup {t}
      /\ NoRepeats(r) /\ SortedByPriority(r)
  BY <1>1, <1>3, ListFacts, MboxFacts, AddToList
<1> HIDE DEF r
<1>5. /\ mbox'.readers = r /\ mbox'.writers = mbox.writers /\ mbox'.cib = mbox.cib
      /\ mbox' \in [readers : Seq(Readers), writers : Seq(BlockingWriters), cib : Seq(Msgs)]
  BY <1>1, <1>4, MboxFacts
<1>6. ListInv'
  BY <1>2, <1>3, <1>4, <1>5, ListFacts, ListsNext
<1>7. MboxTypes'
  BY <1>1, <1>5 DEF MboxIInv, MboxTypes
<1>8. \A u \in Pids : BufInv(u)'
  BY <1>1, <1>2, MboxFacts DEF MboxIInv, MboxTypes, BufInv
<1>9. FifoUnlessWaited'
  <2>1. CASE waited
    BY <1>1, <2>1 DEF FifoUnlessWaited
  <2>2. CASE ~waited
    BY <1>1, <1>5, <2>2, FifoFacts, FifoNext
  <2> QED BY <2>1, <2>2
<1> QED BY <1>2, <1>6, <1>7, <1>8, <1>9 DEF MboxIInv

(* mbox_get() returns from _wait(). *)
LEMMA GetReturnsStep ==
    ASSUME MboxIInv, NEW t \in Pids, GetReturns(t)
    PROVE  MboxIInv'
<1>1. /\ Runs(t) /\ UNCHANGED schedVars
      /\ buf' = [buf EXCEPT ![t] = NoMsg]
      /\ call' = [call EXCEPT ![t] = "none"]
      /\ mbox' = mbox /\ sent' = sent /\ last' = last /\ waited' = waited
  BY DEF GetReturns, InThread
<1>2. buf \in [Pids -> Msgs \cup {NoMsg}] /\ call \in [Pids -> {"none", "put", "get"}]
  BY DEF MboxIInv, MboxTypes
<1>3. sched.status[t] # "MBOX_BLOCKED"
  BY <1>1, MboxRunner, MboxFacts
<1>4. SchedInv' /\ (\A u \in Pids : SwitchAhead(u)') /\ sched' = sched /\ ListInv'
  BY <1>1, <1>2, <1>3, QuietStep
<1>5. MboxTypes'
  BY <1>1 DEF MboxIInv, MboxTypes
<1>6. \A u \in Pids : BufInv(u)'
  BY <1>1, <1>2, <1>4 DEF MboxIInv, BufInv
<1>7. FifoUnlessWaited'
  BY <1>1 DEF MboxIInv, FifoUnlessWaited, NoOverflow, ReaderWaitsOnlyIfEmpty, Queued
<1> QED BY <1>4, <1>5, <1>6, <1>7 DEF MboxIInv

(* mbox_get() takes the first message and wakes the first writer. *)
LEMMA GetQueuedStep ==
    ASSUME MboxIInv, NEW t \in Pids, GetQueued(t)
    PROVE  MboxIInv'
<1> DEFINE m == Head(mbox.cib)
           q == Tail(mbox.cib)
           w == IF mbox.writers = <<>> THEN mbox.writers ELSE Tail(mbox.writers)
<1>1. /\ Runs(t) /\ mbox.cib # <<>> /\ KeepsContext
      /\ mbox' = [mbox EXCEPT !.cib = q, !.writers = w]
      /\ last' = [last EXCEPT ![m.from] = m.n]
      /\ buf' = buf /\ call' = call /\ sent' = sent /\ waited' = waited
  BY DEF GetQueued, Calls, InThread, Taken
<1>2. /\ m \in Msgs /\ q \in Seq(Msgs) /\ Len(q) = Len(mbox.cib) - 1
      /\ Len(mbox.cib) \in Nat
  BY <1>1, MboxFacts
<1>3. m.from \in Senders /\ m.n \in 1 .. MaxMsgs
  BY <1>2 DEF Msgs
<1>4. /\ SchedInv' /\ (\A u \in Pids : SwitchAhead(u)') /\ priority' = priority
      /\ w \in Seq(BlockingWriters) /\ NoRepeats(w) /\ SortedByPriority(w)
      /\ InQueue(w) = BlockedIn("put")' /\ BlockedIn("get")' = BlockedIn("get")
      /\ \A u \in Pids : sched'.status[u] = "MBOX_BLOCKED" => call'[u] # "none"
      /\ \A u \in Pids :
            call[u] = "get" /\ sched'.status[u] # "MBOX_BLOCKED" =>
                sched.status[u] # "MBOX_BLOCKED"
  <2>1. CASE mbox.writers = <<>>
    <3>1. UNCHANGED schedVars
      BY <2>1 DEF GetQueued, KeepsContext, schedVars
    <3>2. SchedInv' /\ \A u \in Pids : SwitchAhead(u)'
      BY <3>1, SchedSame DEF MboxIInv
    <3>3. sched' = sched /\ priority' = priority
      BY <3>1 DEF schedVars
    <3>4. BlockedIn("get")' = BlockedIn("get") /\ BlockedIn("put")' = BlockedIn("put")
      BY <1>1, <3>3 DEF BlockedIn
    <3> QED BY <1>1, <2>1, <3>2, <3>3, <3>4, ListFacts, MboxFacts DEF MboxIInv, ListInv
  <2>2. CASE mbox.writers # <<>>
    <3> DEFINE h == Head(mbox.writers)
    <3>1. /\ w \in Seq(BlockingWriters) /\ h \in Pids /\ h \in BlockedIn("put")
          /\ InQueue(w) = BlockedIn("put") \ {h} /\ NoRepeats(w) /\ SortedByPriority(w)
      BY <2>2, ListFacts, MboxFacts, TailOfList
    <3>2. _wake_waiter(h)
      BY <2>2 DEF GetQueued
    <3> HIDE DEF h, w
    <3>3. sched.status[h] = "MBOX_BLOCKED" /\ call[h] = "put"
      BY <3>1 DEF BlockedIn
    <3>4. /\ SchedInv' /\ (\A u \in Pids : SwitchAhead(u)') /\ priority' = priority
          /\ sched'.status = [sched.status EXCEPT ![h] = "PENDING"]
      BY <1>1, <3>1, <3>2, <3>3, WakeCall
    <3>5. /\ BlockedIn("put")' = BlockedIn("put") \ {h}
          /\ BlockedIn("get")' = BlockedIn("get")
          /\ \A u \in Pids : sched'.status[u] = "MBOX_BLOCKED" => call'[u] # "none"
      BY <1>1, <3>1, <3>4, WakeRemoves
    <3>6. \A u \in Pids : u # h => sched'.status[u] = sched.status[u]
      BY <3>4, MboxFacts
    <3> QED BY <3>1, <3>3, <3>4, <3>5, <3>6
  <2> QED BY <2>1, <2>2
<1> HIDE DEF w
<1>5. /\ mbox'.readers = mbox.readers /\ mbox'.writers = w /\ mbox'.cib = q
      /\ mbox' \in [readers : Seq(Readers), writers : Seq(BlockingWriters), cib : Seq(Msgs)]
  BY <1>1, <1>2, <1>4, MboxFacts
<1>6. ListInv'
  BY <1>4, <1>5, ListFacts, ListsNext
<1>7. MboxTypes'
  <2>1. last' \in [Senders -> 0 .. MaxMsgs]
    BY <1>1, <1>3, MboxAssumption DEF MboxIInv, MboxTypes
  <2> QED BY <1>1, <1>5, <2>1 DEF MboxIInv, MboxTypes
<1>8. \A u \in Pids : BufInv(u)'
  BY <1>1, <1>4 DEF MboxIInv, BufInv
<1>9. FifoUnlessWaited'
  <2>1. CASE waited
    BY <1>1, <2>1 DEF FifoUnlessWaited
  <2>2. CASE ~waited
    <3>1. /\ InOrder(mbox.cib) /\ Len(mbox.cib) <= Size /\ mbox.readers = <<>>
          /\ \A s \in Senders :
                last[s] <= sent[s] /\ NumbersIn(mbox.cib, s) = (last[s] + 1) .. sent[s]
      BY <1>1, <2>2, FifoFacts
    <3>2. /\ m.n \in NumbersIn(mbox.cib, m.from) /\ InOrder(q)
          /\ NumbersIn(q, m.from) = NumbersIn(mbox.cib, m.from) \ {m.n}
          /\ \A k \in NumbersIn(mbox.cib, m.from) : m.n = k \/ m.n < k
          /\ \A s : s # m.from => NumbersIn(q, s) = NumbersIn(mbox.cib, s)
      <4>1. \A k \in Msgs : k.n \in Nat
        BY MboxAssumption DEF Msgs
      <4> QED BY <1>1, <3>1, <4>1, MboxFacts, TailInOrder
    <3> HIDE DEF m, q
    <3>3. /\ last \in [Senders -> 0 .. MaxMsgs] /\ sent \in [Senders -> 0 .. MaxMsgs]
          /\ MaxMsgs \in Nat
      BY MboxAssumption DEF MboxIInv, MboxTypes
    <3>4. m.n = last[m.from] + 1 /\ last[m.from] + 1 <= sent[m.from]
      <4>1. /\ last[m.from] \in Nat /\ sent[m.from] \in Nat /\ m.n \in Nat
            /\ m.n \in (last[m.from] + 1) .. sent[m.from]
            /\ \A k \in (last[m.from] + 1) .. sent[m.from] : m.n = k \/ m.n < k
        BY <1>3, <3>1, <3>2, <3>3
      <4>2. last[m.from] + 1 \in (last[m.from] + 1) .. sent[m.from]
        BY <4>1
      <4> QED BY <4>1, <4>2
    <3>5. ASSUME NEW s \in Senders
          PROVE  last'[s] <= sent'[s] /\ NumbersIn(q, s) = (last'[s] + 1) .. sent'[s]
      <4>1. CASE s = m.from
        <5>1. last'[s] = last[s] + 1 /\ sent'[s] = sent[s]
          BY <1>1, <1>3, <3>3, <3>4, <4>1
        <5>2. last[s] \in Nat /\ sent[s] \in Nat /\ last[s] + 1 <= sent[s]
          BY <3>3, <3>4, <4>1
        <5>3. NumbersIn(q, s) = ((last[s] + 1) .. sent[s]) \ {last[s] + 1}
          BY <1>3, <3>1, <3>2, <3>4, <4>1
        <5>4. ((last[s] + 1) .. sent[s]) \ {last[s] + 1} = ((last[s] + 1) + 1) .. sent[s]
          BY <5>2
        <5> QED BY <5>1, <5>2, <5>3, <5>4
      <4>2. CASE s # m.from
        BY <1>1, <3>1, <3>2, <3>3, <4>2
      <4> QED BY <4>1, <4>2
    <3>6. Len(q) <= Size
      BY <1>2, <3>1, MboxAssumption
    <3> QED BY <1>5, <3>1, <3>2, <3>5, <3>6, FifoNext
  <2> QED BY <2>1, <2>2
<1> QED BY <1>4, <1>6, <1>7, <1>8, <1>9 DEF MboxIInv

-----------------------------------------------------------------------------
LEMMA InitMbox ==
    ASSUME MboxInit
    PROVE  MboxIInv
<1>1. /\ SchedInv /\ (\A u \in Pids : SwitchAhead(u))
      /\ sched.status = [t \in Pids |-> IF t = IdlePid THEN "PENDING" ELSE "SLEEPING"]
  BY SchedInitInv, PrioAssumption DEF MboxInit
<1>2. mbox.readers = <<>> /\ mbox.writers = <<>> /\ mbox.cib = <<>>
  BY DEF MboxInit
<1>3. MboxTypes
  <2>1. mbox \in [readers : Seq(Readers), writers : Seq(BlockingWriters), cib : Seq(Msgs)]
    BY DEF MboxInit
  <2>2. 0 \in 0 .. MaxMsgs
    BY MboxAssumption
  <2> QED BY <2>1, <2>2 DEF MboxInit, MboxTypes
<1>4. \A t \in Pids : sched.status[t] # "MBOX_BLOCKED" /\ call[t] = "none"
  BY <1>1 DEF MboxInit
<1>5. ListInv
  <2>1. BlockedIn("get") = {} /\ BlockedIn("put") = {}
    BY <1>4 DEF BlockedIn
  <2>2. Holds(<<>>, {}) /\ SortedByPriority(<<>>)
    BY DEF Holds, InQueue, NoRepeats, SortedByPriority
  <2> QED BY <1>2, <1>4, <2>1, <2>2 DEF ListInv
<1>6. \A t \in Pids : BufInv(t)
  BY <1>4 DEF BufInv
<1>7. FifoUnlessWaited
  <2>1. \A s \in Senders : last[s] = 0 /\ sent[s] = 0 /\ Queued(s) = {}
    BY <1>2 DEF MboxInit, Queued
  <2>2. NoOverflow /\ ReaderWaitsOnlyIfEmpty
    BY <1>2, MboxAssumption DEF NoOverflow, ReaderWaitsOnlyIfEmpty
  <2>3. DOMAIN mbox.cib = {} /\ 0 <= 0 /\ (0 + 1) .. 0 = {}
    BY <1>2
  <2> QED BY <2>1, <2>2, <2>3, Zenon DEF FifoUnlessWaited
<1> QED BY <1>1, <1>3, <1>5, <1>6, <1>7 DEF MboxIInv

(* The invariant behind the theorems below: the wait lists hold exactly    *)
(* the threads blocked in mbox_get() and mbox_put(), a reader that was     *)
(* woken has its message, and without waiting writers the mailbox is a     *)
(* bounded FIFO.                                                           *)
THEOREM MboxInvariant ==
    ASSUME ~YieldWindow
    PROVE  MboxSpec => []MboxIInv
<1>1. MboxInit => MboxIInv
  BY InitMbox
<1>2. MboxIInv /\ [MboxNext]_mboxSpecVars => MboxIInv'
  <2> SUFFICES ASSUME MboxIInv, [MboxNext]_mboxSpecVars PROVE MboxIInv'
    OBVIOUS
  <2>1. ASSUME NEW s \in Senders, PutToReader(s) PROVE MboxIInv'
    BY <2>1, PutToReaderStep
  <2>2. ASSUME NEW s \in Senders, PutQueued(s) PROVE MboxIInv'
    BY <2>2, PutQueuedStep
  <2>3. ASSUME NEW t \in Pids, PutWaits(t) PROVE MboxIInv'
    BY <2>3, PutWaitsStep
  <2>4. ASSUME NEW t \in Pids, PutResumes(t) PROVE MboxIInv'
    BY <2>4, PutResumesStep
  <2>5. ASSUME NEW t \in Pids, GetQueued(t) PROVE MboxIInv'
    BY <2>5, GetQueuedStep
  <2>6. ASSUME NEW t \in Pids, GetWaits(t) PROVE MboxIInv'
    BY <2>6, GetWaitsStep
  <2>7. ASSUME NEW t \in Pids, GetReturns(t) PROVE MboxIInv'
    BY <2>7, GetReturnsStep
  <2>8. CASE OtherCall
    BY <2>8, OtherMbox
  <2>9. CASE SchedStep /\ UNCHANGED mboxVars
    BY <2>9, SchedStepMbox
  <2>10. CASE UNCHANGED mboxSpecVars
    <3>1. UNCHANGED schedVars /\ UNCHANGED mboxVars /\ sched' = sched /\ priority' = priority
      BY <2>10 DEF mboxSpecVars, schedVars
    <3>2. SchedInv' /\ \A u \in Pids : SwitchAhead(u)'
      BY <3>1, SchedSame DEF MboxIInv
    <3> QED BY <3>1, <3>2, MboxKept
  <2> QED
    BY <2>1, <2>2, <2>3, <2>4, <2>5, <2>6, <2>7, <2>8, <2>9, <2>10 DEF MboxNext, MboxStep
<1> QED BY <1>1, <1>2, PTL DEF MboxSpec

LEMMA ConcatHolds ==
    ASSUME NEW a \in Seq(Pids), NEW b \in Seq(Pids), NEW A, NEW B,
           Holds(a, A), Holds(b, B), A \cap B = {}
    PROVE  Holds(a \o b, A \cup B)
<1> DEFINE n == Len(a)
           k == Len(b)
           c == a \o b
<1>1. /\ n \in Nat /\ k \in Nat /\ DOMAIN a = 1 .. n /\ DOMAIN b = 1 .. k
      /\ DOMAIN c = 1 .. n + k
      /\ \A i \in 1 .. n : c[i] = a[i]
      /\ \A i \in 1 .. k : c[n + i] = b[i]
  OBVIOUS
<1> HIDE DEF n, k, c
<1>2. \A i \in DOMAIN c : i \in DOMAIN a \/ (i - n \in DOMAIN b /\ i = n + (i - n))
  BY <1>1
<1>3. \A i \in DOMAIN c : \/ i \in DOMAIN a /\ c[i] = a[i]
                          \/ i - n \in DOMAIN b /\ c[i] = b[i - n]
  <2> SUFFICES ASSUME NEW i \in DOMAIN c, i \notin DOMAIN a
               PROVE  i - n \in DOMAIN b /\ c[i] = b[i - n]
    BY <1>1
  <2>1. i - n \in 1 .. k /\ i = n + (i - n)
    BY <1>1, <1>2
  <2> DEFINE j == i - n
  <2> HIDE DEF j
  <2>2. j \in 1 .. k /\ i = n + j
    BY <2>1 DEF j
  <2>3. c[i] = b[j] /\ j \in DOMAIN b
    BY <1>1, <2>2
  <2> QED BY <2>3 DEF j
<1>4. (\A i \in DOMAIN a : i \in DOMAIN c) /\ \A i \in DOMAIN b : n + i \in DOMAIN c
  BY <1>1
<1>5. InQueue(c) = A \cup B
  <2>1. \A i \in DOMAIN c : c[i] \in A \cup B
    BY <1>3 DEF Holds, InQueue
  <2>2. \A x \in A : \E i \in DOMAIN c : c[i] = x
    BY <1>1, <1>4 DEF Holds, InQueue
  <2>3. \A x \in B : \E i \in DOMAIN c : c[i] = x
    BY <1>1, <1>4 DEF Holds, InQueue
  <2> QED BY <2>1, <2>2, <2>3 DEF InQueue
<1>6. NoRepeats(c)
  <2> SUFFICES ASSUME NEW i \in DOMAIN c, NEW j \in DOMAIN c, c[i] = c[j]
               PROVE  i = j
    BY DEF NoRepeats
  <2>1. CASE i \in DOMAIN a /\ c[i] = a[i] /\ j \in DOMAIN a /\ c[j] = a[j]
    BY <2>1 DEF Holds, NoRepeats
  <2>2. CASE i - n \in DOMAIN b /\ c[i] = b[i - n] /\ j - n \in DOMAIN b /\ c[j] = b[j - n]
    <3>1. i - n = j - n
      BY <2>2 DEF Holds, NoRepeats
    <3> QED BY <1>1, <3>1
  <2>3. (\A x \in DOMAIN a : a[x] \in A) /\ \A x \in DOMAIN b : b[x] \in B
    BY DEF Holds, InQueue
  <2> QED BY <1>3, <2>1, <2>2, <2>3
<1> QED BY <1>5, <1>6 DEF Holds, c

(* _wait() and _wake_waiter() keep the two wait lists, the run queues and  *)
(* the statuses in agreement and preempt as they should, for every number  *)
(* of threads and every queue size.                                        *)
THEOREM MboxLists ==
    ASSUME ~YieldWindow
    PROVE  MboxSpec => []ListsAgree
<1>1. MboxIInv => ListsAgree
  <2> SUFFICES ASSUME MboxIInv PROVE ListsAgree
    OBVIOUS
  <2>1. MboxTypeOK /\ RunqueuesAgree
    BY DEF MboxIInv, SchedInv, MboxTypes, MboxTypeOK
  <2>2. NoneMoreUrgent({})
    BY SchedInvUrgent DEF MboxIInv
  <2>3. {t \in Pids : sched.status[t] = "MBOX_BLOCKED"} = BlockedIn("get") \cup BlockedIn("put")
    BY DEF MboxIInv, MboxTypes, ListInv, BlockedIn
  <2>4. BlockedIn("get") \cap BlockedIn("put") = {}
    BY DEF BlockedIn
  <2>5. mbox.readers \in Seq(Pids) /\ mbox.writers \in Seq(Pids)
    BY MboxFacts
  <2>6. Holds(mbox.readers \o mbox.writers, BlockedIn("get") \cup BlockedIn("put"))
    BY <2>4, <2>5, ConcatHolds DEF MboxIInv, ListInv
  <2> QED BY <2>1, <2>2, <2>3, <2>6 DEF ListsAgree, MboxIInv, ListInv
<1> QED BY <1>1, MboxInvariant, PTL

(* mbox_get() returns with a message, and mbox_put() goes on only after a  *)
(* reader released it.                                                     *)
THEOREM MboxReturns ==
    ASSUME ~YieldWindow
    PROVE  MboxSpec => []ReturnsDone
<1>1. MboxIInv => ReturnsDone
  <2> SUFFICES ASSUME MboxIInv, NEW t \in Pids, Runs(t)
               PROVE  /\ call[t] = "get" => buf[t] # NoMsg
                      /\ call[t] = "put" => t \notin InQueue(mbox.writers)
    BY DEF ReturnsDone
  <2>1. sched.status[t] # "MBOX_BLOCKED" /\ BufInv(t)
    BY MboxRunner, MboxFacts DEF MboxIInv
  <2> QED BY <2>1, ListFacts DEF BufInv, BlockedIn
<1> QED BY <1>1, MboxInvariant, PTL

(* Unless an mbox_put() found the mailbox full, it is a bounded FIFO, for  *)
(* every queue size and every number of messages: _mbox_put() and          *)
(* _mbox_get() lose, repeat and reorder no message of a sender.            *)
THEOREM MboxFifo ==
    ASSUME ~YieldWindow
    PROVE  MboxSpec => []FifoUnlessWaited
<1>1. MboxIInv => FifoUnlessWaited
  BY DEF MboxIInv
<1> QED BY <1>1, MboxInvariant, PTL
=============================================================================
