------------------------------- MODULE Sched -------------------------------
(***************************************************************************)
(* The scheduler of core/sched.c together with the two things every other  *)
(* kernel primitive needs from a port: when a context switch may happen,   *)
(* and what an interrupt does when it returns.                             *)
(*                                                                         *)
(* Granularity.  RIOT runs on one core.  A kernel call is a critical       *)
(* section (irq_disable .. irq_restore) followed by a tail that runs with  *)
(* interrupts enabled: sched_switch(prio), thread_yield_higher(), or       *)
(* nothing.  The critical section is one step; the tail is a step of its   *)
(* own, recorded in pc, so an interrupt can arrive between the two.        *)
(* An interrupt handler is IsrEnter, any number of kernel calls, IsrExit.  *)
(*                                                                         *)
(* Ports.  sched_run() is never preempted: native and msp430 call it with  *)
(* interrupts masked, and Cortex-M calls it from the PendSV and SVC        *)
(* exceptions, which cortexm_init() gives the priority of all interrupts;  *)
(* a pended PendSV is taken before any interrupt of that priority.  The    *)
(* ports differ in what the end of a handler does, and each leaves a       *)
(* window: Cortex-M enables interrupts before the SVC that leaves an       *)
(* exited thread; native's thread_yield_higher() sets _native_in_isr       *)
(* before it masks signals, and a signal in between is handled in place of *)
(* the scheduler.  Window says whether interrupts do arrive there.         *)
(***************************************************************************)
EXTENDS Integers, Sequences, FiniteSets

CONSTANTS
    MAXTHREADS,         \* size of the thread table
    SCHED_PRIO_LEVELS,  \* number of run queues; 0 is the highest priority
    Port,               \* "cortexm" or "native"
    Window              \* interrupts do arrive in the window the port leaves open

ASSUME SchedAssumption ==
    /\ MAXTHREADS \in Nat \ {0}
    /\ SCHED_PRIO_LEVELS \in Nat \ {0}
    /\ Port \in {"cortexm", "native"}
    /\ Window \in BOOLEAN

(* Interrupts arrive while no thread is active. *)
ExitWindow == Port = "cortexm" /\ Window

(* Signals arrive between "_native_in_isr = 1" and irq_disable(). *)
YieldWindow == Port = "native" /\ Window

KERNEL_PID_UNDEF == 0
Pids == 1 .. MAXTHREADS
Prios == 0 .. (SCHED_PRIO_LEVELS - 1)
THREAD_PRIORITY_IDLE == SCHED_PRIO_LEVELS - 1

(* The idle thread is the first one kernel_init() creates; it never blocks. *)
IdlePid == 1

OnRunqueue == {"RUNNING", "PENDING"}
Blocked == {"STOPPED", "SLEEPING", "MUTEX_BLOCKED", "RECEIVE_BLOCKED",
            "SEND_BLOCKED", "REPLY_BLOCKED", "FLAG_BLOCKED_ANY",
            "FLAG_BLOCKED_ALL", "MBOX_BLOCKED"}
Status == Blocked \cup OnRunqueue

(* What a thread does next: its own code, or the tail of a kernel call. *)
Labels == {"run", "yield_higher", "sched_switch", "thread_yield"}

(* Tails after which the scheduler runs, whatever happens before. *)
Yields == {"yield_higher", "thread_yield"}

VARIABLES
    sched,          \* [status, runqueues, bitcache]: what sched_set_status() writes
    priority,       \* thread_t.priority
    sched_active_thread,            \* 0 stands for NULL
    sched_context_switch_request,
    irq_is_in,      \* an interrupt handler is running
    pc,             \* [Pids -> Labels]
    other_prio      \* the argument of a pending sched_switch()

schedVars == <<sched, priority, sched_active_thread, sched_context_switch_request,
               irq_is_in, pc, other_prio>>

-----------------------------------------------------------------------------
(* core/include/clist.h: the circular list as the sequence it represents,  *)
(* first element first.                                                    *)
clist_rpush_Front(q, t) == <<t>> \o q

clist_rpush(q, t) == Append(q, t)

clist_lpop(q) == IF q = <<>> THEN q ELSE Tail(q)

clist_lpoprpush(q) == IF q = <<>> THEN q ELSE Append(Tail(q), Head(q))

(* bitarithm_lsb(runqueue_bitcache): the least priority whose bit is set. *)
bitarithm_lsb(S) == CHOOSE p \in S : \A r \in S : p <= r

(* runqueue_bitcache |= 1 << p, runqueue_bitcache &= ~(1 << p) *)
SetBit_OffByOne(bits, p) == bits \cup {p + 1}

SetBit(bits, p) == bits \cup {p}

ClearBit_Never(bits, p) == bits

ClearBit(bits, p) == bits \ {p}

(* The run queue is only ever popped at its head, whoever the thread is:   *)
(* sched_set_status() relies on a thread that leaves being the first one.  *)
sched_set_status(k, prio, t, st) ==
    LET p == prio[t]
        enters == st \in OnRunqueue /\ k.status[t] \notin OnRunqueue
        leaves == st \notin OnRunqueue /\ k.status[t] \in OnRunqueue
        q == IF enters THEN clist_rpush(k.runqueues[p], t)
             ELSE IF leaves THEN clist_lpop(k.runqueues[p])
             ELSE k.runqueues[p]
    IN  [status    |-> [k.status EXCEPT ![t] = st],
         runqueues |-> [k.runqueues EXCEPT ![p] = q],
         bitcache  |-> IF enters THEN SetBit(k.bitcache, p)
                       ELSE IF leaves /\ q = <<>> THEN ClearBit(k.bitcache, p)
                       ELSE k.bitcache]

(* thread_yield()'s critical section: the active thread's queue rotates. *)
Rotate(k, t) ==
    IF k.status[t] \in OnRunqueue
    THEN [k EXCEPT !.runqueues[priority[t]] = clist_lpoprpush(@)]
    ELSE k

(* thread_add_to_list(): a wait list is sorted by priority; a thread goes  *)
(* behind those of its own priority.                                       *)
thread_add_to_list_Last(q, t) == Append(q, t)

thread_add_to_list_BeforeEquals(q, t) ==
    LET n == CHOOSE n \in 0 .. Len(q) :
                /\ \A i \in 1 .. n : priority[q[i]] < priority[t]
                /\ n = Len(q) \/ priority[q[n + 1]] >= priority[t]
    IN  SubSeq(q, 1, n) \o <<t>> \o SubSeq(q, n + 1, Len(q))

thread_add_to_list(q, t) ==
    LET n == CHOOSE n \in 0 .. Len(q) :
                /\ \A i \in 1 .. n : priority[q[i]] <= priority[t]
                /\ n = Len(q) \/ priority[q[n + 1]] > priority[t]
    IN  SubSeq(q, 1, n) \o <<t>> \o SubSeq(q, n + 1, Len(q))

(* sched_run()'s choice. *)
NextThread(k) == Head(k.runqueues[bitarithm_lsb(k.bitcache)])

(* sched_run(): clears the request and switches to the first thread of     *)
(* the highest non-empty run queue; a thread that is active already keeps  *)
(* its status.                                                             *)
sched_run(k) ==
    LET n == NextThread(k)
    IN  /\ sched' = IF sched_active_thread = n THEN k
                    ELSE [k EXCEPT !.status = [t \in Pids |->
                            IF t = n THEN "RUNNING"
                            ELSE IF t = sched_active_thread /\ k.status[t] = "RUNNING"
                            THEN "PENDING" ELSE k.status[t]]]
        /\ sched_active_thread' = n
        /\ sched_context_switch_request' = FALSE

(* sched_switch()'s condition: must a thread of priority prio replace the  *)
(* active one, given run queues k?                                         *)
MustSwitch_Reversed(k, prio) ==
    \/ k.status[sched_active_thread] \notin OnRunqueue
    \/ priority[sched_active_thread] < prio

MustSwitch(k, prio) ==
    \/ k.status[sched_active_thread] \notin OnRunqueue
    \/ priority[sched_active_thread] > prio

-----------------------------------------------------------------------------
(* Thread t may execute: it is active and no handler runs. *)
Executes(t) == sched_active_thread = t /\ ~irq_is_in

(* Thread t executes its own code: it may make a kernel call. *)
Runs(t) == Executes(t) /\ pc[t] = "run"

(* The tail of a kernel call of the active thread: next label, argument. *)
Tail_(t, label, prio) ==
    /\ pc' = [pc EXCEPT ![t] = label]
    /\ other_prio' = [other_prio EXCEPT ![t] = prio]

(* What a kernel call leaves alone when it changes no scheduling state     *)
(* beyond the run queues.                                                  *)
KeepsContext == UNCHANGED <<priority, sched_active_thread, irq_is_in>>

(* A wake-up done by a kernel call, with run queues k after the critical   *)
(* section: a thread calls sched_switch() next; in a handler sched_switch  *)
(* only records the request.  With no active thread it reads through a     *)
(* NULL pointer: any outcome.                                              *)
SwitchTail(k, prio) ==
    IF irq_is_in
    THEN /\ IF sched_active_thread = 0
            THEN sched_context_switch_request' \in {sched_context_switch_request, TRUE}
            ELSE sched_context_switch_request' =
                    (sched_context_switch_request \/ MustSwitch(k, prio))
         /\ UNCHANGED <<pc, other_prio>>
    ELSE /\ Tail_(sched_active_thread, "sched_switch", prio)
         /\ UNCHANGED sched_context_switch_request

(* A kernel call that ends in thread_yield_higher(). *)
YieldTail(t) ==
    /\ Tail_(t, "yield_higher", 0)
    /\ UNCHANGED sched_context_switch_request

-----------------------------------------------------------------------------
(* thread_yield_higher() called by a thread.  In native's window,          *)
(* isr_thread_yield() calls native_irq_handler(), which does not return:   *)
(* after the handler, cpu_switch_context_exit() runs the scheduler only if *)
(* the handler asked for it.                                               *)
YieldHigher(t) ==
    /\ Executes(t)
    /\ pc[t] = "yield_higher"
    /\ Tail_(t, "run", 0)
    /\ irq_is_in' \in IF YieldWindow THEN BOOLEAN ELSE {FALSE}
    /\ IF irq_is_in'
       THEN UNCHANGED <<sched, sched_active_thread, sched_context_switch_request>>
       ELSE sched_run(sched)
    /\ UNCHANGED priority

(* thread_yield() called as the tail of a kernel call: the critical        *)
(* section rotates the queue only if the caller is on it.                  *)
ThreadYield(t) ==
    /\ Executes(t)
    /\ pc[t] = "thread_yield"
    /\ sched' = Rotate(sched, t)
    /\ YieldTail(t)
    /\ KeepsContext

(* sched_switch() called by a thread, interrupts enabled. *)
SchedSwitch(t) ==
    /\ Executes(t)
    /\ pc[t] = "sched_switch"
    /\ Tail_(t, IF MustSwitch(sched, other_prio[t]) THEN "yield_higher" ELSE "run", 0)
    /\ UNCHANGED <<sched, sched_context_switch_request>>
    /\ KeepsContext

(* Interrupts do not nest. *)
IsrEnter ==
    /\ ~irq_is_in
    /\ sched_active_thread # 0 \/ ExitWindow
    /\ irq_is_in' = TRUE
    /\ UNCHANGED <<sched, priority, sched_active_thread, sched_context_switch_request,
                   pc, other_prio>>

(* End of a handler.  If a switch was requested, cortexm_isr_end() calls   *)
(* thread_yield(), which rotates the interrupted thread's queue before the *)
(* scheduler runs (with no active thread it reads status and priority      *)
(* through NULL: any queue may rotate); the other ports only run the       *)
(* scheduler.                                                              *)
IsrExit ==
    /\ irq_is_in
    /\ irq_is_in' = FALSE
    /\ UNCHANGED <<priority, pc, other_prio>>
    /\ \/ /\ ~sched_context_switch_request
          /\ UNCHANGED <<sched, sched_active_thread, sched_context_switch_request>>
       \/ /\ sched_context_switch_request
          /\ Port = "native"
          /\ sched_run(sched)
       \/ /\ sched_context_switch_request
          /\ Port = "cortexm"
          /\ sched_active_thread # 0
          /\ sched_run(Rotate(sched, sched_active_thread))
       \/ /\ sched_context_switch_request
          /\ Port = "cortexm"
          /\ sched_active_thread = 0
          /\ \/ sched_run(sched)
             \/ \E p \in Prios :
                    sched_run([sched EXCEPT !.runqueues[p] = clist_lpoprpush(@)])

(* cpu_switch_context_exit(): no thread is active, run the next one. *)
cpu_switch_context_exit_OnRequest ==
    /\ sched_active_thread = 0
    /\ ~irq_is_in
    /\ sched_context_switch_request
    /\ sched_run(sched)
    /\ UNCHANGED <<priority, irq_is_in, pc, other_prio>>

cpu_switch_context_exit ==
    /\ sched_active_thread = 0
    /\ ~irq_is_in
    /\ sched_run(sched)
    /\ UNCHANGED <<priority, irq_is_in, pc, other_prio>>

(* The steps of the port and of kernel-call tails. *)
SwitchStep ==
    \/ \E t \in Pids : YieldHigher(t) \/ SchedSwitch(t) \/ ThreadYield(t)
    \/ cpu_switch_context_exit

SchedStep == SwitchStep \/ IsrEnter \/ IsrExit

-----------------------------------------------------------------------------
(* A kernel call can be made by the thread that runs (the idle thread      *)
(* makes none) or by a handler.                                            *)
InThread(t) == t # IdlePid /\ Runs(t)

InKernelCall == irq_is_in \/ \E t \in Pids : InThread(t)

(* thread_sleep() returns at once in a handler. *)
thread_sleep(t) ==
    /\ InThread(t)
    /\ sched' = sched_set_status(sched, priority, t, "SLEEPING")
    /\ YieldTail(t)
    /\ KeepsContext

(* thread_wakeup(pid): only a sleeping thread is woken, and its status     *)
(* becomes STATUS_RUNNING.                                                 *)
thread_wakeup(pid) ==
    /\ InKernelCall
    /\ sched.status[pid] = "SLEEPING"
    /\ sched' = sched_set_status(sched, priority, pid, "RUNNING")
    /\ SwitchTail(sched', priority[pid])
    /\ KeepsContext

(* thread_yield(): to the end of the own run queue. *)
thread_yield(t) ==
    /\ InThread(t)
    /\ sched' = Rotate(sched, t)
    /\ YieldTail(t)
    /\ KeepsContext

SleepWakeYield ==
    \E t \in Pids : thread_sleep(t) \/ thread_wakeup(t) \/ thread_yield(t)

(* A start state for the modules that use the scheduler: every thread but  *)
(* idle was created with THREAD_CREATE_SLEEPING, in the state kernel_init()*)
(* leaves, with no active thread.                                          *)
SchedInit(prio) ==
    /\ priority = prio
    /\ sched = sched_set_status([status |-> [t \in Pids |-> "SLEEPING"],
                                 runqueues |-> [p \in Prios |-> <<>>], bitcache |-> {}],
                                priority, IdlePid, "PENDING")
    /\ sched_active_thread = 0
    /\ sched_context_switch_request = FALSE
    /\ irq_is_in = FALSE
    /\ pc = [t \in Pids |-> "run"]
    /\ other_prio = [t \in Pids |-> 0]

-----------------------------------------------------------------------------
(* Types of the scheduling state. *)
RunState == [status : [Pids -> Status], runqueues : [Prios -> Seq(Pids)],
             bitcache : SUBSET Prios]

SchedTypeOK ==
    /\ sched \in RunState
    /\ priority \in [Pids -> Prios]
    /\ sched_active_thread \in Pids \cup {0}
    /\ sched_context_switch_request \in BOOLEAN
    /\ irq_is_in \in BOOLEAN
    /\ pc \in [Pids -> Labels]
    /\ other_prio \in [Pids -> Prios]

(* Queue q holds the threads of S, each once. *)
InQueue(q) == {q[i] : i \in DOMAIN q}

NoRepeats(q) == \A i, j \in DOMAIN q : q[i] = q[j] => i = j

Holds(q, S) == InQueue(q) = S /\ NoRepeats(q)

(* A wait list in the order threads are to be served. *)
SortedByPriority(q) ==
    \A i, j \in DOMAIN q : i < j => priority[q[i]] <= priority[q[j]]

(* The threads that belong in the run queue of priority p. *)
Ready(k, prio, p) == {t \in Pids : prio[t] = p /\ k.status[t] \in OnRunqueue}

Agree(k, prio) ==
    \A p \in Prios :
        /\ Holds(k.runqueues[p], Ready(k, prio, p))
        /\ p \in k.bitcache <=> k.runqueues[p] # <<>>

(* Run queues and statuses agree: the queue of a priority holds exactly    *)
(* the threads of that priority whose status is RUNNING or PENDING, each   *)
(* once, and the bit cache names exactly the queues that are not empty     *)
(* (sched_run() dereferences the first entry of the queue the cache names).*)
RunqueuesAgree == Agree(sched, priority)

IsFirst(k, prio, t) ==
    /\ k.status[t] \in OnRunqueue
    /\ k.runqueues[prio[t]] # <<>>
    /\ Head(k.runqueues[prio[t]]) = t

(* sched_set_status() takes a thread off the run queue with clist_lpop(),  *)
(* that is, it removes whoever is first.  That is right only because a     *)
(* thread that executes its own code is the first of its queue, whatever   *)
(* interrupts, yields and preempted scheduler runs came before.            *)
RunnerIsFirst ==
    \A t \in Pids : Runs(t) => IsFirst(sched, priority, t)

(* Fixed-priority preemption (core/include/sched.h): while a thread        *)
(* executes its own code, no thread outside the set Exempt is ready at a   *)
(* strictly higher priority.                                               *)
NoneMoreUrgent(Exempt) ==
    \A t \in Pids : Runs(t) =>
        \A u \in Pids \ Exempt :
            sched.status[u] \in OnRunqueue => priority[t] <= priority[u]

-----------------------------------------------------------------------------
(* What keeps RunnerIsFirst and NoneMoreUrgent true between kernel calls.  *)

(* The idle thread is always ready: sched_run() always finds a thread. *)
IdleIsReady == sched.status[IdlePid] \in OnRunqueue

(* The active thread is first unless the scheduler is going to run before  *)
(* its own code does: it is about to yield, the end of the handler will    *)
(* switch, or it calls sched_switch() while it waits for a reply.          *)
ActiveIsFirst ==
    /\ sched_active_thread # 0
    /\ pc[sched_active_thread] \notin Yields
    /\ ~sched_context_switch_request
    /\ ~(/\ pc[sched_active_thread] = "sched_switch"
         /\ sched.status[sched_active_thread] = "REPLY_BLOCKED")
    => IsFirst(sched, priority, sched_active_thread)

RequestInIsr == sched_context_switch_request => irq_is_in

(* If thread u is ready and more urgent than the active thread, the        *)
(* scheduler is going to run before the active thread's own code does.     *)
SwitchAhead(u) ==
    /\ sched_active_thread # 0
    /\ sched.status[u] \in OnRunqueue
    /\ priority[u] < priority[sched_active_thread]
    => \/ sched_context_switch_request
       \/ pc[sched_active_thread] \in Yields
       \/ /\ pc[sched_active_thread] = "sched_switch"
          /\ other_prio[sched_active_thread] < priority[sched_active_thread]

SchedInv ==
    /\ SchedTypeOK
    /\ RunqueuesAgree
    /\ IdleIsReady
    /\ ActiveIsFirst
    /\ RequestInIsr
=============================================================================
