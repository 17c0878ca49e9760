---------------------------- MODULE ThreadFlags ----------------------------
(***************************************************************************)
(* Thread flags: core/thread_flags.c over the scheduler of a port on which *)
(* thread_yield_higher() in a handler sets sched_context_switch_request    *)
(* (native).  A thread_flags_t is the set of its bits' numbers.            *)
(*                                                                         *)
(* The waiting functions are two or three critical sections: wait, choose  *)
(* (thread_flags_wait_one() reads the flags unprotected), clear.           *)
(***************************************************************************)
EXTENDS StaticThreads

CONSTANTS
    Flags,      \* bit numbers
    Waiters     \* threads that use their flags

ASSUME FlagsAssumption ==
    /\ Flags \subseteq 0 .. 15
    /\ Waiters \subseteq Pids \ {IdlePid}

Masks == SUBSET Flags \ {{}}

VARIABLES
    flags,      \* thread_t.flags
    wait_data,  \* the mask of the waiting function a thread is in
    at,         \* that function, and where in it
    tmp         \* thread_flags_wait_one()'s choice

flagVars == <<flags, wait_data, at, tmp>>
flagsSpecVars == <<schedVars, flagVars>>

(* thread_create() does not initialise the flags. *)
FlagsInit ==
    /\ SchedInit(Prio)
    /\ flags \in [Waiters -> SUBSET Flags]
    /\ wait_data = [t \in Waiters |-> {}]
    /\ at = [t \in Waiters |-> "none"]
    /\ tmp = [t \in Waiters |-> {}]

-----------------------------------------------------------------------------
CallsFlags(t) == InThread(t) /\ at[t] = "none"

(* What a blocked thread waits for, given its flags fs. *)
thread_flags_wake_AnyNeedsAll(t, fs) ==
    sched.status[t] \in {"FLAG_BLOCKED_ANY", "FLAG_BLOCKED_ALL"} /\ wait_data[t] \subseteq fs

thread_flags_wake_AllNeedsAny(t, fs) ==
    sched.status[t] \in {"FLAG_BLOCKED_ANY", "FLAG_BLOCKED_ALL"} /\ fs \cap wait_data[t] # {}

thread_flags_wake(t, fs) ==
    \/ sched.status[t] = "FLAG_BLOCKED_ANY" /\ fs \cap wait_data[t] # {}
    \/ sched.status[t] = "FLAG_BLOCKED_ALL" /\ wait_data[t] \subseteq fs

(* The first critical section of a waiting function: block or go on. *)
_thread_flags_wait(t, mask, fn, satisfied, status) ==
    /\ CallsFlags(t)
    /\ at' = [at EXCEPT ![t] = fn]
    /\ wait_data' = [wait_data EXCEPT ![t] = mask]
    /\ IF satisfied
       THEN UNCHANGED schedVars
       ELSE /\ sched' = sched_set_status(sched, priority, t, status)
            /\ YieldTail(t)
            /\ KeepsContext
    /\ UNCHANGED <<flags, tmp>>

_thread_flags_wait_any(t, mask, fn) ==
    _thread_flags_wait(t, mask, fn, flags[t] \cap mask # {}, "FLAG_BLOCKED_ANY")

thread_flags_wait_any(t, mask) == _thread_flags_wait_any(t, mask, "clear")

thread_flags_wait_one(t, mask) == _thread_flags_wait_any(t, mask, "choose")

thread_flags_wait_all(t, mask) ==
    _thread_flags_wait(t, mask, "clear_all", mask \subseteq flags[t], "FLAG_BLOCKED_ALL")

(* thread_flags_wait_one(): the least significant bit of flags & mask. *)
Choose(t) ==
    /\ InThread(t)
    /\ at[t] = "choose"
    /\ LET set == flags[t] \cap wait_data[t]
       IN  tmp' = [tmp EXCEPT ![t] = {f \in set : \A g \in set : f <= g}]
    /\ at' = [at EXCEPT ![t] = "clear_one"]
    /\ UNCHANGED <<schedVars, flags, wait_data>>

(* _thread_flags_clear_atomic(), with which the waiting functions return. *)
_thread_flags_clear_atomic_NeedsAll(t) ==
    /\ InThread(t)
    /\ at[t] \in {"clear", "clear_all", "clear_one"}
    /\ wait_data[t] \subseteq flags[t]
    /\ flags' = [flags EXCEPT ![t] = @ \ wait_data[t]]
    /\ at' = [at EXCEPT ![t] = "none"]
    /\ tmp' = [tmp EXCEPT ![t] = {}]
    /\ wait_data' = [wait_data EXCEPT ![t] = {}]
    /\ UNCHANGED schedVars

_thread_flags_clear_atomic(t) ==
    /\ InThread(t)
    /\ at[t] \in {"clear", "clear_all", "clear_one"}
    /\ flags' = [flags EXCEPT ![t] =
                    @ \ (IF at[t] = "clear_one" THEN tmp[t] ELSE wait_data[t])]
    /\ at' = [at EXCEPT ![t] = "none"]
    /\ tmp' = [tmp EXCEPT ![t] = {}]
    /\ wait_data' = [wait_data EXCEPT ![t] = {}]
    /\ UNCHANGED schedVars

thread_flags_clear(t, mask) ==
    /\ CallsFlags(t)
    /\ flags' = [flags EXCEPT ![t] = @ \ mask]
    /\ UNCHANGED <<schedVars, wait_data, at, tmp>>

(* thread_flags_set() by a thread, on itself too, or by a handler. *)
thread_flags_set(u, mask) ==
    /\ irq_is_in \/ \E t \in Pids : InThread(t) /\ (t \in Waiters => at[t] = "none")
    /\ flags' = [flags EXCEPT ![u] = @ \cup mask]
    /\ IF thread_flags_wake(u, flags'[u])
       THEN /\ sched' = sched_set_status(sched, priority, u, "RUNNING")
            /\ IF irq_is_in
               THEN sched_context_switch_request' = TRUE /\ UNCHANGED <<pc, other_prio>>
               ELSE YieldTail(sched_active_thread)
       ELSE UNCHANGED <<sched, pc, other_prio, sched_context_switch_request>>
    /\ KeepsContext
    /\ UNCHANGED <<wait_data, at, tmp>>

(* Other kernel calls, outside the flag functions. *)
OtherFlagsCall ==
    /\ \E t \in Pids : thread_wakeup(t)
    /\ ~irq_is_in /\ sched_active_thread \in Waiters => at[sched_active_thread] = "none"
    /\ UNCHANGED flagVars

FlagStep ==
    \/ \E t \in Waiters, mask \in Masks :
            \/ thread_flags_wait_any(t, mask) \/ thread_flags_wait_all(t, mask)
            \/ thread_flags_wait_one(t, mask) \/ thread_flags_clear(t, mask)
            \/ thread_flags_set(t, mask)
    \/ \E t \in Waiters : Choose(t) \/ _thread_flags_clear_atomic(t)

FlagsNext == FlagStep \/ OtherFlagsCall \/ (SchedStep /\ UNCHANGED flagVars)

FlagsSpec == FlagsInit /\ [][FlagsNext]_flagsSpecVars

(* Handlers end, and kernel code under way completes once it has the       *)
(* processor.                                                              *)
FlagsFairness ==
    /\ WF_flagsSpecVars(IsrExit /\ UNCHANGED flagVars)
    /\ SF_flagsSpecVars(\/ SwitchStep /\ UNCHANGED flagVars
               \/ \E t \in Waiters : Choose(t) \/ _thread_flags_clear_atomic(t))

FlagsFairSpec == FlagsSpec /\ FlagsFairness

-----------------------------------------------------------------------------
(* Types of the flag variables. *)
FlagTypeOK ==
    /\ flags \in [Waiters -> SUBSET Flags]
    /\ wait_data \in [Waiters -> SUBSET Flags]
    /\ at \in [Waiters -> {"none", "choose", "clear", "clear_all", "clear_one"}]
    /\ tmp \in [Waiters -> SUBSET Flags]

(* No notification is missed: a thread is blocked only while its condition *)
(* does not hold, also when the flags are set after it looked and before   *)
(* it left the processor.  Run queues and statuses agree, and              *)
(* thread_flags_set(), from threads and handlers, leaves no more urgent    *)
(* thread waiting for the processor.                                       *)
BlockedOnlyIfUnset ==
    /\ SchedTypeOK /\ FlagTypeOK
    /\ RunqueuesAgree /\ NoneMoreUrgent({})
    /\ \A t \in Waiters :
         /\ sched.status[t] = "FLAG_BLOCKED_ANY" => flags[t] \cap wait_data[t] = {}
         /\ sched.status[t] = "FLAG_BLOCKED_ALL" => ~(wait_data[t] \subseteq flags[t])

(* The waiting functions keep their promise (thread_flags.h) although they *)
(* clear in a later critical section than they waited in: at the clear,    *)
(* wait_any() finds a flag, wait_all() all of them, wait_one() the one it  *)
(* chose, and exactly one.                                                 *)
ReturnsWhatWasAwaited ==
    \A t \in Waiters : Runs(t) =>
        /\ at[t] \in {"clear", "choose"} => flags[t] \cap wait_data[t] # {}
        /\ at[t] = "clear_all" => wait_data[t] \subseteq flags[t]
        /\ at[t] = "clear_one" => Cardinality(tmp[t]) = 1 /\ tmp[t] \subseteq flags[t]

(* What thread t waits for has happened. *)
Satisfied(t) ==
    /\ at[t] # "none"
    /\ IF at[t] = "clear_all" THEN wait_data[t] \subseteq flags[t]
       ELSE flags[t] \cap wait_data[t] # {}

(* A thread more urgent than all others returns from its wait once what it *)
(* waits for has happened, whoever set the flags and whenever.             *)
SetFlagIsSeen ==
    \A t \in {t \in Waiters : \A u \in Pids \ {t} : Prio[t] < Prio[u]} :
        Satisfied(t) ~> at[t] = "none"
=============================================================================
