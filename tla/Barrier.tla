------------------------------ MODULE Barrier ------------------------------
(***************************************************************************)
(* sys/posix/pthread/pthread_barrier.c.  A thread that has to wait gives   *)
(* up the barrier's mutex, takes it again, and sleeps until the last one   *)
(* has set cont.                                                           *)
(***************************************************************************)
EXTENDS Sync

CONSTANT Parties    \* the threads that meet, as many as the barrier counts

Rounds == 4         \* histories count modulo Rounds

VARIABLES
    barrier,    \* [count, next]: next is the list of waiting nodes, newest first
    party,      \* [cont, switch_prio] of each thread
    entered,    \* history: how often a thread has come to the barrier
    passed      \* history: how often it has passed it

barrierVars == <<barrier, party, entered, passed>>

pthread_barrier_init ==
    /\ barrier = [count |-> Cardinality(Parties), next |-> <<>>]
    /\ party = [t \in Parties |-> [cont |-> FALSE, switch_prio |-> -1]]
    /\ entered = [t \in Parties |-> 0]
    /\ passed = [t \in Parties |-> 0]

Bump(f, t) == [f EXCEPT ![t] = (@ + 1) % Rounds]

pthread_barrier_wait(t) ==
    /\ At(t, "out")
    /\ Lock(t, "arrive")
    /\ UNCHANGED barrierVars

(* "need to wait for further threads" *)
ArriveEarly(t) ==
    /\ At(t, "arrive")
    /\ barrier.count - 1 > 0
    /\ barrier' = [count |-> barrier.count - 1, next |-> <<t>> \o barrier.next]
    /\ party' = [party EXCEPT ![t].cont = FALSE]
    /\ entered' = Bump(entered, t)
    /\ Local(t, "arrived")
    /\ UNCHANGED passed

UnlockEarly(t) ==
    /\ At(t, "arrived")
    /\ Unlock(t, "to_check")
    /\ UNCHANGED barrierVars

RelockEarly(t) ==
    /\ At(t, "to_check")
    /\ Lock(t, "check_cont")
    /\ UNCHANGED barrierVars

(* cont is written by threads that have the mutex only. *)
CheckCont_Trusts(t) ==
    /\ At(t, "check_cont")
    /\ Local(t, "leave")
    /\ UNCHANGED barrierVars

CheckCont(t) ==
    /\ At(t, "check_cont")
    /\ IF party[t].cont THEN Local(t, "leave") ELSE Nap(t, "to_check")
    /\ UNCHANGED barrierVars

(* "all threads have arrived, wake everybody up": the list and the count   *)
(* are this thread's until it unlocks.  No interrupt is assumed to come in *)
(* the middle of sched_set_status().                                       *)
ArriveLast(t) ==
    /\ At(t, "arrive")
    /\ barrier.count - 1 <= 0
    /\ barrier' = [barrier EXCEPT !.count = 1]
    /\ entered' = Bump(entered, t)
    /\ Local(t, "wake")
    /\ UNCHANGED <<party, passed>>

WakeParty(t) ==
    LET u == Head(barrier.next)
    IN  /\ At(t, "wake")
        /\ barrier.next # <<>>
        /\ barrier' = [count |-> barrier.count + 1, next |-> Tail(barrier.next)]
        /\ party' = [party EXCEPT
                ![u].cont = TRUE,
                ![t].switch_prio = IF @ = -1 THEN priority[u] ELSE Least(@, priority[u])]
        /\ sched' = sched_set_status(sched, priority, u, "PENDING")
        /\ KeepsContext
        /\ UNCHANGED <<at, entered, passed, sched_context_switch_request, pc, other_prio,
                       mutexOpsVars>>

WokeParties(t) ==
    /\ At(t, "wake")
    /\ barrier.next = <<>>
    /\ Local(t, IF party[t].switch_prio = -1 THEN "leave" ELSE "drop_switch")
    /\ UNCHANGED barrierVars

LeaveWoken(t) ==
    /\ At(t, "leave")
    /\ Unlock(t, "out")
    /\ passed' = Bump(passed, t)
    /\ party' = [party EXCEPT ![t].cont = FALSE]
    /\ UNCHANGED <<barrier, entered>>

LeaveLast(t) ==
    /\ At(t, "drop_switch")
    /\ Unlock(t, "switch")
    /\ UNCHANGED barrierVars

SwitchToParties(t) ==
    /\ At(t, "switch")
    /\ Switch(t, party[t].switch_prio, "out")
    /\ party' = [party EXCEPT ![t].switch_prio = -1]
    /\ passed' = Bump(passed, t)
    /\ UNCHANGED <<barrier, entered>>

BarrierNext ==
    \/ \E t \in Parties :
         \/ pthread_barrier_wait(t) \/ ArriveEarly(t) \/ UnlockEarly(t) \/ RelockEarly(t)
         \/ CheckCont(t) \/ ArriveLast(t) \/ WakeParty(t) \/ WokeParties(t)
         \/ LeaveWoken(t) \/ LeaveLast(t) \/ SwitchToParties(t)
    \/ SyncEnv(Pids) /\ UNCHANGED barrierVars

-----------------------------------------------------------------------------
(* Nobody passes the barrier for the n-th time before everybody has come   *)
(* to it for the n-th time, although fast threads are back at the barrier  *)
(* while others are not yet out of it; and a thread that sleeps is in the  *)
(* list that the last one goes through.                                    *)
BarrierHolds ==
    /\ \A t, u \in Parties : (entered[u] - passed[t]) % Rounds # Rounds - 1
    /\ barrier.count + Len(barrier.next) = Cardinality(Parties)
    /\ \A t \in Parties : t \in InQueue(barrier.next) <=>
            at[t] \in {"arrived", "to_check", "check_cont"} /\ ~party[t].cont
=============================================================================
