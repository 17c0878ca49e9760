---------------------------- MODULE PriorityLock ----------------------------
(***************************************************************************)
(* What the mutex of core/mutex.c promises, without scheduler, statuses or *)
(* lists: a lock has one owner at a time; a release passes it straight to  *)
(* a waiter of the highest priority, first come first served among equals, *)
(* so that no other thread can take it in between.                         *)
(***************************************************************************)
EXTENDS Integers, Sequences

CONSTANTS Threads, Mutexes, Prios,
          Prio      \* [Threads -> Prios], 0 the most urgent

Free == 0

VARIABLES owner,    \* [Mutexes -> Threads \cup {Free}]
          waiting   \* [Mutexes -> [Prios -> Seq(Threads)]]

Init ==
    /\ owner = [m \in Mutexes |-> Free]
    /\ waiting = [m \in Mutexes |-> [p \in Prios |-> <<>>]]

Acquire(t, m) ==
    /\ owner[m] = Free
    /\ owner' = [owner EXCEPT ![m] = t]
    /\ UNCHANGED waiting

Wait(t, m) ==
    /\ owner[m] # Free
    /\ waiting' = [waiting EXCEPT ![m][Prio[t]] = Append(@, t)]
    /\ UNCHANGED owner

Release(m) ==
    /\ owner[m] # Free
    /\ \A p \in Prios : waiting[m][p] = <<>>
    /\ owner' = [owner EXCEPT ![m] = Free]
    /\ UNCHANGED waiting

HandOver(m, p) ==
    /\ owner[m] # Free
    /\ waiting[m][p] # <<>>
    /\ \A r \in Prios : r < p => waiting[m][r] = <<>>
    /\ owner' = [owner EXCEPT ![m] = Head(waiting[m][p])]
    /\ waiting' = [waiting EXCEPT ![m][p] = Tail(@)]

Next ==
    \E m \in Mutexes :
        \/ \E t \in Threads : Acquire(t, m) \/ Wait(t, m)
        \/ Release(m)
        \/ \E p \in Prios : HandOver(m, p)

Spec == Init /\ [][Next]_<<owner, waiting>>
=============================================================================
