-------------------------------- MODULE Mbox --------------------------------
(***************************************************************************)
(* Mailboxes: core/mbox.c over the scheduler, one mailbox.                 *)
(*                                                                         *)
(* The messages of mbox->cib and msg_array are the sequence a reader would *)
(* see.  A message is its sender and its number.  Handlers use the         *)
(* non-blocking mbox_try_put(); Writers also use mbox_put(), Readers       *)
(* mbox_get().                                                             *)
(***************************************************************************)
EXTENDS StaticThreads

CONSTANTS
    Size,           \* queue_size, a power of two
    Writers, Readers,
    BlockingWriters,    \* the writers that use mbox_put()
    MaxMsgs         \* bound: messages of one sender

ISR == MAXTHREADS + 1   \* KERNEL_PID_ISR
Senders == Writers \cup {ISR}

ASSUME MboxAssumption ==
    /\ Size \in Nat \ {0}
    /\ Writers \subseteq Pids /\ Readers \subseteq Pids /\ BlockingWriters \subseteq Writers
    /\ MaxMsgs \in Nat

Msgs == [from : Senders, n : 1 .. MaxMsgs]
NoMsg == [from |-> 0, n |-> 0]

VARIABLES
    mbox,       \* [readers, writers, cib]
    buf,        \* a reader's wait_data; the message of a writer in mbox_put()
    call,       \* the blocking function a thread has not returned from
    sent,       \* history: messages put by a sender
    last,       \* history: number of a sender's last message taken out
    waited      \* history: some mbox_put() found the mailbox full

mboxVars == <<mbox, buf, call, sent, last, waited>>
mboxSpecVars == <<schedVars, mboxVars>>

MboxInit ==
    /\ SchedInit(Prio)
    /\ mbox = [readers |-> <<>>, writers |-> <<>>, cib |-> <<>>]
    /\ buf = [t \in Pids |-> NoMsg]
    /\ call = [t \in Pids |-> "none"]
    /\ sent = [s \in Senders |-> 0]
    /\ last = [s \in Senders |-> 0]
    /\ waited = FALSE

-----------------------------------------------------------------------------
Calls(t) == InThread(t) /\ call[t] = "none"

(* Sender s puts its next message: a thread, or a handler. *)
Puts(s) ==
    /\ IF s = ISR THEN irq_is_in ELSE Calls(s)
    /\ sent[s] < MaxMsgs

NextMsg(s) == [from |-> s, n |-> sent[s] + 1]

Sent(s) == sent' = [sent EXCEPT ![s] = @ + 1]

Taken(m) == last' = [last EXCEPT ![m.from] = m.n]

(* cib_put_unsafe(): the write count advances whether or not there is      *)
(* room; beyond Size, the entry that is written is the one not yet read.   *)
cib_put_unsafe(q, m) ==
    [i \in 1 .. Len(q) + 1 |-> IF i % Size = (Len(q) + 1) % Size THEN m ELSE q[i]]

cib_full_Late == Len(mbox.cib) > Size

cib_full == Len(mbox.cib) >= Size

(* _wake_waiter(): in the caller's critical section, then sched_switch(). *)
_wake_waiter(t) ==
    /\ sched' = sched_set_status(sched, priority, t, "PENDING")
    /\ SwitchTail(sched', priority[t])

(* _wait(): blocks, then calls thread_yield() with interrupts enabled. *)
_wait(t, fn) ==
    /\ sched' = sched_set_status(sched, priority, t, "MBOX_BLOCKED")
    /\ call' = [call EXCEPT ![t] = fn]
    /\ Tail_(t, "thread_yield", 0)
    /\ UNCHANGED sched_context_switch_request

(* *(msg_t * ) thread->wait_data = *msg *)
Deliver_NotCopied(r, m) == UNCHANGED buf

Deliver(r, m) == buf' = [buf EXCEPT ![r] = m]

(* _mbox_put(), a reader is waiting. *)
PutToReader(s) ==
    /\ Puts(s)
    /\ mbox.readers # <<>>
    /\ LET r == Head(mbox.readers)
       IN  /\ Deliver(r, NextMsg(s))
           /\ _wake_waiter(r)
    /\ mbox' = [mbox EXCEPT !.readers = Tail(@)]
    /\ Sent(s)
    /\ Taken(NextMsg(s))
    /\ KeepsContext
    /\ UNCHANGED <<call, waited>>

(* _mbox_put(), there is room. *)
PutQueued(s) ==
    /\ Puts(s)
    /\ mbox.readers = <<>>
    /\ ~cib_full
    /\ mbox' = [mbox EXCEPT !.cib = cib_put_unsafe(@, NextMsg(s))]
    /\ Sent(s)
    /\ UNCHANGED <<schedVars, buf, call, last, waited>>

(* mbox_put(), the mailbox is full (mbox_try_put() returns 0). *)
PutWaits(t) ==
    /\ t \in BlockingWriters
    /\ Puts(t)
    /\ mbox.readers = <<>>
    /\ cib_full
    /\ mbox' = [mbox EXCEPT !.writers = thread_add_to_list(@, t)]
    /\ buf' = [buf EXCEPT ![t] = NextMsg(t)]
    /\ _wait(t, "put")
    /\ Sent(t)
    /\ waited' = TRUE
    /\ KeepsContext
    /\ UNCHANGED last

(* mbox_put() after _wait(): the message goes into the queue. *)
PutResumes(t) ==
    /\ InThread(t)
    /\ call[t] = "put"
    /\ mbox' = [mbox EXCEPT !.cib = cib_put_unsafe(@, buf[t])]
    /\ buf' = [buf EXCEPT ![t] = NoMsg]
    /\ call' = [call EXCEPT ![t] = "none"]
    /\ UNCHANGED <<schedVars, sent, last, waited>>

(* _mbox_get(), there is a message: take it and wake the first writer. *)
GetQueued(t) ==
    /\ t \in Readers
    /\ Calls(t)
    /\ mbox.cib # <<>>
    /\ mbox' = [mbox EXCEPT !.cib = Tail(@), !.writers = IF @ = <<>> THEN @ ELSE Tail(@)]
    /\ Taken(Head(mbox.cib))
    /\ IF mbox.writers # <<>>
       THEN _wake_waiter(Head(mbox.writers))
       ELSE UNCHANGED <<sched, pc, other_prio, sched_context_switch_request>>
    /\ KeepsContext
    /\ UNCHANGED <<buf, call, sent, waited>>

(* mbox_get(), the mailbox is empty (mbox_try_get() returns 0). *)
GetWaits(t) ==
    /\ t \in Readers
    /\ Calls(t)
    /\ mbox.cib = <<>>
    /\ mbox' = [mbox EXCEPT !.readers = thread_add_to_list(@, t)]
    /\ buf' = [buf EXCEPT ![t] = NoMsg]
    /\ _wait(t, "get")
    /\ KeepsContext
    /\ UNCHANGED <<sent, last, waited>>

(* mbox_get() after _wait(): "sender has copied message". *)
GetReturns(t) ==
    /\ InThread(t)
    /\ call[t] = "get"
    /\ buf' = [buf EXCEPT ![t] = NoMsg]
    /\ call' = [call EXCEPT ![t] = "none"]
    /\ UNCHANGED <<schedVars, mbox, sent, last, waited>>

(* Other kernel calls, outside the mailbox functions. *)
OtherCall ==
    /\ \E t \in Pids : thread_wakeup(t)
    /\ irq_is_in \/ call[sched_active_thread] = "none"
    /\ UNCHANGED mboxVars

MboxStep ==
    \/ \E s \in Senders : PutToReader(s) \/ PutQueued(s)
    \/ \E t \in Pids : \/ PutWaits(t) \/ PutResumes(t)
                       \/ GetQueued(t) \/ GetWaits(t) \/ GetReturns(t)

MboxNext == MboxStep \/ OtherCall \/ (SchedStep /\ UNCHANGED mboxVars)

MboxSpec == MboxInit /\ [][MboxNext]_mboxSpecVars

-----------------------------------------------------------------------------
(* Types. *)
MboxTypeOK ==
    /\ SchedTypeOK
    /\ mbox \in [readers : Seq(Readers), writers : Seq(BlockingWriters), cib : Seq(Msgs)]
    /\ buf \in [Pids -> Msgs \cup {NoMsg}]
    /\ call \in [Pids -> {"none", "put", "get"}]
    /\ sent \in [Senders -> 0 .. MaxMsgs]
    /\ last \in [Senders -> 0 .. MaxMsgs]
    /\ waited \in BOOLEAN

(* A thread is MBOX_BLOCKED exactly while it is on one of the two wait     *)
(* lists (through its only list entry), which are in priority order, and   *)
(* run queues and statuses agree: _wait() and _wake_waiter() keep the      *)
(* three lists apart, interrupts in the middle of _wait() included, and    *)
(* leave no more urgent thread waiting for the processor.                  *)
ListsAgree ==
    LET waiting == mbox.readers \o mbox.writers
    IN  /\ MboxTypeOK
        /\ RunqueuesAgree /\ NoneMoreUrgent({})
        /\ Holds(waiting, {t \in Pids : sched.status[t] = "MBOX_BLOCKED"})
        /\ SortedByPriority(mbox.readers) /\ SortedByPriority(mbox.writers)

(* Every mbox_get() that returns has a message, and no mbox_put() goes on  *)
(* before a reader released it.                                            *)
ReturnsDone ==
    \A t \in Pids : Runs(t) =>
        /\ call[t] = "get" => buf[t] # NoMsg
        /\ call[t] = "put" => t \notin InQueue(mbox.writers)

(* A reader waits only if there is no message: mbox.h says mbox_get() "will*)
(* block until a message becomes available".                               *)
ReaderWaitsOnlyIfEmpty == mbox.readers # <<>> => mbox.cib = <<>>

(* The queue never holds more than its array does: cib.h says              *)
(* cib_put_unsafe() "*must not* be called if buffer is full".              *)
NoOverflow == Len(mbox.cib) <= Size

(* The numbers of the messages of sender s in the queue. *)
Queued(s) == {mbox.cib[i].n : i \in {i \in DOMAIN mbox.cib : mbox.cib[i].from = s}}

(* As long as no mbox_put() had to wait, the mailbox is a bounded FIFO:    *)
(* it does not overflow, readers wait only if it is empty, and every       *)
(* message of a sender is taken once and in order, whether through the     *)
(* queue or handed to a waiting reader: the queue holds, in order, exactly *)
(* those after the last one taken, up to the last one put.                 *)
FifoUnlessWaited ==
    ~waited =>
        /\ NoOverflow
        /\ ReaderWaitsOnlyIfEmpty
        /\ \A i, j \in DOMAIN mbox.cib :
             i < j /\ mbox.cib[i].from = mbox.cib[j].from => mbox.cib[i].n < mbox.cib[j].n
        /\ \A s \in Senders : last[s] <= sent[s] /\ Queued(s) = (last[s] + 1) .. sent[s]
=============================================================================
