-------------------------------- MODULE Msg --------------------------------
(***************************************************************************)
(* Message passing: core/msg.c over the scheduler.                         *)
(*                                                                         *)
(* A message is its route and its number on that route; requests and       *)
(* replies are told apart.  A thread's msg_queue is the FIFO that cib.h    *)
(* implements, of QueueSize[t] entries; before msg_init_queue() there is   *)
(* none.                                                                   *)
(* thread_t.wait_data points to one buffer at a time: the receive buffer,  *)
(* the message a blocked sender offers, or the buffer of                   *)
(* msg_send_receive(), which holds first the request, then the reply;      *)
(* buf is what that buffer holds.                                          *)
(*                                                                         *)
(* Use.  Threads send along Routes; a request is answered once, by the     *)
(* thread that received it or by a handler on its behalf.                  *)
(***************************************************************************)
EXTENDS StaticThreads

CONSTANTS
    Routes,         \* <<from, to>>, from a thread or ISR, for plain messages
    RequestRoutes,  \* <<from, to>> for msg_send_receive()
    QueueSize,      \* what a thread gives to msg_init_queue(); 0: never called
    MaxMsgs         \* bound: messages sent on one route

ISR == MAXTHREADS + 1   \* KERNEL_PID_ISR
Senders == Pids \cup {ISR}

ASSUME MsgAssumption ==
    /\ Routes \subseteq Senders \X Pids
    /\ RequestRoutes \subseteq Pids \X Pids
    /\ \A r \in RequestRoutes : r[1] # r[2]
    /\ QueueSize \in [Pids -> Nat]
    /\ MaxMsgs \in Nat

Msgs == [from : Senders, n : 1 .. MaxMsgs, kind : {"msg", "request", "reply"}]
NoMsg == [from |-> 0, n |-> 0, kind |-> "none"]

VARIABLES
    queue,      \* msg_array and msg_queue
    inited,     \* threads that called msg_init_queue()
    waiters,    \* msg_waiters: threads blocked sending to this thread
    buf,        \* what wait_data points to
    call,       \* the blocking function a thread has not returned from
    sent,       \* history: messages sent on a route
    last,       \* history: number of the last message received on a route
    owed        \* history: requests a thread received and has not answered

msgVars == <<queue, inited, waiters, buf, call, sent, last, owed>>
vars == <<schedVars, msgVars>>

AllRoutes == Routes \cup RequestRoutes

Init ==
    /\ SchedInit(Prio)
    /\ queue = [t \in Pids |-> <<>>]
    /\ inited = {}
    /\ waiters = [t \in Pids |-> <<>>]
    /\ buf = [t \in Pids |-> NoMsg]
    /\ call = [t \in Pids |-> "none"]
    /\ sent = [r \in AllRoutes |-> 0]
    /\ last = [r \in AllRoutes |-> 0]
    /\ owed = [t \in Pids |-> {}]

-----------------------------------------------------------------------------
(* Thread t is in its own code, outside every message function. *)
Calls(t) == InThread(t) /\ call[t] = "none"

(* The next message on a route; sent' counts those that were accepted. *)
NextMsg(r, kind) == [from |-> r[1], n |-> sent[r] + 1, kind |-> kind]

Accepted(r) == sent' = [sent EXCEPT ![r] = @ + 1]

(* queue_msg(): the entry cib_put() gives, if the queue is not full. *)
HasRoom(u) == u \in inited /\ Len(queue[u]) < QueueSize[u]

queue_msg_NotCopied(u, m) == UNCHANGED queue

queue_msg(u, m) == queue' = [queue EXCEPT ![u] = Append(@, m)]

(* _msg_send() by thread t, with run queues k (msg_send_receive() has      *)
(* already made t REPLY_BLOCKED) and buffers b (msg_send_receive() has     *)
(* copied the request), in its three outcomes.  A direct delivery always   *)
(* yields.                                                                 *)
SendDirect(k, t, u, m, b) ==
    /\ k.status[u] = "RECEIVE_BLOCKED"
    /\ buf' = [b EXCEPT ![u] = m]
    /\ sched' = sched_set_status(k, priority, u, "PENDING")
    /\ YieldTail(t)
    /\ UNCHANGED <<queue, waiters>>

(* A queued message: only a thread that waits for a reply has to yield,    *)
(* and only if it still does when it gets there.                           *)
SendQueued(k, t, u, m, b) ==
    /\ k.status[u] # "RECEIVE_BLOCKED"
    /\ HasRoom(u)
    /\ queue_msg(u, m)
    /\ buf' = b
    /\ sched' = k
    /\ IF k.status[t] = "REPLY_BLOCKED"
       THEN Tail_(t, "sched_switch", THREAD_PRIORITY_IDLE)
       ELSE UNCHANGED <<pc, other_prio>>
    /\ UNCHANGED <<waiters, sched_context_switch_request>>

BlockedStatus(k, t) ==
    IF k.status[t] = "REPLY_BLOCKED" THEN "REPLY_BLOCKED" ELSE "SEND_BLOCKED"

SendBlocks(k, t, u, m, b) ==
    /\ k.status[u] # "RECEIVE_BLOCKED"
    /\ ~HasRoom(u)
    /\ buf' = [b EXCEPT ![t] = m]
    /\ sched' = sched_set_status(k, priority, t, BlockedStatus(k, t))
    /\ waiters' = [waiters EXCEPT ![u] = thread_add_to_list(@, t)]
    /\ YieldTail(t)
    /\ UNCHANGED queue

(* msg_init_queue(), once per thread; senders may be waiting already. *)
msg_init_queue(t) ==
    /\ Calls(t)
    /\ QueueSize[t] > 0
    /\ t \notin inited
    /\ inited' = inited \cup {t}
    /\ UNCHANGED <<schedVars, queue, waiters, buf, call, sent, last, owed>>

(* msg_send() and msg_try_send() to another thread; when it would block,   *)
(* msg_try_send() returns 0 and changes nothing.                           *)
msg_send(t, u) ==
    /\ Calls(t)
    /\ <<t, u>> \in Routes
    /\ t # u
    /\ sent[<<t, u>>] < MaxMsgs
    /\ LET m == NextMsg(<<t, u>>, "msg")
       IN  \/ SendDirect(sched, t, u, m, buf) /\ UNCHANGED call
           \/ SendQueued(sched, t, u, m, buf) /\ UNCHANGED call
           \/ SendBlocks(sched, t, u, m, buf) /\ call' = [call EXCEPT ![t] = "send"]
    /\ Accepted(<<t, u>>)
    /\ KeepsContext
    /\ UNCHANGED <<inited, last, owed>>

(* msg_send_to_self(): to the own queue, if it has room. *)
msg_send_to_self(t) ==
    /\ Calls(t)
    /\ <<t, t>> \in Routes
    /\ sent[<<t, t>>] < MaxMsgs
    /\ HasRoom(t)
    /\ queue_msg(t, NextMsg(<<t, t>>, "msg"))
    /\ Accepted(<<t, t>>)
    /\ UNCHANGED <<schedVars, inited, waiters, buf, call, last, owed>>

(* msg_send_int(): never blocks; a full queue makes it return 0. *)
msg_send_int(u) ==
    /\ irq_is_in
    /\ <<ISR, u>> \in Routes
    /\ sent[<<ISR, u>>] < MaxMsgs
    /\ LET m == NextMsg(<<ISR, u>>, "msg")
       IN  \/ /\ sched.status[u] = "RECEIVE_BLOCKED"
              /\ buf' = [buf EXCEPT ![u] = m]
              /\ sched' = sched_set_status(sched, priority, u, "PENDING")
              /\ sched_context_switch_request' = TRUE
              /\ UNCHANGED queue
           \/ /\ sched.status[u] # "RECEIVE_BLOCKED"
              /\ HasRoom(u)
              /\ queue_msg(u, m)
              /\ UNCHANGED <<sched, buf, sched_context_switch_request>>
    /\ Accepted(<<ISR, u>>)
    /\ KeepsContext
    /\ UNCHANGED <<pc, other_prio, inited, waiters, call, last, owed>>

(* msg_send_receive(): REPLY_BLOCKED first, then _msg_send() of the copy   *)
(* in the reply buffer.                                                    *)
msg_send_receive(t, u) ==
    /\ Calls(t)
    /\ <<t, u>> \in RequestRoutes
    /\ sent[<<t, u>>] < MaxMsgs
    /\ LET m == NextMsg(<<t, u>>, "request")
           k == sched_set_status(sched, priority, t, "REPLY_BLOCKED")
           b == [buf EXCEPT ![t] = m]
       IN  SendDirect(k, t, u, m, b) \/ SendQueued(k, t, u, m, b) \/ SendBlocks(k, t, u, m, b)
    /\ call' = [call EXCEPT ![t] = "send_receive"]
    /\ Accepted(<<t, u>>)
    /\ KeepsContext
    /\ UNCHANGED <<inited, last, owed>>

(* The thread gets message m. *)
Got(t, m) ==
    /\ last' = [last EXCEPT ![<<m.from, t>>] = m.n]
    /\ owed' = IF m.kind = "request" THEN [owed EXCEPT ![t] = @ \cup {m}] ELSE owed

(* _msg_receive() when a message or a waiting sender is there.  A waiter's *)
(* message takes the queue entry that just became free; a waiter that      *)
(* expects a reply stays blocked.                                          *)
ReceiveNow(t) ==
    /\ Calls(t)
    /\ queue[t] # <<>> \/ waiters[t] # <<>>
    /\ LET s == Head(waiters[t])
           wakes == waiters[t] # <<>> /\ sched.status[s] # "REPLY_BLOCKED"
       IN  /\ Got(t, IF queue[t] # <<>> THEN Head(queue[t]) ELSE buf[s])
           /\ queue' = [queue EXCEPT ![t] =
                            IF @ = <<>> THEN @
                            ELSE IF waiters[t] = <<>> THEN Tail(@)
                            ELSE Append(Tail(@), buf[s])]
           /\ waiters' = IF waiters[t] = <<>> THEN waiters
                         ELSE [waiters EXCEPT ![t] = Tail(@)]
           /\ buf' = IF wakes THEN [buf EXCEPT ![s] = NoMsg] ELSE buf
           /\ sched' = IF wakes THEN sched_set_status(sched, priority, s, "PENDING") ELSE sched
           /\ IF wakes /\ priority[s] < THREAD_PRIORITY_IDLE
              THEN SwitchTail(sched', priority[s])
              ELSE UNCHANGED <<pc, other_prio, sched_context_switch_request>>
    /\ KeepsContext
    /\ UNCHANGED <<inited, call, sent>>

(* msg_receive() when there is nothing to receive (msg_try_receive()       *)
(* returns -1).                                                            *)
ReceiveBlocks(t) ==
    /\ Calls(t)
    /\ queue[t] = <<>>
    /\ waiters[t] = <<>>
    /\ sched' = sched_set_status(sched, priority, t, "RECEIVE_BLOCKED")
    /\ buf' = [buf EXCEPT ![t] = NoMsg]
    /\ call' = [call EXCEPT ![t] = "receive"]
    /\ YieldTail(t)
    /\ KeepsContext
    /\ UNCHANGED <<queue, inited, waiters, sent, last, owed>>

(* A blocked thread executes again: "sender copied message", the message   *)
(* was taken, or the reply arrived.                                        *)
Returns(t) ==
    /\ InThread(t)
    /\ call[t] # "none"
    /\ call' = [call EXCEPT ![t] = "none"]
    /\ buf' = [buf EXCEPT ![t] = NoMsg]
    /\ IF call[t] = "receive" THEN Got(t, buf[t]) ELSE UNCHANGED <<last, owed>>
    /\ UNCHANGED <<schedVars, queue, inited, waiters, sent>>

(* msg_reply() and msg_reply_int() to request m received by thread u. *)
Reply_NotCopied(u, m) == m

Reply(u, m) == [from |-> u, n |-> m.n, kind |-> "reply"]

Answer(u, m) ==
    /\ m \in owed[u]
    /\ sched.status[m.from] = "REPLY_BLOCKED"
    /\ buf' = [buf EXCEPT ![m.from] = Reply(u, m)]
    /\ sched' = sched_set_status(sched, priority, m.from, "PENDING")
    /\ owed' = [owed EXCEPT ![u] = @ \ {m}]
    /\ KeepsContext
    /\ UNCHANGED <<queue, inited, waiters, call, sent, last>>

msg_reply(u, m) ==
    /\ Calls(u)
    /\ Answer(u, m)
    /\ SwitchTail(sched', priority[m.from])

msg_reply_int(u, m) ==
    /\ irq_is_in
    /\ Answer(u, m)
    /\ sched_context_switch_request' = TRUE
    /\ UNCHANGED <<pc, other_prio>>

(* Other kernel calls, outside the message functions. *)
OtherCall ==
    /\ \E t \in Pids : thread_wakeup(t)
    /\ irq_is_in \/ call[sched_active_thread] = "none"
    /\ UNCHANGED msgVars

MsgStep ==
    \/ \E t, u \in Pids : msg_send(t, u) \/ msg_send_receive(t, u)
    \/ \E t \in Pids : \/ msg_init_queue(t) \/ msg_send_to_self(t) \/ msg_send_int(t)
                       \/ ReceiveNow(t) \/ ReceiveBlocks(t) \/ Returns(t)
    \/ \E u \in Pids : \E m \in owed[u] : msg_reply(u, m) \/ msg_reply_int(u, m)

Next == MsgStep \/ OtherCall \/ (SchedStep /\ UNCHANGED msgVars)

Spec == Init /\ [][Next]_vars

-----------------------------------------------------------------------------
(* Types. *)
TypeOK ==
    /\ SchedTypeOK
    /\ queue \in [Pids -> Seq(Msgs)]
    /\ inited \subseteq Pids
    /\ waiters \in [Pids -> Seq(Pids)]
    /\ buf \in [Pids -> Msgs \cup {NoMsg}]
    /\ call \in [Pids -> {"none", "receive", "send", "send_receive"}]
    /\ sent \in [AllRoutes -> 0 .. MaxMsgs]
    /\ last \in [AllRoutes -> 0 .. MaxMsgs]
    /\ owed \in [Pids -> SUBSET Msgs]

(* The lists and statuses agree.  A thread is on at most one list: the run *)
(* queue of its priority, or the waiters of one receiver.  SEND_BLOCKED    *)
(* threads wait at exactly one receiver, only threads that send wait, and  *)
(* a receiver that is RECEIVE_BLOCKED has neither messages nor waiters.    *)
(* Handing over a message never leaves a more urgent thread waiting for    *)
(* the processor.                                                          *)
ListsAgree ==
    /\ TypeOK
    /\ RunqueuesAgree /\ NoneMoreUrgent({})
    /\ \A t \in Pids :
         LET at == {u \in Pids : t \in InQueue(waiters[u])}
         IN  /\ \A u, v \in at : u = v
             /\ sched.status[t] = "SEND_BLOCKED" => at # {}
             /\ at # {} => sched.status[t] \in {"SEND_BLOCKED", "REPLY_BLOCKED"}
    /\ \A u \in Pids :
         /\ NoRepeats(waiters[u]) /\ SortedByPriority(waiters[u])
         /\ sched.status[u] = "RECEIVE_BLOCKED" => queue[u] = <<>> /\ waiters[u] = <<>>

(* The numbers of the messages on route r that are under way: handed to a  *)
(* receiver that was woken, in its queue, offered by a blocked sender.     *)
Handed(r) ==
    IF call[r[2]] = "receive" /\ buf[r[2]].from = r[1] THEN {buf[r[2]].n} ELSE {}

Queued(r) ==
    {queue[r[2]][i].n : i \in {i \in DOMAIN queue[r[2]] : queue[r[2]][i].from = r[1]}}

Offered(r) == IF r[1] \in InQueue(waiters[r[2]]) THEN {buf[r[1]].n} ELSE {}

(* Every message accepted on a route is received exactly once and in the   *)
(* order sent: those under way are the ones after the last one received,   *)
(* up to the last one sent, and they will be received in that order.       *)
(* Direct copies, queued messages, messages of blocked senders and         *)
(* interrupts do not overtake, overwrite or repeat each other.             *)
ExactlyOnceInOrder ==
    /\ \A u \in Pids : \A i, j \in DOMAIN queue[u] :
            i < j /\ queue[u][i].from = queue[u][j].from => queue[u][i].n < queue[u][j].n
    /\ \A r \in AllRoutes :
            /\ last[r] <= sent[r]
            /\ Handed(r) \cup Queued(r) \cup Offered(r) = (last[r] + 1) .. sent[r]
            /\ \A h \in Handed(r), q \in Queued(r) \cup Offered(r) : h < q
            /\ \A q \in Queued(r), o \in Offered(r) : q < o

(* A thread returns from msg_receive() with a message, from msg_send()     *)
(* only after its message was taken, and from msg_send_receive() with the  *)
(* reply to its own request in the buffer, never with the request it sent  *)
(* or with another's reply.  Until then the sender of a request received   *)
(* and not answered is REPLY_BLOCKED and on no wait list, so msg_reply()   *)
(* neither fails nor wakes a thread that is queued elsewhere.              *)
ReturnsDone ==
    /\ \A t \in Pids : Runs(t) =>
        /\ call[t] = "receive" => buf[t].kind \in {"msg", "request"}
        /\ call[t] = "send" => \A u \in Pids : t \notin InQueue(waiters[u])
        /\ call[t] = "send_receive" =>
                /\ buf[t].kind = "reply"
                /\ <<t, buf[t].from>> \in RequestRoutes
                /\ buf[t].n = sent[<<t, buf[t].from>>]
    /\ \A u \in Pids : \A m \in owed[u] :
        /\ sched.status[m.from] = "REPLY_BLOCKED"
        /\ call[m.from] = "send_receive"
        /\ \A v \in Pids : m.from \notin InQueue(waiters[v])
=============================================================================
