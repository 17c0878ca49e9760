---------------------------- MODULE MsgInvProofs ----------------------------
(***************************************************************************)
(* The inductive invariant of message passing, and that the operations     *)
(* which put no new message on a route preserve it: msg_init_queue(),      *)
(* msg_receive() and msg_try_receive() with and without a message at hand, *)
(* the return of a call that waited, msg_reply(), and the scheduler's own  *)
(* steps.                                                                  *)
(***************************************************************************)
EXTENDS Msg, SchedProofs

(* Time the provers are given for a leaf. *)
USE ZenonT(5), SMTT(20)

MsgTypeOK ==
    /\ queue \in [Pids -> Seq(Msgs)]
    /\ inited \subseteq Pids
    /\ waiters \in [Pids -> Seq(Pids)]
    /\ buf \in [Pids -> Msgs \cup {NoMsg}]
    /\ call \in [Pids -> {"none", "receive", "send", "send_receive"}]
    /\ sent \in [AllRoutes -> 0 .. MaxMsgs]
    /\ last \in [AllRoutes -> 0 .. MaxMsgs]
    /\ owed \in [Pids -> SUBSET Msgs]

(* m is a message that can reach thread u. *)
Arrives(m, u) ==
    /\ m \in Msgs
    /\ m.kind = "msg" => <<m.from, u>> \in Routes
    /\ m.kind = "request" => <<m.from, u>> \in RequestRoutes
    /\ m.kind # "reply"

(* Status, call and buffer of thread t. *)
CallInv(t) ==
    /\ sched.status[t] = "RECEIVE_BLOCKED" => call[t] = "receive" /\ buf[t] = NoMsg
    /\ call[t] = "receive" /\ sched.status[t] # "RECEIVE_BLOCKED" => Arrives(buf[t], t)
    /\ sched.status[t] = "SEND_BLOCKED" =>
            call[t] = "send" /\ \E u \in Pids : t \in InQueue(waiters[u])
    /\ sched.status[t] = "REPLY_BLOCKED" => call[t] = "send_receive"
    /\ call[t] = "send_receive" /\ sched.status[t] # "REPLY_BLOCKED" =>
            /\ buf[t].kind = "reply"
            /\ <<t, buf[t].from>> \in RequestRoutes
            /\ buf[t].n = sent[<<t, buf[t].from>>]

(* The queue and the wait list of thread u. *)
WaitersInv(u) ==
    /\ sched.status[u] = "RECEIVE_BLOCKED" => queue[u] = <<>> /\ waiters[u] = <<>>
    /\ \A m \in InQueue(queue[u]) : Arrives(m, u)
    /\ NoRepeats(waiters[u]) /\ SortedByPriority(waiters[u])
    /\ \A s \in InQueue(waiters[u]) :
         /\ Arrives(buf[s], u) /\ buf[s].from = s
         /\ buf[s].kind = "msg" => sched.status[s] = "SEND_BLOCKED"
         /\ buf[s].kind = "request" => sched.status[s] = "REPLY_BLOCKED"
         /\ \A v \in Pids : s \in InQueue(waiters[v]) => u = v
    /\ \A m \in owed[u] : Arrives(m, u) /\ m.kind = "request"

(* Where a request to thread u can be before it is answered. *)
Places == {"owed", "handed", "queued", "offered"}

RequestsAt(a, u) ==
    {m \in IF a = "owed" THEN owed[u]
           ELSE IF a = "handed" THEN {buf[t] : t \in {t \in {u} : call[t] = "receive"}}
           ELSE IF a = "queued" THEN InQueue(queue[u])
           ELSE {buf[s] : s \in InQueue(waiters[u])} : m.kind = "request"}

(* A request is in one place, and until it is answered its sender waits    *)
(* and sends nothing else.                                                 *)
RequestInv ==
    \A a \in Places, u \in Pids : \A m \in RequestsAt(a, u) :
        /\ sched.status[m.from] = "REPLY_BLOCKED"
        /\ m.n = sent[<<m.from, u>>]
        /\ \A b \in Places, v \in Pids : \A k \in RequestsAt(b, v) :
                m.from = k.from => a = b /\ u = v

MsgInv ==
    /\ MsgTypeOK
    /\ \A t \in Pids : CallInv(t)
    /\ \A u \in Pids : WaitersInv(u)
    /\ RequestInv
    /\ ExactlyOnceInOrder

(* The inductive invariant. *)
IInv ==
    /\ SchedInv
    /\ \A u \in Pids : SwitchAhead(u)
    /\ MsgInv

MsgBlocked == {"RECEIVE_BLOCKED", "SEND_BLOCKED", "REPLY_BLOCKED"}

-----------------------------------------------------------------------------
LEMMA MsgFacts ==
    ASSUME IInv
    PROVE  /\ SchedInv /\ sched \in RunState /\ sched.status \in [Pids -> Status]
           /\ priority \in [Pids -> Prios] /\ Agree(sched, priority)
           /\ sched.status[IdlePid] \in OnRunqueue
BY DEF IInv, SchedInv, SchedTypeOK, RunqueuesAgree, RunState, IdleIsReady

LEMMA RouteFacts ==
    /\ AllRoutes \subseteq Senders \X Pids
    /\ RequestRoutes \subseteq AllRoutes /\ Routes \subseteq AllRoutes
    /\ \A s, u : <<s, u>> \in RequestRoutes => s \in Pids /\ u \in Pids /\ s # u
    /\ \A s, u : <<s, u>> \in AllRoutes => s \in Senders /\ u \in Pids
    /\ \A r \in AllRoutes : r = <<r[1], r[2]>>
    /\ ISR \notin Pids /\ 0 \notin Senders /\ 0 \notin Pids
<1>1. ISR \notin Pids /\ ISR # 0 /\ 0 \notin Pids
  BY SchedAssumption DEF ISR, Pids
<1>2. Routes \subseteq Senders \X Pids /\ RequestRoutes \subseteq Pids \X Pids
  BY MsgAssumption
<1>3. \A s, u : <<s, u>> \in RequestRoutes => s # u
  BY MsgAssumption
<1> QED BY <1>1, <1>2, <1>3 DEF AllRoutes, Senders

LEMMA NoMsgFacts == NoMsg.from = 0 /\ NoMsg.kind = "none" /\ NoMsg \notin Msgs
<1>1. NoMsg.from = 0 /\ NoMsg.kind = "none"
  BY DEF NoMsg
<1> QED BY <1>1, RouteFacts DEF Msgs

(* A request that is not answered. *)
LEMMA RequestFacts ==
    ASSUME IInv, NEW a \in Places, NEW u \in Pids, NEW m \in RequestsAt(a, u)
    PROVE  /\ Arrives(m, u) /\ m.kind = "request" /\ m.from \in Pids /\ m.from # u
           /\ sched.status[m.from] = "REPLY_BLOCKED"
<1>1. m.kind = "request"
  BY DEF RequestsAt
<1>2. Arrives(m, u)
  <2>1. CASE a = "owed"
    BY <2>1 DEF RequestsAt, IInv, MsgInv, WaitersInv
  <2>2. CASE a = "handed"
    <3>1. m = buf[u] /\ call[u] = "receive"
      BY <2>2 DEF RequestsAt
    <3>2. buf[u] # NoMsg
      BY <1>1, <3>1, NoMsgFacts
    <3> QED BY <3>1, <3>2 DEF IInv, MsgInv, CallInv
  <2>3. CASE a = "queued"
    BY <2>3 DEF RequestsAt, IInv, MsgInv, WaitersInv
  <2>4. CASE a = "offered"
    <3>1. PICK s \in InQueue(waiters[u]) : m = buf[s]
      BY <2>4 DEF RequestsAt
    <3> QED BY <3>1 DEF IInv, MsgInv, WaitersInv
  <2> QED BY <2>1, <2>2, <2>3, <2>4 DEF Places
<1>3. sched.status[m.from] = "REPLY_BLOCKED"
  BY DEF IInv, MsgInv, RequestInv
<1> QED BY <1>1, <1>2, <1>3, RouteFacts DEF Arrives

(* A thread that runs its own code has nothing under way that blocks it. *)
LEMMA RunnerReady ==
    ASSUME IInv, NEW t \in Pids, Runs(t)
    PROVE  /\ sched.status[t] \in OnRunqueue /\ sched.status[t] \notin MsgBlocked
           /\ IsFirst(sched, priority, t)
           /\ \A u \in Pids : t \notin InQueue(waiters[u])
           /\ \A a \in Places, u \in Pids : \A m \in RequestsAt(a, u) : m.from # t
<1>1. IsFirst(sched, priority, t) /\ sched.status[t] \in OnRunqueue
  BY SchedInvFirst, MsgFacts DEF RunnerIsFirst, IsFirst
<1>2. sched.status[t] \notin MsgBlocked
  BY <1>1 DEF OnRunqueue, MsgBlocked
<1>3. ASSUME NEW u \in Pids, t \in InQueue(waiters[u]) PROVE FALSE
  <2>1. Arrives(buf[t], u) /\ buf[t].kind \in {"msg", "request"}
    BY <1>3 DEF IInv, MsgInv, WaitersInv, Arrives, Msgs
  <2> QED BY <1>2, <1>3, <2>1 DEF IInv, MsgInv, WaitersInv, MsgBlocked
<1>4. ASSUME NEW a \in Places, NEW u \in Pids, NEW m \in RequestsAt(a, u), m.from = t
      PROVE  FALSE
  BY <1>2, <1>4, RequestFacts DEF MsgBlocked
<1> QED BY <1>1, <1>2, <1>3, <1>4

LEMMA CallsFacts ==
    ASSUME NEW t \in Pids, Calls(t)
    PROVE  Runs(t) /\ t # IdlePid /\ call[t] = "none"
BY DEF Calls, InThread

-----------------------------------------------------------------------------
(* What the message functions do to the scheduler. *)

(* A thread makes another ready and calls sched_switch(), which it may     *)
(* leave out if the other has the priority of the idle thread.             *)
LEMMA WakeSched ==
    ASSUME IInv, NEW t \in Pids, Runs(t), NEW s \in Pids, sched.status[s] \notin OnRunqueue,
           sched' = sched_set_status(sched, priority, s, "PENDING"), KeepsContext,
           \/ SwitchTail(sched', priority[s])
           \/ /\ priority[s] >= THREAD_PRIORITY_IDLE
              /\ UNCHANGED <<pc, other_prio, sched_context_switch_request>>
    PROVE  /\ SchedInv' /\ (\A v \in Pids : SwitchAhead(v)') /\ priority' = priority
           /\ sched'.status = [sched.status EXCEPT ![s] = "PENDING"]
<1>1. /\ UNCHANGED <<priority, sched_active_thread, irq_is_in>> /\ sched_active_thread = t
      /\ irq_is_in \/ (sched_active_thread # 0 /\ pc[sched_active_thread] = "run")
  BY PidFacts DEF KeepsContext, Runs, Executes
<1>2. "PENDING" \in Status /\ "PENDING" \in OnRunqueue /\ s # IdlePid /\ s # t
  BY MsgFacts, RunnerReady DEF Status, OnRunqueue
<1>3. /\ SchedInv'
      /\ \A v \in Pids : SwitchAhead(v) /\ v # s => SwitchAhead(v)'
      /\ SwitchTail(sched', priority[s]) => SwitchAhead(s)'
  BY <1>1, <1>2, WakeStep, MsgFacts
<1>4. SwitchAhead(s)'
  <2>1. CASE SwitchTail(sched', priority[s])
    BY <1>3, <2>1
  <2>2. CASE priority[s] >= THREAD_PRIORITY_IDLE
    <3>1. priority[s] \in Int /\ priority[t] \in Int /\ priority[t] <= THREAD_PRIORITY_IDLE
          /\ THREAD_PRIORITY_IDLE \in Int
      BY MsgFacts, SchedAssumption DEF Prios, THREAD_PRIORITY_IDLE
    <3>2. ~(priority[s] < priority[t])
      BY <2>2, <3>1
    <3> QED BY <1>1, <3>2 DEF SwitchAhead
  <2> QED BY <2>1, <2>2
<1>5. sched'.status = [sched.status EXCEPT ![s] = "PENDING"]
  BY <1>2, MsgFacts, WakeKeeps
<1> QED BY <1>1, <1>3, <1>4, <1>5 DEF IInv

(* The run queues k in which _msg_send() by thread t works: those it       *)
(* found, or those without t, which msg_send_receive() made REPLY_BLOCKED. *)
SendState(t, k) ==
    k \in {sched, sched_set_status(sched, priority, t, "REPLY_BLOCKED")}

LEMMA SendStateFacts ==
    ASSUME IInv, NEW t \in Pids, Runs(t), t # IdlePid, NEW k, SendState(t, k)
    PROVE  /\ k \in RunState /\ Agree(k, priority) /\ k.status[IdlePid] \in OnRunqueue
           /\ k.status \in [Pids -> Status]
           /\ k = sched \/ k.status = [sched.status EXCEPT ![t] = "REPLY_BLOCKED"]
           /\ k = sched \/ k = sched_set_status(sched, priority, t, "REPLY_BLOCKED")
<1>1. CASE k = sched
  BY <1>1, MsgFacts
<1>2. CASE k = sched_set_status(sched, priority, t, "REPLY_BLOCKED")
  <2>1. "REPLY_BLOCKED" \in Blocked
    BY DEF Blocked
  <2>2. /\ k \in RunState /\ Agree(k, priority) /\ k.status[IdlePid] \in OnRunqueue
        /\ k.status = [sched.status EXCEPT ![t] = "REPLY_BLOCKED"]
    BY <1>2, <2>1, MsgFacts, RunnerReady, BlockKeeps
  <2>3. k.status \in [Pids -> Status]
    BY <2>2 DEF RunState
  <2> QED BY <1>2, <2>2, <2>3
<1> QED BY <1>1, <1>2 DEF SendState

(* SendDirect: the receiver is made ready, the sender yields. *)
LEMMA DirectSched ==
    ASSUME IInv, NEW t \in Pids, Runs(t), t # IdlePid, NEW k, SendState(t, k),
           NEW u \in Pids, k.status[u] \notin OnRunqueue,
           sched' = sched_set_status(k, priority, u, "PENDING"),
           YieldTail(t), KeepsContext
    PROVE  /\ SchedInv' /\ (\A v \in Pids : SwitchAhead(v)') /\ priority' = priority
           /\ sched'.status = [k.status EXCEPT ![u] = "PENDING"]
<1>1. "PENDING" \in OnRunqueue /\ "yield_higher" \in Yields
  BY DEF OnRunqueue, Yields
<1>2. /\ sched' \in RunState /\ Agree(sched', priority)
      /\ sched'.status = [k.status EXCEPT ![u] = "PENDING"]
      /\ sched'.status[IdlePid] \in OnRunqueue
  <2>1. k \in RunState /\ Agree(k, priority) /\ k.status[IdlePid] \in OnRunqueue
    BY SendStateFacts
  <2> QED BY <1>1, <2>1, MsgFacts, WakeKeeps
<1>3. SchedInv' /\ \A v \in Pids : SwitchAhead(v)'
  BY <1>1, <1>2, MsgFacts, YieldTailStep DEF YieldTail
<1> QED BY <1>2, <1>3 DEF KeepsContext

(* SendBlocks: the sender leaves the run queue, if it has not, and yields. *)
LEMMA BlocksSched ==
    ASSUME IInv, NEW t \in Pids, Runs(t), t # IdlePid, NEW k, SendState(t, k),
           sched' = sched_set_status(k, priority, t, BlockedStatus(k, t)),
           YieldTail(t), KeepsContext
    PROVE  /\ SchedInv' /\ (\A v \in Pids : SwitchAhead(v)') /\ priority' = priority
           /\ sched'.status = [sched.status EXCEPT ![t] =
                                    IF k = sched THEN "SEND_BLOCKED" ELSE "REPLY_BLOCKED"]
<1>1. "SEND_BLOCKED" \in Blocked /\ "REPLY_BLOCKED" \in Blocked /\ "yield_higher" \in Yields
  BY DEF Blocked, Yields
<1>2. sched.status[t] \in OnRunqueue /\ sched.status[t] # "REPLY_BLOCKED"
  BY RunnerReady DEF MsgBlocked
<1>3. CASE k = sched
  <2>1. BlockedStatus(k, t) = "SEND_BLOCKED"
    BY <1>2, <1>3 DEF BlockedStatus
  <2>2. /\ SchedInv' /\ (\A v \in Pids : SwitchAhead(v)')
        /\ sched'.status = [sched.status EXCEPT ![t] = "SEND_BLOCKED"]
    BY <1>1, <1>3, <2>1, MsgFacts, BlockStep DEF YieldTail
  <2> QED BY <1>3, <2>2 DEF KeepsContext
<1>4. CASE k # sched
  <2>1. /\ k \in RunState /\ Agree(k, priority) /\ k.status[IdlePid] \in OnRunqueue
        /\ k.status = [sched.status EXCEPT ![t] = "REPLY_BLOCKED"]
    BY <1>4, SendStateFacts
  <2>2. k.status[t] = "REPLY_BLOCKED" /\ k.status \in [Pids -> Status]
    BY <2>1, MsgFacts, SendStateFacts
  <2>3. BlockedStatus(k, t) = "REPLY_BLOCKED" /\ "REPLY_BLOCKED" \in Status
        /\ "REPLY_BLOCKED" \notin OnRunqueue
    BY <2>2 DEF BlockedStatus, Status, Blocked, OnRunqueue
  <2>4. /\ sched' \in RunState /\ Agree(sched', priority)
        /\ sched'.status = [k.status EXCEPT ![t] = "REPLY_BLOCKED"]
    BY <2>1, <2>2, <2>3, MsgFacts, SetStatusAgrees
  <2>5. sched'.status = k.status
    BY <2>2, <2>4
  <2>6. SchedInv' /\ \A v \in Pids : SwitchAhead(v)'
    BY <1>1, <2>1, <2>4, <2>5, MsgFacts, YieldTailStep DEF YieldTail
  <2> QED BY <1>4, <2>1, <2>5, <2>6 DEF KeepsContext
<1> QED BY <1>3, <1>4

(* SendQueued by msg_send_receive(): the sender has left the run queue and *)
(* calls sched_switch().                                                   *)
LEMMA ReplyQueuedSched ==
    ASSUME IInv, NEW t \in Pids, Runs(t), t # IdlePid,
           sched' = sched_set_status(sched, priority, t, "REPLY_BLOCKED"),
           Tail_(t, "sched_switch", THREAD_PRIORITY_IDLE),
           UNCHANGED sched_context_switch_request, KeepsContext
    PROVE  /\ SchedInv' /\ (\A v \in Pids : SwitchAhead(v)') /\ priority' = priority
           /\ sched'.status = [sched.status EXCEPT ![t] = "REPLY_BLOCKED"]
<1>1. /\ sched' \in RunState /\ Agree(sched', priority)
      /\ sched'.status[IdlePid] \in OnRunqueue
      /\ sched'.status = [sched.status EXCEPT ![t] = "REPLY_BLOCKED"]
  <2>1. "REPLY_BLOCKED" \in Blocked
    BY DEF Blocked
  <2> QED BY <2>1, MsgFacts, RunnerReady, BlockKeeps
<1>2. /\ sched_active_thread = t /\ ~irq_is_in /\ pc[t] = "run"
      /\ priority' = priority /\ sched_active_thread' = t /\ ~irq_is_in'
      /\ irq_is_in' = irq_is_in
      /\ sched_context_switch_request' = sched_context_switch_request
      /\ pc' = [pc EXCEPT ![t] = "sched_switch"]
      /\ other_prio' = [other_prio EXCEPT ![t] = THREAD_PRIORITY_IDLE]
  BY DEF Runs, Executes, KeepsContext, Tail_
<1>3. THREAD_PRIORITY_IDLE \in Prios
  BY SchedAssumption DEF THREAD_PRIORITY_IDLE, Prios
<1>4. SchedTypeOK
  BY DEF IInv, SchedInv
<1>5. SchedTypeOK' /\ pc'[t] = "sched_switch"
  BY <1>1, <1>2, <1>3, <1>4 DEF SchedTypeOK, Labels
<1>6. sched'.status[t] = "REPLY_BLOCKED" /\ \A v \in Pids : v # t => sched'.status[v] = sched.status[v]
  BY <1>1, MsgFacts
<1>7. RunqueuesAgree' /\ IdleIsReady' /\ RequestInIsr' /\ ActiveIsFirst'
  BY <1>1, <1>2, <1>5, <1>6 DEF RunqueuesAgree, IdleIsReady, RequestInIsr, ActiveIsFirst,
                                IInv, SchedInv
<1>8. ASSUME NEW v \in Pids PROVE SwitchAhead(v)'
  <2>1. ~sched_context_switch_request
    BY <1>2 DEF IInv, SchedInv, RequestInIsr
  <2>2. SwitchAhead(v)
    BY DEF IInv
  <2>3. ~(sched.status[v] \in OnRunqueue /\ priority[v] < priority[t])
    BY <1>2, <2>1, <2>2, PidFacts DEF SwitchAhead, Yields
  <2> QED BY <1>2, <1>6, <2>3 DEF SwitchAhead, OnRunqueue
<1> QED BY <1>1, <1>2, <1>5, <1>7, <1>8 DEF SchedInv

-----------------------------------------------------------------------------
(* One route: the numbers handed to the receiver, in its queue and offered *)
(* by the sender, the last one received and the last one sent.             *)
RouteOK(H, Q, O, l, s) ==
    /\ l <= s
    /\ H \cup Q \cup O = (l + 1) .. s
    /\ \A h \in H, q \in Q \cup O : h < q
    /\ \A q \in Q, o \in O : q < o

(* The number that is received next is the one after the last. *)
LEMMA RouteTakeHanded ==
    ASSUME NEW Q, NEW O, NEW n, NEW l \in Nat, NEW s \in Nat, RouteOK({n}, Q, O, l, s)
    PROVE  n = l + 1 /\ RouteOK({}, Q, O, n, s)
<1>1. n \in (l + 1) .. s /\ \A k \in (l + 1) .. s : k = n \/ n < k
  BY DEF RouteOK
<1>2. l + 1 \in (l + 1) .. s /\ n \in Int
  BY <1>1
<1>3. n = l + 1 /\ n <= s
  BY <1>1, <1>2
<1>4. \A k \in Q \cup O : k # n
  BY <1>2 DEF RouteOK
<1>5. Q \cup O = ((l + 1) .. s) \ {l + 1}
  BY <1>3, <1>4 DEF RouteOK
<1>6. ((l + 1) .. s) \ {l + 1} = ((l + 1) + 1) .. s
  OBVIOUS
<1> QED BY <1>3, <1>5, <1>6 DEF RouteOK

LEMMA RouteTakeQueued ==
    ASSUME NEW Q, NEW O, NEW n \in Q, NEW l \in Nat, NEW s \in Nat, RouteOK({}, Q, O, l, s),
           \A k \in Q : n = k \/ n < k
    PROVE  n = l + 1 /\ RouteOK({}, Q \ {n}, O, n, s)
<1>1. RouteOK({n}, Q \ {n}, O, l, s)
  BY DEF RouteOK
<1> QED BY <1>1, RouteTakeHanded

LEMMA RouteTakeOffered ==
    ASSUME NEW n, NEW l \in Nat, NEW s \in Nat, RouteOK({}, {}, {n}, l, s)
    PROVE  n = l + 1 /\ RouteOK({}, {}, {}, n, s)
<1>1. RouteOK({n}, {}, {}, l, s)
  BY DEF RouteOK
<1> QED BY <1>1, RouteTakeHanded

(* A message that moves from a blocked sender into the queue. *)
LEMMA RouteMove ==
    ASSUME NEW Q, NEW n, NEW l \in Nat, NEW s \in Nat, RouteOK({}, Q, {n}, l, s)
    PROVE  RouteOK({}, Q \cup {n}, {}, l, s) /\ \A k \in Q : k < n
BY DEF RouteOK

LEMMA ExactFacts ==
    ASSUME IInv
    PROVE  /\ \A u \in Pids : InOrder(queue[u])
           /\ \A r \in AllRoutes :
                /\ last[r] \in Nat /\ sent[r] \in Nat
                /\ RouteOK(Handed(r), NumbersIn(queue[r[2]], r[1]), Offered(r), last[r], sent[r])
<1>1. \A u \in Pids : InOrder(queue[u])
  BY DEF IInv, MsgInv, ExactlyOnceInOrder, InOrder
<1>2. \A r : NumbersIn(queue[r[2]], r[1]) = Queued(r)
  BY DEF Queued, NumbersIn
<1>3. \A r \in AllRoutes : last[r] \in Nat /\ sent[r] \in Nat
  BY MsgAssumption DEF IInv, MsgInv, MsgTypeOK
<1> QED BY <1>1, <1>2, <1>3 DEF IInv, MsgInv, ExactlyOnceInOrder, RouteOK

LEMMA ExactNext ==
    ASSUME \A u \in Pids : InOrder(queue'[u]),
           \A r \in AllRoutes :
             RouteOK(Handed(r)', NumbersIn(queue'[r[2]], r[1]), Offered(r)', last'[r], sent'[r])
    PROVE  ExactlyOnceInOrder'
<1>1. \A u \in Pids : InOrder(queue[u])'
  BY DEF InOrder
<1>2. \A r : NumbersIn(queue'[r[2]], r[1]) = Queued(r)'
  BY DEF Queued, NumbersIn
<1> QED BY <1>1, <1>2 DEF ExactlyOnceInOrder, RouteOK, InOrder

-----------------------------------------------------------------------------
(* Requests R at the places, with statuses st and numbers sn. *)
ReqOK(R, st, sn) ==
    \A p \in Places \X Pids : \A m \in R[p] :
        /\ st[m.from] = "REPLY_BLOCKED"
        /\ m.n = sn[<<m.from, p[2]>>]
        /\ \A q \in Places \X Pids : \A k \in R[q] : m.from = k.from => p = q

Reqs == [p \in Places \X Pids |-> RequestsAt(p[1], p[2])]

LEMMA ReqFacts ==
    ASSUME RequestInv
    PROVE  ReqOK(Reqs, sched.status, sent)
BY DEF RequestInv, ReqOK, Reqs

LEMMA ReqNext ==
    ASSUME ReqOK(Reqs', sched'.status, sent')
    PROVE  RequestInv'
<1> DEFINE R == Reqs'
<1>1. ASSUME NEW a \in Places, NEW u \in Pids
      PROVE  R[<<a, u>>] = RequestsAt(a, u)'
  BY DEF Reqs
<1>2. ReqOK(R, sched'.status, sent')
  OBVIOUS
<1> HIDE DEF R
<1> SUFFICES ASSUME NEW a \in Places, NEW u \in Pids, NEW m \in RequestsAt(a, u)'
             PROVE  /\ sched'.status[m.from] = "REPLY_BLOCKED"
                    /\ m.n = sent'[<<m.from, u>>]
                    /\ \A b \in Places, v \in Pids : \A k \in RequestsAt(b, v)' :
                            m.from = k.from => a = b /\ u = v
  BY DEF RequestInv
<1>3. <<a, u>> \in Places \X Pids /\ m \in R[<<a, u>>]
  BY <1>1
<1>4. ASSUME NEW b \in Places, NEW v \in Pids, NEW k \in RequestsAt(b, v)', m.from = k.from
      PROVE  a = b /\ u = v
  <2>1. <<b, v>> \in Places \X Pids /\ k \in R[<<b, v>>]
    BY <1>1
  <2>2. <<a, u>> = <<b, v>>
    BY <1>2, <1>3, <1>4, <2>1, ZenonT(30) DEF ReqOK
  <2> QED BY <2>2
<1> QED BY <1>2, <1>3, <1>4 DEF ReqOK

(* Requests that stay where they are or are answered. *)
LEMMA ReqShrink ==
    ASSUME NEW R, NEW Q, NEW st, NEW sn, NEW st2, NEW sn2, ReqOK(R, st, sn),
           \A p \in Places \X Pids : Q[p] \subseteq R[p],
           \A p \in Places \X Pids : \A m \in Q[p] :
              st2[m.from] = st[m.from] /\ sn2[<<m.from, p[2]>>] = sn[<<m.from, p[2]>>]
    PROVE  ReqOK(Q, st2, sn2)
BY DEF ReqOK

(* A request that moves from place z to place y of the same receiver. *)
LEMMA ReqMove ==
    ASSUME NEW R, NEW Q, NEW st, NEW sn, NEW st2, NEW sn2, ReqOK(R, st, sn),
           NEW z \in Places \X Pids, NEW y \in Places \X Pids, NEW m \in R[z], z[2] = y[2],
           \A p \in Places \X Pids : Q[p] \subseteq R[p] \/ (p = y /\ Q[p] \subseteq R[p] \cup {m}),
           m \notin Q[z],
           \A p \in Places \X Pids : \A k \in R[p] :
              st2[k.from] = st[k.from] /\ sn2[<<k.from, p[2]>>] = sn[<<k.from, p[2]>>],
           \A k \in R[z] : k.from = m.from => k = m
    PROVE  ReqOK(Q, st2, sn2)
<1>1. \A q \in Places \X Pids : \A j \in Q[q] : j \in R[q] \/ (q = y /\ j = m)
  OBVIOUS
<1>2. ASSUME NEW q \in Places \X Pids, NEW j \in Q[q], j.from = m.from
      PROVE  q = y
  <2>1. CASE j \in R[q]
    <3>1. z = q
      BY <1>2, <2>1 DEF ReqOK
    <3> QED BY <1>2, <2>1, <3>1
  <2> QED BY <1>1, <2>1
<1> SUFFICES ASSUME NEW p \in Places \X Pids, NEW k \in Q[p]
             PROVE  /\ st2[k.from] = "REPLY_BLOCKED"
                    /\ k.n = sn2[<<k.from, p[2]>>]
                    /\ \A q \in Places \X Pids : \A j \in Q[q] : k.from = j.from => p = q
  BY DEF ReqOK
<1>3. CASE k.from # m.from
  <2>1. k \in R[p]
    BY <1>1, <1>3
  <2>2. \A q \in Places \X Pids : \A j \in Q[q] : k.from = j.from => j \in R[q]
    BY <1>1, <1>3
  <2> QED BY <2>1, <2>2 DEF ReqOK
<1>4. CASE k.from = m.from
  <2>1. p = y
    BY <1>2, <1>4
  <2>2. \A q \in Places \X Pids : \A j \in Q[q] : k.from = j.from => p = q
    BY <1>2, <1>4, <2>1, ZenonT(30)
  <2>3. k = m \/ k \in R[y]
    BY <1>1, <2>1
  <2>4. st[k.from] = "REPLY_BLOCKED" /\ k.n = sn[<<k.from, y[2]>>]
    BY <2>3, <1>4 DEF ReqOK
  <2>5. st2[k.from] = st[k.from] /\ sn2[<<k.from, y[2]>>] = sn[<<k.from, y[2]>>]
    BY <2>3, <1>4
  <2> QED BY <2>1, <2>2, <2>4, <2>5
<1> QED BY <1>3, <1>4

-----------------------------------------------------------------------------
(* What a step leaves alone. *)
SameStatus(t) == \A st \in MsgBlocked : sched'.status[t] = st <=> sched.status[t] = st

LEMMA CallFrame ==
    ASSUME NEW t \in Pids, CallInv(t), SameStatus(t), call'[t] = call[t], buf'[t] = buf[t],
           sched.status[t] = "SEND_BLOCKED" => \E u \in Pids : t \in InQueue(waiters'[u]),
           call[t] = "send_receive" => \A v : sent'[<<t, v>>] = sent[<<t, v>>]
    PROVE  CallInv(t)'
<1>1. /\ sched'.status[t] = "RECEIVE_BLOCKED" <=> sched.status[t] = "RECEIVE_BLOCKED"
      /\ sched'.status[t] = "SEND_BLOCKED" <=> sched.status[t] = "SEND_BLOCKED"
      /\ sched'.status[t] = "REPLY_BLOCKED" <=> sched.status[t] = "REPLY_BLOCKED"
  BY DEF SameStatus, MsgBlocked
<1>2. \A m, u : Arrives(m, u)' = Arrives(m, u)
  BY DEF Arrives
<1>3. CASE call[t] = "send_receive" /\ sched.status[t] # "REPLY_BLOCKED"
  <2>1. sent'[<<t, buf[t].from>>] = sent[<<t, buf[t].from>>]
    BY <1>3
  <2> QED BY <1>1, <1>2, <1>3, <2>1 DEF CallInv
<1> QED BY <1>1, <1>2, <1>3 DEF CallInv

LEMMA WaitersFrame ==
    ASSUME NEW u \in Pids, WaitersInv(u), priority' = priority,
           sched'.status[u] = "RECEIVE_BLOCKED" =>
              sched.status[u] = "RECEIVE_BLOCKED" \/ (queue[u] = <<>> /\ waiters[u] = <<>>),
           queue'[u] = queue[u], waiters'[u] = waiters[u], owed'[u] \subseteq owed[u],
           \A s \in InQueue(waiters[u]) :
              /\ buf'[s] = buf[s] /\ SameStatus(s)
              /\ \A v \in Pids : s \in InQueue(waiters'[v]) => s \in InQueue(waiters[v])
    PROVE  WaitersInv(u)'
<1>1. \A m, v : Arrives(m, v)' = Arrives(m, v)
  BY DEF Arrives
<1>2. NoRepeats(waiters[u])' /\ SortedByPriority(waiters[u])'
  BY DEF WaitersInv, NoRepeats, SortedByPriority
<1>3. ASSUME NEW s \in InQueue(waiters'[u])
      PROVE  /\ Arrives(buf'[s], u) /\ buf'[s].from = s
             /\ buf'[s].kind = "msg" => sched'.status[s] = "SEND_BLOCKED"
             /\ buf'[s].kind = "request" => sched'.status[s] = "REPLY_BLOCKED"
             /\ \A v \in Pids : s \in InQueue(waiters'[v]) => u = v
  BY <1>3 DEF WaitersInv, SameStatus, MsgBlocked
<1>4. \A m \in InQueue(queue'[u]) : Arrives(m, u)
  BY DEF WaitersInv
<1>5. \A m \in owed'[u] : Arrives(m, u) /\ m.kind = "request"
  BY DEF WaitersInv
<1>6. sched'.status[u] = "RECEIVE_BLOCKED" => queue'[u] = <<>> /\ waiters'[u] = <<>>
  BY DEF WaitersInv
<1> QED BY <1>1, <1>2, <1>3, <1>4, <1>5, <1>6 DEF WaitersInv

LEMMA RequestsAtPlaces ==
    ASSUME NEW u \in Pids
    PROVE  /\ RequestsAt("owed", u) = {m \in owed[u] : m.kind = "request"}
           /\ call[u] = "receive" => RequestsAt("handed", u) = {m \in {buf[u]} : m.kind = "request"}
           /\ call[u] # "receive" => RequestsAt("handed", u) = {}
           /\ RequestsAt("queued", u) = {m \in InQueue(queue[u]) : m.kind = "request"}
           /\ RequestsAt("offered", u) =
                 {m \in {buf[s] : s \in InQueue(waiters[u])} : m.kind = "request"}
BY DEF RequestsAt

LEMMA WaitersArePids ==
    ASSUME IInv PROVE \A v \in Pids : \A s \in InQueue(waiters[v]) : s \in Pids
<1> SUFFICES ASSUME NEW v \in Pids, NEW s \in InQueue(waiters[v]) PROVE s \in Pids
  OBVIOUS
<1>1. waiters[v] \in Seq(Pids)
  BY DEF IInv, MsgInv, MsgTypeOK
<1> QED BY <1>1 DEF InQueue

LEMMA RequestsShrink ==
    ASSUME IInv, \A a \in Places, u \in Pids : RequestsAt(a, u)' \subseteq RequestsAt(a, u),
           \A a \in Places, u \in Pids : \A m \in RequestsAt(a, u)' :
              /\ sched'.status[m.from] = sched.status[m.from]
              /\ sent'[<<m.from, u>>] = sent[<<m.from, u>>]
    PROVE  RequestInv'
<1> DEFINE R == Reqs
           Q == Reqs'
<1>1. ReqOK(R, sched.status, sent)
  BY ReqFacts DEF IInv, MsgInv
<1>2. /\ \A p \in Places \X Pids : p[1] \in Places /\ p[2] \in Pids
      /\ \A p \in Places \X Pids : R[p] = RequestsAt(p[1], p[2]) /\ Q[p] = RequestsAt(p[1], p[2])'
  BY DEF Reqs
<1>3. \A p \in Places \X Pids : Q[p] \subseteq R[p]
  BY <1>2
<1>4. \A p \in Places \X Pids : \A m \in Q[p] :
         /\ sched'.status[m.from] = sched.status[m.from]
         /\ sent'[<<m.from, p[2]>>] = sent[<<m.from, p[2]>>]
  BY <1>2
<1> HIDE DEF R, Q
<1>5. ReqOK(Q, sched'.status, sent')
  BY <1>1, <1>3, <1>4, ReqShrink
<1> QED BY <1>5, ReqNext DEF Q

(* Steps that change no message and block and wake no sender or receiver. *)
LEMMA MsgFrame ==
    ASSUME IInv, UNCHANGED <<queue, waiters, buf, call, sent, last, owed>>, inited' \subseteq Pids,
           priority' = priority, \A v \in Pids : SameStatus(v)
    PROVE  MsgInv'
<1>1. MsgTypeOK'
  BY DEF IInv, MsgInv, MsgTypeOK
<1>2. ASSUME NEW v \in Pids PROVE CallInv(v)'
  <2>1. CallInv(v)
    BY DEF IInv, MsgInv
  <2>2. sched.status[v] = "SEND_BLOCKED" => \E x \in Pids : v \in InQueue(waiters'[x])
    BY <2>1 DEF CallInv
  <2> QED BY <2>1, <2>2, CallFrame
<1>3. ASSUME NEW v \in Pids PROVE WaitersInv(v)'
  <2>1. WaitersInv(v)
    BY DEF IInv, MsgInv
  <2>2. \A x \in InQueue(waiters[v]) : SameStatus(x)
    BY WaitersArePids
  <2>3. sched'.status[v] = "RECEIVE_BLOCKED" => sched.status[v] = "RECEIVE_BLOCKED"
    BY DEF SameStatus, MsgBlocked
  <2> QED BY <2>1, <2>2, <2>3, WaitersFrame
<1>4. RequestInv'
  <2>1. \A a, u : RequestsAt(a, u)' = RequestsAt(a, u)
    BY DEF RequestsAt
  <2>2. ASSUME NEW a \in Places, NEW u \in Pids, NEW m \in RequestsAt(a, u)
        PROVE  sched'.status[m.from] = "REPLY_BLOCKED"
    <3>1. m.from \in Pids /\ sched.status[m.from] = "REPLY_BLOCKED"
      BY RequestFacts
    <3> QED BY <3>1 DEF SameStatus, MsgBlocked
  <2>3. \A a \in Places, u \in Pids : \A m \in RequestsAt(a, u)' :
           sched'.status[m.from] = sched.status[m.from] /\ sent'[<<m.from, u>>] = sent[<<m.from, u>>]
    BY <2>1, <2>2, RequestFacts
  <2> QED BY <2>1, <2>3, RequestsShrink
<1>5. ExactlyOnceInOrder'
  <2>1. \A r : Handed(r)' = Handed(r) /\ Offered(r)' = Offered(r)
    BY DEF Handed, Offered
  <2> QED BY <2>1, ExactFacts, ExactNext
<1> QED BY <1>1, <1>2, <1>3, <1>4, <1>5 DEF MsgInv

LEMMA InitQueueAction ==
    ASSUME IInv, NEW t \in Pids, msg_init_queue(t)
    PROVE  IInv'
<1>1. UNCHANGED schedVars /\ UNCHANGED <<queue, waiters, buf, call, sent, last, owed>>
  BY DEF msg_init_queue
<1>2. inited' \subseteq Pids
  BY DEF msg_init_queue, IInv, MsgInv, MsgTypeOK
<1>3. priority' = priority /\ \A v \in Pids : SameStatus(v)
  BY <1>1 DEF schedVars, SameStatus
<1>4. MsgInv'
  BY <1>1, <1>2, <1>3, MsgFrame
<1> QED BY <1>1, <1>4, SchedSame DEF IInv

LEMMA OtherCallAction ==
    ASSUME IInv, NEW t \in Pids, thread_wakeup(t), UNCHANGED msgVars
    PROVE  IInv'
<1>1. /\ SchedInv' /\ (\A v \in Pids : SwitchAhead(v)') /\ priority' = priority
      /\ sched'.status = [sched.status EXCEPT ![t] = "RUNNING"]
  BY WakeupCall, MsgFacts DEF IInv
<1>2. sched.status[t] = "SLEEPING"
  BY DEF thread_wakeup
<1>3. \A v \in Pids : SameStatus(v)
  BY <1>1, <1>2, MsgFacts DEF SameStatus, MsgBlocked
<1>4. inited' \subseteq Pids
  BY DEF msgVars, IInv, MsgInv, MsgTypeOK
<1>5. MsgInv'
  BY <1>1, <1>3, <1>4, MsgFrame DEF msgVars
<1> QED BY <1>1, <1>5 DEF IInv

LEMMA SchedAction ==
    ASSUME ~YieldWindow, IInv, SchedStep, UNCHANGED msgVars
    PROVE  IInv'
<1>1. SchedInv' /\ \A v \in Pids : SwitchAhead(v)'
  BY SchedStepInv, MsgFacts, PidFacts DEF IInv
<1>2. /\ priority' = priority
      /\ \A v \in Pids :
           /\ sched'.status[v] \in OnRunqueue <=> sched.status[v] \in OnRunqueue
           /\ sched.status[v] \notin OnRunqueue => sched'.status[v] = sched.status[v]
  BY SchedStepFrame, MsgFacts
<1>3. \A v \in Pids : SameStatus(v)
  BY <1>2 DEF SameStatus, MsgBlocked, OnRunqueue
<1>4. inited' \subseteq Pids
  BY DEF msgVars, IInv, MsgInv, MsgTypeOK
<1>5. MsgInv'
  BY <1>2, <1>3, <1>4, MsgFrame DEF msgVars
<1> QED BY <1>1, <1>5 DEF IInv

LEMMA ReceiveBlocksAction ==
    ASSUME IInv, NEW t \in Pids, ReceiveBlocks(t)
    PROVE  IInv'
<1>1. /\ Calls(t) /\ queue[t] = <<>> /\ waiters[t] = <<>>
      /\ sched' = sched_set_status(sched, priority, t, "RECEIVE_BLOCKED")
      /\ buf' = [buf EXCEPT ![t] = NoMsg] /\ call' = [call EXCEPT ![t] = "receive"]
      /\ YieldTail(t) /\ KeepsContext
      /\ UNCHANGED <<queue, inited, waiters, sent, last, owed>>
  BY DEF ReceiveBlocks
<1>2. /\ Runs(t) /\ t # IdlePid /\ call[t] = "none"
      /\ \A v \in Pids : t \notin InQueue(waiters[v])
  BY <1>1, CallsFacts, RunnerReady
<1>3. /\ SchedInv' /\ (\A v \in Pids : SwitchAhead(v)') /\ priority' = priority
      /\ sched'.status = [sched.status EXCEPT ![t] = "RECEIVE_BLOCKED"]
  <2>1. "RECEIVE_BLOCKED" \in Blocked /\ "yield_higher" \in Yields
    BY DEF Blocked, Yields
  <2>2. /\ SchedInv' /\ (\A v \in Pids : SwitchAhead(v)')
        /\ sched'.status = [sched.status EXCEPT ![t] = "RECEIVE_BLOCKED"]
    BY <1>1, <1>2, <2>1, MsgFacts, BlockStep DEF YieldTail
  <2> QED BY <1>1, <2>2 DEF KeepsContext
<1>4. /\ sched'.status[t] = "RECEIVE_BLOCKED" /\ buf'[t] = NoMsg /\ call'[t] = "receive"
      /\ \A v \in Pids : v # t =>
            sched'.status[v] = sched.status[v] /\ buf'[v] = buf[v] /\ call'[v] = call[v]
      /\ buf' \in [Pids -> Msgs \cup {NoMsg}]
      /\ call' \in [Pids -> {"none", "receive", "send", "send_receive"}]
  BY <1>1, <1>3, MsgFacts DEF IInv, MsgInv, MsgTypeOK
<1>5. MsgTypeOK'
  BY <1>1, <1>4 DEF IInv, MsgInv, MsgTypeOK
<1>6. ASSUME NEW v \in Pids PROVE CallInv(v)'
  <2>1. CASE v = t
    BY <1>4, <2>1 DEF CallInv
  <2>2. CASE v # t
    <3>1. CallInv(v) /\ SameStatus(v) /\ call'[v] = call[v] /\ buf'[v] = buf[v]
      BY <1>4, <2>2 DEF IInv, MsgInv, SameStatus
    <3>2. sched.status[v] = "SEND_BLOCKED" => \E x \in Pids : v \in InQueue(waiters'[x])
      BY <1>1, <3>1 DEF CallInv
    <3> QED BY <1>1, <3>1, <3>2, CallFrame
  <2> QED BY <2>1, <2>2
<1>7. ASSUME NEW v \in Pids PROVE WaitersInv(v)'
  <2>1. WaitersInv(v) /\ queue'[v] = queue[v] /\ waiters'[v] = waiters[v] /\ owed'[v] \subseteq owed[v]
    BY <1>1 DEF IInv, MsgInv
  <2>2. \A x \in InQueue(waiters[v]) :
           /\ buf'[x] = buf[x] /\ SameStatus(x)
           /\ \A w \in Pids : x \in InQueue(waiters'[w]) => x \in InQueue(waiters[w])
    BY <1>1, <1>2, <1>4, WaitersArePids DEF SameStatus
  <2>3. sched'.status[v] = "RECEIVE_BLOCKED" =>
           sched.status[v] = "RECEIVE_BLOCKED" \/ (queue[v] = <<>> /\ waiters[v] = <<>>)
    BY <1>1, <1>4
  <2> QED BY <1>3, <2>1, <2>2, <2>3, WaitersFrame
<1>8. RequestInv'
  <2>1. ASSUME NEW a \in Places, NEW u \in Pids
        PROVE  RequestsAt(a, u)' \subseteq RequestsAt(a, u)
    <3>1. CASE a = "owed" \/ a = "queued"
      BY <1>1, <3>1 DEF RequestsAt
    <3>2. CASE a = "handed"
      <4>1. CASE u = t
        BY <1>4, <3>2, <4>1, NoMsgFacts DEF RequestsAt
      <4>2. CASE u # t
        BY <1>4, <3>2, <4>2 DEF RequestsAt
      <4> QED BY <4>1, <4>2
    <3>3. CASE a = "offered"
      <4>1. \A x \in InQueue(waiters[u]) : buf'[x] = buf[x]
        BY <1>2, <1>4, WaitersArePids
      <4> QED BY <1>1, <3>3, <4>1 DEF RequestsAt
    <3> QED BY <3>1, <3>2, <3>3 DEF Places
  <2>2. ASSUME NEW a \in Places, NEW u \in Pids, NEW m \in RequestsAt(a, u)'
        PROVE  sched'.status[m.from] = sched.status[m.from] /\ sent'[<<m.from, u>>] = sent[<<m.from, u>>]
    <3>1. m \in RequestsAt(a, u)
      BY <2>1
    <3>2. m.from \in Pids /\ m.from # t
      BY <1>2, <3>1, RequestFacts, RunnerReady
    <3> QED BY <1>1, <1>4, <3>2
  <2> QED BY <2>1, <2>2, RequestsShrink
<1>9. ExactlyOnceInOrder'
  <2>1. ASSUME NEW r \in AllRoutes PROVE Handed(r)' = Handed(r) /\ Offered(r)' = Offered(r)
    <3>1. PICK x \in Senders, v \in Pids : r = <<x, v>> /\ r[1] = x /\ r[2] = v /\ x # 0
      BY RouteFacts
    <3>2. Handed(r)' = Handed(r)
      <4>1. CASE v = t
        BY <1>2, <1>4, <3>1, <4>1, NoMsgFacts DEF Handed
      <4>2. CASE v # t
        BY <1>4, <3>1, <4>2 DEF Handed
      <4> QED BY <4>1, <4>2
    <3>3. x \in InQueue(waiters[v]) => buf'[x] = buf[x]
      BY <1>2, <1>4, WaitersArePids
    <3>4. Offered(r)' = Offered(r)
      BY <1>1, <3>1, <3>3 DEF Offered
    <3> QED BY <3>2, <3>4
  <2> QED BY <1>1, <2>1, ExactFacts, ExactNext
<1>10. MsgInv'
  BY <1>5, <1>6, <1>7, <1>8, <1>9 DEF MsgInv
<1> QED BY <1>3, <1>10 DEF IInv

(* A thread has at most one request under way. *)
LEMMA RequestUnique ==
    ASSUME IInv, NEW a \in Places, NEW u \in Pids, NEW m \in RequestsAt(a, u),
           NEW b \in Places, NEW v \in Pids, NEW k \in RequestsAt(b, v), m.from = k.from
    PROVE  a = b /\ u = v /\ m = k
<1> RequestInv
  BY DEF IInv, MsgInv
<1>0. m.n = sent[<<m.from, u>>]
  BY DEF RequestInv
<1>1. a = b /\ u = v
  <2> DEFINE p == <<a, u>>
             q == <<b, v>>
             R == Reqs
  <2>1. /\ p \in Places \X Pids /\ q \in Places \X Pids /\ m \in R[p] /\ k \in R[q]
        /\ ReqOK(R, sched.status, sent)
    BY ReqFacts DEF Reqs
  <2> HIDE DEF p, q, R
  <2>2. p = q
    BY <2>1 DEF ReqOK
  <2> QED BY <2>2 DEF p, q
<1>2. m \in Msgs /\ k \in Msgs /\ m.kind = k.kind
  <2>1. Arrives(m, u) /\ m.kind = "request"
    BY RequestFacts
  <2>2. Arrives(k, v) /\ k.kind = "request"
    BY RequestFacts
  <2> QED BY <2>1, <2>2 DEF Arrives
<1>3. k.n = sent[<<k.from, v>>]
  BY DEF RequestInv
<1>4. m.n = k.n
  BY <1>0, <1>1, <1>3
<1> QED BY <1>1, <1>2, <1>4 DEF Msgs

(* The sender of a request that was received waits on no list. *)
LEMMA OwedFacts ==
    ASSUME IInv, NEW u \in Pids, NEW m \in owed[u]
    PROVE  /\ m \in RequestsAt("owed", u) /\ Arrives(m, u) /\ m.kind = "request"
           /\ m.from \in Pids /\ m.from # u
           /\ sched.status[m.from] = "REPLY_BLOCKED" /\ call[m.from] = "send_receive"
           /\ <<m.from, u>> \in RequestRoutes /\ m.n = sent[<<m.from, u>>]
           /\ \A v \in Pids : m.from \notin InQueue(waiters[v])
<1>1. m \in RequestsAt("owed", u) /\ "owed" \in Places /\ "offered" \in Places
  BY DEF RequestsAt, Places, IInv, MsgInv, WaitersInv
<1>2. /\ Arrives(m, u) /\ m.kind = "request" /\ m.from \in Pids /\ m.from # u
      /\ sched.status[m.from] = "REPLY_BLOCKED"
  BY <1>1, RequestFacts
<1>3. call[m.from] = "send_receive"
  BY <1>2 DEF IInv, MsgInv, CallInv
<1>4. <<m.from, u>> \in RequestRoutes
  BY <1>2 DEF Arrives
<1>5. m.n = sent[<<m.from, u>>]
  BY <1>1 DEF IInv, MsgInv, RequestInv
<1>6. ASSUME NEW v \in Pids, m.from \in InQueue(waiters[v]) PROVE FALSE
  <2> DEFINE s == m.from
  <2>1. /\ Arrives(buf[s], v) /\ buf[s].from = s
        /\ buf[s].kind = "msg" => sched.status[s] = "SEND_BLOCKED"
    BY <1>6 DEF IInv, MsgInv, WaitersInv
  <2>2. buf[s].kind = "request"
    BY <1>2, <2>1 DEF Arrives, Msgs
  <2>3. buf[s] \in RequestsAt("offered", v)
    BY <1>6, <2>2 DEF RequestsAt
  <2>4. "owed" = "offered"
    BY <1>1, <2>1, <2>3, RequestUnique
  <2> QED BY <2>4
<1> QED BY <1>1, <1>2, <1>3, <1>4, <1>5, <1>6

LEMMA AnswerStep ==
    ASSUME IInv, NEW u \in Pids, NEW m, Answer(u, m), priority' = priority,
           sched'.status = [sched.status EXCEPT ![m.from] = "PENDING"]
    PROVE  MsgInv'
<1> DEFINE s == m.from
<1>1. /\ m \in owed[u] /\ buf' = [buf EXCEPT ![s] = Reply(u, m)]
      /\ owed' = [owed EXCEPT ![u] = @ \ {m}]
      /\ UNCHANGED <<queue, inited, waiters, call, sent, last>>
  BY DEF Answer
<1>2. /\ m \in RequestsAt("owed", u) /\ m \in Msgs /\ s \in Pids /\ s # u
      /\ call[s] = "send_receive"
      /\ <<s, u>> \in RequestRoutes /\ m.n = sent[<<s, u>>]
      /\ \A v \in Pids : s \notin InQueue(waiters[v])
  BY <1>1, OwedFacts DEF Arrives
<1>3. /\ Reply(u, m) \in Msgs /\ Reply(u, m).kind = "reply" /\ Reply(u, m).from = u
      /\ Reply(u, m).n = m.n
  BY <1>2 DEF Reply, Msgs, Senders
<1>4. /\ sched'.status[s] = "PENDING" /\ buf'[s] = Reply(u, m)
      /\ \A v \in Pids : v # s => sched'.status[v] = sched.status[v] /\ buf'[v] = buf[v]
      /\ buf' \in [Pids -> Msgs \cup {NoMsg}]
      /\ owed' \in [Pids -> SUBSET Msgs] /\ \A v \in Pids : owed'[v] \subseteq owed[v]
      /\ m \notin owed'[u]
  BY <1>1, <1>2, <1>3, MsgFacts DEF IInv, MsgInv, MsgTypeOK
<1> HIDE DEF s
<1>5. MsgTypeOK'
  BY <1>1, <1>4 DEF IInv, MsgInv, MsgTypeOK
<1>6. ASSUME NEW v \in Pids PROVE CallInv(v)'
  <2>1. CASE v = s
    <3>1. /\ buf'[s].kind = "reply" /\ <<s, buf'[s].from>> \in RequestRoutes
          /\ buf'[s].n = sent'[<<s, buf'[s].from>>]
      BY <1>1, <1>2, <1>3, <1>4
    <3> QED BY <1>1, <1>2, <1>4, <2>1, <3>1 DEF CallInv
  <2>2. CASE v # s
    <3>1. CallInv(v) /\ SameStatus(v) /\ call'[v] = call[v] /\ buf'[v] = buf[v]
      BY <1>1, <1>4, <2>2 DEF IInv, MsgInv, SameStatus
    <3>2. sched.status[v] = "SEND_BLOCKED" => \E x \in Pids : v \in InQueue(waiters'[x])
      BY <1>1, <3>1 DEF CallInv
    <3> QED BY <1>1, <3>1, <3>2, CallFrame
  <2> QED BY <2>1, <2>2
<1>7. ASSUME NEW v \in Pids PROVE WaitersInv(v)'
  <2>1. WaitersInv(v) /\ queue'[v] = queue[v] /\ waiters'[v] = waiters[v] /\ owed'[v] \subseteq owed[v]
    BY <1>1, <1>4 DEF IInv, MsgInv
  <2>2. \A x \in InQueue(waiters[v]) :
           /\ buf'[x] = buf[x] /\ SameStatus(x)
           /\ \A w \in Pids : x \in InQueue(waiters'[w]) => x \in InQueue(waiters[w])
    BY <1>1, <1>2, <1>4, WaitersArePids DEF SameStatus
  <2>3. sched'.status[v] = "RECEIVE_BLOCKED" => sched.status[v] = "RECEIVE_BLOCKED"
    BY <1>4
  <2> QED BY <2>1, <2>2, <2>3, WaitersFrame
<1>8. RequestInv'
  <2>1. ASSUME NEW a \in Places, NEW v \in Pids
        PROVE  RequestsAt(a, v)' \subseteq RequestsAt(a, v)
    <3>1. CASE a = "owed"
      BY <1>4, <3>1 DEF RequestsAt
    <3>2. CASE a = "queued"
      BY <1>1, <3>2 DEF RequestsAt
    <3>3. CASE a = "handed"
      <4>1. CASE v = s
        BY <1>1, <1>2, <3>3, <4>1 DEF RequestsAt
      <4>2. CASE v # s
        BY <1>1, <1>4, <3>3, <4>2 DEF RequestsAt
      <4> QED BY <4>1, <4>2
    <3>4. CASE a = "offered"
      <4>1. \A x \in InQueue(waiters[v]) : buf'[x] = buf[x]
        BY <1>2, <1>4, WaitersArePids
      <4> QED BY <1>1, <3>4, <4>1 DEF RequestsAt
    <3> QED BY <3>1, <3>2, <3>3, <3>4 DEF Places
  <2>2. ASSUME NEW a \in Places, NEW v \in Pids, NEW k \in RequestsAt(a, v)'
        PROVE  sched'.status[k.from] = sched.status[k.from] /\ sent'[<<k.from, v>>] = sent[<<k.from, v>>]
    <3>1. k \in RequestsAt(a, v)
      BY <2>1
    <3>2. k.from \in Pids
      BY <3>1, RequestFacts
    <3>3. k.from # s
      <4> SUFFICES ASSUME m.from = k.from PROVE FALSE
        BY DEF s
      <4>1. "owed" \in Places
        BY DEF Places
      <4>2. a = "owed" /\ v = u /\ k = m
        BY <1>2, <3>1, <4>1, RequestUnique
      <4>3. k \in owed'[u]
        BY <4>2 DEF RequestsAt
      <4> QED BY <1>4, <4>2, <4>3
    <3> QED BY <1>1, <1>4, <3>2, <3>3
  <2> QED BY <2>1, <2>2, RequestsShrink
<1>9. ExactlyOnceInOrder'
  <2>1. ASSUME NEW r \in AllRoutes PROVE Handed(r)' = Handed(r) /\ Offered(r)' = Offered(r)
    <3>1. PICK x \in Senders, v \in Pids : r = <<x, v>> /\ r[1] = x /\ r[2] = v /\ x # 0
      BY RouteFacts
    <3>2. Handed(r)' = Handed(r)
      <4>1. CASE v = s
        BY <1>1, <1>2, <3>1, <4>1 DEF Handed
      <4>2. CASE v # s
        BY <1>1, <1>4, <3>1, <4>2 DEF Handed
      <4> QED BY <4>1, <4>2
    <3>3. x \in InQueue(waiters[v]) => buf'[x] = buf[x]
      BY <1>2, <1>4, WaitersArePids
    <3>4. Offered(r)' = Offered(r)
      BY <1>1, <3>1, <3>3 DEF Offered
    <3> QED BY <3>2, <3>4
  <2> QED BY <1>1, <2>1, ExactFacts, ExactNext
<1> QED BY <1>5, <1>6, <1>7, <1>8, <1>9 DEF MsgInv

LEMMA ReplyAction ==
    ASSUME IInv, NEW u \in Pids, NEW m \in owed[u], msg_reply(u, m) \/ msg_reply_int(u, m)
    PROVE  IInv'
<1>1. /\ Answer(u, m) /\ KeepsContext
      /\ sched' = sched_set_status(sched, priority, m.from, "PENDING")
  BY DEF msg_reply, msg_reply_int, Answer
<1>2. m.from \in Pids /\ sched.status[m.from] = "REPLY_BLOCKED"
  BY OwedFacts
<1>3. sched.status[m.from] \notin OnRunqueue /\ "PENDING" \in OnRunqueue
  BY <1>2 DEF OnRunqueue
<1>4. /\ SchedInv' /\ (\A v \in Pids : SwitchAhead(v)') /\ priority' = priority
      /\ sched'.status = [sched.status EXCEPT ![m.from] = "PENDING"]
  <2>1. CASE msg_reply(u, m)
    <3>1. Runs(u) /\ SwitchTail(sched', priority[m.from])
      BY <2>1, CallsFacts DEF msg_reply
    <3> QED BY <1>1, <1>2, <1>3, <3>1, WakeSched
  <2>2. CASE msg_reply_int(u, m)
    <3>1. irq_is_in /\ sched_context_switch_request' = TRUE /\ UNCHANGED <<pc, other_prio>>
      BY <2>2 DEF msg_reply_int
    <3>2. /\ SchedInv' /\ (\A v \in Pids : SwitchAhead(v)')
          /\ sched'.status = [sched.status EXCEPT ![m.from] = "PENDING"]
      BY <1>1, <1>2, <1>3, <3>1, MsgFacts, IsrWakeStep
    <3> QED BY <1>1, <3>2 DEF KeepsContext
  <2> QED BY <2>1, <2>2
<1>5. MsgInv'
  BY <1>1, <1>4, AnswerStep
<1> QED BY <1>4, <1>5 DEF IInv

-----------------------------------------------------------------------------
(* Thread t gets message m. *)
LEMMA GotFacts ==
    ASSUME IInv, NEW t \in Pids, NEW m, Arrives(m, t), Got(t, m)
    PROVE  /\ <<m.from, t>> \in AllRoutes
           /\ last' \in [AllRoutes -> 0 .. MaxMsgs] /\ last'[<<m.from, t>>] = m.n
           /\ \A r \in AllRoutes : r # <<m.from, t>> => last'[r] = last[r]
           /\ owed' \in [Pids -> SUBSET Msgs]
           /\ \A v \in Pids : v # t => owed'[v] = owed[v]
           /\ \A k \in owed'[t] : k \in owed[t] \/ (k = m /\ k.kind = "request")
<1>1. /\ m \in Msgs /\ <<m.from, t>> \in AllRoutes
      /\ last \in [AllRoutes -> 0 .. MaxMsgs] /\ owed \in [Pids -> SUBSET Msgs]
  BY RouteFacts DEF Arrives, Msgs, IInv, MsgInv, MsgTypeOK
<1>2. m.n \in 0 .. MaxMsgs
  <2>1. m.n \in 1 .. MaxMsgs /\ MaxMsgs \in Nat
    BY <1>1, MsgAssumption DEF Msgs
  <2> QED BY <2>1
<1>3. /\ last' = [last EXCEPT ![<<m.from, t>>] = m.n]
      /\ owed' = IF m.kind = "request" THEN [owed EXCEPT ![t] = @ \cup {m}] ELSE owed
  BY DEF Got
<1>4. /\ last' \in [AllRoutes -> 0 .. MaxMsgs] /\ last'[<<m.from, t>>] = m.n
      /\ \A r \in AllRoutes : r # <<m.from, t>> => last'[r] = last[r]
  BY <1>1, <1>2, <1>3
<1>5. CASE m.kind = "request"
  <2>1. owed' = [owed EXCEPT ![t] = @ \cup {m}]
    BY <1>3, <1>5
  <2>2. owed' \in [Pids -> SUBSET Msgs] /\ owed'[t] = owed[t] \cup {m}
        /\ \A v \in Pids : v # t => owed'[v] = owed[v]
    BY <1>1, <2>1
  <2> QED BY <1>1, <1>4, <1>5, <2>2
<1>6. CASE m.kind # "request"
  BY <1>1, <1>3, <1>4, <1>6
<1> QED BY <1>5, <1>6

(* A request that moves from place z to y, if m is one. *)
LEMMA ReqTake ==
    ASSUME NEW R, NEW Q, NEW st, NEW sn, NEW st2, ReqOK(R, st, sn),
           NEW z \in Places \X Pids, NEW y \in Places \X Pids, NEW m, z[2] = y[2],
           \A p \in Places \X Pids :
              Q[p] \subseteq R[p] \/ (p = y /\ \A k \in Q[p] : k \in R[p] \/ (k = m /\ k \in R[z])),
           m \notin Q[z],
           \A p \in Places \X Pids : \A k \in R[p] : st2[k.from] = st[k.from],
           m \in R[z] => \A k \in R[z] : k.from = m.from => k = m
    PROVE  ReqOK(Q, st2, sn)
<1>1. CASE m \in R[z]
  <2>1. \A p \in Places \X Pids : Q[p] \subseteq R[p] \/ (p = y /\ Q[p] \subseteq R[p] \cup {m})
    OBVIOUS
  <2> QED BY <1>1, <2>1, ReqMove
<1>2. CASE m \notin R[z]
  <2>1. \A p \in Places \X Pids : Q[p] \subseteq R[p]
    BY <1>2
  <2>2. \A p \in Places \X Pids : \A k \in Q[p] : st2[k.from] = st[k.from]
    BY <2>1
  <2> QED BY <2>1, <2>2, ReqShrink
<1> QED BY <1>1, <1>2

LEMMA WaitersNext ==
    ASSUME NEW u \in Pids, WaitersInv(u), priority' = priority,
           sched'.status[u] = "RECEIVE_BLOCKED" => queue'[u] = <<>> /\ waiters'[u] = <<>>,
           \A m \in InQueue(queue'[u]) : m \in InQueue(queue[u]) \/ Arrives(m, u),
           NoRepeats(waiters'[u]), SortedByPriority(waiters'[u]),
           \A m \in owed'[u] : m \in owed[u] \/ (Arrives(m, u) /\ m.kind = "request"),
           \A s \in InQueue(waiters'[u]) :
              /\ s \in InQueue(waiters[u]) /\ buf'[s] = buf[s] /\ SameStatus(s)
              /\ \A v \in Pids : s \in InQueue(waiters'[v]) => s \in InQueue(waiters[v])
    PROVE  WaitersInv(u)'
<1>1. \A m, v : Arrives(m, v)' = Arrives(m, v)
  BY DEF Arrives
<1>2. NoRepeats(waiters[u])' /\ SortedByPriority(waiters[u])'
  BY DEF NoRepeats, SortedByPriority
<1>3. ASSUME NEW s \in InQueue(waiters'[u])
      PROVE  /\ Arrives(buf'[s], u) /\ buf'[s].from = s
             /\ buf'[s].kind = "msg" => sched'.status[s] = "SEND_BLOCKED"
             /\ buf'[s].kind = "request" => sched'.status[s] = "REPLY_BLOCKED"
             /\ \A v \in Pids : s \in InQueue(waiters'[v]) => u = v
  BY <1>3 DEF WaitersInv, SameStatus, MsgBlocked
<1>4. \A m \in InQueue(queue'[u]) : Arrives(m, u)
  BY DEF WaitersInv
<1>5. \A m \in owed'[u] : Arrives(m, u) /\ m.kind = "request"
  BY DEF WaitersInv
<1> QED BY <1>1, <1>2, <1>3, <1>4, <1>5 DEF WaitersInv

LEMMA ReturnsAction ==
    ASSUME IInv, NEW t \in Pids, Returns(t)
    PROVE  IInv'
<1> DEFINE m == buf[t]
<1>1. /\ InThread(t) /\ call[t] # "none"
      /\ call' = [call EXCEPT ![t] = "none"] /\ buf' = [buf EXCEPT ![t] = NoMsg]
      /\ UNCHANGED <<schedVars, queue, inited, waiters, sent>>
      /\ IF call[t] = "receive" THEN Got(t, m) ELSE UNCHANGED <<last, owed>>
  BY DEF Returns
<1>2. /\ Runs(t) /\ sched.status[t] \notin MsgBlocked
      /\ \A v \in Pids : t \notin InQueue(waiters[v])
      /\ \A a \in Places, u \in Pids : \A k \in RequestsAt(a, u) : k.from # t
  BY <1>1, RunnerReady DEF InThread
<1>3. sched' = sched /\ priority' = priority
  BY <1>1 DEF schedVars
<1>4. /\ call'[t] = "none" /\ \A v \in Pids : v # t => call'[v] = call[v] /\ buf'[v] = buf[v]
      /\ buf' \in [Pids -> Msgs \cup {NoMsg}]
      /\ call' \in [Pids -> {"none", "receive", "send", "send_receive"}]
  BY <1>1 DEF IInv, MsgInv, MsgTypeOK
<1>5. call[t] = "receive" =>
        /\ Arrives(m, t) /\ m \in Msgs /\ <<m.from, t>> \in AllRoutes
        /\ last'[<<m.from, t>>] = m.n
        /\ \A r \in AllRoutes : r # <<m.from, t>> => last'[r] = last[r]
        /\ \A k \in owed'[t] : k \in owed[t] \/ (k = m /\ k.kind = "request")
  <2> HAVE call[t] = "receive"
  <2>1. Arrives(m, t)
    BY <1>2 DEF IInv, MsgInv, CallInv, MsgBlocked
  <2> QED BY <1>1, <2>1, GotFacts DEF Arrives
<1>6. call[t] # "receive" => last' = last /\ owed' = owed
  BY <1>1
<1>7. last' \in [AllRoutes -> 0 .. MaxMsgs] /\ owed' \in [Pids -> SUBSET Msgs]
      /\ \A v \in Pids : v # t => owed'[v] = owed[v]
  <2>1. CASE call[t] = "receive"
    BY <1>1, <1>5, <2>1, GotFacts
  <2>2. CASE call[t] # "receive"
    BY <1>6, <2>2 DEF IInv, MsgInv, MsgTypeOK
  <2> QED BY <2>1, <2>2
<1> HIDE DEF m
<1>8. MsgTypeOK'
  BY <1>1, <1>4, <1>7 DEF IInv, MsgInv, MsgTypeOK
<1>9. ASSUME NEW v \in Pids PROVE CallInv(v)'
  <2>1. CASE v = t
    BY <1>2, <1>3, <1>4, <2>1 DEF CallInv, MsgBlocked
  <2>2. CASE v # t
    <3>1. CallInv(v) /\ SameStatus(v) /\ call'[v] = call[v] /\ buf'[v] = buf[v]
      BY <1>3, <1>4, <2>2 DEF IInv, MsgInv, SameStatus
    <3>2. sched.status[v] = "SEND_BLOCKED" => \E x \in Pids : v \in InQueue(waiters'[x])
      BY <1>1, <3>1 DEF CallInv
    <3> QED BY <1>1, <3>1, <3>2, CallFrame
  <2> QED BY <2>1, <2>2
<1>10. ASSUME NEW v \in Pids PROVE WaitersInv(v)'
  <2>1. /\ WaitersInv(v) /\ queue'[v] = queue[v] /\ waiters'[v] = waiters[v]
        /\ NoRepeats(waiters'[v]) /\ SortedByPriority(waiters'[v])
        /\ sched'.status[v] = "RECEIVE_BLOCKED" => queue'[v] = <<>> /\ waiters'[v] = <<>>
    BY <1>1, <1>3 DEF IInv, MsgInv, WaitersInv
  <2>2. \A x \in InQueue(waiters'[v]) :
           /\ x \in InQueue(waiters[v]) /\ buf'[x] = buf[x] /\ SameStatus(x)
           /\ \A w \in Pids : x \in InQueue(waiters'[w]) => x \in InQueue(waiters[w])
    BY <1>1, <1>2, <1>3, <1>4, WaitersArePids DEF SameStatus
  <2>3. \A k \in owed'[v] : k \in owed[v] \/ (Arrives(k, v) /\ k.kind = "request")
    BY <1>5, <1>6, <1>7
  <2> QED BY <1>3, <2>1, <2>2, <2>3, WaitersNext
<1>11. RequestInv'
  <2> DEFINE R == Reqs
             Q == Reqs'
             z == <<"handed", t>>
             y == <<"owed", t>>
             st == sched.status
  <2>1. /\ \A p \in Places \X Pids : p = <<p[1], p[2]>> /\ p[1] \in Places /\ p[2] \in Pids
        /\ \A p \in Places \X Pids : R[p] = RequestsAt(p[1], p[2]) /\ Q[p] = RequestsAt(p[1], p[2])'
        /\ z \in Places \X Pids /\ y \in Places \X Pids /\ z[2] = y[2]
    BY DEF Reqs, Places
  <2>2. RequestsAt("handed", t)' = {}
    BY <1>4, RequestsAtPlaces DEF RequestsAt
  <2>3. ASSUME NEW a \in Places, NEW v \in Pids
        PROVE  \/ RequestsAt(a, v)' \subseteq RequestsAt(a, v)
               \/ /\ a = "owed" /\ v = t
                  /\ \A k \in RequestsAt(a, v)' :
                        k \in RequestsAt(a, v) \/ (k = m /\ k \in RequestsAt("handed", t))
    <3>1. CASE a = "owed"
      <4>1. CASE v # t
        BY <1>7, <3>1, <4>1 DEF RequestsAt
      <4>2. CASE v = t /\ call[t] # "receive"
        BY <1>6, <3>1, <4>2 DEF RequestsAt
      <4>3. CASE v = t /\ call[t] = "receive"
        BY <1>5, <3>1, <4>3 DEF RequestsAt, m
      <4> QED BY <4>1, <4>2, <4>3
    <3>2. CASE a = "queued"
      BY <1>1, <3>2 DEF RequestsAt
    <3>3. CASE a = "handed"
      <4>1. CASE v # t
        BY <1>4, <3>3, <4>1 DEF RequestsAt
      <4> QED BY <2>2, <3>3, <4>1
    <3>4. CASE a = "offered"
      <4>1. \A x \in InQueue(waiters[v]) : buf'[x] = buf[x]
        BY <1>2, <1>4, WaitersArePids
      <4> QED BY <1>1, <3>4, <4>1 DEF RequestsAt
    <3> QED BY <3>1, <3>2, <3>3, <3>4 DEF Places
  <2>4. \A p \in Places \X Pids :
           Q[p] \subseteq R[p] \/ (p = y /\ \A k \in Q[p] : k \in R[p] \/ (k = m /\ k \in R[z]))
    BY <2>1, <2>3
  <2>5. m \notin Q[z] /\ ReqOK(R, st, sent)
    BY <2>1, <2>2, ReqFacts DEF IInv, MsgInv
  <2>6. \A k \in R[z] : k.from = m.from => k = m
    BY <2>1 DEF RequestsAt, m
  <2>7. sched'.status = st /\ sent' = sent
    BY <1>1, <1>3
  <2> HIDE DEF R, Q, z, y, st
  <2>8. ReqOK(Q, st, sent)
    BY <2>1, <2>4, <2>5, <2>6, ReqTake
  <2> QED BY <2>7, <2>8, ReqNext DEF Q
<1>12. ASSUME NEW r \in AllRoutes
       PROVE  RouteOK(Handed(r)', NumbersIn(queue'[r[2]], r[1]), Offered(r)', last'[r], sent'[r])
  <2>1. PICK x \in Senders, v \in Pids : r = <<x, v>> /\ r[1] = x /\ r[2] = v /\ x # 0
    BY RouteFacts
  <2>2. /\ last[r] \in Nat /\ sent[r] \in Nat
        /\ RouteOK(Handed(r), NumbersIn(queue[r[2]], r[1]), Offered(r), last[r], sent[r])
    BY ExactFacts
  <2>3. Offered(r)' = Offered(r)
    <3>1. x \in InQueue(waiters[v]) => buf'[x] = buf[x]
      BY <1>2, <1>4, WaitersArePids
    <3> QED BY <1>1, <2>1, <3>1 DEF Offered
  <2>4. CASE v = t /\ call[t] = "receive" /\ m.from = x
    <3>1. Handed(r) = {m.n} /\ Handed(r)' = {} /\ last'[r] = m.n
      BY <1>4, <1>5, <2>1, <2>4 DEF Handed, m
    <3>2. RouteOK({m.n}, NumbersIn(queue[r[2]], r[1]), Offered(r), last[r], sent[r])
      BY <2>2, <3>1
    <3>3. RouteOK({}, NumbersIn(queue[r[2]], r[1]), Offered(r), m.n, sent[r])
      BY <2>2, <3>2, RouteTakeHanded
    <3> QED BY <1>1, <2>3, <3>1, <3>3
  <2>5. CASE ~(v = t /\ call[t] = "receive" /\ m.from = x)
    <3>1. Handed(r)' = Handed(r)
      <4>1. CASE v = t
        BY <1>4, <2>1, <2>5, <4>1 DEF Handed, m
      <4>2. CASE v # t
        BY <1>4, <2>1, <4>2 DEF Handed
      <4> QED BY <4>1, <4>2
    <3>2. last'[r] = last[r]
      <4>1. CASE call[t] = "receive"
        <5>1. r # <<m.from, t>>
          BY <2>1, <2>5, <4>1
        <5> QED BY <1>5, <4>1, <5>1
      <4> QED BY <1>6, <4>1
    <3> QED BY <1>1, <2>2, <2>3, <3>1, <3>2
  <2> QED BY <2>4, <2>5
<1>13. ExactlyOnceInOrder'
  BY <1>1, <1>12, ExactFacts, ExactNext
<1>14. MsgInv'
  BY <1>8, <1>9, <1>10, <1>11, <1>13 DEF MsgInv
<1> QED BY <1>1, <1>14, SchedSame DEF IInv

-----------------------------------------------------------------------------
(* _msg_receive() with something to receive: the first waiter, the message *)
(* taken and the rest of the queue.                                        *)
Waiter(t) == Head(waiters[t])

Taken(t) == IF queue[t] # <<>> THEN Head(queue[t]) ELSE buf[Waiter(t)]

Rest(t) == IF queue[t] = <<>> THEN <<>> ELSE Tail(queue[t])

Wakes(t) == waiters[t] # <<>> /\ sched.status[Waiter(t)] # "REPLY_BLOCKED"

LEMMA WaiterFacts ==
    ASSUME IInv, NEW t \in Pids, waiters[t] # <<>>
    PROVE  /\ Waiter(t) \in Pids /\ Waiter(t) \in InQueue(waiters[t])
           /\ Arrives(buf[Waiter(t)], t) /\ buf[Waiter(t)].from = Waiter(t)
           /\ Tail(waiters[t]) \in Seq(Pids)
           /\ InQueue(Tail(waiters[t])) = InQueue(waiters[t]) \ {Waiter(t)}
           /\ NoRepeats(Tail(waiters[t])) /\ SortedByPriority(Tail(waiters[t]))
           /\ \A v \in Pids : Waiter(t) \in InQueue(waiters[v]) => v = t
           /\ sched.status[Waiter(t)] \notin OnRunqueue
           /\ \/ /\ buf[Waiter(t)].kind = "msg" /\ Wakes(t)
                 /\ sched.status[Waiter(t)] = "SEND_BLOCKED" /\ call[Waiter(t)] = "send"
              \/ /\ buf[Waiter(t)].kind = "request" /\ ~Wakes(t)
                 /\ sched.status[Waiter(t)] = "REPLY_BLOCKED"
<1> DEFINE q == waiters[t]
           s == Waiter(t)
<1>1. /\ q \in Seq(Pids) /\ q # <<>> /\ NoRepeats(q) /\ SortedByPriority(q)
      /\ priority \in [Pids -> Prios] /\ Pids \in SUBSET Pids
  BY MsgFacts, ZenonT(30) DEF IInv, MsgInv, MsgTypeOK, WaitersInv
<1>2. s = Head(q)
  BY DEF Waiter
<1> HIDE DEF q
<1>3. /\ Tail(q) \in Seq(Pids) /\ Head(q) \in Pids /\ Head(q) \in InQueue(q)
      /\ InQueue(Tail(q)) = InQueue(q) \ {Head(q)}
      /\ NoRepeats(Tail(q)) /\ SortedByPriority(Tail(q))
  BY <1>1, TailOfList
<1> USE DEF q
<1>4. s \in Pids /\ s \in InQueue(waiters[t])
  BY <1>2, <1>3
<1>5. /\ Arrives(buf[s], t) /\ buf[s].from = s
      /\ buf[s].kind = "msg" => sched.status[s] = "SEND_BLOCKED"
      /\ buf[s].kind = "request" => sched.status[s] = "REPLY_BLOCKED"
      /\ \A v \in Pids : s \in InQueue(waiters[v]) => v = t
  BY <1>4 DEF IInv, MsgInv, WaitersInv
<1>6. buf[s].kind \in {"msg", "request"}
  BY <1>5 DEF Arrives, Msgs
<1>7. sched.status[s] = "SEND_BLOCKED" => call[s] = "send"
  BY <1>4 DEF IInv, MsgInv, CallInv
<1>8. sched.status[s] \notin OnRunqueue
  BY <1>5, <1>6 DEF OnRunqueue
<1>9. Wakes(t) <=> sched.status[s] # "REPLY_BLOCKED"
  BY DEF Wakes
<1> QED BY <1>2, <1>3, <1>4, <1>5, <1>6, <1>7, <1>8, <1>9

LEMMA RestFacts ==
    ASSUME IInv, NEW t \in Pids, queue[t] # <<>>
    PROVE  LET h == Head(queue[t])
           IN  /\ Arrives(h, t) /\ h \in Msgs /\ h \in InQueue(queue[t])
               /\ Tail(queue[t]) \in Seq(Msgs) /\ InOrder(Tail(queue[t]))
               /\ InQueue(Tail(queue[t])) \subseteq InQueue(queue[t])
               /\ h \notin InQueue(Tail(queue[t]))
               /\ h.n \in NumbersIn(queue[t], h.from)
               /\ \A k \in NumbersIn(queue[t], h.from) : h.n = k \/ h.n < k
               /\ NumbersIn(Tail(queue[t]), h.from) = NumbersIn(queue[t], h.from) \ {h.n}
               /\ \A s : s # h.from => NumbersIn(Tail(queue[t]), s) = NumbersIn(queue[t], s)
<1> DEFINE q == queue[t]
           h == Head(q)
<1>1. /\ q \in Seq(Msgs) /\ q # <<>> /\ InOrder(q) /\ \A m \in InQueue(q) : Arrives(m, t)
  BY ExactFacts DEF IInv, MsgInv, MsgTypeOK, WaitersInv
<1>2. \A m \in Msgs : m.n \in Nat
  BY MsgAssumption DEF Msgs
<1> HIDE DEF q
<1>3. /\ h \in Msgs /\ h.n \in NumbersIn(q, h.from)
      /\ Tail(q) \in Seq(Msgs) /\ InOrder(Tail(q))
      /\ NumbersIn(Tail(q), h.from) = NumbersIn(q, h.from) \ {h.n}
      /\ \A k \in NumbersIn(q, h.from) : h.n = k \/ h.n < k
      /\ \A s : s # h.from => NumbersIn(Tail(q), s) = NumbersIn(q, s)
  BY <1>1, <1>2, TailInOrder
<1>4. h \in InQueue(q) /\ InQueue(Tail(q)) \subseteq InQueue(q)
  BY <1>1 DEF InQueue
<1>5. h \notin InQueue(Tail(q))
  <2>1. h \in InQueue(Tail(q)) => h.n \in NumbersIn(Tail(q), h.from)
    BY DEF InQueue, NumbersIn
  <2> QED BY <1>3, <2>1
<1>6. Arrives(h, t)
  BY <1>1, <1>4
<1> QED BY <1>3, <1>4, <1>5, <1>6 DEF q

(* What _msg_receive() does. *)
LEMMA ReceiveFacts ==
    ASSUME IInv, NEW t \in Pids, ReceiveNow(t)
    PROVE  /\ Runs(t) /\ call[t] = "none" /\ sched.status[t] \notin MsgBlocked
           /\ \A v \in Pids : t \notin InQueue(waiters[v])
           /\ queue[t] # <<>> \/ waiters[t] # <<>>
           /\ Arrives(Taken(t), t) /\ Got(t, Taken(t))
           /\ queue' = [queue EXCEPT ![t] =
                            IF queue[t] # <<>> /\ waiters[t] # <<>>
                            THEN Append(Rest(t), buf[Waiter(t)]) ELSE Rest(t)]
           /\ waiters[t] = <<>> => waiters' = waiters
           /\ waiters[t] # <<>> => waiters' = [waiters EXCEPT ![t] = Tail(@)]
           /\ buf' = IF Wakes(t) THEN [buf EXCEPT ![Waiter(t)] = NoMsg] ELSE buf
           /\ UNCHANGED <<inited, call, sent>>
           /\ SchedInv' /\ (\A v \in Pids : SwitchAhead(v)') /\ priority' = priority
           /\ sched'.status = IF Wakes(t) THEN [sched.status EXCEPT ![Waiter(t)] = "PENDING"]
                              ELSE sched.status
<1>1. /\ Calls(t) /\ (queue[t] # <<>> \/ waiters[t] # <<>>)
      /\ Got(t, Taken(t))
      /\ queue' = [queue EXCEPT ![t] =
                       IF @ = <<>> THEN @
                       ELSE IF waiters[t] = <<>> THEN Tail(@)
                       ELSE Append(Tail(@), buf[Waiter(t)])]
      /\ waiters' = IF waiters[t] = <<>> THEN waiters ELSE [waiters EXCEPT ![t] = Tail(@)]
      /\ buf' = IF Wakes(t) THEN [buf EXCEPT ![Waiter(t)] = NoMsg] ELSE buf
      /\ sched' = IF Wakes(t) THEN sched_set_status(sched, priority, Waiter(t), "PENDING") ELSE sched
      /\ IF Wakes(t) /\ priority[Waiter(t)] < THREAD_PRIORITY_IDLE
         THEN SwitchTail(sched', priority[Waiter(t)])
         ELSE UNCHANGED <<pc, other_prio, sched_context_switch_request>>
      /\ KeepsContext /\ UNCHANGED <<inited, call, sent>>
  BY DEF ReceiveNow, Taken, Waiter, Wakes
<1>2. /\ Runs(t) /\ call[t] = "none" /\ sched.status[t] \notin MsgBlocked
      /\ \A v \in Pids : t \notin InQueue(waiters[v])
  BY <1>1, CallsFacts, RunnerReady
<1>3. Arrives(Taken(t), t)
  <2>1. CASE queue[t] # <<>>
    BY <2>1, RestFacts DEF Taken
  <2>2. CASE queue[t] = <<>>
    BY <1>1, <2>2, WaiterFacts DEF Taken
  <2> QED BY <2>1, <2>2
<1>4. queue' = [queue EXCEPT ![t] =
                    IF queue[t] # <<>> /\ waiters[t] # <<>>
                    THEN Append(Rest(t), buf[Waiter(t)]) ELSE Rest(t)]
  BY <1>1 DEF Rest
<1>5. /\ SchedInv' /\ (\A v \in Pids : SwitchAhead(v)') /\ priority' = priority
      /\ sched'.status = IF Wakes(t) THEN [sched.status EXCEPT ![Waiter(t)] = "PENDING"]
                         ELSE sched.status
  <2>1. CASE Wakes(t)
    <3> DEFINE s == Waiter(t)
    <3>1. /\ s \in Pids /\ sched.status[s] \notin OnRunqueue
          /\ sched' = sched_set_status(sched, priority, s, "PENDING")
      BY <1>1, <2>1, WaiterFacts DEF Wakes
    <3>2. priority[s] \in Int /\ THREAD_PRIORITY_IDLE \in Int
      BY <3>1, MsgFacts, SchedAssumption DEF Prios, THREAD_PRIORITY_IDLE
    <3>3. \/ SwitchTail(sched', priority[s])
          \/ /\ priority[s] >= THREAD_PRIORITY_IDLE
             /\ UNCHANGED <<pc, other_prio, sched_context_switch_request>>
      BY <1>1, <2>1, <3>2
    <3> HIDE DEF s
    <3>4. /\ SchedInv' /\ (\A v \in Pids : SwitchAhead(v)') /\ priority' = priority
          /\ sched'.status = [sched.status EXCEPT ![s] = "PENDING"]
      BY <1>1, <1>2, <3>1, <3>3, WakeSched
    <3> QED BY <2>1, <3>4 DEF s
  <2>2. CASE ~Wakes(t)
    <3>1. UNCHANGED schedVars
      BY <1>1, <2>2 DEF schedVars, KeepsContext
    <3>2. SchedInv' /\ \A v \in Pids : SwitchAhead(v)'
      BY <3>1, SchedSame DEF IInv
    <3> QED BY <2>2, <3>1, <3>2 DEF schedVars
  <2> QED BY <2>1, <2>2
<1> QED BY <1>1, <1>2, <1>3, <1>4, <1>5

(* The wait lists and buffers after it. *)
LEMMA ReceiveEffects ==
    ASSUME IInv, NEW t \in Pids, ReceiveNow(t)
    PROVE  /\ \A v \in Pids : v # t => waiters'[v] = waiters[v] /\ queue'[v] = queue[v]
           /\ waiters[t] = <<>> => waiters'[t] = <<>>
           /\ waiters[t] # <<>> =>
                 /\ waiters'[t] = Tail(waiters[t])
                 /\ InQueue(waiters'[t]) = InQueue(waiters[t]) \ {Waiter(t)}
           /\ waiters' \in [Pids -> Seq(Pids)]
           /\ NoRepeats(waiters'[t]) /\ SortedByPriority(waiters'[t])
           /\ \A v \in Pids : \A x \in InQueue(waiters'[v]) :
                 x \in InQueue(waiters[v]) /\ (waiters[t] # <<>> => x # Waiter(t))
           /\ \A x \in Pids : (waiters[t] # <<>> => x # Waiter(t)) \/ ~Wakes(t) =>
                 buf'[x] = buf[x] /\ sched'.status[x] = sched.status[x]
           /\ Wakes(t) => buf'[Waiter(t)] = NoMsg /\ sched'.status[Waiter(t)] = "PENDING"
           /\ buf' \in [Pids -> Msgs \cup {NoMsg}]
<1> DEFINE s == Waiter(t)
<1>1. /\ waiters[t] = <<>> => waiters' = waiters
      /\ waiters[t] # <<>> => waiters' = [waiters EXCEPT ![t] = Tail(@)]
      /\ \A v \in Pids : v # t => queue'[v] = queue[v]
      /\ buf' = IF Wakes(t) THEN [buf EXCEPT ![s] = NoMsg] ELSE buf
      /\ sched'.status = IF Wakes(t) THEN [sched.status EXCEPT ![s] = "PENDING"] ELSE sched.status
  <2>1. queue \in [Pids -> Seq(Msgs)]
    BY DEF IInv, MsgInv, MsgTypeOK
  <2> QED BY <2>1, ReceiveFacts
<1>2. waiters[t] # <<>> =>
        /\ s \in Pids /\ s \in InQueue(waiters[t])
        /\ Tail(waiters[t]) \in Seq(Pids) /\ InQueue(Tail(waiters[t])) = InQueue(waiters[t]) \ {s}
        /\ NoRepeats(Tail(waiters[t])) /\ SortedByPriority(Tail(waiters[t]))
        /\ \A v \in Pids : s \in InQueue(waiters[v]) => v = t
  BY WaiterFacts
<1>3. /\ waiters \in [Pids -> Seq(Pids)] /\ buf \in [Pids -> Msgs \cup {NoMsg}]
      /\ NoRepeats(waiters[t]) /\ SortedByPriority(waiters[t])
  BY DEF IInv, MsgInv, MsgTypeOK, WaitersInv
<1> HIDE DEF s
<1>4. /\ \A v \in Pids : v # t => waiters'[v] = waiters[v]
      /\ waiters[t] = <<>> => waiters'[t] = <<>>
      /\ waiters[t] # <<>> => waiters'[t] = Tail(waiters[t])
      /\ waiters' \in [Pids -> Seq(Pids)]
  BY <1>1, <1>2, <1>3
<1>5. NoRepeats(waiters'[t]) /\ SortedByPriority(waiters'[t])
  <2>1. CASE waiters[t] = <<>>
    BY <1>1, <1>3, <2>1
  <2>2. CASE waiters[t] # <<>>
    BY <1>2, <1>4, <2>2
  <2> QED BY <2>1, <2>2
<1>6. ASSUME NEW v \in Pids, NEW x \in InQueue(waiters'[v])
      PROVE  x \in InQueue(waiters[v]) /\ (waiters[t] # <<>> => x # s)
  <2>1. CASE waiters[t] = <<>>
    BY <1>1, <1>6, <2>1
  <2>2. CASE waiters[t] # <<>> /\ v = t
    BY <1>2, <1>4, <1>6, <2>2
  <2>3. CASE waiters[t] # <<>> /\ v # t
    BY <1>2, <1>4, <1>6, <2>3
  <2> QED BY <2>1, <2>2, <2>3
<1>7. Wakes(t) => waiters[t] # <<>>
  BY DEF Wakes
<1>8. ASSUME NEW x \in Pids, (waiters[t] # <<>> => x # s) \/ ~Wakes(t)
      PROVE  buf'[x] = buf[x] /\ sched'.status[x] = sched.status[x]
  BY <1>1, <1>3, <1>7, <1>8, MsgFacts
<1>9. Wakes(t) => buf'[s] = NoMsg /\ sched'.status[s] = "PENDING"
  BY <1>1, <1>2, <1>3, <1>7, MsgFacts
<1>10. buf' \in [Pids -> Msgs \cup {NoMsg}]
  BY <1>1, <1>3
<1>11. waiters[t] # <<>> => InQueue(waiters'[t]) = InQueue(waiters[t]) \ {s}
  BY <1>2, <1>4
<1> QED BY <1>1, <1>4, <1>5, <1>6, <1>8, <1>9, <1>10, <1>11 DEF s

(* The queue after it, and the order within it. *)
LEMMA ReceiveQueue ==
    ASSUME IInv, NEW t \in Pids, ReceiveNow(t)
    PROVE  /\ Rest(t) \in Seq(Msgs) /\ queue' \in [Pids -> Seq(Msgs)] /\ InOrder(queue'[t])
           /\ IF queue[t] # <<>> /\ waiters[t] # <<>>
              THEN /\ queue'[t] = Append(Rest(t), buf[Waiter(t)])
                   /\ NumbersIn(queue'[t], Waiter(t)) =
                          NumbersIn(Rest(t), Waiter(t)) \cup {buf[Waiter(t)].n}
                   /\ \A x : x # Waiter(t) => NumbersIn(queue'[t], x) = NumbersIn(Rest(t), x)
                   /\ \A k \in InQueue(queue'[t]) : k \in InQueue(Rest(t)) \/ k = buf[Waiter(t)]
              ELSE queue'[t] = Rest(t)
<1> DEFINE m == buf[Waiter(t)]
           q == Rest(t)
           s == Waiter(t)
<1>1. queue \in [Pids -> Seq(Msgs)]
  BY DEF IInv, MsgInv, MsgTypeOK
<1>2. q \in Seq(Msgs) /\ InOrder(q)
  <2>1. CASE queue[t] = <<>>
    BY <2>1 DEF Rest, InOrder
  <2>2. CASE queue[t] # <<>>
    BY <2>2, RestFacts DEF Rest
  <2> QED BY <2>1, <2>2
<1>3. queue' = [queue EXCEPT ![t] =
                    IF queue[t] # <<>> /\ waiters[t] # <<>> THEN Append(q, m) ELSE q]
  BY ReceiveFacts
<1>4. CASE queue[t] # <<>> /\ waiters[t] # <<>>
  <2>1. queue'[t] = Append(q, m) /\ m \in Msgs /\ m.from = s /\ s \in Senders
    BY <1>1, <1>3, <1>4, WaiterFacts DEF Arrives, Senders
  <2>2. ASSUME NEW k \in NumbersIn(q, s) PROVE k < m.n
    <3> DEFINE r == <<s, t>>
    <3>1. r \in AllRoutes /\ r[1] = s /\ r[2] = t
      BY <1>4, WaiterFacts, RouteFacts DEF Arrives, Msgs
    <3>2. RouteOK(Handed(r), NumbersIn(queue[t], s), Offered(r), last[r], sent[r])
      BY <3>1, ExactFacts
    <3>3. m.n \in Offered(r)
      BY <1>4, <3>1, WaiterFacts DEF Offered
    <3>4. NumbersIn(q, s) \subseteq NumbersIn(queue[t], s)
      <4> DEFINE h == Head(queue[t])
      <4>1. /\ NumbersIn(Tail(queue[t]), h.from) = NumbersIn(queue[t], h.from) \ {h.n}
            /\ \A x : x # h.from => NumbersIn(Tail(queue[t]), x) = NumbersIn(queue[t], x)
        BY <1>4, RestFacts
      <4>2. q = Tail(queue[t])
        BY <1>4 DEF Rest
      <4> HIDE DEF h, s, q
      <4> QED BY <4>1, <4>2
    <3> HIDE DEF q, m, s, r
    <3> QED BY <2>2, <3>2, <3>3, <3>4 DEF RouteOK
  <2> HIDE DEF q, m, s
  <2>3. \A k \in NumbersIn(q, m.from) : k < m.n
    BY <2>1, <2>2
  <2>4. /\ InOrder(Append(q, m))
        /\ NumbersIn(Append(q, m), m.from) = NumbersIn(q, m.from) \cup {m.n}
        /\ \A x : x # m.from => NumbersIn(Append(q, m), x) = NumbersIn(q, x)
    BY <1>2, <2>1, <2>3, AppendInOrder
  <2>5. \A k \in InQueue(Append(q, m)) : k \in InQueue(q) \/ k = m
    BY <1>2, <2>1 DEF InQueue
  <2>6. queue' \in [Pids -> Seq(Msgs)]
    BY <1>1, <1>2, <1>3, <2>1
  <2> QED BY <1>2, <1>4, <2>1, <2>4, <2>5, <2>6 DEF q, m, s
<1>5. CASE ~(queue[t] # <<>> /\ waiters[t] # <<>>)
  <2>1. queue'[t] = q
    BY <1>1, <1>3, <1>5
  <2> HIDE DEF q
  <2>2. queue' \in [Pids -> Seq(Msgs)]
    BY <1>1, <1>2, <1>3, <1>5
  <2>3. InOrder(queue'[t])
    BY <1>2, <2>1
  <2> QED BY <1>2, <1>5, <2>1, <2>2, <2>3 DEF q
<1> QED BY <1>4, <1>5

(* The message taken leaves its place; if it is a request it is owed an    *)
(* answer.  The waiter's message moves into the queue.                     *)
LEMMA ReceiveRequests ==
    ASSUME IInv, NEW t \in Pids, ReceiveNow(t)
    PROVE  RequestInv'
<1> DEFINE s == Waiter(t)
           h == Taken(t)
           m == buf[s]
           z == <<IF queue[t] # <<>> THEN "queued" ELSE "offered", t>>
           y == <<"owed", t>>
           o == <<"offered", t>>
           i == <<"queued", t>>
           st == sched.status
           st2 == sched'.status
           R == Reqs
           M == [p \in Places \X Pids |-> IF p = z THEN R[p] \ {h}
                                          ELSE IF p = y THEN R[p] \cup (R[z] \cap {h}) ELSE R[p]]
           Q == Reqs'
<1>1. /\ \A p \in Places \X Pids : p = <<p[1], p[2]>> /\ p[1] \in Places /\ p[2] \in Pids
      /\ \A p \in Places \X Pids : R[p] = RequestsAt(p[1], p[2]) /\ Q[p] = RequestsAt(p[1], p[2])'
      /\ z \in Places \X Pids /\ y \in Places \X Pids /\ z[2] = y[2] /\ z # y
      /\ o \in Places \X Pids /\ i \in Places \X Pids /\ o[2] = i[2] /\ o # y /\ i # y /\ o # i
  BY DEF Reqs, Places
<1>2. /\ call' = call /\ call[t] = "none" /\ (queue[t] # <<>> \/ waiters[t] # <<>>)
      /\ sent' = sent /\ Arrives(h, t) /\ Got(t, h)
  BY ReceiveFacts
<1>3. waiters[t] # <<>> =>
        /\ s \in Pids /\ s \in InQueue(waiters[t]) /\ m.from = s
        /\ m.kind = "msg" => call[s] = "send" /\ st[s] = "SEND_BLOCKED"
        /\ Wakes(t) => m.kind = "msg"
  BY WaiterFacts
<1>4. /\ \A v \in Pids : v # t => waiters'[v] = waiters[v] /\ queue'[v] = queue[v]
      /\ \A v \in Pids : \A x \in InQueue(waiters'[v]) :
            x \in InQueue(waiters[v]) /\ (waiters[t] # <<>> => x # s)
      /\ \A x \in Pids : (waiters[t] # <<>> => x # s) \/ ~Wakes(t) => buf'[x] = buf[x]
  BY ReceiveEffects
<1>5. ReqOK(M, st2, sent)
  <2>1. \A p \in Places \X Pids :
           M[p] \subseteq R[p] \/ (p = y /\ \A k \in M[p] : k \in R[p] \/ (k = h /\ k \in R[z]))
    <3> HIDE DEF R, z, y, h
    <3> QED OBVIOUS
  <2>2. h \notin M[z]
    <3> HIDE DEF R, z, y, h
    <3> QED BY <1>1
  <2>3. ASSUME NEW p \in Places \X Pids, NEW k \in R[p] PROVE st2[k.from] = st[k.from]
    <3>1. p[1] \in Places /\ p[2] \in Pids /\ k \in RequestsAt(p[1], p[2])
      BY <1>1
    <3>2. k.from \in Pids /\ st[k.from] = "REPLY_BLOCKED"
      BY <3>1, RequestFacts
    <3>3. (waiters[t] # <<>> => k.from # s) \/ ~Wakes(t)
      BY <1>3, <3>2
    <3> QED BY <3>2, <3>3, ReceiveEffects
  <2>4. ASSUME h \in R[z], NEW k \in R[z], k.from = h.from PROVE k = h
    <3>1. z[1] \in Places /\ z[2] \in Pids /\ h \in RequestsAt(z[1], z[2])
          /\ k \in RequestsAt(z[1], z[2])
      BY <1>1, <2>4
    <3> HIDE DEF h, z, R
    <3> QED BY <2>4, <3>1, RequestUnique
  <2>5. ReqOK(R, st, sent)
    BY ReqFacts DEF IInv, MsgInv
  <2>6. z \in Places \X Pids /\ y \in Places \X Pids /\ z[2] = y[2]
    BY <1>1
  <2> HIDE DEF R, M, z, y, h, st, st2
  <2> QED BY <2>1, <2>2, <2>3, <2>4, <2>5, <2>6, ReqTake
<1>6. ASSUME NEW x \in InQueue(waiters'[t])
      PROVE  x \in InQueue(waiters[t]) /\ buf'[x] = buf[x] /\ buf[x].from = x
             /\ (waiters[t] # <<>> => x # s)
  <2>1. x \in InQueue(waiters[t]) /\ (waiters[t] # <<>> => x # s)
    <3> HIDE DEF s
    <3> QED BY <1>4, <1>6
  <2>2. x \in Pids
    BY <2>1, WaitersArePids
  <2>3. buf[x].from = x
    BY <2>1 DEF IInv, MsgInv, WaitersInv
  <2> QED BY <2>1, <2>2, <2>3, ReceiveEffects
<1>7. ASSUME NEW a \in Places, NEW v \in Pids, v # t
      PROVE  RequestsAt(a, v)' \subseteq RequestsAt(a, v)
  <2>1. CASE a = "owed"
    BY <1>2, <1>7, <2>1, GotFacts DEF RequestsAt
  <2>2. CASE a = "queued"
    BY <1>7, <2>2, ReceiveEffects DEF RequestsAt
  <2>3. CASE a = "handed"
    <3>1. call[v] = "receive" => (waiters[t] # <<>> => v # s) \/ ~Wakes(t)
      BY <1>3
    <3>2. call[v] = "receive" => buf'[v] = buf[v]
      BY <3>1, ReceiveEffects
    <3> QED BY <1>2, <2>3, <3>2 DEF RequestsAt
  <2>4. CASE a = "offered"
    <3>1. waiters'[v] = waiters[v] /\ \A x \in InQueue(waiters[v]) : buf'[x] = buf[x]
      <4> HIDE DEF s
      <4> QED BY <1>4, <1>7, WaitersArePids
    <3> QED BY <2>4, <3>1 DEF RequestsAt
  <2> QED BY <2>1, <2>2, <2>3, <2>4 DEF Places
<1>8. RequestsAt("handed", t)' = {}
  BY <1>2 DEF RequestsAt
<1>9. RequestsAt("offered", t)' \subseteq M[o] /\ (waiters[t] # <<>> => m \notin RequestsAt("offered", t)')
  <2>1. ASSUME NEW k \in RequestsAt("offered", t)'
        PROVE  k \in M[o] /\ (waiters[t] # <<>> => k # m)
    <3>1. PICK x \in InQueue(waiters'[t]) : k = buf'[x] /\ k.kind = "request"
      BY <2>1 DEF RequestsAt
    <3>2. k \in RequestsAt("offered", t) /\ (waiters[t] # <<>> => k # m)
      BY <1>3, <1>6, <3>1 DEF RequestsAt
    <3>3. queue[t] = <<>> => k # h
      BY <1>2, <3>2 DEF Taken
    <3>4. k \in R[o] /\ (o = z => k # h) /\ o # y
      BY <1>1, <3>2, <3>3
    <3> HIDE DEF R, o, z, y, h
    <3> QED BY <1>1, <3>2, <3>4
  <2> QED BY <2>1
<1>10. ASSUME NEW k \in RequestsAt("owed", t)' PROVE k \in M[y]
  <2>1. k.kind = "request" /\ (k \in owed[t] \/ k = h)
    BY <1>2, <1>10, GotFacts, ZenonT(30) DEF RequestsAt
  <2>2. k \in owed[t] => k \in R[y]
    BY <1>1, <2>1 DEF RequestsAt
  <2>3. k = h => k \in R[z]
    <3>1. CASE queue[t] # <<>>
      <4>1. h \in InQueue(queue[t])
        BY <3>1, RestFacts DEF Taken
      <4> QED BY <1>1, <2>1, <3>1, <4>1 DEF RequestsAt
    <3>2. CASE queue[t] = <<>>
      <4>1. h = m /\ waiters[t] # <<>>
        BY <1>2, <3>2 DEF Taken
      <4> QED BY <1>1, <1>3, <2>1, <3>2, <4>1 DEF RequestsAt
    <3> QED BY <3>1, <3>2
  <2> HIDE DEF R, z, y, h
  <2> QED BY <1>1, <2>1, <2>2, <2>3
<1>11. ASSUME NEW k \in RequestsAt("queued", t)'
       PROVE  \/ k \in M[i]
              \/ queue[t] # <<>> /\ waiters[t] # <<>> /\ k = m /\ k \in M[o]
  <2>1. k.kind = "request" /\ k \in InQueue(queue'[t])
    BY <1>11 DEF RequestsAt
  <2>2. CASE queue[t] = <<>>
    <3>1. queue'[t] = <<>>
      BY <2>2, ReceiveQueue DEF Rest
    <3> QED BY <2>1, <3>1 DEF InQueue
  <2>3. CASE queue[t] # <<>>
    <3>1. k \in InQueue(Tail(queue[t])) \/ (waiters[t] # <<>> /\ k = m)
      BY <2>1, <2>3, ReceiveQueue DEF Rest
    <3>2. CASE k \in InQueue(Tail(queue[t]))
      <4>1. k \in InQueue(queue[t]) /\ k # h
        BY <2>3, <3>2, RestFacts DEF Taken
      <4>2. k \in R[i] /\ i = z
        BY <1>1, <2>1, <2>3, <4>1 DEF RequestsAt
      <4> HIDE DEF R, i, z, y, h
      <4> QED BY <1>1, <4>1, <4>2
    <3>3. CASE waiters[t] # <<>> /\ k = m
      <4>1. k \in R[o]
        BY <1>1, <1>3, <2>1, <3>3 DEF RequestsAt
      <4>2. o # z
        BY <2>3
      <4>3. k \in M[o]
        <5> HIDE DEF R, o, z, y, h
        <5> QED BY <1>1, <4>1, <4>2
      <4> QED BY <2>3, <3>3, <4>3
    <3> QED BY <3>1, <3>2, <3>3
  <2> QED BY <2>2, <2>3
<1>12. ASSUME NEW p \in Places \X Pids
       PROVE  \/ Q[p] \subseteq M[p]
              \/ /\ queue[t] # <<>> /\ waiters[t] # <<>>
                 /\ p = i /\ \A k \in Q[p] : k \in M[p] \/ (k = m /\ k \in M[o])
  <2>1. p[1] \in Places /\ p[2] \in Pids /\ p = <<p[1], p[2]>> /\ Q[p] = RequestsAt(p[1], p[2])'
    BY <1>1
  <2>2. CASE p[2] # t
    <3>1. Q[p] \subseteq R[p] /\ p # z /\ p # y
      BY <1>1, <1>7, <2>1, <2>2
    <3> HIDE DEF R, Q, z, y, h
    <3> QED BY <3>1
  <2>3. CASE p[2] = t /\ p[1] = "owed"
    <3>1. p = y
      BY <2>1, <2>3
    <3> QED BY <1>10, <2>1, <2>3, <3>1
  <2>4. CASE p[2] = t /\ p[1] = "handed"
    BY <1>8, <2>1, <2>4
  <2>5. CASE p[2] = t /\ p[1] = "offered"
    <3>1. p = o
      BY <2>1, <2>5
    <3> QED BY <1>9, <2>1, <2>5, <3>1
  <2>6. CASE p[2] = t /\ p[1] = "queued"
    <3>1. p = i
      BY <2>1, <2>6
    <3> QED BY <1>11, <2>1, <2>6, <3>1, ZenonT(30)
  <2> QED BY <2>1, <2>2, <2>3, <2>4, <2>5, <2>6 DEF Places
<1>13. ReqOK(Q, st2, sent)
  <2>1. CASE queue[t] # <<>> /\ waiters[t] # <<>>
    <3>1. \A p \in Places \X Pids :
             Q[p] \subseteq M[p] \/ (p = i /\ \A k \in Q[p] : k \in M[p] \/ (k = m /\ k \in M[o]))
      BY <1>12
    <3>2. m \notin Q[o]
      BY <1>1, <1>9, <2>1
    <3>3. ASSUME m \in M[o], NEW k \in M[o], k.from = m.from PROVE k = m
      <4>1. o # z /\ o # y
        BY <2>1
      <4>2. M[o] = R[o]
        <5> HIDE DEF R, o, z, y, h
        <5> QED BY <1>1, <4>1
      <4>3. /\ "offered" \in Places /\ k \in RequestsAt("offered", t)
            /\ m \in RequestsAt("offered", t)
        BY <1>1, <3>3, <4>2 DEF Places
      <4> HIDE DEF m
      <4> QED BY <3>3, <4>3, RequestUnique
    <3>4. o \in Places \X Pids /\ i \in Places \X Pids /\ o[2] = i[2]
      BY <1>1
    <3> HIDE DEF M, Q, o, i, m, st2
    <3> QED BY <1>5, <3>1, <3>2, <3>3, <3>4, ReqTake
  <2>2. CASE ~(queue[t] # <<>> /\ waiters[t] # <<>>)
    <3>1. \A p \in Places \X Pids : Q[p] \subseteq M[p]
      BY <1>12, <2>2
    <3> HIDE DEF M, Q, st2
    <3> QED BY <1>5, <3>1, ReqShrink
  <2> QED BY <2>1, <2>2
<1>14. ReqOK(Reqs', sched'.status, sent')
  BY <1>2, <1>13
<1> QED BY <1>14, ReqNext

(* The message taken is the next one on its route. *)
LEMMA ReceiveRoutes ==
    ASSUME IInv, NEW t \in Pids, ReceiveNow(t)
    PROVE  ExactlyOnceInOrder'
<1> DEFINE s == Waiter(t)
           h == Taken(t)
           m == buf[s]
<1>1. /\ call' = call /\ call[t] = "none" /\ (queue[t] # <<>> \/ waiters[t] # <<>>)
      /\ sent' = sent /\ Arrives(h, t) /\ Got(t, h)
  BY ReceiveFacts
<1>2. waiters[t] # <<>> =>
        /\ s \in Pids /\ s \in InQueue(waiters[t]) /\ m.from = s
        /\ m.kind = "msg" => call[s] = "send"
        /\ Wakes(t) => m.kind = "msg"
  BY WaiterFacts
<1>3. /\ \A v \in Pids : v # t => waiters'[v] = waiters[v] /\ queue'[v] = queue[v]
      /\ \A v \in Pids : \A x \in InQueue(waiters'[v]) :
            x \in InQueue(waiters[v]) /\ (waiters[t] # <<>> => x # s)
      /\ waiters[t] = <<>> => waiters'[t] = <<>>
      /\ waiters[t] # <<>> => InQueue(waiters'[t]) = InQueue(waiters[t]) \ {s}
      /\ \A x \in Pids : (waiters[t] # <<>> => x # s) \/ ~Wakes(t) => buf'[x] = buf[x]
  BY ReceiveEffects
<1>4. /\ last'[<<h.from, t>>] = h.n
      /\ \A r \in AllRoutes : r # <<h.from, t>> => last'[r] = last[r]
  BY <1>1, GotFacts
<1>5. ASSUME NEW r \in AllRoutes, r[2] # t
      PROVE  RouteOK(Handed(r)', NumbersIn(queue'[r[2]], r[1]), Offered(r)', last'[r], sent'[r])
  <2>1. PICK x \in Senders, v \in Pids : r = <<x, v>> /\ r[1] = x /\ r[2] = v /\ x # 0
    BY RouteFacts
  <2>2. RouteOK(Handed(r), NumbersIn(queue[r[2]], r[1]), Offered(r), last[r], sent[r])
    BY ExactFacts
  <2> HIDE DEF s, h, m
  <2>3. Handed(r)' = Handed(r)
    <3>1. call[v] = "receive" => (waiters[t] # <<>> => v # s) \/ ~Wakes(t)
      BY <1>2
    <3>2. call[v] = "receive" => buf'[v] = buf[v]
      BY <1>3, <3>1
    <3> QED BY <1>1, <2>1, <3>2 DEF Handed
  <2>4. waiters'[v] = waiters[v] /\ queue'[v] = queue[v]
    BY <1>3, <1>5, <2>1
  <2>5. x \in InQueue(waiters[v]) => buf'[x] = buf[x]
    <3>1. x \in InQueue(waiters[v]) => x \in Pids /\ (waiters[t] # <<>> => x # s)
      BY <1>3, <2>4, WaitersArePids
    <3> QED BY <1>3, <3>1
  <2>6. Offered(r)' = Offered(r)
    BY <2>1, <2>4, <2>5 DEF Offered
  <2>7. r # <<h.from, t>>
    BY <1>5
  <2> QED BY <1>1, <1>4, <2>1, <2>2, <2>3, <2>4, <2>6, <2>7
<1>6. ASSUME NEW r \in AllRoutes, r[2] = t
      PROVE  RouteOK(Handed(r)', NumbersIn(queue'[r[2]], r[1]), Offered(r)', last'[r], sent'[r])
  <2>1. PICK x \in Senders : r = <<x, t>> /\ r[1] = x /\ x # 0
    BY <1>6, RouteFacts
  <2> DEFINE O == IF queue[t] = <<>> /\ x = h.from THEN {} ELSE Offered(r)
  <2>2. Handed(r) = {} /\ Handed(r)' = {}
    BY <1>1, <1>6 DEF Handed
  <2>3. /\ last[r] \in Nat /\ sent[r] \in Nat
        /\ RouteOK({}, NumbersIn(queue[t], x), Offered(r), last[r], sent[r])
    BY <1>6, <2>1, <2>2, ExactFacts
  <2>4. RouteOK({}, NumbersIn(Rest(t), x), O, last'[r], sent[r])
    <3>1. CASE x # h.from
      <4>1. NumbersIn(Rest(t), x) = NumbersIn(queue[t], x)
        <5>1. CASE queue[t] # <<>>
          BY <3>1, <5>1, RestFacts DEF Rest, Taken
        <5>2. CASE queue[t] = <<>>
          BY <5>2 DEF Rest
        <5> QED BY <5>1, <5>2
      <4>2. last'[r] = last[r]
        <5> HIDE DEF h
        <5> QED BY <1>4, <2>1, <3>1
      <4> QED BY <2>3, <3>1, <4>1, <4>2
    <3>2. CASE x = h.from /\ queue[t] # <<>>
      <4> DEFINE N == NumbersIn(queue[t], x)
                 n == h.n
                 P == Offered(r)
      <4>1. h = Head(queue[t]) /\ Rest(t) = Tail(queue[t])
        BY <3>2 DEF Taken, Rest
      <4>2. n \in N /\ (\A k \in N : n = k \/ n < k) /\ NumbersIn(Rest(t), x) = N \ {n}
        BY <3>2, <4>1, RestFacts
      <4>3. O = P /\ last'[r] = n /\ RouteOK({}, N, P, last[r], sent[r])
        BY <1>4, <2>1, <2>3, <3>2
      <4> HIDE DEF N, n, P, O
      <4>4. RouteOK({}, N \ {n}, P, n, sent[r])
        BY <2>3, <4>2, <4>3, RouteTakeQueued
      <4> QED BY <4>2, <4>3, <4>4
    <3>3. CASE x = h.from /\ queue[t] = <<>>
      <4>1. h = m /\ waiters[t] # <<>> /\ Rest(t) = <<>>
        BY <1>1, <3>3 DEF Taken, Rest
      <4>2. x = s /\ O = {} /\ last'[r] = h.n
        BY <1>2, <1>4, <2>1, <3>3, <4>1
      <4>3. Offered(r) = {h.n}
        BY <1>2, <1>6, <2>1, <4>1, <4>2 DEF Offered
      <4>4. NumbersIn(queue[t], x) = {} /\ NumbersIn(Rest(t), x) = {}
        BY <3>3, <4>1 DEF NumbersIn
      <4> DEFINE n == h.n
      <4>5. RouteOK({}, {}, {n}, last[r], sent[r])
        BY <2>3, <4>3, <4>4
      <4> HIDE DEF n, O, h
      <4>6. RouteOK({}, {}, {}, n, sent[r])
        BY <2>3, <4>5, RouteTakeOffered
      <4> QED BY <4>2, <4>4, <4>6 DEF n
    <3> QED BY <3>1, <3>2, <3>3
  <2>5. CASE queue[t] # <<>> /\ waiters[t] # <<>> /\ x = s
    <3> DEFINE N == NumbersIn(Rest(t), x)
               n == m.n
    <3>1. Offered(r) = {n} /\ Offered(r)' = {}
      BY <1>2, <1>3, <1>6, <2>1, <2>5 DEF Offered
    <3>2. NumbersIn(queue'[t], x) = N \cup {n}
      BY <2>5, ReceiveQueue
    <3>3. RouteOK({}, N, {n}, last'[r], sent[r])
      BY <2>4, <2>5, <3>1
    <3>4. last'[r] \in Nat
      <4>1. last' \in [AllRoutes -> 0 .. MaxMsgs] /\ MaxMsgs \in Nat
        BY <1>1, GotFacts, MsgAssumption
      <4> QED BY <4>1
    <3> HIDE DEF N, n
    <3>5. RouteOK({}, N \cup {n}, {}, last'[r], sent[r])
      BY <2>3, <3>3, <3>4, RouteMove
    <3> QED BY <1>1, <1>6, <2>1, <2>2, <3>1, <3>2, <3>5
  <2>6. CASE ~(queue[t] # <<>> /\ waiters[t] # <<>> /\ x = s)
    <3>1. NumbersIn(queue'[t], x) = NumbersIn(Rest(t), x)
      <4>1. CASE queue[t] # <<>> /\ waiters[t] # <<>>
        BY <2>6, <4>1, ReceiveQueue
      <4>2. CASE ~(queue[t] # <<>> /\ waiters[t] # <<>>)
        BY <4>2, ReceiveQueue
      <4> QED BY <4>1, <4>2
    <3>2. Offered(r)' = O
      <4>1. CASE waiters[t] = <<>>
        <5>1. Offered(r)' = {} /\ Offered(r) = {}
          BY <1>3, <1>6, <4>1 DEF Offered, InQueue
        <5> QED BY <5>1
      <4>2. CASE waiters[t] # <<>> /\ x = s
        <5>1. queue[t] = <<>> /\ h = m /\ x = h.from
          BY <1>2, <2>6, <4>2 DEF Taken
        <5>2. Offered(r)' = {}
          BY <1>3, <1>6, <2>1, <4>2 DEF Offered
        <5> QED BY <5>1, <5>2
      <4>3. CASE waiters[t] # <<>> /\ x # s
        <5>1. x \in InQueue(waiters'[t]) <=> x \in InQueue(waiters[t])
          BY <1>3, <4>3
        <5>2. x \in InQueue(waiters[t]) => buf'[x] = buf[x]
          <6> HIDE DEF s
          <6> QED BY <1>3, <4>3, WaitersArePids
        <5>3. Offered(r)' = Offered(r)
          BY <1>6, <2>1, <5>1, <5>2 DEF Offered
        <5>4. queue[t] = <<>> => h.from = s
          BY <1>2, <4>3 DEF Taken
        <5> QED BY <4>3, <5>3, <5>4
      <4> QED BY <4>1, <4>2, <4>3
    <3> HIDE DEF O
    <3> QED BY <1>1, <1>6, <2>1, <2>2, <2>4, <3>1, <3>2
  <2> QED BY <2>5, <2>6
<1>7. \A u \in Pids : InOrder(queue'[u])
  BY <1>3, ReceiveQueue, ExactFacts
<1> QED BY <1>5, <1>6, <1>7, ExactNext

LEMMA ReceiveNowAction ==
    ASSUME IInv, NEW t \in Pids, ReceiveNow(t)
    PROVE  IInv'
<1> DEFINE s == Waiter(t)
           h == Taken(t)
<1>1. /\ call' = call /\ call[t] = "none" /\ sched.status[t] \notin MsgBlocked
      /\ sent' = sent /\ inited' = inited /\ Arrives(h, t) /\ Got(t, h)
      /\ SchedInv' /\ (\A v \in Pids : SwitchAhead(v)') /\ priority' = priority
  BY ReceiveFacts
<1>2. waiters[t] # <<>> =>
        /\ s \in Pids /\ Arrives(buf[s], t)
        /\ Wakes(t) => call[s] = "send"
        /\ ~Wakes(t) => sched.status[s] = "REPLY_BLOCKED"
  BY WaiterFacts
<1>3. /\ \A v \in Pids : v # t => waiters'[v] = waiters[v] /\ queue'[v] = queue[v]
      /\ \A v \in Pids : \A x \in InQueue(waiters'[v]) :
            x \in InQueue(waiters[v]) /\ (waiters[t] # <<>> => x # s)
      /\ waiters[t] = <<>> => waiters'[t] = <<>>
      /\ waiters[t] # <<>> => InQueue(waiters'[t]) = InQueue(waiters[t]) \ {s}
      /\ waiters' \in [Pids -> Seq(Pids)]
      /\ NoRepeats(waiters'[t]) /\ SortedByPriority(waiters'[t])
      /\ \A x \in Pids : (waiters[t] # <<>> => x # s) \/ ~Wakes(t) =>
            buf'[x] = buf[x] /\ sched'.status[x] = sched.status[x]
      /\ Wakes(t) => sched'.status[s] = "PENDING"
      /\ buf' \in [Pids -> Msgs \cup {NoMsg}]
  BY ReceiveEffects
<1>4. /\ last' \in [AllRoutes -> 0 .. MaxMsgs] /\ owed' \in [Pids -> SUBSET Msgs]
      /\ \A v \in Pids : v # t => owed'[v] = owed[v]
      /\ \A k \in owed'[t] : k \in owed[t] \/ (k = h /\ k.kind = "request")
  BY <1>1, GotFacts
<1>5. queue' \in [Pids -> Seq(Msgs)]
  BY ReceiveQueue
<1>6. Wakes(t) => waiters[t] # <<>>
  BY DEF Wakes
<1>7. \A k \in InQueue(queue'[t]) : k \in InQueue(queue[t]) \/ Arrives(k, t)
  <2>1. \A k \in InQueue(Rest(t)) : k \in InQueue(queue[t])
    <3>1. CASE queue[t] = <<>>
      BY <3>1 DEF Rest
    <3>2. CASE queue[t] # <<>>
      BY <3>2, RestFacts DEF Rest
    <3> QED BY <3>1, <3>2
  <2>2. CASE queue[t] # <<>> /\ waiters[t] # <<>>
    BY <1>2, <2>1, <2>2, ReceiveQueue
  <2>3. CASE ~(queue[t] # <<>> /\ waiters[t] # <<>>)
    BY <2>1, <2>3, ReceiveQueue
  <2> QED BY <2>2, <2>3
<1> HIDE DEF s, h
<1>8. MsgTypeOK'
  BY <1>1, <1>3, <1>4, <1>5 DEF IInv, MsgInv, MsgTypeOK
<1>9. ASSUME NEW v \in Pids PROVE CallInv(v)'
  <2>1. CASE Wakes(t) /\ v = s
    BY <1>1, <1>2, <1>3, <1>6, <2>1 DEF CallInv
  <2>2. CASE ~(Wakes(t) /\ v = s)
    <3>1. CallInv(v) /\ call'[v] = call[v] /\ buf'[v] = buf[v] /\ SameStatus(v)
      BY <1>1, <1>3, <2>2 DEF IInv, MsgInv, SameStatus
    <3>2. ASSUME sched.status[v] = "SEND_BLOCKED"
          PROVE  \E x \in Pids : v \in InQueue(waiters'[x])
      <4>1. PICK x \in Pids : v \in InQueue(waiters[x])
        BY <3>1, <3>2 DEF CallInv
      <4>2. CASE x = t
        <5>1. waiters[t] # <<>>
          BY <4>1, <4>2 DEF InQueue
        <5>2. v # s
          BY <1>2, <2>2, <3>2, <5>1
        <5> QED BY <1>3, <4>1, <4>2, <5>1, <5>2
      <4>3. CASE x # t
        BY <1>3, <4>1, <4>3
      <4> QED BY <4>2, <4>3
    <3> QED BY <1>1, <3>1, <3>2, CallFrame
  <2> QED BY <2>1, <2>2
<1>10. ASSUME NEW v \in Pids PROVE WaitersInv(v)'
  <2>1. WaitersInv(v) /\ (v # t => NoRepeats(waiters[v]) /\ SortedByPriority(waiters[v]))
    BY DEF IInv, MsgInv, WaitersInv
  <2>2. NoRepeats(waiters'[v]) /\ SortedByPriority(waiters'[v])
    BY <1>3, <2>1
  <2>3. sched'.status[v] = "RECEIVE_BLOCKED" => queue'[v] = <<>> /\ waiters'[v] = <<>>
    <3>1. sched'.status[v] = "RECEIVE_BLOCKED" => sched.status[v] = "RECEIVE_BLOCKED"
      BY <1>3, <1>6
    <3>2. sched.status[v] = "RECEIVE_BLOCKED" => v # t /\ queue[v] = <<>> /\ waiters[v] = <<>>
      BY <1>1, <2>1 DEF WaitersInv, MsgBlocked
    <3> QED BY <1>3, <3>1, <3>2
  <2>4. \A k \in InQueue(queue'[v]) : k \in InQueue(queue[v]) \/ Arrives(k, v)
    BY <1>3, <1>7
  <2>5. \A k \in owed'[v] : k \in owed[v] \/ (Arrives(k, v) /\ k.kind = "request")
    BY <1>1, <1>4
  <2>6. \A x \in InQueue(waiters'[v]) :
           /\ x \in InQueue(waiters[v]) /\ buf'[x] = buf[x] /\ SameStatus(x)
           /\ \A w \in Pids : x \in InQueue(waiters'[w]) => x \in InQueue(waiters[w])
    <3>1. \A x \in InQueue(waiters'[v]) : x \in Pids /\ (waiters[t] # <<>> => x # s)
      BY <1>3, WaitersArePids
    <3> QED BY <1>3, <3>1 DEF SameStatus
  <2> QED BY <1>1, <2>1, <2>2, <2>3, <2>4, <2>5, <2>6, WaitersNext
<1>11. MsgInv'
  BY <1>8, <1>9, <1>10, ReceiveRequests, ReceiveRoutes DEF MsgInv
<1> QED BY <1>1, <1>11 DEF IInv
=============================================================================
