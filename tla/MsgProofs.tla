----------------------------- MODULE MsgProofs -----------------------------
(***************************************************************************)
(* Message passing, for every number of threads, routes, messages and      *)
(* every queue size: wait lists and statuses agree, every message is       *)
(* received exactly once and in order, and blocked calls return with their *)
(* work done.  The invariant, and that receiving preserves it, are in      *)
(* MsgInvProofs; here are the operations that send, msg_send(),            *)
(* msg_try_send(), msg_send_receive(), msg_send_to_self() and              *)
(* msg_send_int(), and the theorems.                                       *)
(***************************************************************************)
EXTENDS MsgInvProofs, TLAPS

(* Time the provers are given for a leaf. *)
USE ZenonT(5), SMTT(20)

LEMMA RouteSend ==
    ASSUME NEW H, NEW Q, NEW l \in Nat, NEW s \in Nat, RouteOK(H, Q, {}, l, s)
    PROVE  /\ RouteOK(H, Q \cup {s + 1}, {}, l, s + 1)
           /\ RouteOK(H, Q, {s + 1}, l, s + 1)
           /\ H = {} /\ Q = {} => RouteOK({s + 1}, {}, {}, l, s + 1)
<1>1. l <= s + 1 /\ ((l + 1) .. s) \cup {s + 1} = (l + 1) .. (s + 1)
  BY DEF RouteOK
<1>2. \A k \in H \cup Q : k \in Int /\ k < s + 1
  BY DEF RouteOK
<1> QED BY <1>1, <1>2 DEF RouteOK

(* A new request, of a thread that has no other. *)
LEMMA ReqNew ==
    ASSUME NEW R, NEW Q, NEW st, NEW sn, NEW st2, NEW sn2, ReqOK(R, st, sn),
           NEW m, NEW z \in Places \X Pids,
           \A p \in Places \X Pids : Q[p] \subseteq R[p] \/ (p = z /\ Q[p] \subseteq R[p] \cup {m}),
           \A p \in Places \X Pids : \A k \in R[p] :
              /\ k.from # m.from
              /\ st2[k.from] = st[k.from] /\ sn2[<<k.from, p[2]>>] = sn[<<k.from, p[2]>>],
           st2[m.from] = "REPLY_BLOCKED", m.n = sn2[<<m.from, z[2]>>]
    PROVE  ReqOK(Q, st2, sn2)
<1> SUFFICES ASSUME NEW p \in Places \X Pids, NEW k \in Q[p]
             PROVE  /\ st2[k.from] = "REPLY_BLOCKED"
                    /\ k.n = sn2[<<k.from, p[2]>>]
                    /\ \A q \in Places \X Pids : \A j \in Q[q] : k.from = j.from => p = q
  BY DEF ReqOK
<1>1. \A q \in Places \X Pids : \A j \in Q[q] : j \in R[q] \/ (q = z /\ j = m)
  OBVIOUS
<1>2. CASE k \in R[p]
  BY <1>1, <1>2 DEF ReqOK
<1>3. CASE p = z /\ k = m
  BY <1>1, <1>3
<1> QED BY <1>1, <1>2, <1>3

-----------------------------------------------------------------------------
(* Message m goes out from s, a thread that runs or an interrupt, to u. *)
Sends(s, u, m) ==
    /\ s \in Senders /\ u \in Pids /\ <<s, u>> \in AllRoutes
    /\ Arrives(m, u) /\ m.from = s /\ m.n = sent[<<s, u>>] + 1
    /\ sent' = [sent EXCEPT ![<<s, u>>] = @ + 1] /\ sent' \in [AllRoutes -> 0 .. MaxMsgs]
    /\ last' = last /\ owed' = owed /\ inited' = inited /\ priority' = priority
    /\ buf' \in [Pids -> Msgs \cup {NoMsg}]
    /\ call' \in [Pids -> {"none", "receive", "send", "send_receive"}]
    /\ \A v \in Pids : v # s => call'[v] = call[v]
    /\ s \in Pids => Runs(s) /\ call[s] = "none"

(* The sender after a send that it need not wait for, or a request. *)
SentBy(s, m) ==
    s \in Pids =>
      \/ m.kind = "msg" /\ call'[s] = "none" /\ sched'.status[s] \notin MsgBlocked
      \/ m.kind = "request" /\ call'[s] = "send_receive" /\ sched'.status[s] = "REPLY_BLOCKED"

LEMMA SendsFacts ==
    ASSUME IInv, NEW s, NEW u, NEW m, Sends(s, u, m)
    PROVE  /\ \A v \in Pids : s \notin InQueue(waiters[v])
           /\ \A v \in Pids : Offered(<<s, v>>) = {}
           /\ \A a \in Places, v \in Pids : \A k \in RequestsAt(a, v) : k.from # s
           /\ \A r \in AllRoutes : r # <<s, u>> => sent'[r] = sent[r]
           /\ \A v \in Pids : \A x : v # s => sent'[<<v, x>>] = sent[<<v, x>>]
           /\ sent'[<<s, u>>] = sent[<<s, u>>] + 1
           /\ m.kind \in {"msg", "request"} /\ m \in Msgs
           /\ m.kind = "request" => s \in Pids /\ s # u
           /\ s \in Pids => sched.status[s] \notin MsgBlocked
<1>1. \A v \in Pids : s \notin InQueue(waiters[v])
  <2>1. CASE s \in Pids
    BY <2>1, RunnerReady DEF Sends
  <2>2. CASE s \notin Pids
    BY <2>2, WaitersArePids
  <2> QED BY <2>1, <2>2
<1>2. \A v \in Pids : Offered(<<s, v>>) = {}
  BY <1>1 DEF Offered
<1>3. \A a \in Places, v \in Pids : \A k \in RequestsAt(a, v) : k.from # s
  <2>1. CASE s \in Pids
    BY <2>1, RunnerReady DEF Sends
  <2> QED BY <2>1, RequestFacts
<1>4. sent \in [AllRoutes -> 0 .. MaxMsgs]
  BY DEF IInv, MsgInv, MsgTypeOK
<1>5. /\ \A r \in AllRoutes : r # <<s, u>> => sent'[r] = sent[r]
      /\ sent'[<<s, u>>] = sent[<<s, u>>] + 1
  BY <1>4 DEF Sends
<1>6. \A v \in Pids : \A x : v # s => sent'[<<v, x>>] = sent[<<v, x>>]
  BY <1>4 DEF Sends
<1>7. m.kind \in {"msg", "request"} /\ m \in Msgs
  BY DEF Sends, Arrives, Msgs
<1>8. m.kind = "request" => s \in Pids /\ s # u
  BY RouteFacts DEF Sends, Arrives
<1>9. s \in Pids => sched.status[s] \notin MsgBlocked
  BY RunnerReady DEF Sends
<1> QED BY <1>1, <1>2, <1>3, <1>5, <1>6, <1>7, <1>8, <1>9

LEMMA SentByCall ==
    ASSUME NEW s \in Pids, NEW m, SentBy(s, m)
    PROVE  CallInv(s)'
<1>1. CASE call'[s] = "none" /\ sched'.status[s] \notin MsgBlocked
  BY <1>1 DEF CallInv, MsgBlocked
<1>2. CASE call'[s] = "send_receive" /\ sched'.status[s] = "REPLY_BLOCKED"
  BY <1>2 DEF CallInv
<1> QED BY <1>1, <1>2 DEF SentBy

(* Requests, when those at all places but z are the same and the new       *)
(* message is added at z.                                                  *)
LEMMA SendsRequests ==
    ASSUME IInv, NEW s, NEW u, NEW m, Sends(s, u, m), NEW z \in Places,
           \A v \in Pids : v # s /\ sched.status[v] = "REPLY_BLOCKED" =>
                                sched'.status[v] = "REPLY_BLOCKED",
           m.kind = "request" => sched'.status[s] = "REPLY_BLOCKED",
           \A a \in Places, v \in Pids :
              \/ RequestsAt(a, v)' \subseteq RequestsAt(a, v)
              \/ /\ a = z /\ v = u
                 /\ RequestsAt(a, v)' \subseteq
                        RequestsAt(a, v) \cup {k \in {m} : k.kind = "request"}
    PROVE  RequestInv'
<1> DEFINE R == Reqs
           Q == Reqs'
<1>1. ReqOK(R, sched.status, sent)
  BY ReqFacts DEF IInv, MsgInv
<1>2. /\ \A p \in Places \X Pids : p = <<p[1], p[2]>> /\ p[1] \in Places /\ p[2] \in Pids
      /\ \A p \in Places \X Pids : R[p] = RequestsAt(p[1], p[2]) /\ Q[p] = RequestsAt(p[1], p[2])'
  BY DEF Reqs
<1>3. ASSUME NEW p \in Places \X Pids, NEW k \in R[p]
      PROVE  /\ k.from # m.from
             /\ sched'.status[k.from] = sched.status[k.from]
             /\ sent'[<<k.from, p[2]>>] = sent[<<k.from, p[2]>>]
  <2>0. p[1] \in Places /\ p[2] \in Pids /\ k \in RequestsAt(p[1], p[2])
    BY <1>2
  <2>1. k.from \in Pids /\ sched.status[k.from] = "REPLY_BLOCKED" /\ k.from # s
    <3>1. k.from \in Pids /\ sched.status[k.from] = "REPLY_BLOCKED"
      BY <2>0, RequestFacts
    <3>2. \A a \in Places, v \in Pids : \A j \in RequestsAt(a, v) : j.from # s
      BY SendsFacts
    <3> QED BY <2>0, <3>1, <3>2
  <2> QED BY <2>1, SendsFacts DEF Sends
<1>5. CASE m.kind = "request"
  <2> DEFINE y == <<z, u>>
             st == sched.status
             st2 == sched'.status
  <2>1. y \in Places \X Pids /\ y[2] = u
    BY DEF Sends
  <2>2. st2[m.from] = "REPLY_BLOCKED" /\ m.n = sent'[<<m.from, u>>]
    BY <1>5, SendsFacts DEF Sends
  <2>3. \A p \in Places \X Pids : Q[p] \subseteq R[p] \/ (p = y /\ Q[p] \subseteq R[p] \cup {m})
    BY <1>2
  <2>4. \A p \in Places \X Pids : \A k \in R[p] :
           /\ k.from # m.from
           /\ st2[k.from] = st[k.from] /\ sent'[<<k.from, p[2]>>] = sent[<<k.from, p[2]>>]
    BY <1>3
  <2>5. ReqOK(R, st, sent) /\ m.n = sent'[<<m.from, y[2]>>]
    BY <1>1, <2>1, <2>2
  <2> HIDE DEF R, Q, y, st, st2
  <2>6. ReqOK(Q, st2, sent')
    BY <2>1, <2>2, <2>3, <2>4, <2>5, ReqNew
  <2>7. ReqOK(Q, sched'.status, sent')
    BY <2>6 DEF st2
  <2> QED BY <2>7, ReqNext DEF Q
<1>6. CASE m.kind # "request"
  <2>1. \A p \in Places \X Pids : Q[p] \subseteq R[p]
    BY <1>2, <1>6
  <2> HIDE DEF R, Q
  <2>2. ReqOK(Q, sched'.status, sent')
    BY <1>1, <1>3, <2>1, ReqShrink
  <2> QED BY <2>2, ReqNext DEF Q
<1> QED BY <1>5, <1>6

(* The message is copied to a receiver that waits. *)
LEMMA HandStep ==
    ASSUME IInv, NEW s, NEW u, NEW m, Sends(s, u, m), SentBy(s, m),
           sched.status[u] = "RECEIVE_BLOCKED", sched'.status[u] = "PENDING",
           \A v \in Pids : v \notin {s, u} => sched'.status[v] = sched.status[v] /\ buf'[v] = buf[v],
           buf'[u] = m, queue' = queue, waiters' = waiters
    PROVE  MsgInv'
<1>1. /\ u \in Pids /\ s \in Senders /\ s # u /\ <<s, u>> \in AllRoutes
      /\ call[u] = "receive" /\ call'[u] = "receive" /\ buf[u] = NoMsg
      /\ queue[u] = <<>> /\ waiters[u] = <<>>
      /\ s \in Pids => call[s] = "none"
  <2>1. u \in Pids /\ s \in Senders /\ <<s, u>> \in AllRoutes /\ (s \in Pids => call[s] = "none")
    BY DEF Sends
  <2>2. s # u
    BY <2>1, SendsFacts DEF MsgBlocked
  <2>3. call[u] = "receive" /\ buf[u] = NoMsg /\ queue[u] = <<>> /\ waiters[u] = <<>>
    BY <2>1 DEF IInv, MsgInv, CallInv, WaitersInv
  <2> QED BY <2>1, <2>2, <2>3 DEF Sends
<1>2. MsgTypeOK'
  BY DEF IInv, MsgInv, MsgTypeOK, Sends
<1>3. ASSUME NEW v \in Pids PROVE CallInv(v)'
  <2>1. CASE v = u
    <3>1. Arrives(m, u)
      BY DEF Sends
    <3> QED BY <1>1, <2>1, <3>1 DEF CallInv, Arrives
  <2>2. CASE v = s
    BY <2>2, SentByCall
  <2>3. CASE v \notin {s, u}
    <3>1. CallInv(v) /\ call'[v] = call[v] /\ (\A x : sent'[<<v, x>>] = sent[<<v, x>>])
      BY <2>3, SendsFacts DEF IInv, MsgInv, Sends
    <3>2. SameStatus(v) /\ buf'[v] = buf[v]
      BY <2>3 DEF SameStatus
    <3>3. sched.status[v] = "SEND_BLOCKED" => \E x \in Pids : v \in InQueue(waiters'[x])
      BY <3>1 DEF CallInv
    <3> QED BY <3>1, <3>2, <3>3, CallFrame
  <2> QED BY <2>1, <2>2, <2>3
<1>4. \A v \in Pids : u \notin InQueue(waiters[v])
  BY <1>1, NoMsgFacts DEF IInv, MsgInv, WaitersInv, Arrives
<1>5. \A v \in Pids : s \notin InQueue(waiters[v])
  BY SendsFacts
<1>6. ASSUME NEW v \in Pids PROVE WaitersInv(v)'
  <2>1. /\ WaitersInv(v) /\ priority' = priority /\ queue'[v] = queue[v] /\ waiters'[v] = waiters[v]
        /\ owed'[v] \subseteq owed[v]
    BY DEF IInv, MsgInv, Sends
  <2>3. \A x \in InQueue(waiters[v]) : buf'[x] = buf[x] /\ SameStatus(x)
    BY <1>4, <1>5, WaitersArePids DEF SameStatus
  <2>4. sched'.status[v] = "RECEIVE_BLOCKED" => sched.status[v] = "RECEIVE_BLOCKED"
    BY <1>1 DEF SentBy, MsgBlocked
  <2> QED BY <2>1, <2>3, <2>4, WaitersFrame
<1>7. RequestInv'
  <2>1. ASSUME NEW a \in Places, NEW v \in Pids
        PROVE  \/ RequestsAt(a, v)' \subseteq RequestsAt(a, v)
               \/ /\ a = "handed" /\ v = u
                  /\ RequestsAt(a, v)' \subseteq
                         RequestsAt(a, v) \cup {k \in {m} : k.kind = "request"}
    <3>1. CASE a = "owed"
      BY <3>1 DEF RequestsAt, Sends
    <3>2. CASE a = "handed"
      <4>1. CASE v = u
        BY <3>2, <4>1 DEF RequestsAt
      <4>2. CASE v = s
        BY <1>1, <3>2, <4>2 DEF RequestsAt, SentBy
      <4>3. CASE v \notin {s, u}
        BY <3>2, <4>3 DEF RequestsAt, Sends
      <4> QED BY <4>1, <4>2, <4>3
    <3>3. CASE a = "queued"
      BY <3>3 DEF RequestsAt
    <3>4. CASE a = "offered"
      <4>2. \A x \in InQueue(waiters[v]) : buf'[x] = buf[x]
        BY <1>4, <1>5, WaitersArePids
      <4> QED BY <3>4, <4>2 DEF RequestsAt
    <3> QED BY <3>1, <3>2, <3>3, <3>4 DEF Places
  <2>2. "handed" \in Places
    BY DEF Places
  <2>3. \A v \in Pids : v # s /\ sched.status[v] = "REPLY_BLOCKED" =>
                                sched'.status[v] = "REPLY_BLOCKED"
    OBVIOUS
  <2>4. m.kind = "request" => sched'.status[s] = "REPLY_BLOCKED"
    BY SendsFacts DEF SentBy
  <2> QED BY <2>1, <2>2, <2>3, <2>4, SendsRequests

<1>10. /\ \A r \in AllRoutes : r # <<s, u>> => sent'[r] = sent[r]
       /\ sent'[<<s, u>>] = sent[<<s, u>>] + 1
  BY SendsFacts
<1>8. ASSUME NEW r \in AllRoutes
      PROVE  RouteOK(Handed(r)', NumbersIn(queue'[r[2]], r[1]), Offered(r)', last'[r], sent'[r])
  <2>1. PICK x \in Senders, v \in Pids : r = <<x, v>> /\ r[1] = x /\ r[2] = v /\ x # 0
    BY RouteFacts
  <2>2. /\ last[r] \in Nat /\ sent[r] \in Nat
        /\ RouteOK(Handed(r), NumbersIn(queue[r[2]], r[1]), Offered(r), last[r], sent[r])
    BY ExactFacts
  <2>3. Offered(r)' = Offered(r)
    <3>1. x \in InQueue(waiters[v]) => buf'[x] = buf[x]
      BY <1>4, <1>5, WaitersArePids
    <3> QED BY <2>1, <3>1 DEF Offered
  <2>4. last'[r] = last[r] /\ queue' = queue
    BY DEF Sends
  <2>5. CASE r = <<s, u>>
    <3>1. Handed(r)' = {m.n} /\ Handed(r) = {}
      BY <1>1, <2>1, <2>5, NoMsgFacts DEF Handed, Sends
    <3>2. NumbersIn(queue[r[2]], r[1]) = {} /\ Offered(r) = {}
      BY <1>1, <2>1, <2>5 DEF NumbersIn, Offered, InQueue
    <3>3. sent'[r] = sent[r] + 1 /\ m.n = sent[r] + 1
      BY <1>10, <2>5 DEF Sends
    <3> QED BY <2>2, <2>3, <2>4, <3>1, <3>2, <3>3, RouteSend
  <2>6. CASE r # <<s, u>>
    <3>1. sent'[r] = sent[r]
      BY <1>10, <2>6
    <3>2. Handed(r)' = Handed(r)
      <4>1. CASE v = u
        <5>1. x # s
          BY <2>1, <2>6, <4>1
        <5> QED BY <1>1, <2>1, <4>1, <5>1, NoMsgFacts DEF Handed, Sends
      <4>2. CASE v = s
        BY <1>1, <2>1, <4>2 DEF Handed, SentBy
      <4>3. CASE v \notin {s, u}
        BY <2>1, <4>3 DEF Handed, Sends
      <4> QED BY <4>1, <4>2, <4>3
    <3> QED BY <2>2, <2>3, <2>4, <3>1, <3>2
  <2> QED BY <2>5, <2>6
<1>9. ExactlyOnceInOrder'
  BY <1>8, ExactFacts, ExactNext
<1> QED BY <1>2, <1>3, <1>6, <1>7, <1>9 DEF MsgInv

(* The message is put into the receiver's queue. *)
LEMMA EnqueueStep ==
    ASSUME IInv, NEW s, NEW u, NEW m, Sends(s, u, m), SentBy(s, m),
           sched.status[u] # "RECEIVE_BLOCKED",
           \A v \in Pids : v # s => sched'.status[v] = sched.status[v] /\ buf'[v] = buf[v],
           queue' = [queue EXCEPT ![u] = Append(@, m)], waiters' = waiters
    PROVE  MsgInv'
<1>1. /\ u \in Pids /\ s \in Senders /\ <<s, u>> \in AllRoutes /\ m \in Msgs /\ m.from = s
      /\ s \in Pids => call[s] = "none"
      /\ queue \in [Pids -> Seq(Msgs)] /\ queue[u] \in Seq(Msgs)
  BY DEF Sends, Arrives, IInv, MsgInv, MsgTypeOK
<1>2. queue'[u] = Append(queue[u], m) /\ \A v \in Pids : v # u => queue'[v] = queue[v]
  BY <1>1
<1>3. MsgTypeOK'
  <2>1. queue' \in [Pids -> Seq(Msgs)]
    BY <1>1
  <2> QED BY <2>1 DEF IInv, MsgInv, MsgTypeOK, Sends
<1>4. ASSUME NEW v \in Pids PROVE CallInv(v)'
  <2>1. CASE v = s
    BY <2>1, SentByCall
  <2>2. CASE v # s
    <3>1. CallInv(v) /\ call'[v] = call[v] /\ (\A x : sent'[<<v, x>>] = sent[<<v, x>>])
      BY <2>2, SendsFacts DEF IInv, MsgInv, Sends
    <3>2. SameStatus(v) /\ buf'[v] = buf[v]
      BY <2>2 DEF SameStatus
    <3>3. sched.status[v] = "SEND_BLOCKED" => \E x \in Pids : v \in InQueue(waiters'[x])
      BY <3>1 DEF CallInv
    <3> QED BY <3>1, <3>2, <3>3, CallFrame
  <2> QED BY <2>1, <2>2
<1>5. \A v \in Pids : s \notin InQueue(waiters[v])
  BY SendsFacts
<1>6. \A k \in InQueue(queue'[u]) : k = m \/ k \in InQueue(queue[u])
  BY <1>1, <1>2 DEF InQueue
<1>7. ASSUME NEW v \in Pids PROVE WaitersInv(v)'
  <2>1. /\ WaitersInv(v) /\ priority' = priority /\ waiters'[v] = waiters[v]
        /\ owed'[v] \subseteq owed[v]
    BY DEF IInv, MsgInv, Sends
  <2>2. \A x \in InQueue(waiters[v]) : buf'[x] = buf[x] /\ SameStatus(x)
    BY <1>5, WaitersArePids DEF SameStatus
  <2>3. sched'.status[v] = "RECEIVE_BLOCKED" => sched.status[v] = "RECEIVE_BLOCKED"
    BY <1>1 DEF SentBy, MsgBlocked
  <2>4. CASE v # u
    BY <1>2, <2>1, <2>2, <2>3, <2>4, WaitersFrame
  <2>5. CASE v = u
    <3>1. \A k, x : Arrives(k, x)' = Arrives(k, x)
      BY DEF Arrives
    <3>2. \A k \in InQueue(queue'[u]) : Arrives(k, u)
      BY <1>6, <2>1, <2>5 DEF Sends, WaitersInv
    <3>3. NoRepeats(waiters[u])' /\ SortedByPriority(waiters[u])'
      BY <2>1, <2>5 DEF WaitersInv, NoRepeats, SortedByPriority
    <3>4. ASSUME NEW x \in InQueue(waiters'[u])
          PROVE  /\ Arrives(buf'[x], u) /\ buf'[x].from = x
                 /\ buf'[x].kind = "msg" => sched'.status[x] = "SEND_BLOCKED"
                 /\ buf'[x].kind = "request" => sched'.status[x] = "REPLY_BLOCKED"
                 /\ \A w \in Pids : x \in InQueue(waiters'[w]) => u = w
      BY <2>1, <2>2, <2>5, <3>4 DEF WaitersInv, SameStatus, MsgBlocked
    <3>5. \A k \in owed'[u] : Arrives(k, u) /\ k.kind = "request"
      BY <2>1, <2>5 DEF WaitersInv
    <3>6. sched'.status[u] # "RECEIVE_BLOCKED"
      BY <2>3, <2>5
    <3> QED BY <2>5, <3>1, <3>2, <3>3, <3>4, <3>5, <3>6 DEF WaitersInv
  <2> QED BY <2>4, <2>5
<1>8. RequestInv'
  <2>1. ASSUME NEW a \in Places, NEW v \in Pids
        PROVE  \/ RequestsAt(a, v)' \subseteq RequestsAt(a, v)
               \/ /\ a = "queued" /\ v = u
                  /\ RequestsAt(a, v)' \subseteq
                         RequestsAt(a, v) \cup {k \in {m} : k.kind = "request"}
    <3>1. CASE a = "owed"
      BY <3>1 DEF RequestsAt, Sends
    <3>2. CASE a = "handed"
      <4>1. CASE v = s
        BY <1>1, <3>2, <4>1 DEF RequestsAt, SentBy
      <4>2. CASE v # s
        BY <3>2, <4>2 DEF RequestsAt, Sends
      <4> QED BY <4>1, <4>2
    <3>3. CASE a = "queued"
      <4>1. CASE v = u
        BY <1>6, <3>3, <4>1 DEF RequestsAt
      <4>2. CASE v # u
        BY <1>2, <3>3, <4>2 DEF RequestsAt
      <4> QED BY <4>1, <4>2
    <3>4. CASE a = "offered"
      <4>1. \A x \in InQueue(waiters[v]) : buf'[x] = buf[x]
        BY <1>5, WaitersArePids
      <4> QED BY <3>4, <4>1 DEF RequestsAt
    <3> QED BY <3>1, <3>2, <3>3, <3>4 DEF Places
  <2>2. "queued" \in Places
    BY DEF Places
  <2>3. \A v \in Pids : v # s /\ sched.status[v] = "REPLY_BLOCKED" =>
                                sched'.status[v] = "REPLY_BLOCKED"
    OBVIOUS
  <2>4. m.kind = "request" => sched'.status[s] = "REPLY_BLOCKED"
    BY SendsFacts DEF SentBy
  <2> QED BY <2>1, <2>2, <2>3, <2>4, SendsRequests
<1>9. /\ \A r \in AllRoutes : r # <<s, u>> => sent'[r] = sent[r]
      /\ sent'[<<s, u>>] = sent[<<s, u>>] + 1 /\ m.n = sent[<<s, u>>] + 1
      /\ last' = last
  BY SendsFacts DEF Sends
<1>10. /\ InOrder(Append(queue[u], m))
       /\ NumbersIn(Append(queue[u], m), s) = NumbersIn(queue[u], s) \cup {m.n}
       /\ \A x : x # s => NumbersIn(Append(queue[u], m), x) = NumbersIn(queue[u], x)
  <2>1. InOrder(queue[u])
    BY <1>1, ExactFacts
  <2>2. \A k \in NumbersIn(queue[u], m.from) : k < m.n
    <3> DEFINE r == <<s, u>>
    <3>1. /\ last[r] \in Nat /\ sent[r] \in Nat
          /\ RouteOK(Handed(r), NumbersIn(queue[r[2]], r[1]), Offered(r), last[r], sent[r])
      BY <1>1, ExactFacts
    <3>2. r[1] = s /\ r[2] = u
      OBVIOUS
    <3>3. NumbersIn(queue[u], s) \subseteq (last[r] + 1) .. sent[r]
      BY <3>1, <3>2 DEF RouteOK
    <3>4. m.n = sent[r] + 1
      BY <1>9
    <3> HIDE DEF r
    <3>5. \A k \in (last[r] + 1) .. sent[r] : k < sent[r] + 1
      BY <3>1
    <3> QED BY <1>1, <3>3, <3>4, <3>5
  <2> DEFINE q == queue[u]
  <2>3. q \in Seq(Msgs) /\ m \in Msgs /\ InOrder(q) /\ \A k \in NumbersIn(q, m.from) : k < m.n
    BY <1>1, <2>1, <2>2
  <2> HIDE DEF q
  <2>4. /\ InOrder(Append(q, m))
        /\ NumbersIn(Append(q, m), m.from) = NumbersIn(q, m.from) \cup {m.n}
        /\ \A x : x # m.from => NumbersIn(Append(q, m), x) = NumbersIn(q, x)
    BY <2>3, AppendInOrder
  <2> QED BY <1>1, <2>4 DEF q
<1>11. ASSUME NEW r \in AllRoutes
       PROVE  RouteOK(Handed(r)', NumbersIn(queue'[r[2]], r[1]), Offered(r)', last'[r], sent'[r])
  <2>1. PICK x \in Senders, v \in Pids : r = <<x, v>> /\ r[1] = x /\ r[2] = v /\ x # 0
    BY RouteFacts
  <2>2. /\ last[r] \in Nat /\ sent[r] \in Nat
        /\ RouteOK(Handed(r), NumbersIn(queue[r[2]], r[1]), Offered(r), last[r], sent[r])
    BY ExactFacts
  <2>3. Offered(r)' = Offered(r)
    <3>1. x \in InQueue(waiters[v]) => buf'[x] = buf[x]
      BY <1>5, WaitersArePids
    <3> QED BY <2>1, <3>1 DEF Offered
  <2>4. Handed(r)' = Handed(r)
    <3>1. CASE v = s
      BY <1>1, <2>1, <3>1 DEF Handed, SentBy
    <3>2. CASE v # s
      BY <2>1, <3>2 DEF Handed, Sends
    <3> QED BY <3>1, <3>2
  <2>5. CASE r = <<s, u>>
    <3>1. x = s /\ v = u
      BY <2>1, <2>5
    <3>2. NumbersIn(queue'[r[2]], r[1]) = NumbersIn(queue[r[2]], r[1]) \cup {sent[r] + 1}
      BY <1>2, <1>9, <1>10, <2>1, <2>5, <3>1
    <3>3. Offered(r) = {}
      BY <1>5, <2>1, <3>1 DEF Offered
    <3>4. RouteOK(Handed(r), NumbersIn(queue[r[2]], r[1]), {}, last[r], sent[r])
      BY <2>2, <3>3
    <3>5. RouteOK(Handed(r), NumbersIn(queue[r[2]], r[1]) \cup {sent[r] + 1}, {}, last[r], sent[r] + 1)
      BY <2>2, <3>4, RouteSend
    <3> QED BY <1>9, <2>3, <2>4, <2>5, <3>2, <3>3, <3>5
  <2>6. CASE r # <<s, u>>
    <3>1. NumbersIn(queue'[r[2]], r[1]) = NumbersIn(queue[r[2]], r[1])
      BY <1>2, <1>10, <2>1, <2>6
    <3> QED BY <1>9, <2>2, <2>3, <2>4, <2>6, <3>1
  <2> QED BY <2>5, <2>6
<1>12. ExactlyOnceInOrder'
  <2>1. \A v \in Pids : InOrder(queue'[v])
    BY <1>2, <1>10, ExactFacts
  <2> QED BY <1>11, <2>1, ExactNext
<1> QED BY <1>3, <1>4, <1>7, <1>8, <1>12 DEF MsgInv

(* The sender blocks on the receiver's wait list. *)
LEMMA OfferStep ==
    ASSUME IInv, NEW s \in Pids, NEW u, NEW m, Sends(s, u, m), s # u,
           sched.status[u] # "RECEIVE_BLOCKED",
           \/ m.kind = "msg" /\ call'[s] = "send" /\ sched'.status[s] = "SEND_BLOCKED"
           \/ m.kind = "request" /\ call'[s] = "send_receive" /\ sched'.status[s] = "REPLY_BLOCKED",
           \A v \in Pids : v # s => sched'.status[v] = sched.status[v] /\ buf'[v] = buf[v],
           buf'[s] = m, queue' = queue,
           waiters' = [waiters EXCEPT ![u] = thread_add_to_list(@, s)]
    PROVE  MsgInv'
<1>1. /\ u \in Pids /\ s \in Senders /\ <<s, u>> \in AllRoutes /\ m \in Msgs /\ m.from = s
      /\ call[s] = "none"
      /\ waiters \in [Pids -> Seq(Pids)] /\ waiters[u] \in Seq(Pids)
  BY DEF Sends, Arrives, IInv, MsgInv, MsgTypeOK
<1>2. \A v \in Pids : s \notin InQueue(waiters[v])
  BY SendsFacts
<1>3. /\ waiters'[u] \in Seq(Pids)
      /\ InQueue(waiters'[u]) = InQueue(waiters[u]) \cup {s}
      /\ NoRepeats(waiters'[u]) /\ SortedByPriority(waiters'[u])
  <2> DEFINE q == waiters[u]
  <2>1. /\ q \in Seq(Pids) /\ s \notin InQueue(q) /\ NoRepeats(q) /\ SortedByPriority(q)
        /\ priority \in [Pids -> Prios] /\ Pids \in SUBSET Pids
    BY <1>1, <1>2, MsgFacts DEF IInv, MsgInv, WaitersInv
  <2>2. waiters'[u] = thread_add_to_list(q, s)
    BY <1>1
  <2> HIDE DEF q
  <2>3. /\ thread_add_to_list(q, s) \in Seq(Pids)
        /\ InQueue(thread_add_to_list(q, s)) = InQueue(q) \cup {s}
        /\ NoRepeats(thread_add_to_list(q, s)) /\ SortedByPriority(thread_add_to_list(q, s))
    BY <2>1, AddToList
  <2> QED BY <2>2, <2>3 DEF q
<1>4. \A v \in Pids : v # u => waiters'[v] = waiters[v]
  BY <1>1
<1>5. MsgTypeOK'
  <2>1. waiters' \in [Pids -> Seq(Pids)]
    BY <1>1, <1>3
  <2> QED BY <2>1 DEF IInv, MsgInv, MsgTypeOK, Sends
<1>6. \A v \in Pids : \A x \in InQueue(waiters'[v]) :
          x \in InQueue(waiters[v]) \/ (x = s /\ v = u)
  BY <1>3, <1>4
<1>7. ASSUME NEW v \in Pids PROVE CallInv(v)'
  <2>1. CASE v = s
    <3>1. s \in InQueue(waiters'[u])
      BY <1>3
    <3> QED BY <1>1, <2>1, <3>1 DEF CallInv
  <2>2. CASE v # s
    <3>1. CallInv(v) /\ call'[v] = call[v] /\ (\A x : sent'[<<v, x>>] = sent[<<v, x>>])
      BY <2>2, SendsFacts DEF IInv, MsgInv, Sends
    <3>2. SameStatus(v) /\ buf'[v] = buf[v]
      BY <2>2 DEF SameStatus
    <3>3. \A x \in Pids : InQueue(waiters[x]) \subseteq InQueue(waiters'[x])
      BY <1>3, <1>4
    <3>4. sched.status[v] = "SEND_BLOCKED" => \E x \in Pids : v \in InQueue(waiters'[x])
      BY <3>1, <3>3 DEF CallInv
    <3> QED BY <3>1, <3>2, <3>4, CallFrame
  <2> QED BY <2>1, <2>2
<1>8. ASSUME NEW v \in Pids PROVE WaitersInv(v)'
  <2>1. WaitersInv(v) /\ priority' = priority /\ owed'[v] \subseteq owed[v] /\ queue'[v] = queue[v]
    BY DEF IInv, MsgInv, Sends
  <2>2. \A x \in InQueue(waiters[v]) :
           /\ buf'[x] = buf[x] /\ SameStatus(x) /\ x # s
           /\ \A w \in Pids : x \in InQueue(waiters'[w]) => x \in InQueue(waiters[w])
    BY <1>2, <1>6, WaitersArePids DEF SameStatus
  <2>3. sched'.status[v] = "RECEIVE_BLOCKED" => sched.status[v] = "RECEIVE_BLOCKED"
    BY <1>1
  <2>4. CASE v # u
    BY <1>4, <2>1, <2>2, <2>3, <2>4, WaitersFrame
  <2>5. CASE v = u
    <3>1. \A k, x : Arrives(k, x)' = Arrives(k, x)
      BY DEF Arrives
    <3>2. \A k \in InQueue(queue'[u]) : Arrives(k, u)
      BY <2>1, <2>5 DEF WaitersInv
    <3>3. NoRepeats(waiters[u])' /\ SortedByPriority(waiters[u])'
      BY <1>3, <2>1 DEF NoRepeats, SortedByPriority
    <3>4. ASSUME NEW x \in InQueue(waiters'[u])
          PROVE  /\ Arrives(buf'[x], u) /\ buf'[x].from = x
                 /\ buf'[x].kind = "msg" => sched'.status[x] = "SEND_BLOCKED"
                 /\ buf'[x].kind = "request" => sched'.status[x] = "REPLY_BLOCKED"
                 /\ \A w \in Pids : x \in InQueue(waiters'[w]) => u = w
      <4>1. CASE x = s
        BY <1>1, <1>2, <1>6, <4>1 DEF Sends
      <4>2. CASE x \in InQueue(waiters[u])
        BY <2>1, <2>2, <2>5, <4>2 DEF WaitersInv, SameStatus, MsgBlocked
      <4> QED BY <1>1, <1>6, <4>1, <4>2
    <3>5. \A k \in owed'[u] : Arrives(k, u) /\ k.kind = "request"
      BY <2>1, <2>5 DEF WaitersInv
    <3>6. sched'.status[u] # "RECEIVE_BLOCKED"
      BY <2>3, <2>5
    <3> QED BY <2>5, <3>1, <3>2, <3>3, <3>4, <3>5, <3>6 DEF WaitersInv
  <2> QED BY <2>4, <2>5
<1>9. RequestInv'
  <2>1. ASSUME NEW a \in Places, NEW v \in Pids
        PROVE  \/ RequestsAt(a, v)' \subseteq RequestsAt(a, v)
               \/ /\ a = "offered" /\ v = u
                  /\ RequestsAt(a, v)' \subseteq
                         RequestsAt(a, v) \cup {k \in {m} : k.kind = "request"}
    <3>1. CASE a = "owed"
      BY <3>1 DEF RequestsAt, Sends
    <3>2. CASE a = "handed"
      <4>1. CASE v = s
        BY <1>1, <3>2, <4>1 DEF RequestsAt
      <4>2. CASE v # s
        BY <3>2, <4>2 DEF RequestsAt, Sends
      <4> QED BY <4>1, <4>2
    <3>3. CASE a = "queued"
      BY <3>3 DEF RequestsAt
    <3>4. CASE a = "offered"
      <4>1. \A x \in InQueue(waiters[v]) : buf'[x] = buf[x]
        BY <1>2, WaitersArePids
      <4>2. CASE v # u
        BY <1>4, <3>4, <4>1, <4>2 DEF RequestsAt
      <4>3. CASE v = u
        BY <1>3, <3>4, <4>1, <4>3 DEF RequestsAt
      <4> QED BY <4>2, <4>3
    <3> QED BY <3>1, <3>2, <3>3, <3>4 DEF Places
  <2>2. "offered" \in Places
    BY DEF Places
  <2>3. \A v \in Pids : v # s /\ sched.status[v] = "REPLY_BLOCKED" =>
                                sched'.status[v] = "REPLY_BLOCKED"
    OBVIOUS
  <2>4. m.kind = "request" => sched'.status[s] = "REPLY_BLOCKED"
    OBVIOUS
  <2> QED BY <2>1, <2>2, <2>3, <2>4, SendsRequests
<1>10. /\ \A r \in AllRoutes : r # <<s, u>> => sent'[r] = sent[r]
       /\ sent'[<<s, u>>] = sent[<<s, u>>] + 1 /\ m.n = sent[<<s, u>>] + 1
       /\ last' = last
  BY SendsFacts DEF Sends
<1>11. ASSUME NEW r \in AllRoutes
       PROVE  RouteOK(Handed(r)', NumbersIn(queue'[r[2]], r[1]), Offered(r)', last'[r], sent'[r])
  <2>1. PICK x \in Senders, v \in Pids : r = <<x, v>> /\ r[1] = x /\ r[2] = v /\ x # 0
    BY RouteFacts
  <2>2. /\ last[r] \in Nat /\ sent[r] \in Nat
        /\ RouteOK(Handed(r), NumbersIn(queue[r[2]], r[1]), Offered(r), last[r], sent[r])
    BY ExactFacts
  <2>3. Handed(r)' = Handed(r)
    <3>1. CASE v = s
      BY <1>1, <2>1, <3>1 DEF Handed
    <3>2. CASE v # s
      BY <2>1, <3>2 DEF Handed, Sends
    <3> QED BY <3>1, <3>2
  <2>4. CASE r = <<s, u>>
    <3>1. x = s /\ v = u
      BY <2>1, <2>4
    <3>2. Offered(r) = {} /\ Offered(r)' = {sent[r] + 1}
      BY <1>2, <1>3, <1>10, <2>1, <2>4, <3>1 DEF Offered
    <3>3. RouteOK(Handed(r), NumbersIn(queue[r[2]], r[1]), {}, last[r], sent[r])
      BY <2>2, <3>2
    <3>4. RouteOK(Handed(r), NumbersIn(queue[r[2]], r[1]), {sent[r] + 1}, last[r], sent[r] + 1)
      BY <2>2, <3>3, RouteSend
    <3> QED BY <1>10, <2>3, <2>4, <3>2, <3>4
  <2>5. CASE r # <<s, u>>
    <3>1. x \in InQueue(waiters'[v]) <=> x \in InQueue(waiters[v])
      BY <1>3, <1>4, <2>1, <2>5
    <3>2. x \in InQueue(waiters[v]) => buf'[x] = buf[x]
      BY <1>2, WaitersArePids
    <3>3. Offered(r)' = Offered(r)
      BY <2>1, <3>1, <3>2 DEF Offered
    <3> QED BY <1>10, <2>2, <2>3, <2>5, <3>3
  <2> QED BY <2>4, <2>5
<1>12. ExactlyOnceInOrder'
  BY <1>11, ExactFacts, ExactNext
<1> QED BY <1>5, <1>7, <1>8, <1>9, <1>12 DEF MsgInv

-----------------------------------------------------------------------------
(* The actions. *)

(* A message that thread t sends to u: of msg_send(), or the request of    *)
(* msg_send_receive(), in run queues k and buffers b.                      *)
NewMessage(t, u, k, m, b) ==
    \/ /\ <<t, u>> \in Routes /\ m = NextMsg(<<t, u>>, "msg")
       /\ k = sched /\ b = buf
    \/ /\ <<t, u>> \in RequestRoutes /\ m = NextMsg(<<t, u>>, "request")
       /\ k = sched_set_status(sched, priority, t, "REPLY_BLOCKED")
       /\ b = [buf EXCEPT ![t] = m]

LEMMA MessageFacts ==
    ASSUME IInv, NEW s \in Senders, NEW u \in Pids, NEW kind \in {"msg", "request"},
           kind = "msg" => <<s, u>> \in Routes,
           kind = "request" => <<s, u>> \in RequestRoutes,
           sent[<<s, u>>] < MaxMsgs, Accepted(<<s, u>>)
    PROVE  LET m == NextMsg(<<s, u>>, kind)
           IN  /\ Arrives(m, u) /\ m.from = s /\ m.n = sent[<<s, u>>] + 1 /\ m.kind = kind
               /\ m \in Msgs
               /\ <<s, u>> \in AllRoutes
               /\ sent' = [sent EXCEPT ![<<s, u>>] = @ + 1]
               /\ sent' \in [AllRoutes -> 0 .. MaxMsgs]
<1> DEFINE m == NextMsg(<<s, u>>, kind)
<1>1. <<s, u>> \in AllRoutes /\ sent \in [AllRoutes -> 0 .. MaxMsgs]
  BY RouteFacts DEF IInv, MsgInv, MsgTypeOK
<1>2. sent[<<s, u>>] + 1 \in 1 .. MaxMsgs
  <2>1. sent[<<s, u>>] \in 0 .. MaxMsgs /\ MaxMsgs \in Nat
    BY <1>1, MsgAssumption
  <2> QED BY <2>1
<1>3. m.from = s /\ m.n = sent[<<s, u>>] + 1 /\ m.kind = kind
  BY DEF NextMsg
<1>4. m \in Msgs
  BY <1>2 DEF NextMsg, Msgs
<1>5. Arrives(m, u)
  BY <1>3, <1>4 DEF Arrives
<1>6. sent' \in [AllRoutes -> 0 .. MaxMsgs]
  <2>1. sent[<<s, u>>] + 1 \in 0 .. MaxMsgs
    BY <1>2
  <2> QED BY <1>1, <2>1 DEF Accepted
<1> QED BY <1>1, <1>3, <1>4, <1>5, <1>6 DEF Accepted

LEMMA NewMessageFacts ==
    ASSUME IInv, NEW t \in Pids, NEW u \in Pids, Calls(t), t # u, sent[<<t, u>>] < MaxMsgs,
           NEW k, NEW m, NEW b, NewMessage(t, u, k, m, b), Accepted(<<t, u>>),
           UNCHANGED <<inited, last, owed>>, priority' = priority,
           buf' \in [Pids -> Msgs \cup {NoMsg}],
           call' \in [Pids -> {"none", "receive", "send", "send_receive"}],
           \A v \in Pids : v # t => call'[v] = call[v]
    PROVE  Sends(t, u, m)
<1>1. Runs(t) /\ call[t] = "none" /\ t \in Senders
  BY CallsFacts DEF Senders
<1>2. /\ Arrives(m, u) /\ m.from = t /\ m.n = sent[<<t, u>>] + 1
      /\ <<t, u>> \in AllRoutes
      /\ sent' = [sent EXCEPT ![<<t, u>>] = @ + 1] /\ sent' \in [AllRoutes -> 0 .. MaxMsgs]
  <2>1. CASE <<t, u>> \in Routes /\ m = NextMsg(<<t, u>>, "msg")
    BY <1>1, <2>1, MessageFacts
  <2>2. CASE <<t, u>> \in RequestRoutes /\ m = NextMsg(<<t, u>>, "request")
    BY <1>1, <2>2, MessageFacts
  <2> QED BY <2>1, <2>2 DEF NewMessage
<1> QED BY <1>1, <1>2 DEF Sends

LEMMA NewMessageState ==
    ASSUME IInv, NEW t \in Pids, NEW u \in Pids, Calls(t), t # u, sent[<<t, u>>] < MaxMsgs,
           NEW k, NEW m, NEW b, NewMessage(t, u, k, m, b), Accepted(<<t, u>>)
    PROVE  /\ SendState(t, k) /\ k \in RunState /\ k.status \in [Pids -> Status]
           /\ m \in Msgs /\ b \in [Pids -> Msgs \cup {NoMsg}]
           /\ \A v \in Pids : v # t => k.status[v] = sched.status[v] /\ b[v] = buf[v]
           /\ \/ /\ m.kind = "msg" /\ k = sched /\ b = buf /\ k.status[t] \notin MsgBlocked
              \/ /\ m.kind = "request" /\ k # sched /\ k.status[t] = "REPLY_BLOCKED"
                 /\ k = sched_set_status(sched, priority, t, "REPLY_BLOCKED")
                 /\ b[t] = m
<1>1. Runs(t) /\ t # IdlePid /\ t \in Senders /\ sched.status[t] \notin MsgBlocked
  BY CallsFacts, RunnerReady DEF Senders
<1>2. buf \in [Pids -> Msgs \cup {NoMsg}]
  BY DEF IInv, MsgInv, MsgTypeOK
<1>3. CASE /\ <<t, u>> \in Routes /\ m = NextMsg(<<t, u>>, "msg")
           /\ k = sched /\ b = buf
  <2>1. m \in Msgs /\ m.kind = "msg"
    BY <1>1, <1>3, MessageFacts
  <2> QED BY <1>1, <1>2, <1>3, <2>1, MsgFacts DEF SendState
<1>4. CASE /\ <<t, u>> \in RequestRoutes /\ m = NextMsg(<<t, u>>, "request")
           /\ k = sched_set_status(sched, priority, t, "REPLY_BLOCKED")
           /\ b = [buf EXCEPT ![t] = m]
  <2>1. m \in Msgs /\ m.kind = "request"
    BY <1>1, <1>4, MessageFacts
  <2>2. SendState(t, k)
    BY <1>4 DEF SendState
  <2>3. "REPLY_BLOCKED" \in Blocked
    BY DEF Blocked
  <2>4. k \in RunState /\ k.status = [sched.status EXCEPT ![t] = "REPLY_BLOCKED"]
    BY <1>1, <1>4, <2>3, MsgFacts, RunnerReady, BlockKeeps
  <2>5. k.status \in [Pids -> Status]
    BY <1>1, <2>2, SendStateFacts
  <2>6. k.status[t] = "REPLY_BLOCKED" /\ \A v \in Pids : v # t => k.status[v] = sched.status[v]
    BY <2>4, MsgFacts
  <2>7. k # sched
    BY <1>1, <2>6 DEF MsgBlocked
  <2>8. b \in [Pids -> Msgs \cup {NoMsg}] /\ b[t] = m /\ \A v \in Pids : v # t => b[v] = buf[v]
    BY <1>2, <1>4, <2>1
  <2> QED BY <1>4, <2>1, <2>2, <2>4, <2>5, <2>6, <2>7, <2>8
<1> QED BY <1>3, <1>4 DEF NewMessage

LEMMA SendKeeps ==
    ASSUME IInv, NEW t \in Pids, NEW u \in Pids, Calls(t), t # u, sent[<<t, u>>] < MaxMsgs,
           NEW k, NEW m, NEW b, NewMessage(t, u, k, m, b), Accepted(<<t, u>>),
           \/ SendDirect(k, t, u, m, b) \/ SendQueued(k, t, u, m, b) \/ SendBlocks(k, t, u, m, b),
           m.kind = "request" => call' = [call EXCEPT ![t] = "send_receive"],
           m.kind = "msg" =>
              call' = IF SendBlocks(k, t, u, m, b) THEN [call EXCEPT ![t] = "send"] ELSE call,
           KeepsContext, UNCHANGED <<inited, last, owed>>
    PROVE  IInv'
<1>1. Runs(t) /\ t # IdlePid /\ call[t] = "none" /\ sched.status[t] \notin MsgBlocked
  BY CallsFacts, RunnerReady
<1>2. /\ SendState(t, k) /\ k.status \in [Pids -> Status]
      /\ m \in Msgs /\ b \in [Pids -> Msgs \cup {NoMsg}]
      /\ \A v \in Pids : v # t => k.status[v] = sched.status[v] /\ b[v] = buf[v]
      /\ \/ m.kind = "msg" /\ k = sched /\ b = buf /\ k.status[t] \notin MsgBlocked
         \/ /\ m.kind = "request" /\ k # sched /\ k.status[t] = "REPLY_BLOCKED" /\ b[t] = m
            /\ k = sched_set_status(sched, priority, t, "REPLY_BLOCKED")
  BY NewMessageState
<1>3. call \in [Pids -> {"none", "receive", "send", "send_receive"}]
  BY DEF IInv, MsgInv, MsgTypeOK
<1>4. /\ call' \in [Pids -> {"none", "receive", "send", "send_receive"}]
      /\ \A v \in Pids : v # t => call'[v] = call[v]
      /\ m.kind = "request" => call'[t] = "send_receive"
  BY <1>2, <1>3
<1>5. priority' = priority
  BY DEF KeepsContext
<1>6. buf' \in [Pids -> Msgs \cup {NoMsg}] => Sends(t, u, m)
  BY <1>4, <1>5, NewMessageFacts
<1>7. CASE SendDirect(k, t, u, m, b)
  <2>1. /\ k.status[u] = "RECEIVE_BLOCKED" /\ buf' = [b EXCEPT ![u] = m]
        /\ sched' = sched_set_status(k, priority, u, "PENDING") /\ YieldTail(t)
        /\ queue' = queue /\ waiters' = waiters
    BY <1>7 DEF SendDirect
  <2>2. k.status[u] \notin OnRunqueue
    BY <2>1 DEF OnRunqueue
  <2>3. /\ SchedInv' /\ (\A v \in Pids : SwitchAhead(v)')
        /\ sched'.status = [k.status EXCEPT ![u] = "PENDING"]
    BY <1>1, <1>2, <2>1, <2>2, DirectSched
  <2>4. /\ sched'.status[u] = "PENDING" /\ sched.status[u] = "RECEIVE_BLOCKED"
        /\ sched'.status[t] = k.status[t]
        /\ \A v \in Pids : v \notin {t, u} => sched'.status[v] = sched.status[v] /\ buf'[v] = buf[v]
        /\ buf'[u] = m /\ buf' \in [Pids -> Msgs \cup {NoMsg}]
    BY <1>2, <2>1, <2>3
  <2>5. ~SendBlocks(k, t, u, m, b)
    BY <2>1 DEF SendBlocks
  <2>6. SentBy(t, m)
    BY <1>1, <1>2, <1>4, <2>4, <2>5 DEF SentBy
  <2>7. MsgInv'
    BY <1>6, <2>1, <2>4, <2>6, HandStep
  <2> QED BY <2>3, <2>7 DEF IInv
<1>8. CASE SendQueued(k, t, u, m, b)
  <2>1. /\ k.status[u] # "RECEIVE_BLOCKED" /\ buf' = b /\ sched' = k
        /\ queue' = [queue EXCEPT ![u] = Append(@, m)] /\ waiters' = waiters
        /\ IF k.status[t] = "REPLY_BLOCKED"
           THEN Tail_(t, "sched_switch", THREAD_PRIORITY_IDLE)
           ELSE UNCHANGED <<pc, other_prio>>
        /\ UNCHANGED sched_context_switch_request /\ HasRoom(u)
    BY <1>8 DEF SendQueued, queue_msg
  <2>2. SchedInv' /\ \A v \in Pids : SwitchAhead(v)'
    <3>1. CASE m.kind = "msg"
      <4>1. UNCHANGED schedVars
        BY <1>2, <2>1, <3>1 DEF schedVars, KeepsContext, MsgBlocked
      <4> QED BY <4>1, SchedSame DEF IInv
    <3>2. CASE m.kind = "request"
      BY <1>1, <1>2, <2>1, <3>2, ReplyQueuedSched
    <3> QED BY <1>2, <3>1, <3>2
  <2>3. ~SendBlocks(k, t, u, m, b)
    BY <2>1 DEF SendBlocks
  <2>4. /\ sched'.status[t] = k.status[t] /\ sched.status[u] # "RECEIVE_BLOCKED"
        /\ \A v \in Pids : v # t => sched'.status[v] = sched.status[v] /\ buf'[v] = buf[v]
        /\ buf' \in [Pids -> Msgs \cup {NoMsg}]
    BY <1>2, <2>1
  <2>5. SentBy(t, m)
    BY <1>1, <1>2, <1>4, <2>3, <2>4 DEF SentBy
  <2>6. MsgInv'
    BY <1>6, <2>1, <2>4, <2>5, EnqueueStep, ZenonT(30)
  <2> QED BY <2>2, <2>6 DEF IInv
<1>9. CASE SendBlocks(k, t, u, m, b)
  <2>1. /\ k.status[u] # "RECEIVE_BLOCKED" /\ buf' = [b EXCEPT ![t] = m]
        /\ sched' = sched_set_status(k, priority, t, BlockedStatus(k, t)) /\ YieldTail(t)
        /\ queue' = queue
        /\ waiters' = [waiters EXCEPT ![u] = thread_add_to_list(@, t)]
    BY <1>9 DEF SendBlocks
  <2>2. /\ SchedInv' /\ (\A v \in Pids : SwitchAhead(v)')
        /\ sched'.status = [sched.status EXCEPT ![t] =
                                 IF k = sched THEN "SEND_BLOCKED" ELSE "REPLY_BLOCKED"]
    BY <1>1, <1>2, <2>1, BlocksSched
  <2>3. /\ sched.status[u] # "RECEIVE_BLOCKED" /\ buf'[t] = m
        /\ \A v \in Pids : v # t => sched'.status[v] = sched.status[v] /\ buf'[v] = buf[v]
        /\ buf' \in [Pids -> Msgs \cup {NoMsg}]
    BY <1>2, <2>1, <2>2, MsgFacts
  <2>4. \/ m.kind = "msg" /\ call'[t] = "send" /\ sched'.status[t] = "SEND_BLOCKED"
        \/ m.kind = "request" /\ call'[t] = "send_receive" /\ sched'.status[t] = "REPLY_BLOCKED"
    BY <1>2, <1>3, <1>4, <1>9, <2>2, MsgFacts
  <2>5. MsgInv'
    BY <1>6, <2>1, <2>3, <2>4, OfferStep
  <2> QED BY <2>2, <2>5 DEF IInv
<1> QED BY <1>7, <1>8, <1>9

LEMMA SendAction ==
    ASSUME IInv, NEW t \in Pids, NEW u \in Pids, msg_send(t, u)
    PROVE  IInv'
<1> DEFINE m == NextMsg(<<t, u>>, "msg")
<1>1. /\ Calls(t) /\ t # u /\ sent[<<t, u>>] < MaxMsgs /\ <<t, u>> \in Routes
      /\ Accepted(<<t, u>>) /\ KeepsContext /\ UNCHANGED <<inited, last, owed>>
      /\ \/ SendDirect(sched, t, u, m, buf) /\ UNCHANGED call
         \/ SendQueued(sched, t, u, m, buf) /\ UNCHANGED call
         \/ SendBlocks(sched, t, u, m, buf) /\ call' = [call EXCEPT ![t] = "send"]
  BY DEF msg_send
<1>2. m.kind = "msg" /\ NewMessage(t, u, sched, m, buf)
  BY <1>1 DEF NextMsg, NewMessage
<1>3. SendBlocks(sched, t, u, m, buf) =>
         ~SendDirect(sched, t, u, m, buf) /\ ~SendQueued(sched, t, u, m, buf)
  BY DEF SendBlocks, SendDirect, SendQueued
<1>4. call' = IF SendBlocks(sched, t, u, m, buf) THEN [call EXCEPT ![t] = "send"] ELSE call
  BY <1>1, <1>3
<1>5. m.kind # "request"
  BY <1>2
<1> HIDE DEF m
<1> QED BY <1>1, <1>2, <1>4, <1>5, SendKeeps

LEMMA SendReceiveAction ==
    ASSUME IInv, NEW t \in Pids, NEW u \in Pids, msg_send_receive(t, u)
    PROVE  IInv'
<1> DEFINE m == NextMsg(<<t, u>>, "request")
           k == sched_set_status(sched, priority, t, "REPLY_BLOCKED")
           b == [buf EXCEPT ![t] = m]
<1>1. /\ Calls(t) /\ sent[<<t, u>>] < MaxMsgs /\ <<t, u>> \in RequestRoutes
      /\ Accepted(<<t, u>>) /\ KeepsContext /\ UNCHANGED <<inited, last, owed>>
      /\ SendDirect(k, t, u, m, b) \/ SendQueued(k, t, u, m, b) \/ SendBlocks(k, t, u, m, b)
      /\ call' = [call EXCEPT ![t] = "send_receive"]
  BY DEF msg_send_receive
<1>2. m.kind = "request" /\ NewMessage(t, u, k, m, b)
  BY <1>1 DEF NextMsg, NewMessage
<1>3. t # u
  BY <1>1, RouteFacts
<1>4. m.kind # "msg"
  BY <1>2
<1> HIDE DEF m, k, b
<1> QED BY <1>1, <1>2, <1>3, <1>4, SendKeeps

LEMMA SendToSelfAction ==
    ASSUME IInv, NEW t \in Pids, msg_send_to_self(t)
    PROVE  IInv'
<1> DEFINE m == NextMsg(<<t, t>>, "msg")
<1>1. /\ Calls(t) /\ sent[<<t, t>>] < MaxMsgs /\ <<t, t>> \in Routes
      /\ Accepted(<<t, t>>) /\ queue' = [queue EXCEPT ![t] = Append(@, m)]
      /\ UNCHANGED <<schedVars, inited, waiters, buf, call, last, owed>>
  BY DEF msg_send_to_self, queue_msg
<1>2. /\ Runs(t) /\ call[t] = "none" /\ t \in Senders /\ sched.status[t] \notin MsgBlocked
  BY <1>1, CallsFacts, RunnerReady DEF Senders
<1>3. /\ Arrives(m, t) /\ m.from = t /\ m.n = sent[<<t, t>>] + 1 /\ m.kind = "msg"
      /\ <<t, t>> \in AllRoutes
      /\ sent' = [sent EXCEPT ![<<t, t>>] = @ + 1] /\ sent' \in [AllRoutes -> 0 .. MaxMsgs]
  BY <1>1, <1>2, MessageFacts
<1> HIDE DEF m
<1>4. sched' = sched /\ priority' = priority
  BY <1>1 DEF schedVars
<1>5. Sends(t, t, m)
  <2>1. /\ buf' \in [Pids -> Msgs \cup {NoMsg}]
        /\ call' \in [Pids -> {"none", "receive", "send", "send_receive"}]
    BY <1>1 DEF IInv, MsgInv, MsgTypeOK
  <2> QED BY <1>1, <1>2, <1>3, <1>4, <2>1 DEF Sends
<1>6. SentBy(t, m) /\ sched.status[t] # "RECEIVE_BLOCKED"
  BY <1>1, <1>2, <1>3, <1>4 DEF SentBy, MsgBlocked
<1>7. MsgInv'
  BY <1>1, <1>4, <1>5, <1>6, EnqueueStep
<1> QED BY <1>1, <1>7, SchedSame DEF IInv

LEMMA SendIntAction ==
    ASSUME IInv, NEW u \in Pids, msg_send_int(u)
    PROVE  IInv'
<1> DEFINE m == NextMsg(<<ISR, u>>, "msg")
<1>1. /\ irq_is_in /\ <<ISR, u>> \in Routes /\ sent[<<ISR, u>>] < MaxMsgs
      /\ Accepted(<<ISR, u>>) /\ KeepsContext
      /\ UNCHANGED <<pc, other_prio, inited, waiters, call, last, owed>>
      /\ \/ /\ sched.status[u] = "RECEIVE_BLOCKED"
            /\ buf' = [buf EXCEPT ![u] = m]
            /\ sched' = sched_set_status(sched, priority, u, "PENDING")
            /\ sched_context_switch_request' = TRUE
            /\ UNCHANGED queue
         \/ /\ sched.status[u] # "RECEIVE_BLOCKED"
            /\ queue' = [queue EXCEPT ![u] = Append(@, m)]
            /\ UNCHANGED <<sched, buf, sched_context_switch_request>>
  BY DEF msg_send_int, queue_msg
<1>2. ISR \in Senders /\ ISR \notin Pids /\ priority' = priority
  BY <1>1, RouteFacts DEF Senders, KeepsContext
<1>3. /\ Arrives(m, u) /\ m.from = ISR /\ m.n = sent[<<ISR, u>>] + 1 /\ m.kind = "msg"
      /\ <<ISR, u>> \in AllRoutes /\ m \in Msgs
      /\ sent' = [sent EXCEPT ![<<ISR, u>>] = @ + 1] /\ sent' \in [AllRoutes -> 0 .. MaxMsgs]
  BY <1>1, <1>2, MessageFacts
<1> HIDE DEF m
<1>4. /\ buf \in [Pids -> Msgs \cup {NoMsg}]
      /\ call \in [Pids -> {"none", "receive", "send", "send_receive"}]
  BY DEF IInv, MsgInv, MsgTypeOK
<1>5. buf' \in [Pids -> Msgs \cup {NoMsg}]
  BY <1>1, <1>3, <1>4
<1>6. Sends(ISR, u, m) /\ SentBy(ISR, m)
  BY <1>1, <1>2, <1>3, <1>4, <1>5 DEF Sends, SentBy
<1>7. CASE sched.status[u] = "RECEIVE_BLOCKED"
  <2>1. sched.status[u] \notin OnRunqueue /\ "PENDING" \in OnRunqueue
    BY <1>7 DEF OnRunqueue
  <2>2. /\ SchedInv' /\ (\A v \in Pids : SwitchAhead(v)')
        /\ sched'.status = [sched.status EXCEPT ![u] = "PENDING"]
    BY <1>1, <1>7, <2>1, MsgFacts, IsrWakeStep
  <2>3. /\ sched'.status[u] = "PENDING" /\ buf'[u] = m /\ queue' = queue
        /\ \A v \in Pids : v \notin {ISR, u} => sched'.status[v] = sched.status[v] /\ buf'[v] = buf[v]
    BY <1>1, <1>4, <1>7, <2>2, MsgFacts
  <2>4. MsgInv'
    BY <1>1, <1>6, <1>7, <2>3, HandStep
  <2> QED BY <2>2, <2>4 DEF IInv
<1>8. CASE sched.status[u] # "RECEIVE_BLOCKED"
  <2>1. UNCHANGED schedVars
    BY <1>1, <1>8 DEF schedVars, KeepsContext
  <2>2. MsgInv'
    BY <1>1, <1>6, <1>8, EnqueueStep
  <2> QED BY <2>1, <2>2, SchedSame DEF IInv
<1> QED BY <1>7, <1>8

-----------------------------------------------------------------------------
LEMMA InitInv == Init => IInv
<1> SUFFICES ASSUME Init PROVE IInv
  OBVIOUS
<1>1. /\ SchedInv /\ (\A u \in Pids : SwitchAhead(u))
      /\ sched.status = [t \in Pids |-> IF t = IdlePid THEN "PENDING" ELSE "SLEEPING"]
  BY SchedInitInv, PrioAssumption DEF Init
<1>2. MsgTypeOK
  <2>1. 0 \in 0 .. MaxMsgs
    BY MsgAssumption
  <2> QED BY <2>1 DEF Init, MsgTypeOK
<1>3. ASSUME NEW t \in Pids
      PROVE  /\ sched.status[t] \notin MsgBlocked /\ call[t] = "none" /\ queue[t] = <<>>
             /\ waiters[t] = <<>> /\ owed[t] = {} /\ InQueue(queue[t]) = {} /\ InQueue(waiters[t]) = {}
  BY <1>1 DEF Init, MsgBlocked, InQueue
<1>4. \A t \in Pids : CallInv(t)
  BY <1>3 DEF CallInv, MsgBlocked
<1>5. \A u \in Pids : WaitersInv(u)
  BY <1>3 DEF WaitersInv, NoRepeats, SortedByPriority, MsgBlocked
<1>6. RequestInv
  <2>1. \A a \in Places, u \in Pids : RequestsAt(a, u) = {}
    BY <1>3 DEF RequestsAt, Places
  <2> QED BY <2>1 DEF RequestInv
<1>7. ExactlyOnceInOrder
  <2>1. \A r \in AllRoutes : r[2] \in Pids /\ last[r] = 0 /\ sent[r] = 0
    BY RouteFacts DEF Init
  <2>2. \A r \in AllRoutes : Handed(r) = {} /\ Queued(r) = {} /\ Offered(r) = {}
    BY <1>3, <2>1 DEF Handed, Queued, Offered
  <2> QED BY <1>3, <2>1, <2>2 DEF ExactlyOnceInOrder
<1> QED BY <1>1, <1>2, <1>4, <1>5, <1>6, <1>7 DEF IInv, MsgInv

LEMMA NextInv ==
    ASSUME ~YieldWindow, IInv, [Next]_vars
    PROVE  IInv'
<1>1. CASE \E t, u \in Pids : msg_send(t, u)
  BY <1>1, SendAction
<1>2. CASE \E t, u \in Pids : msg_send_receive(t, u)
  BY <1>2, SendReceiveAction
<1>3. CASE \E t \in Pids : msg_init_queue(t)
  BY <1>3, InitQueueAction
<1>4. CASE \E t \in Pids : msg_send_to_self(t)
  BY <1>4, SendToSelfAction
<1>5. CASE \E t \in Pids : msg_send_int(t)
  BY <1>5, SendIntAction
<1>6. CASE \E t \in Pids : ReceiveNow(t)
  BY <1>6, ReceiveNowAction
<1>7. CASE \E t \in Pids : ReceiveBlocks(t)
  BY <1>7, ReceiveBlocksAction
<1>8. CASE \E t \in Pids : Returns(t)
  BY <1>8, ReturnsAction
<1>9. CASE \E u \in Pids : \E m \in owed[u] : msg_reply(u, m) \/ msg_reply_int(u, m)
  BY <1>9, ReplyAction
<1>10. CASE OtherCall
  BY <1>10, OtherCallAction DEF OtherCall
<1>11. CASE SchedStep /\ UNCHANGED msgVars
  BY <1>11, SchedAction
<1>12. CASE UNCHANGED vars
  <2>1. UNCHANGED schedVars /\ UNCHANGED msgVars
    BY <1>12 DEF vars
  <2>2. SchedInv' /\ \A v \in Pids : SwitchAhead(v)'
    BY <2>1, SchedSame DEF IInv
  <2>3. priority' = priority /\ \A v \in Pids : SameStatus(v)
    BY <2>1 DEF schedVars, SameStatus
  <2>4. inited' \subseteq Pids
    BY <2>1 DEF msgVars, IInv, MsgInv, MsgTypeOK
  <2>5. MsgInv'
    BY <2>1, <2>3, <2>4, MsgFrame DEF msgVars
  <2> QED BY <2>2, <2>5 DEF IInv
<1> QED BY <1>1, <1>2, <1>3, <1>4, <1>5, <1>6, <1>7, <1>8, <1>9, <1>10, <1>11, <1>12 DEF Next, MsgStep

(* The strengthening is inductive, for every number of threads, every set  *)
(* of routes, every queue size and every bound on the messages, where      *)
(* sched_run() does not run inside the window of thread_yield_higher().    *)
THEOREM MsgInvariant ==
    ASSUME ~YieldWindow
    PROVE  Spec => []IInv
<1>1. IInv /\ [Next]_vars => IInv'
  BY NextInv
<1> QED BY <1>1, InitInv, PTL DEF Spec

(* core/msg.c keeps the wait lists of the receivers, the run queues and    *)
(* the statuses in agreement, and preempts as it should.                   *)
THEOREM MsgLists ==
    ASSUME ~YieldWindow
    PROVE  Spec => []ListsAgree
<1>1. IInv => ListsAgree
  <2> SUFFICES ASSUME IInv PROVE ListsAgree
    OBVIOUS
  <2>1. TypeOK /\ RunqueuesAgree
    BY DEF IInv, SchedInv, MsgInv, MsgTypeOK, TypeOK
  <2>2. NoneMoreUrgent({})
    BY SchedInvUrgent DEF IInv
  <2>3. ASSUME NEW t \in Pids
        PROVE  LET at == {u \in Pids : t \in InQueue(waiters[u])}
               IN  /\ \A u, v \in at : u = v
                   /\ sched.status[t] = "SEND_BLOCKED" => at # {}
                   /\ at # {} => sched.status[t] \in {"SEND_BLOCKED", "REPLY_BLOCKED"}
    <3> DEFINE at == {u \in Pids : t \in InQueue(waiters[u])}
    <3>1. \A u, v \in at : u = v
      BY DEF IInv, MsgInv, WaitersInv
    <3>2. at # {} => sched.status[t] \in {"SEND_BLOCKED", "REPLY_BLOCKED"}
      <4> SUFFICES ASSUME NEW u \in at PROVE sched.status[t] \in {"SEND_BLOCKED", "REPLY_BLOCKED"}
        OBVIOUS
      <4>1. /\ Arrives(buf[t], u)
            /\ buf[t].kind = "msg" => sched.status[t] = "SEND_BLOCKED"
            /\ buf[t].kind = "request" => sched.status[t] = "REPLY_BLOCKED"
        BY DEF IInv, MsgInv, WaitersInv
      <4> QED BY <4>1 DEF Arrives, Msgs
    <3>3. sched.status[t] = "SEND_BLOCKED" => at # {}
      BY DEF IInv, MsgInv, CallInv
    <3> QED BY <3>1, <3>2, <3>3
  <2>4. \A u \in Pids :
           /\ NoRepeats(waiters[u]) /\ SortedByPriority(waiters[u])
           /\ sched.status[u] = "RECEIVE_BLOCKED" => queue[u] = <<>> /\ waiters[u] = <<>>
    BY DEF IInv, MsgInv, WaitersInv
  <2> QED BY <2>1, <2>2, <2>3, <2>4 DEF ListsAgree
<1> QED BY <1>1, MsgInvariant, PTL

(* _msg_send(), msg_send_int(), msg_send_to_self(), msg_send_receive() and *)
(* _msg_receive() lose, repeat and reorder no message of a route, whether  *)
(* it is copied to a waiting receiver, queued or offered by a blocked      *)
(* sender.                                                                 *)
THEOREM MsgExactlyOnce ==
    ASSUME ~YieldWindow
    PROVE  Spec => []ExactlyOnceInOrder
<1>1. IInv => ExactlyOnceInOrder
  BY DEF IInv, MsgInv
<1> QED BY <1>1, MsgInvariant, PTL

(* msg_receive() returns with a message, msg_send() after its message was  *)
(* taken, msg_send_receive() with the reply to its own request; msg_reply()*)
(* finds the sender of the request REPLY_BLOCKED and on no list.           *)
THEOREM MsgReturns ==
    ASSUME ~YieldWindow
    PROVE  Spec => []ReturnsDone
<1>1. IInv => ReturnsDone
  <2> SUFFICES ASSUME IInv PROVE ReturnsDone
    OBVIOUS
  <2>1. ASSUME NEW t \in Pids, Runs(t)
        PROVE  /\ call[t] = "receive" => buf[t].kind \in {"msg", "request"}
               /\ call[t] = "send" => \A u \in Pids : t \notin InQueue(waiters[u])
               /\ call[t] = "send_receive" =>
                       /\ buf[t].kind = "reply"
                       /\ <<t, buf[t].from>> \in RequestRoutes
                       /\ buf[t].n = sent[<<t, buf[t].from>>]
    <3>1. sched.status[t] \notin MsgBlocked /\ \A u \in Pids : t \notin InQueue(waiters[u])
      BY <2>1, RunnerReady
    <3>2. CallInv(t)
      BY DEF IInv, MsgInv
    <3>3. call[t] = "receive" => buf[t].kind \in {"msg", "request"}
      BY <3>1, <3>2 DEF CallInv, Arrives, Msgs, MsgBlocked
    <3> QED BY <3>1, <3>2, <3>3 DEF CallInv, MsgBlocked
  <2>2. \A u \in Pids : \A m \in owed[u] :
           /\ sched.status[m.from] = "REPLY_BLOCKED"
           /\ call[m.from] = "send_receive"
           /\ \A v \in Pids : m.from \notin InQueue(waiters[v])
    BY OwedFacts
  <2> QED BY <2>1, <2>2 DEF ReturnsDone
<1> QED BY <1>1, MsgInvariant, PTL
=============================================================================
