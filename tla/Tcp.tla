-------------------------------- MODULE Tcp --------------------------------
(***************************************************************************)
(* GNRC TCP (sys/net/gnrc/transport_layer/tcp): two nodes, one transmission *)
(* control block (TCB) on each, an unreliable network between them.         *)
(*                                                                          *)
(* On every node two threads work on the TCB.  The event loop takes packets *)
(* and timer messages from its queue, one at a time; the user's thread is   *)
(* inside one of the calls of gnrc_tcp.c.  Both reach the state machine     *)
(* through _fsm, which holds fsm_lock, so one event is one step; what a     *)
(* call reads outside the lock (tcb->state, snd_wnd, pkt_retransmit) is a   *)
(* step of its own, and the user's `pc' says where the call stands.         *)
(*                                                                          *)
(* The state machine's functions are operators on a record r: the TCB r.b,  *)
(* the packets sent so far r.out, whether STATUS_NOTIFY_USER was set        *)
(* (r.note), the return value r.ret, and r.mem: FALSE when the packet       *)
(* buffer and the pool of receive buffers are exhausted during this event,  *)
(* in which case nothing can be built.                                      *)
(*                                                                          *)
(* A payload byte is its position in the stream its sender's application    *)
(* handed over, so that the receiver's bytes can be compared with it.       *)
(***************************************************************************)
EXTENDS Integers, Sequences, FiniteSetsExt

CONSTANTS
  Client, Server,           \* the two nodes: active and passive open
  W,                        \* size of the sequence number space (2^32)
  GNRC_TCP_MSS, GNRC_TCP_DEFAULT_WINDOW, GNRC_TCP_TCB_MBOX_SIZE,
  Iss,                      \* what random_uint32 may return on each node, one
                            \* number after the other
  Scenarios,                \* what the applications call, and the bounds on
                            \* faults (packets lost or duplicated, failed
                            \* allocations) and on expiring timers
  None                      \* no packet

ASSUME TcpConstants ==
  /\ Client # Server
  /\ W \in Nat /\ W > 2 * (GNRC_TCP_DEFAULT_WINDOW + GNRC_TCP_MSS)
  /\ GNRC_TCP_MSS \in Nat \ {0} /\ GNRC_TCP_DEFAULT_WINDOW \in Nat \ {0}
  /\ GNRC_TCP_TCB_MBOX_SIZE \in Nat \ {0}

Nodes == {Client, Server}
Peer(n) == IF n = Client THEN Server ELSE Client

VARIABLES
  tcb,       \* tcb[n]: the transmission control block
  mbox,      \* mbox[n]: messages for the user's thread
  user,      \* user[n]: the call in progress, its locals and timers
  evq,       \* evq[n]: timer messages in the event loop's queue
  rx,        \* rx[n]: the packet the event loop is working on
  net,       \* net[n]: packets on their way to n
  wraps,     \* signed overflow of this build wraps around
  fresh,     \* fresh[n]: initial sequence numbers still to come
  calls,     \* calls[n]: the calls the application still makes
  faults,    \* faults that may still strike
  expiries,  \* timers that may still expire
  stream,    \* stream[n]: bytes of n's application given to the connection
  taken,     \* taken[n]: bytes n's TCP has taken from the connection
  got,       \* got[n]: bytes n's application has read from it
  confirmed, \* confirmed[n]: bytes up to the last send that reported success
  gaveup     \* gaveup[n]: a send of n's gave up on a transmitted segment

tcpVars == <<tcb, mbox, user, evq, rx, net, wraps, fresh, calls,
             faults, expiries, stream, taken, got, confirmed, gaveup>>

States == {"CLOSED", "LISTEN", "SYN_SENT", "SYN_RCVD", "ESTABLISHED",
           "CLOSE_WAIT", "LAST_ACK", "FIN_WAIT_1", "FIN_WAIT_2", "CLOSING",
           "TIME_WAIT"}

CallNames == {"open", "send", "recv", "recv_now", "close", "abort"}

ENOMEM       == -12
ECONNABORTED == -103
ETIMEDOUT    == -110

-----------------------------------------------------------------------------
(* Sequence numbers (internal/common.h).  The comparison subtracts signed   *)
(* integers: a build either wraps around or compares the integers as such.  *)

Plus(x, k) == (x + k) % W

AsSigned(x) == IF x < W \div 2 THEN x ELSE x - W

LSS_32_BIT(x, y) ==
  IF wraps THEN (x - y) % W >= W \div 2 ELSE AsSigned(x) < AsSigned(y)

LEQ_32_BIT(x, y) == x = y \/ LSS_32_BIT(x, y)

INSIDE_WND(l, s, r) == LEQ_32_BIT(l, s) /\ LSS_32_BIT(s, r)

-----------------------------------------------------------------------------
(* Packets (gnrc_tcp_pkt.c)                                                 *)

_pkt_get_seg_len(p) == Len(p.pay) + Cardinality(p.ctl \cap {"SYN", "FIN"})

_pkt_build(b, ctl, seq, ack, pay) ==
  [ctl |-> ctl, seq |-> seq, ack |-> ack, wnd |-> b.rcv_wnd, pay |-> pay]

\* the answer to a packet no TCB wants
_pkt_build_reset_from_pkt(p) ==
  IF "ACK" \in p.ctl
  THEN [ctl |-> {"RST"}, seq |-> p.ack, ack |-> 0, wnd |-> 0, pay |-> <<>>]
  ELSE [ctl |-> {"RST", "ACK"}, seq |-> 0,
        ack |-> Plus(p.seq, _pkt_get_seg_len(p)), wnd |-> 0, pay |-> <<>>]

\* a packet that could not be built is not sent and consumes no numbers
_pkt_send(r, p, con) ==
  IF r.mem
  THEN [r EXCEPT !.out = @ \cup {p}, !.b.snd_nxt = Plus(@, con)]
  ELSE [r EXCEPT !.fault = TRUE]

_pkt_setup_retransmit_Once(r, p, retransmit) ==
  IF \/ ~r.mem \/ r.b.pkt_retransmit # None
     \/ "RST" \in p.ctl
     \/ p.ctl \cap {"SYN", "FIN", "ACK"} = {"ACK"} /\ p.pay = <<>>
  THEN r
  ELSE [r EXCEPT !.b.pkt_retransmit = p, !.b.tim_tout = "RETRANSMISSION"]

\* one packet waits for its acknowledgement; a second one is not stored
_pkt_setup_retransmit(r, p, retransmit) ==
  IF \/ ~retransmit /\ (~r.mem \/ r.b.pkt_retransmit # None)
     \/ "RST" \in p.ctl
     \/ p.ctl \cap {"SYN", "FIN", "ACK"} = {"ACK"} /\ p.pay = <<>>
  THEN r
  ELSE [r EXCEPT !.b.pkt_retransmit = p, !.b.tim_tout = "RETRANSMISSION"]

_pkt_acknowledge(b, ack) ==
  IF b.pkt_retransmit = None THEN b
  ELSE LET p == b.pkt_retransmit
       IN  IF LSS_32_BIT(Plus(p.seq, _pkt_get_seg_len(p) - 1), ack)
           THEN [b EXCEPT !.pkt_retransmit = None, !.tim_tout = "off"]
           ELSE b

_pkt_chk_seq_num(b, seq, len) ==
  LET r_edge == Plus(b.rcv_nxt, b.rcv_wnd)
      Inside(s) == INSIDE_WND(b.rcv_nxt, s, r_edge)
  IN  IF b.rcv_wnd = 0
      THEN len = 0 /\ seq = b.rcv_nxt
      ELSE Inside(seq) \/ (len > 0 /\ Inside(Plus(seq, len - 1)))

\* the two ways a packet leaves the state machine: once, or until it is acked
SendOnce(r, ctl, seq, ack) ==
  _pkt_send(r, _pkt_build(r.b, ctl, seq, ack, <<>>), 0)

SendUntilAcked(r, ctl, seq, ack, pay) ==
  LET p == _pkt_build(r.b, ctl, seq, ack, pay)
  IN  _pkt_send(_pkt_setup_retransmit(r, p, FALSE), p, _pkt_get_seg_len(p))

SendAck(r) == SendOnce(r, {"ACK"}, r.b.snd_nxt, r.b.rcv_nxt)

-----------------------------------------------------------------------------
(* State transitions (gnrc_tcp_fsm.c)                                       *)

_clear_retransmit(b) ==
  IF b.pkt_retransmit = None THEN b
  ELSE [b EXCEPT !.pkt_retransmit = None, !.tim_tout = "off"]

\* an empty receive buffer, or ENOMEM with none left
_rcvbuf_get_buffer(r) ==
  IF r.b.rcv_buf_raw THEN r
  ELSE IF r.mem THEN [r EXCEPT !.b.rcv_buf_raw = TRUE, !.b.rcv_buf = <<>>]
  ELSE [r EXCEPT !.ret = ENOMEM, !.fault = TRUE]

_transition_to(r, st) ==
  CASE st = "CLOSED" ->
         [r EXCEPT !.b = [_clear_retransmit(@) EXCEPT !.listed = FALSE,
                                                      !.rcv_buf_raw = FALSE,
                                                      !.state = st],
                   !.note = TRUE]
    [] st \in {"LISTEN", "SYN_SENT"} ->
         LET unbound == IF st = "LISTEN" THEN [r EXCEPT !.b.peered = FALSE] ELSE r
             s == _rcvbuf_get_buffer(unbound)
         IN  IF s.ret = ENOMEM THEN s
             ELSE [s EXCEPT !.b.listed = TRUE, !.b.state = st]
    [] st \in {"ESTABLISHED", "CLOSE_WAIT"} ->
         [r EXCEPT !.b.state = st, !.note = TRUE]
    [] st = "TIME_WAIT" ->
         [r EXCEPT !.b.state = st, !.b.tim_tout = "TIMEWAIT"]
    [] OTHER -> [r EXCEPT !.b.state = st]

\* into LISTEN, or out of the connection when there is no receive buffer
Listen(r) ==
  LET s == _transition_to(r, "LISTEN")
  IN  IF s.ret = ENOMEM THEN _transition_to(s, "CLOSED") ELSE s

-----------------------------------------------------------------------------
(* Events of the user's calls                                               *)

_fsm_call_open(r, iss) ==
  LET s == [r EXCEPT !.b.rcv_wnd = GNRC_TCP_DEFAULT_WINDOW]
      a == _transition_to([s EXCEPT !.b.iss = iss, !.b.snd_nxt = iss,
                                    !.b.snd_una = iss], "SYN_SENT")
  IN  IF r.b.passive THEN Listen(s)
      ELSE IF a.ret = ENOMEM THEN _transition_to(a, "CLOSED")
      ELSE SendUntilAcked(a, {"SYN"}, iss, 0, <<>>)

\* data: the bytes the caller still has to send
_fsm_call_send(r, data) ==
  LET room == (r.b.snd_una + r.b.snd_wnd - r.b.snd_nxt) % W
      len  == Min({room, GNRC_TCP_MSS, Len(data)})
      s    == SendUntilAcked(r, {"ACK"}, r.b.snd_nxt, r.b.rcv_nxt,
                             SubSeq(data, 1, len))
  IN  IF room > 0 /\ r.b.snd_wnd > 0 /\ r.b.pkt_retransmit = None
      THEN [s EXCEPT !.ret = len]
      ELSE r

Free(b) == GNRC_TCP_DEFAULT_WINDOW - Len(b.rcv_buf)

\* reads up to len bytes; announces the window once a whole segment fits
_fsm_call_recv(r, len) ==
  LET k == Min({Len(r.b.rcv_buf), len})
      s == [r EXCEPT !.b.rcv_buf = SubSeq(@, k + 1, Len(@)), !.ret = k]
  IN  IF k > 0 /\ Free(s.b) >= GNRC_TCP_MSS
      THEN SendAck([s EXCEPT !.b.rcv_wnd = Free(s.b)])
      ELSE s

_fsm_call_close(r) ==
  LET s == IF r.b.state \in {"SYN_RCVD", "ESTABLISHED", "CLOSE_WAIT"}
           THEN SendUntilAcked(r, {"FIN", "ACK"}, r.b.snd_nxt, r.b.rcv_nxt, <<>>)
           ELSE r
  IN  CASE r.b.state = "LISTEN" -> _transition_to(s, "CLOSED")
        [] r.b.state \in {"SYN_RCVD", "ESTABLISHED"} -> _transition_to(s, "FIN_WAIT_1")
        [] r.b.state = "CLOSE_WAIT" -> _transition_to(s, "LAST_ACK")
        [] OTHER -> s

_fsm_call_abort(r) ==
  _transition_to(
    IF r.b.state \in {"SYN_RCVD", "ESTABLISHED", "FIN_WAIT_1", "FIN_WAIT_2",
                      "CLOSE_WAIT"}
    THEN SendOnce(r, {"RST"}, r.b.snd_nxt, r.b.rcv_nxt)
    ELSE r, "CLOSED")

_fsm_timeout_connection_StaysOpen(r) == [r EXCEPT !.b = _clear_retransmit(@)]

_fsm_timeout_connection(r) == _transition_to(r, "CLOSED")

_fsm_clear_retransmit(r) == [r EXCEPT !.b = _clear_retransmit(@)]

\* an acknowledged sequence number with one garbage byte
_fsm_send_probe(r) ==
  _pkt_send(r, _pkt_build(r.b, {"ACK"}, Plus(r.b.snd_una, -1), r.b.rcv_nxt, <<0>>), 0)

-----------------------------------------------------------------------------
(* Events of the event loop                                                 *)

_fsm_timeout_timewait(r) == _transition_to(r, "CLOSED")

_fsm_timeout_retransmit(r) ==
  IF r.b.pkt_retransmit = None THEN r
  ELSE LET s == _pkt_setup_retransmit(r, r.b.pkt_retransmit, TRUE)
       IN  [s EXCEPT !.out = @ \cup {r.b.pkt_retransmit}]

RcvdInListen(r, p, iss) ==
  CASE "RST" \in p.ctl -> r
    [] "ACK" \in p.ctl /\ "RST" \notin p.ctl ->
         _pkt_send(r, _pkt_build_reset_from_pkt(p), 0)
    [] p.ctl \cap {"RST", "ACK", "SYN"} = {"SYN"} ->
         LET s == [r EXCEPT !.b.peered = TRUE, !.b.irs = p.seq,
                            !.b.rcv_nxt = Plus(p.seq, 1), !.b.iss = iss,
                            !.b.snd_una = iss, !.b.snd_nxt = iss,
                            !.b.snd_wnd = p.wnd]
         IN  _transition_to(SendUntilAcked(s, {"SYN", "ACK"}, iss, s.b.rcv_nxt, <<>>),
                            "SYN_RCVD")
    [] OTHER -> r

\* the comparisons of the acknowledgement with iss and snd_nxt are plain ones
RcvdInSynSent(r, p) ==
  CASE "ACK" \in p.ctl /\ (p.ack <= r.b.iss \/ p.ack > r.b.snd_nxt) ->
         IF "RST" \in p.ctl THEN r ELSE SendOnce(r, {"RST"}, p.ack, 0)
    [] OTHER ->
         IF "RST" \in p.ctl
         THEN IF "ACK" \in p.ctl THEN _transition_to(r, "CLOSED") ELSE r
         ELSE IF "SYN" \notin p.ctl THEN r
         ELSE LET syn == [r EXCEPT !.b.rcv_nxt = Plus(p.seq, 1), !.b.irs = p.seq]
                  s == IF "ACK" \in p.ctl
                       THEN [syn EXCEPT !.b = _pkt_acknowledge([@ EXCEPT !.snd_una = p.ack],
                                                               p.ack)]
                       ELSE syn
                  t == IF s.b.snd_una > s.b.iss
                       THEN _transition_to(SendAck(s), "ESTABLISHED")
                       ELSE _transition_to(
                              SendUntilAcked(s, {"SYN", "ACK"}, s.b.iss, s.b.rcv_nxt, <<>>),
                              "SYN_RCVD")
              IN  [t EXCEPT !.b.snd_wnd = p.wnd, !.b.snd_wl1 = p.seq, !.b.snd_wl2 = p.ack]

\* step 4 of the other states; done: the handler returns here
ProcessAck(r, p) ==
  LET Covers(b) == LSS_32_BIT(b.snd_una, p.ack) /\ LEQ_32_BIT(p.ack, b.snd_nxt)
      Window(b) == [b EXCEPT !.snd_wnd = p.wnd, !.snd_wl1 = p.seq, !.snd_wl2 = p.ack]
      \* the third packet of the handshake
      s == CASE r.b.state # "SYN_RCVD" -> r
             [] r.b.state = "SYN_RCVD" /\ Covers(r.b) ->
                  _transition_to([r EXCEPT !.b = Window(@)], "ESTABLISHED")
             [] OTHER -> SendOnce(r, {"RST"}, p.ack, 0)
      a == IF Covers(s.b)
           THEN [s EXCEPT !.b = _pkt_acknowledge([@ EXCEPT !.snd_una = p.ack], p.ack)]
           ELSE s
      newer == /\ LEQ_32_BIT(a.b.snd_una, p.ack)
               /\ LEQ_32_BIT(p.ack, a.b.snd_nxt)
               /\ \/ LSS_32_BIT(a.b.snd_wl1, p.seq)
                  \/ a.b.snd_wl1 = p.seq /\ LEQ_32_BIT(a.b.snd_wl2, p.ack)
      w == IF newer THEN [a EXCEPT !.b = Window(@), !.note = TRUE] ELSE a
      acked == w.b.pkt_retransmit = None
  IN  CASE s.b.state \notin {"ESTABLISHED", "FIN_WAIT_1", "FIN_WAIT_2",
                             "CLOSE_WAIT", "CLOSING", "LAST_ACK"} -> s
        [] OTHER ->
             IF ~Covers(s.b) /\ LSS_32_BIT(s.b.snd_nxt, p.ack)
             THEN [SendAck(s) EXCEPT !.done = TRUE]
             ELSE CASE w.b.state = "FIN_WAIT_1" /\ acked -> _transition_to(w, "FIN_WAIT_2")
                    [] w.b.state = "CLOSING" /\ acked -> _transition_to(w, "TIME_WAIT")
                    [] w.b.state = "LAST_ACK" /\ acked ->
                         [_transition_to(w, "CLOSED") EXCEPT !.done = TRUE]
                    [] OTHER -> w

ProcessPayload_AnySeq(r, p) ==
  LET k == Min({Len(p.pay), Free(r.b)})
      full == [r.b EXCEPT !.rcv_buf = @ \o SubSeq(p.pay, 1, k),
                          !.rcv_nxt = Plus(@, k)]
      s == [r EXCEPT !.b = [full EXCEPT !.rcv_wnd = Free(full)], !.note = TRUE]
  IN  IF p.pay = <<>> \/ r.b.state \notin {"ESTABLISHED", "FIN_WAIT_1", "FIN_WAIT_2"}
      THEN r
      ELSE IF "FIN" \in p.ctl THEN s ELSE SendAck(s)

ProcessPayload_KeepsWindow(r, p) ==
  LET k == Min({Len(p.pay), Free(r.b)})
      s == IF r.b.rcv_nxt = p.seq
           THEN [r EXCEPT !.b.rcv_buf = @ \o SubSeq(p.pay, 1, k),
                          !.b.rcv_nxt = Plus(@, k), !.note = TRUE]
           ELSE r
  IN  IF p.pay = <<>> \/ r.b.state \notin {"ESTABLISHED", "FIN_WAIT_1", "FIN_WAIT_2"}
      THEN r
      ELSE IF "FIN" \in p.ctl THEN s ELSE SendAck(s)

\* step 6: only the next expected byte is taken, as far as the buffer goes
ProcessPayload(r, p) ==
  LET k == Min({Len(p.pay), Free(r.b)})
      full == [r.b EXCEPT !.rcv_buf = @ \o SubSeq(p.pay, 1, k),
                          !.rcv_nxt = Plus(@, k)]
      s == IF r.b.rcv_nxt = p.seq
           THEN [r EXCEPT !.b = [full EXCEPT !.rcv_wnd = Free(full)], !.note = TRUE]
           ELSE r
  IN  IF p.pay = <<>> \/ r.b.state \notin {"ESTABLISHED", "FIN_WAIT_1", "FIN_WAIT_2"}
      THEN r
      ELSE IF "FIN" \in p.ctl THEN s ELSE SendAck(s)

\* step 7
ProcessFin(r, p) ==
  LET s == SendAck([r EXCEPT !.b.rcv_nxt = Plus(p.seq, _pkt_get_seg_len(p))])
  IN  IF "FIN" \notin p.ctl \/ r.b.state \in {"CLOSED", "LISTEN", "SYN_SENT"} THEN r
      ELSE CASE s.b.state \in {"SYN_RCVD", "ESTABLISHED"} -> _transition_to(s, "CLOSE_WAIT")
             [] s.b.state = "FIN_WAIT_1" /\ s.b.pkt_retransmit # None ->
                  _transition_to(s, "CLOSING")
             [] \/ s.b.state \in {"FIN_WAIT_2", "TIME_WAIT"}
                \/ s.b.state = "FIN_WAIT_1" /\ s.b.pkt_retransmit = None ->
                  _transition_to(s, "TIME_WAIT")
             [] OTHER -> s

RcvdInOther(r, p) ==
  CASE ~_pkt_chk_seq_num(r.b, p.seq, Len(p.pay)) ->
         IF "RST" \in p.ctl THEN r ELSE SendAck(r)
    [] OTHER ->
         IF "RST" \in p.ctl
         THEN IF r.b.state = "SYN_RCVD" /\ r.b.passive
              THEN Listen(r)
              ELSE _transition_to(r, "CLOSED")
         ELSE IF "SYN" \in p.ctl
         THEN _transition_to(SendOnce(r, {"RST"}, r.b.snd_nxt, r.b.rcv_nxt), "CLOSED")
         ELSE IF "ACK" \notin p.ctl THEN r
         ELSE LET a == ProcessAck(r, p)
              IN  IF a.done THEN a ELSE ProcessFin(ProcessPayload(a, p), p)

_fsm_rcvd_pkt(r, p, iss) ==
  CASE r.b.state = "LISTEN" -> RcvdInListen(r, p, iss)
    [] r.b.state = "SYN_SENT" -> RcvdInSynSent(r, p)
    [] OTHER -> RcvdInOther(r, p)

-----------------------------------------------------------------------------
(* _fsm: one event under fsm_lock.  A fault may strike it: the memory runs  *)
(* out, or (a packet only) the network keeps a copy to deliver once more.   *)

Begin(n, mem) ==
  [b |-> tcb[n], out |-> {}, note |-> FALSE, ret |-> 0, done |-> FALSE,
   mem |-> mem, fault |-> FALSE]

\* whether there is memory during an event
Memory == IF faults > 0 THEN BOOLEAN ELSE {TRUE}

\* a message is lost when the mailbox is full
Put(box, m) == IF Len(box) < GNRC_TCP_TCB_MBOX_SIZE THEN Append(box, m) ELSE box

\* the outcome r of an event on node n, whose mailbox held `box' before it
Outcome(n, r, box) ==
  /\ tcb' = [tcb EXCEPT ![n] = r.b]
  /\ net' = [net EXCEPT ![Peer(n)] = @ \cup r.out]
  /\ mbox' = [mbox EXCEPT ![n] = IF r.note /\ r.b.wait THEN Put(box, "NOTIFY_USER")
                                 ELSE box]
  /\ faults' = IF r.fault THEN faults - 1 ELSE faults

_fsm(n, r) == Outcome(n, r, mbox[n])

\* the next initial sequence number; 0 stands for the end of the bound
random_uint32(n) == IF fresh[n] = <<>> THEN 0 ELSE Head(fresh[n])

history == <<stream, taken, got, confirmed, gaveup>>

-----------------------------------------------------------------------------
(* The calls of the user's thread (gnrc_tcp.c).  A step of a call goes on to *)
(* where the thread next waits: in mbox_get (pc is the name of the call) or, *)
(* in send, for fsm_lock after it has looked at the state (pc "send_fsm").   *)

Idle == [pc |-> "idle", ret |-> 0, probing |-> FALSE, len |-> 0,
         connection |-> FALSE, user |-> FALSE, probe |-> FALSE]

\* a call marks the TCB, flushes the mailbox and sets its timers
Enters(pc, len, connection, timeout) ==
  [Idle EXCEPT !.pc = pc, !.len = len, !.connection = connection, !.user = timeout]

Waiting(n, mem) == [Begin(n, mem) EXCEPT !.b.wait = TRUE]

Exits_Unacked(u, b) ==
  CASE u.pc = "open" -> u.ret < 0 \/ b.state \in {"CLOSED", "ESTABLISHED", "CLOSE_WAIT"}
    [] u.pc \in {"send", "recv"} -> u.ret # 0 \/ b.state = "CLOSED"
    [] u.pc = "close" -> b.state = "CLOSED"

\* the condition that ends a call's loop
Exits(u, b) ==
  CASE u.pc = "open" -> u.ret < 0 \/ b.state \in {"CLOSED", "ESTABLISHED", "CLOSE_WAIT"}
    [] u.pc = "send" -> (u.ret # 0 /\ b.pkt_retransmit = None) \/ b.state = "CLOSED"
    [] u.pc = "recv" -> u.ret # 0 \/ b.state = "CLOSED"
    [] u.pc = "close" -> b.state = "CLOSED"

\* send's loop: with the window closed it probes, otherwise it sends
Again(u, b) ==
  LET probing == u.probing \/ b.snd_wnd = 0
  IN  IF u.pc # "send" THEN u
      ELSE [u EXCEPT !.probing = probing,
                     !.probe = @ \/ b.snd_wnd = 0,
                     !.pc = IF u.ret = 0 /\ ~probing THEN "send_fsm" ELSE "send"]

\* call u goes on after event r, with `box' left in the mailbox
GoesOn(n, u, r, box) ==
  /\ user' = [user EXCEPT ![n] = IF Exits(u, r.b) THEN Idle ELSE Again(u, r.b)]
  /\ Outcome(n, [r EXCEPT !.b.wait = ~Exits(u, r.b)], box)

Opens(n, u, r) == GoesOn(n, [u EXCEPT !.ret = r.ret], r, <<>>)

Loop(n, u, r, box) ==
  LET reset == r.b.state = "CLOSED" /\ r.b.pkt_retransmit # None
      sent  == u.pc = "send" /\ Exits(u, r.b) /\ u.ret > 0 /\ ~reset
  IN  /\ GoesOn(n, u, r, box)
      /\ confirmed' = [confirmed EXCEPT ![n] = IF sent THEN stream[n] ELSE @]

\* the application's next call
Called(n, name) ==
  /\ user[n].pc = "idle"
  /\ calls[n] # <<>>
  /\ Head(calls[n]).name = name
  /\ calls' = [calls EXCEPT ![n] = Tail(@)]

\* a call in a state that does not allow it returns an error at once, close
\* and abort of a closed connection return as well
Allowed(name, st) ==
  CASE name = "open" -> st = "CLOSED"
    [] name = "send" -> st \in {"ESTABLISHED", "CLOSE_WAIT"}
    [] name \in {"recv", "recv_now"} ->
         st \in {"ESTABLISHED", "FIN_WAIT_1", "FIN_WAIT_2", "CLOSE_WAIT"}
    [] name \in {"close", "abort"} -> st # "CLOSED"

ReturnsAtOnce(n) ==
  /\ \E name \in CallNames : Called(n, name) /\ ~Allowed(name, tcb[n].state)
  /\ UNCHANGED <<rx, tcb, mbox, user, evq, net, fresh, faults, expiries, history>>

\* the connection's own bytes are counted from its initial sequence number on
NewConnection(n) ==
  /\ stream' = [stream EXCEPT ![n] = 0]
  /\ taken' = [taken EXCEPT ![n] = 0]
  /\ got' = [got EXCEPT ![n] = <<>>]
  /\ confirmed' = [confirmed EXCEPT ![n] = 0]
  /\ gaveup' = [gaveup EXCEPT ![n] = FALSE]

gnrc_tcp_open_active(n) ==
  /\ n = Client /\ Called(n, "open") /\ Allowed("open", tcb[n].state)
  /\ fresh[n] # <<>> /\ fresh' = [fresh EXCEPT ![n] = Tail(@)]
  /\ \E mem \in Memory :
       LET r == _fsm_call_open([Waiting(n, mem) EXCEPT !.b.peered = TRUE],
                               random_uint32(n))
       IN  Opens(n, Enters("open", 0, TRUE, FALSE), r)
  /\ NewConnection(n)
  /\ UNCHANGED <<rx, evq, expiries>>

gnrc_tcp_open_passive(n) ==
  /\ n = Server /\ Called(n, "open") /\ Allowed("open", tcb[n].state)
  /\ \E mem \in Memory :
       LET r == _fsm_call_open([Waiting(n, mem) EXCEPT !.b.passive = TRUE], 0)
       IN  Opens(n, Enters("open", 0, FALSE, FALSE), r)
  /\ UNCHANGED <<rx, evq, fresh, expiries, history>>

gnrc_tcp_send(n) ==
  /\ Called(n, "send") /\ Allowed("send", tcb[n].state)
  /\ LET c == Head(calls[n])
     IN  Loop(n, Enters("send", c.len, TRUE, c.timeout), Waiting(n, TRUE), <<>>)
  /\ UNCHANGED <<rx, evq, fresh, expiries, stream, got, gaveup, taken>>

SendFsm(n) ==
  /\ user[n].pc = "send_fsm"
  /\ \E mem \in Memory :
       LET data == [i \in 1..user[n].len |-> stream[n] + i]
           r == _fsm_call_send(Begin(n, mem), data)
       IN  /\ _fsm(n, r)
           /\ user' = [user EXCEPT ![n].pc = "send", ![n].ret = r.ret]
           /\ stream' = [stream EXCEPT ![n] = IF r.mem THEN @ + r.ret ELSE @]
  /\ UNCHANGED <<rx, evq, fresh, calls, expiries, got, confirmed, gaveup, taken>>

Takes(n, k) == got' = [got EXCEPT ![n] = @ \o SubSeq(tcb[n].rcv_buf, 1, k)]

\* one turn of recv's loop: read what there is
Recv(n, u, mem, box) ==
  LET r == _fsm_call_recv(Waiting(n, mem), u.len)
  IN  /\ Loop(n, [u EXCEPT !.ret = r.ret], r, box)
      /\ Takes(n, r.ret)

gnrc_tcp_recv(n) ==
  /\ Called(n, "recv") /\ Allowed("recv", tcb[n].state)
  /\ \E mem \in Memory :
       Recv(n, Enters("recv", Head(calls[n]).len, TRUE, TRUE), mem, <<>>)
  /\ UNCHANGED <<rx, evq, fresh, expiries, stream, gaveup, taken>>

\* the same call with no timeout: one attempt
gnrc_tcp_recv_now(n) ==
  /\ Called(n, "recv_now") /\ Allowed("recv_now", tcb[n].state)
  /\ \E mem \in Memory :
       LET r == _fsm_call_recv(Begin(n, mem), Head(calls[n]).len)
       IN  _fsm(n, r) /\ Takes(n, r.ret)
  /\ UNCHANGED <<rx, user, evq, fresh, expiries, stream, confirmed, gaveup, taken>>

gnrc_tcp_close(n) ==
  /\ Called(n, "close") /\ Allowed("close", tcb[n].state)
  /\ \E mem \in Memory :
       Loop(n, Enters("close", 0, TRUE, FALSE), _fsm_call_close(Waiting(n, mem)), <<>>)
  /\ UNCHANGED <<rx, evq, fresh, expiries, stream, got, gaveup, taken>>

gnrc_tcp_abort(n) ==
  /\ Called(n, "abort") /\ Allowed("abort", tcb[n].state)
  /\ \E mem \in Memory : _fsm(n, _fsm_call_abort(Begin(n, mem)))
  /\ UNCHANGED <<rx, user, evq, fresh, expiries, history>>

-----------------------------------------------------------------------------
(* The user's thread takes a message from the mailbox (mbox_get)            *)

Get(n, m) ==
  /\ user[n].pc \in {"open", "send", "recv", "close"}
  /\ mbox[n] # <<>>
  /\ Head(mbox[n]) = m
  /\ UNCHANGED <<rx, evq, fresh, calls, expiries, stream, taken>>

GetConnectionTimeout(n) ==
  /\ Get(n, "CONNECTION_TIMEOUT")
  /\ Loop(n, [user[n] EXCEPT !.ret = CASE user[n].pc = "open" -> ETIMEDOUT
                                       [] user[n].pc = "close" -> 0
                                       [] OTHER -> ECONNABORTED],
          _fsm_timeout_connection(Begin(n, TRUE)), Tail(mbox[n]))
  /\ UNCHANGED <<got, gaveup>>

GetUserTimeout(n) ==
  /\ Get(n, "USER_SPEC_TIMEOUT")
  /\ Loop(n, [user[n] EXCEPT !.ret = ETIMEDOUT],
          _fsm_clear_retransmit(Begin(n, TRUE)), Tail(mbox[n]))
  /\ gaveup' = [gaveup EXCEPT ![n] = @ \/ tcb[n].pkt_retransmit # None]
  /\ UNCHANGED got

GetProbeTimeout(n) ==
  /\ Get(n, "PROBE_TIMEOUT")
  /\ \E mem \in Memory :
       Loop(n, user[n], _fsm_send_probe(Begin(n, mem)), Tail(mbox[n]))
  /\ UNCHANGED <<got, gaveup>>

\* a living connection: send restarts its timeout and, with the window open
\* again, stops probing; recv reads again
GetNotify(n) ==
  /\ Get(n, "NOTIFY_USER")
  /\ LET u == user[n]
         stop == u.probing /\ tcb[n].snd_wnd > 0
         alive == IF u.pc # "send" THEN u
                  ELSE [u EXCEPT !.connection = TRUE, !.probing = @ /\ ~stop,
                                 !.probe = @ /\ ~stop]
     IN  IF u.pc = "recv" /\ tcb[n].state # "CLOSED"
         THEN \E mem \in Memory : Recv(n, u, mem, Tail(mbox[n]))
         ELSE Loop(n, alive, Begin(n, TRUE), Tail(mbox[n])) /\ UNCHANGED got
  /\ UNCHANGED gaveup

-----------------------------------------------------------------------------
(* Timers.  Those of a call put a message into the mailbox, the TCB's own   *)
(* sends one to the event loop.                                             *)

Expiry == expiries > 0 /\ expiries' = expiries - 1

_cb_mbox_put_msg(n, timer, m) ==
  /\ user[n][timer] /\ Expiry
  /\ user' = [user EXCEPT ![n][timer] = FALSE]
  /\ mbox' = [mbox EXCEPT ![n] = Put(@, m)]
  /\ UNCHANGED <<rx, tcb, evq, net, fresh, faults, calls, history>>

ConnectionExpires(n) == _cb_mbox_put_msg(n, "connection", "CONNECTION_TIMEOUT")
UserExpires(n) == _cb_mbox_put_msg(n, "user", "USER_SPEC_TIMEOUT")
ProbeExpires(n) == _cb_mbox_put_msg(n, "probe", "PROBE_TIMEOUT")

ToutExpires(n) ==
  /\ tcb[n].tim_tout # "off" /\ Expiry
  /\ evq' = [evq EXCEPT ![n] = Append(@, tcb[n].tim_tout)]
  /\ tcb' = [tcb EXCEPT ![n].tim_tout = "off"]
  /\ UNCHANGED <<rx, mbox, user, net, fresh, faults, calls, history>>

-----------------------------------------------------------------------------
(* The event loop (gnrc_tcp_eventloop.c)                                    *)

\* a SYN goes to a listening TCB, any other packet to the connection it names
Fits(n, p) ==
  /\ tcb[n].listed
  /\ IF p.ctl \cap {"SYN", "ACK"} = {"SYN"} THEN tcb[n].state = "LISTEN"
     ELSE tcb[n].peered

\* a packet no TCB wants is answered with a reset, unless it is one
Refused(r, p) == IF "RST" \in p.ctl THEN r ELSE _pkt_send(r, _pkt_build_reset_from_pkt(p), 0)

\* _receive looks the packet's TCB up under _list_tcb_lock ...
_receive(n) ==
  /\ rx[n] = None
  /\ \E p \in net[n], twice \in IF faults > 0 THEN BOOLEAN ELSE {FALSE} :
       /\ rx' = [rx EXCEPT ![n] = [pkt |-> p, fits |-> Fits(n, p)]]
       /\ net' = [net EXCEPT ![n] = IF twice THEN @ ELSE @ \ {p}]
       /\ faults' = IF twice THEN faults - 1 ELSE faults
  /\ UNCHANGED <<tcb, mbox, user, evq, fresh, calls, expiries, history>>

\* ... and then waits for fsm_lock: the TCB may be another one by then
ReceiveFsm(n) ==
  /\ rx[n] # None
  /\ rx' = [rx EXCEPT ![n] = None]
  /\ LET p == rx[n].pkt
         accepts == /\ rx[n].fits /\ tcb[n].state = "LISTEN"
                    /\ p.ctl \cap {"RST", "ACK", "SYN"} = {"SYN"}
     IN  /\ accepts => fresh[n] # <<>>
         /\ \E mem \in Memory :
              LET r == IF rx[n].fits
                       THEN _fsm_rcvd_pkt(Begin(n, mem), p, random_uint32(n))
                       ELSE Refused(Begin(n, mem), p)
              IN  /\ _fsm(n, r)
                  /\ IF accepts
                     THEN fresh' = [fresh EXCEPT ![n] = Tail(@)] /\ NewConnection(n)
                     ELSE /\ taken' = [taken EXCEPT ![n] = @ + Len(r.b.rcv_buf)
                                                             - Len(tcb[n].rcv_buf)]
                          /\ UNCHANGED <<fresh, stream, got, confirmed, gaveup>>
  /\ UNCHANGED <<user, evq, calls, expiries>>

EventTimeout(n) ==
  /\ rx[n] = None /\ evq[n] # <<>>
  /\ evq' = [evq EXCEPT ![n] = Tail(@)]
  /\ LET r == Begin(n, TRUE)
     IN  _fsm(n, IF Head(evq[n]) = "TIMEWAIT" THEN _fsm_timeout_timewait(r)
                 ELSE _fsm_timeout_retransmit(r))
  /\ UNCHANGED <<rx, user, fresh, calls, expiries, history>>

\* external: the network
Lose(n) ==
  /\ faults > 0
  /\ \E p \in net[n] : net' = [net EXCEPT ![n] = @ \ {p}]
  /\ faults' = faults - 1
  /\ UNCHANGED <<rx, tcb, mbox, user, evq, fresh, calls, expiries, history>>

-----------------------------------------------------------------------------
gnrc_tcp_tcb_init ==
  [state |-> "CLOSED", passive |-> FALSE, wait |-> FALSE, peered |-> FALSE,
   listed |-> FALSE, iss |-> 0, irs |-> 0, snd_una |-> 0, snd_nxt |-> 0,
   snd_wnd |-> 0, snd_wl1 |-> 0, snd_wl2 |-> 0, rcv_nxt |-> 0, rcv_wnd |-> 0,
   rcv_buf_raw |-> FALSE, rcv_buf |-> <<>>, pkt_retransmit |-> None,
   tim_tout |-> "off"]

TcpInit ==
  /\ tcb = [n \in Nodes |-> gnrc_tcp_tcb_init]
  /\ mbox = [n \in Nodes |-> <<>>]
  /\ user = [n \in Nodes |-> Idle]
  /\ evq = [n \in Nodes |-> <<>>]
  /\ rx = [n \in Nodes |-> None]
  /\ net = [n \in Nodes |-> {}]
  /\ wraps \in BOOLEAN
  /\ fresh \in Iss
  /\ \E sc \in Scenarios : /\ calls = sc.calls
                          /\ faults = sc.faults
                          /\ expiries = sc.expiries
  /\ stream = [n \in Nodes |-> 0]
  /\ taken = [n \in Nodes |-> 0]
  /\ got = [n \in Nodes |-> <<>>]
  /\ confirmed = [n \in Nodes |-> 0]
  /\ gaveup = [n \in Nodes |-> FALSE]

CallStep(n) ==
  \/ gnrc_tcp_open_active(n) \/ gnrc_tcp_open_passive(n)
  \/ gnrc_tcp_send(n)
  \/ gnrc_tcp_recv(n) \/ gnrc_tcp_recv_now(n)
  \/ gnrc_tcp_close(n)
  \/ gnrc_tcp_abort(n)
  \/ ReturnsAtOnce(n)

UserStep(n) ==
  \/ SendFsm(n)
  \/ GetConnectionTimeout(n) \/ GetUserTimeout(n)
  \/ GetProbeTimeout(n) \/ GetNotify(n)

EventStep(n) == _receive(n) \/ ReceiveFsm(n) \/ EventTimeout(n)

TimerStep(n) ==
  \/ ConnectionExpires(n) \/ UserExpires(n) \/ ProbeExpires(n)
  \/ ToutExpires(n)

TcpNext ==
  /\ \E n \in Nodes :
       CallStep(n) \/ UserStep(n) \/ EventStep(n) \/ TimerStep(n) \/ Lose(n)
  /\ UNCHANGED wraps

TcpSpec == TcpInit /\ [][TcpNext]_tcpVars

-----------------------------------------------------------------------------
\* Every variable has its type: sequence numbers stay in the 32 bit space, a
\* window never exceeds the receive buffer, the buffer never overflows.
TcpTypeOK ==
  LET Seq0 == 0..W-1
      Msgs == {"NOTIFY_USER", "CONNECTION_TIMEOUT", "USER_SPEC_TIMEOUT", "PROBE_TIMEOUT"}
      IsPacket(p) == /\ p.ctl \subseteq {"SYN", "ACK", "FIN", "RST"}
                     /\ {p.seq, p.ack} \subseteq Seq0
                     /\ p.wnd \in 0..GNRC_TCP_DEFAULT_WINDOW
                     /\ Len(p.pay) <= GNRC_TCP_MSS
  IN  \A n \in Nodes :
        LET b == tcb[n]
        IN  /\ b.state \in States
            /\ {b.iss, b.irs, b.snd_una, b.snd_nxt, b.snd_wl1, b.snd_wl2, b.rcv_nxt} \subseteq Seq0
            /\ {b.snd_wnd, b.rcv_wnd, Len(b.rcv_buf)} \subseteq 0..GNRC_TCP_DEFAULT_WINDOW
            /\ b.pkt_retransmit = None \/ IsPacket(b.pkt_retransmit)
            /\ b.tim_tout \in {"off", "RETRANSMISSION", "TIMEWAIT"}
            /\ {b.passive, b.wait, b.peered, b.listed, b.rcv_buf_raw} \subseteq BOOLEAN
            /\ \A i \in 1..Len(mbox[n]) : mbox[n][i] \in Msgs
            /\ Len(mbox[n]) <= GNRC_TCP_TCB_MBOX_SIZE
            /\ user[n].pc \in {"idle", "open", "send", "send_fsm", "recv", "close"}
            /\ \A p \in net[n] : IsPacket(p)
            /\ rx[n] = None \/ IsPacket(rx[n].pkt)
            /\ {faults, expiries, stream[n], taken[n], confirmed[n]} \subseteq Nat

\* the two ends belong to the same connection: each knows the other's
\* initial sequence number
Connected ==
  /\ tcb[Client].irs = tcb[Server].iss /\ tcb[Server].iss # 0
  /\ tcb[Server].irs = tcb[Client].iss /\ tcb[Client].iss # 0

\* The bytes an application reads are the bytes the other one sent, in order,
\* none missing, none twice, however packets are lost, repeated, reordered or
\* retransmitted (_fsm_rcvd_pkt takes a payload only at rcv_nxt).
StreamInOrder ==
  \A n \in Nodes :
    LET bytes == got[n] \o (IF tcb[n].rcv_buf_raw THEN tcb[n].rcv_buf ELSE <<>>)
    IN  /\ \A i \in 1..Len(bytes) : bytes[i] = i
        /\ Connected => taken[n] <= stream[Peer(n)]

\* A send that reports a number of bytes on a connection that has not been
\* closed has had them taken by the other side's TCP (gnrc_tcp_send waits until
\* the segment has left pkt_retransmit, which only its acknowledgement does).
\* A side that has seen the other's FIN holds everything the other's calls
\* gave to the connection, unless one of them timed out: FIN moves rcv_nxt
\* past whatever is missing, so nothing may be missing then.
SentIsTaken ==
  \A n \in Nodes : Connected =>
    /\ tcb[n].state # "CLOSED" => confirmed[n] <= taken[Peer(n)]
    /\ /\ tcb[n].state \in {"CLOSE_WAIT", "LAST_ACK", "CLOSING", "TIME_WAIT"}
       /\ ~gaveup[Peer(n)]
       => taken[n] = stream[Peer(n)]

\* A packet that waits for its acknowledgement has its timer running or the
\* timer's message in the event loop's queue, and the timer never runs for
\* nothing: tim_tout is shared with TIME_WAIT and set in many places.  (With
\* TcpTypeOK.)
RetransmitIsArmed ==
  /\ TcpTypeOK
  /\ \A n \in Nodes :
    /\ tcb[n].tim_tout = "RETRANSMISSION" => tcb[n].pkt_retransmit # None
    /\ tcb[n].pkt_retransmit # None =>
         \/ tcb[n].tim_tout = "RETRANSMISSION"
         \/ \E i \in 1..Len(evq[n]) : evq[n][i] = "RETRANSMISSION"

\* An acceptable segment that is next in order fits into the receive buffer
\* as a whole: a part of it could never be completed, because its
\* retransmission starts below rcv_nxt and is not taken.
NoOverrun ==
  \A n \in Nodes : \A p \in net[n] :
    /\ Connected
    /\ tcb[n].state \in {"ESTABLISHED", "FIN_WAIT_1", "FIN_WAIT_2"}
    /\ p.seq = tcb[n].rcv_nxt
    /\ _pkt_chk_seq_num(tcb[n], p.seq, Len(p.pay))
    => Len(p.pay) <= Free(tcb[n])

\* A call that waits on its mailbox is bound to be woken: its connection
\* timeout is set or a message is already there.  Only a passive open may wait
\* for ever.
WaitEnds ==
  \A n \in Nodes :
    user[n].pc \in {"send", "recv", "close"} \/ (user[n].pc = "open" /\ n = Client)
    => user[n].connection \/ mbox[n] # <<>>
=============================================================================
