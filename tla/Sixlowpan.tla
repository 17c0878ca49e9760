------------------------------ MODULE Sixlowpan ------------------------------
(***************************************************************************)
(* 6LoWPAN fragmentation, sys/net/gnrc/network_layer/sixlowpan: nodes that *)
(* send datagrams in fragments (gnrc_sixlowpan.c, gnrc_sixlowpan_frag.c)   *)
(* and one that reassembles them (rbuf.c).                                 *)
(*                                                                         *)
(* A sending node's 6LoWPAN thread takes messages from its queue: a        *)
(* datagram, or "go on" with the one datagram being fragmented, which it   *)
(* sends to itself after every fragment.  The network delivers fragments   *)
(* in any order or never.  Handling a message or a fragment is one step.   *)
(*                                                                         *)
(* Positions count bytes of the uncompressed datagram.  diff is what       *)
(* header compression saves (-1 for an uncompressed one: its dispatch).    *)
(* Fragment lengths stay below 256, so _floor8()'s mask of eight bits is   *)
(* not seen.                                                               *)
(***************************************************************************)
EXTENDS Integers, Sequences, FiniteSets

LOCAL INSTANCE SequencesExt
LOCAL INSTANCE FiniteSetsExt

CONSTANTS
    Senders,
    Datagrams,          \* the datagrams: their src, size and diff
    Traffic,            \* dgrams sent, and the bound on mishaps: failed allocations,
                        \* timeouts, restarts of sending nodes
    Unit,               \* offsets are multiples of it (8)
    Frag1Hdr, FragNHdr, \* sizes of the fragment headers (4 and 5)
    max_frag_size,      \* payload of a frame
    SIXLOWPAN_FRAG_MAX_LEN,
    GNRC_SIXLOWPAN_MSG_QUEUE_SIZE,
    RBUF_SIZE, RBUF_INT_SIZE,
    Repeats,            \* a fragment may arrive that repeats one the entry has
    FRAG_SND,           \* GNRC_SIXLOWPAN_MSG_FRAG_SND
    NoEntry

ASSUME SixlowpanAssumption ==
    /\ {Unit, Frag1Hdr, FragNHdr, max_frag_size, GNRC_SIXLOWPAN_MSG_QUEUE_SIZE,
        RBUF_SIZE, RBUF_INT_SIZE} \subseteq Nat \ {0}
    /\ max_frag_size >= Unit + FragNHdr
    /\ \A d \in Datagrams : d.src \in Senders /\ d.size \in Nat \ {0} /\ d.diff < d.size
    /\ \A c \in Traffic : c.dgrams \subseteq Datagrams /\ c.mishaps \in Nat
    /\ Repeats \in BOOLEAN

VARIABLES
    todo,       \* datagrams not yet handed to their node's 6LoWPAN thread
    queue,      \* messages for a node's 6LoWPAN thread
    current,    \* the message it works on
    fragment_msg,   \* the datagram being fragmented, and how far
    _tag,
    air,        \* fragments under way
    rbuf,       \* reassembly buffer: entry or NoEntry, by slot
    order,      \* slots by `arrival', oldest first
    dispatched, \* the datagram the last step handed to IPv6
    stuck,      \* history: nodes whose message to themselves was refused
    mishaps,    \* mishaps that may still strike
    restarted   \* history: nodes that restarted

sixlowpanVars == <<todo, queue, current, fragment_msg, _tag, air, rbuf, order,
                   dispatched, stuck, mishaps, restarted>>

SixlowpanInit ==
    /\ \E c \in Traffic : todo = c.dgrams /\ mishaps = c.mishaps
    /\ queue = [s \in Senders |-> <<>>]
    /\ current = [s \in Senders |-> NoEntry]
    /\ fragment_msg = [s \in Senders |-> NoEntry]
    /\ _tag = [s \in Senders |-> 0]
    /\ air = {}
    /\ rbuf = [i \in 1 .. RBUF_SIZE |-> NoEntry]
    /\ order = [i \in 1 .. RBUF_SIZE |-> i]
    /\ dispatched = {} /\ stuck = {}
    /\ restarted = {}

-----------------------------------------------------------------------------
(* The sending nodes. *)
_floor8(n) == (n \div Unit) * Unit

Least(m, n) == Min({m, n})

payload_len(d) == d.size - d.diff

(* A datagram arrives at its node's thread, or finds the queue full. *)
Submit(d) ==
    /\ d \in todo
    /\ todo' = todo \ {d}
    /\ queue' = IF Len(queue[d.src]) < GNRC_SIXLOWPAN_MSG_QUEUE_SIZE
                THEN [queue EXCEPT ![d.src] = Append(@, d)] ELSE queue
    /\ dispatched' = {}
    /\ UNCHANGED <<current, fragment_msg, _tag, air, rbuf, order, stuck, mishaps, restarted>>

msg_receive(s) ==
    /\ current[s] = NoEntry /\ queue[s] # <<>>
    /\ current' = [current EXCEPT ![s] = Head(queue[s])]
    /\ queue' = [queue EXCEPT ![s] = Tail(@)]
    /\ dispatched' = {}
    /\ UNCHANGED <<todo, fragment_msg, _tag, air, rbuf, order, stuck, mishaps, restarted>>

(* Something goes wrong, or not. *)
Mishap(strikes) ==
    /\ strikes => mishaps > 0
    /\ mishaps' = IF strikes THEN mishaps - 1 ELSE mishaps

(* msg_send_to_self(), whose result is not looked at. *)
GoOn(s) ==
    LET full == Len(queue[s]) = GNRC_SIXLOWPAN_MSG_QUEUE_SIZE
    IN  /\ queue' = IF full THEN queue ELSE [queue EXCEPT ![s] = Append(@, FRAG_SND)]
        /\ stuck' = IF full THEN stuck \cup {s} ELSE stuck

(* One datagram at a time; others are dropped meanwhile. *)
_send(s, mem) ==
    LET d == current[s]
    IN  /\ d \notin {NoEntry, FRAG_SND}
        /\ current' = [current EXCEPT ![s] = NoEntry]
        /\ Mishap(~mem)
        /\ IF /\ mem
              /\ payload_len(d) > max_frag_size
              /\ fragment_msg[s] = NoEntry
              /\ d.size <= SIXLOWPAN_FRAG_MAX_LEN
           THEN /\ fragment_msg' = [fragment_msg EXCEPT ![s] = [dgram |-> d, offset |-> 0]]
                /\ GoOn(s)
           ELSE UNCHANGED <<fragment_msg, queue, stuck>>
        /\ dispatched' = {}
        /\ UNCHANGED <<todo, _tag, air, rbuf, order, restarted>>

(* The fragment of d that starts at payload byte `offset', of n bytes. *)
Fragment(d, tag, offset, n) ==
    [src |-> d.src, size |-> d.size, tag |-> tag, dgram |-> d,
     start |-> IF offset = 0 THEN 0 ELSE _floor8(offset + d.diff),
     len |-> IF offset = 0 THEN n + d.diff ELSE n]

(* How much _send_1st_fragment() or _send_nth_fragment() takes.  The first *)
(* ends where the uncompressed datagram has a multiple of Unit.            *)
FragLen_Compressed(d, offset) ==
    IF offset = 0 THEN Least(_floor8(max_frag_size - Frag1Hdr), payload_len(d))
    ELSE Least(_floor8(max_frag_size - FragNHdr), payload_len(d) - offset)

FragLen(d, offset) ==
    IF offset = 0
    THEN Least(_floor8(max_frag_size + d.diff - Frag1Hdr) - d.diff, payload_len(d))
    ELSE Least(_floor8(max_frag_size - FragNHdr), payload_len(d) - offset)

gnrc_sixlowpan_frag_send(s, mem) ==
    LET d == fragment_msg[s].dgram
        offset == fragment_msg[s].offset
        tag == IF offset = 0 THEN _tag[s] + 1 ELSE _tag[s]
    IN  /\ current[s] = FRAG_SND
        /\ current' = [current EXCEPT ![s] = NoEntry]
        /\ Mishap(~mem)
        /\ _tag' = [_tag EXCEPT ![s] = tag]
        /\ IF offset < payload_len(d) /\ mem
           THEN /\ air' = air \cup {Fragment(d, tag, offset, FragLen(d, offset))}
                /\ fragment_msg' = [fragment_msg EXCEPT ![s].offset = @ + FragLen(d, offset)]
                /\ GoOn(s)
           ELSE /\ fragment_msg' = [fragment_msg EXCEPT ![s] = NoEntry]
                /\ UNCHANGED <<air, queue, stuck>>
        /\ dispatched' = {}
        /\ UNCHANGED <<todo, rbuf, order, restarted>>

(* A sending node loses everything it had in memory, its tag included. *)
Restart(s) ==
    /\ Mishap(TRUE)
    /\ restarted' = restarted \cup {s}
    /\ queue' = [queue EXCEPT ![s] = <<>>]
    /\ current' = [current EXCEPT ![s] = NoEntry]
    /\ fragment_msg' = [fragment_msg EXCEPT ![s] = NoEntry]
    /\ _tag' = [_tag EXCEPT ![s] = 0]
    /\ stuck' = stuck \ {s}
    /\ dispatched' = {}
    /\ UNCHANGED <<todo, air, rbuf, order>>

-----------------------------------------------------------------------------
(* The receiving node.  Its functions work on b, the reassembly buffer:    *)
(* b.slots, b.order and b.out, the datagrams dispatched.                   *)
Slots == 1 .. RBUF_SIZE

_rbuf_rem(b, i) == [b EXCEPT !.slots[i] = NoEntry]

(* Entries time out, the ones least recently used first. *)
_rbuf_gc(b, n) ==
    [b EXCEPT !.slots = [i \in Slots |->
        IF \E k \in 1 .. n : b.order[k] = i THEN NoEntry ELSE b.slots[i]]]

Matches(e, f) == e # NoEntry /\ e.src = f.src /\ e.size = f.size /\ e.tag = f.tag

Touched(o, i) == LET Other(j) == j # i IN Append(SelectSeq(o, Other), i)

Entry(f) ==
    [src |-> f.src, size |-> f.size, tag |-> f.tag, cur_size |-> 0, ints |-> <<>>,
     bytes |-> [p \in 0 .. (f.size - 1) |-> NoEntry]]

(* The slot of f's entry; a new one takes a free slot or the oldest.       *)
_rbuf_slot(b, f) ==
    LET found == {i \in Slots : Matches(b.slots[i], f)}
        free == {i \in Slots : b.slots[i] = NoEntry}
    IN  IF found # {} THEN Min(found) ELSE IF free # {} THEN Min(free) ELSE Head(b.order)

_rbuf_get(b, f, mem) ==
    LET i == _rbuf_slot(b, f)
    IN  IF Matches(b.slots[i], f) THEN [b EXCEPT !.order = Touched(@, i)]
        ELSE IF mem THEN [b EXCEPT !.slots[i] = Entry(f), !.order = Touched(@, i)]
        ELSE _rbuf_rem(b, i)

IntEnd(f) == f.start + f.len - 1

Ints(b) ==
    UNION {{<<i, k>> : k \in DOMAIN b.slots[i].ints} : i \in {j \in Slots : b.slots[j] # NoEntry}}

_rbuf_int_overlap_partially_Never(i, f) == FALSE

_rbuf_int_overlap_partially(i, f) ==
    /\ i[1] <= IntEnd(f) /\ f.start <= i[2]
    /\ i # <<f.start, IntEnd(f)>>

_rbuf_update_ints_Unchecked(b, i, f) ==
    [b EXCEPT !.slots[i] = [@ EXCEPT !.ints = <<<<f.start, IntEnd(f)>>>> \o @,
                                     !.cur_size = @ + f.len]]

(* _rbuf_update_ints() and the copy; nothing without a free interval. *)
_rbuf_update_ints(b, i, f) ==
    IF Cardinality(Ints(b)) = RBUF_INT_SIZE THEN b
    ELSE [b EXCEPT !.slots[i] =
            [@ EXCEPT !.ints = <<<<f.start, IntEnd(f)>>>> \o @,
                      !.cur_size = @ + f.len,
                      !.bytes = [p \in DOMAIN @ |->
                                    IF p \in f.start .. IntEnd(f) THEN f.dgram ELSE @[p]]]]

(* The end of rbuf_add(): what is complete leaves the buffer. *)
Dispatched(b, i, mem) ==
    IF b.slots[i].cur_size # b.slots[i].size THEN b
    ELSE [_rbuf_rem(b, i) EXCEPT !.out =
            IF mem THEN {[src |-> b.slots[i].src, bytes |-> b.slots[i].bytes]} ELSE {}]

(* rbuf_add().  fails: which of the allocations (1: the entry, 3: the      *)
(* fresh entry, 4: the header of what is dispatched), or the decoding of   *)
(* a compressed header (2), fails; 0 if none.                              *)
rbuf_add(b, f, fails) ==
    LET got == _rbuf_get(b, f, fails # 1)
        i == _rbuf_slot(got, f)
        overlaps == \E k \in DOMAIN got.slots[i].ints :
                        _rbuf_int_overlap_partially(got.slots[i].ints[k], f)
        fresh == _rbuf_get(_rbuf_rem(got, i), f, fails # 3)
        j == _rbuf_slot(fresh, f)
    IN  IF ~Matches(got.slots[i], f) THEN got
        ELSE IF \/ f.start = 0 /\ f.dgram.diff > 0 /\ fails = 2
                \/ f.start + f.len > f.size
        THEN _rbuf_rem(got, i)
        ELSE IF ~overlaps THEN Dispatched(_rbuf_update_ints(got, i, f), i, fails # 4)
        ELSE IF ~Matches(fresh.slots[j], f) THEN fresh
        ELSE Dispatched(_rbuf_update_ints(fresh, j, f), j, fails # 4)

Repeated(b, f) ==
    \E i \in Slots : /\ Matches(b.slots[i], f)
                     /\ \E k \in DOMAIN b.slots[i].ints :
                            b.slots[i].ints[k] = <<f.start, IntEnd(f)>>

gnrc_sixlowpan_frag_handle_pkt(f, n, fails) ==
    LET b == rbuf_add(_rbuf_gc([slots |-> rbuf, order |-> order, out |-> {}], n), f, fails)
    IN  /\ f \in air
        /\ Mishap(n + fails > 0)
        /\ ~Repeats => ~Repeated([slots |-> rbuf], f)
        /\ air' = IF Repeats THEN air ELSE air \ {f}
        /\ rbuf' = b.slots /\ order' = b.order
        /\ dispatched' = b.out
        /\ UNCHANGED <<todo, queue, current, fragment_msg, _tag, stuck, restarted>>

SixlowpanNext ==
    \/ \E d \in Datagrams : Submit(d)
    \/ \E s \in Senders, mem \in BOOLEAN : _send(s, mem) \/ gnrc_sixlowpan_frag_send(s, mem)
    \/ \E s \in Senders : msg_receive(s) \/ Restart(s)
    \/ \E f \in air, n \in 0 .. RBUF_SIZE, fails \in 0 .. 4 :
            gnrc_sixlowpan_frag_handle_pkt(f, n, fails)

SixlowpanSpec == SixlowpanInit /\ [][SixlowpanNext]_sixlowpanVars

-----------------------------------------------------------------------------
(* Types. *)
SixlowpanTypeOK ==
    /\ todo \subseteq Datagrams
    /\ \A s \in Senders :
        /\ Len(queue[s]) <= GNRC_SIXLOWPAN_MSG_QUEUE_SIZE
        /\ \A i \in DOMAIN queue[s] : queue[s][i] \in Datagrams \cup {FRAG_SND}
        /\ current[s] \in Datagrams \cup {FRAG_SND, NoEntry}
        /\ fragment_msg[s] = NoEntry \/ fragment_msg[s].dgram \in Datagrams
        /\ _tag[s] \in Nat
    /\ \A i \in Slots : rbuf[i] = NoEntry \/ rbuf[i].cur_size \in Nat
    /\ order \in [Slots -> Slots]

(* "If the packet is complete, dispatch the packet" (rbuf.h): whatever the *)
(* order of fragments, however entries are displaced or time out, no       *)
(* datagram with a hole is dispatched, and unless its sender restarted and *)
(* used a tag again all of it is of one datagram.                          *)
DispatchedIsComplete ==
    \A p \in dispatched :
        /\ \A i \in DOMAIN p.bytes : p.bytes[i] # NoEntry
        /\ p.src \notin restarted => \A i \in DOMAIN p.bytes : p.bytes[i] = p.bytes[0]

(* Sum of the lengths of e's intervals. *)
Covered(e) == LET Plus(n, i) == n + i[2] - i[1] + 1 IN FoldLeft(Plus, 0, e.ints)

(* The reassembly buffer agrees with itself: one entry per datagram, whose *)
(* intervals are those of the bytes it has, do not overlap and add up to   *)
(* cur_size, which stays below the datagram's size; there are no more      *)
(* intervals than the pool has.                                            *)
RbufAgrees ==
    /\ SixlowpanTypeOK
    /\ Cardinality(Ints([slots |-> rbuf])) <= RBUF_INT_SIZE
    /\ \A i \in Slots : rbuf[i] # NoEntry =>
        LET e == rbuf[i] IN
        /\ \A j \in Slots \ {i} : ~Matches(rbuf[j], e)
        /\ e.cur_size = Covered(e) /\ e.cur_size < e.size
        /\ \A k, l \in DOMAIN e.ints :
                k # l => e.ints[k][2] < e.ints[l][1] \/ e.ints[l][2] < e.ints[k][1]
        /\ {p \in DOMAIN e.bytes : e.bytes[p] # NoEntry}
                = UNION {e.ints[k][1] .. e.ints[k][2] : k \in DOMAIN e.ints}

(* A datagram being fragmented has exactly one message that will send its  *)
(* next fragment, so the fragmenter becomes free again; only a full queue  *)
(* (msg_send_to_self() refused) can take it away.  What is under way are   *)
(* whole pieces: they end at a multiple of Unit or with the datagram.      *)
FragmenterGoesOn ==
    /\ \A s \in Senders :
        Cardinality({i \in DOMAIN queue[s] : queue[s][i] = FRAG_SND})
                + (IF current[s] = FRAG_SND THEN 1 ELSE 0)
            = (IF fragment_msg[s] # NoEntry /\ s \notin stuck THEN 1 ELSE 0)
    /\ \A f \in air :
        /\ f.len > 0 /\ f.start % Unit = 0
        /\ IntEnd(f) + 1 = f.size \/ (IntEnd(f) + 1 < f.size /\ f.len % Unit = 0)
=============================================================================
