----------------------------- MODULE Ringbuffer -----------------------------
(***************************************************************************)
(* The ring buffer of core/ringbuffer.c.  It is sequential: its users, as  *)
(* sys/pipe, call it with interrupts disabled.                             *)
(***************************************************************************)
EXTENDS Integers, Sequences

CONSTANTS RingSize, Bytes

VARIABLES
    ring,       \* [buf, start, avail]
    ringfifo,   \* history: the bytes added and not yet got, oldest first
    ringret     \* history: [is, due]: bytes the last call returned, and should have

ringVars == <<ring, ringfifo, ringret>>

RingInit ==
    /\ ring = [buf |-> [i \in 0 .. RingSize - 1 |-> 0], start |-> 0, avail |-> 0]
    /\ ringfifo = <<>>
    /\ ringret = [is |-> <<>>, due |-> <<>>]

(* what may be added by one call *)
Data == UNION {[1 .. n -> Bytes] : n \in 1 .. RingSize}

add_tail_NoWrap(rb, c) ==
    LET pos == rb.start + rb.avail
    IN  [rb EXCEPT !.avail = @ + 1, !.buf[IF pos > RingSize THEN pos - RingSize ELSE pos] = c]

add_tail(rb, c) ==
    LET pos == rb.start + rb.avail
    IN  [rb EXCEPT !.avail = @ + 1, !.buf[IF pos >= RingSize THEN pos - RingSize ELSE pos] = c]

get_head(rb) ==
    [rb EXCEPT !.avail = @ - 1,
               !.start = IF rb.avail = 1 \/ @ + 1 = RingSize THEN 0 ELSE @ + 1]

Capped(n, most) == IF n > most THEN most ELSE n

(* ringbuffer_add(): as much of s as there is room for, byte by byte. *)
Taken(rb, s) == SubSeq(s, 1, Capped(Len(s), RingSize - rb.avail))

Added(rb, s) ==
    LET r == Taken(rb, s)
        after[i \in 0 .. Len(r)] == IF i = 0 THEN rb ELSE add_tail(after[i - 1], r[i])
    IN  after[Len(r)]

(* ringbuffer_get(): at most n bytes, from one or from two pieces of the   *)
(* array.                                                                  *)
Piece(rb, from, n) == [i \in 1 .. n |-> rb.buf[from + i - 1]]

Got(rb, n) ==
    LET k    == Capped(n, rb.avail)
        till == RingSize - rb.start
    IN  IF k = 0 THEN [rb |-> rb, data |-> <<>>]
        ELSE IF till >= k
        THEN [rb   |-> [rb EXCEPT !.start = IF till = k THEN 0 ELSE @ + k, !.avail = @ - k],
              data |-> Piece(rb, rb.start, k)]
        ELSE [rb   |-> [rb EXCEPT !.start = k - till, !.avail = @ - k],
              data |-> Piece(rb, rb.start, till) \o Piece(rb, 0, k - till)]

(* the oldest n bytes of a FIFO, and the rest *)
First(n) == SubSeq(ringfifo, 1, Capped(n, Len(ringfifo)))
Rest(n)  == SubSeq(ringfifo, n + 1, Len(ringfifo))

-----------------------------------------------------------------------------
ringbuffer_add(s) ==
    /\ ring' = Added(ring, s)
    /\ ringfifo' = ringfifo \o Taken(ring, s)
    /\ ringret' = [is |-> <<>>, due |-> <<>>]

ringbuffer_get(n) ==
    /\ ring' = Got(ring, n).rb
    /\ ringfifo' = Rest(n)
    /\ ringret' = [is |-> Got(ring, n).data, due |-> First(n)]

(* ringbuffer_peek(), on a copy of the structure *)
ringbuffer_peek(n) ==
    /\ ringret' = [is |-> Got(ring, n).data, due |-> First(n)]
    /\ UNCHANGED <<ring, ringfifo>>

(* The functions that take one byte call get_head().  ringbuffer_remove()  *)
(* may leave start at the end of the array, and they then read past it;    *)
(* what follows is undefined, and not modelled.                            *)
Defined == ring.start < RingSize

ringbuffer_add_one(c) ==
    /\ ring.avail = RingSize => Defined
    /\ ring' = add_tail(IF ring.avail = RingSize THEN get_head(ring) ELSE ring, c)
    /\ ringfifo' = Append(IF Len(ringfifo) = RingSize THEN Rest(1) ELSE ringfifo, c)
    /\ ringret' = IF ring.avail = RingSize
                  THEN [is |-> <<ring.buf[ring.start]>>, due |-> First(1)]
                  ELSE [is |-> <<>>, due |-> <<>>]

ringbuffer_get_one ==
    /\ Defined
    /\ ring.avail > 0
    /\ ring' = get_head(ring)
    /\ ringfifo' = Rest(1)
    /\ ringret' = [is |-> <<ring.buf[ring.start]>>, due |-> First(1)]

ringbuffer_peek_one ==
    /\ Defined
    /\ ring.avail > 0
    /\ ringret' = [is |-> <<ring.buf[ring.start]>>, due |-> First(1)]
    /\ UNCHANGED <<ring, ringfifo>>

ringbuffer_remove(n) ==
    /\ ring' = IF n > ring.avail THEN [ring EXCEPT !.start = 0, !.avail = 0]
               ELSE [ring EXCEPT !.avail = @ - n,
                                 !.start = IF @ + n > RingSize THEN @ + n - RingSize ELSE @ + n]
    /\ ringfifo' = Rest(n)
    /\ ringret' = [is |-> <<>>, due |-> <<>>]

RingNext ==
    \/ \E s \in Data : ringbuffer_add(s)
    \/ \E n \in 1 .. RingSize + 1 :
            ringbuffer_get(n) \/ ringbuffer_peek(n) \/ ringbuffer_remove(n)
    \/ \E c \in Bytes : ringbuffer_add_one(c)
    \/ ringbuffer_get_one \/ ringbuffer_peek_one

-----------------------------------------------------------------------------
(* The ring buffer is a bounded FIFO: the bytes between start and          *)
(* start + avail, across the end of the array, are those added and not yet *)
(* got or overwritten, and every call returns the oldest of them, in one   *)
(* piece or in two.  It holds also when ringbuffer_remove() has left start *)
(* at the end of the array, up to the next call that takes one byte.       *)
RingbufferIsFifo ==
    /\ ring.start \in 0 .. RingSize
    /\ ring.avail = Len(ringfifo) /\ ring.avail <= RingSize
    /\ \A i \in DOMAIN ringfifo :
            ringfifo[i] = ring.buf[(ring.start + i - 1) % RingSize]
    /\ ringret.is = ringret.due
=============================================================================
