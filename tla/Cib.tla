-------------------------------- MODULE Cib --------------------------------
(***************************************************************************)
(* The circular integer buffer of core/include/cib.h, which hands out the  *)
(* indices of the arrays behind message queues and mailboxes.  Counters    *)
(* are unsigned int of W bits and wrap.                                    *)
(***************************************************************************)
EXTENDS Integers, Sequences

CONSTANTS
    W,      \* width of unsigned int
    Sizes   \* sizes given to cib_init()

(* "must not exceed MAXINT/2. Should be equal to 0 or power of 2." *)
ASSUME CibAssumption ==
    /\ W \in Nat \ {0, 1}
    /\ Sizes \subseteq Nat
    /\ \A n \in Sizes : n = 0 \/ (n <= (2^(W-1) - 1) \div 2 /\ \E k \in 0 .. W : n = 2^k)

(* What is used of the powers of two: W bits are twice what W - 1 bits     *)
(* are, and the sizes divide the range of the counters.                    *)
ASSUME PowersOfTwo ==
    /\ 2^(W-1) \in Nat \ {0} /\ 2^W = 2 * 2^(W-1)
    /\ \A n \in Sizes \ {0} : \E p \in 1 .. 2^W : 2^W = n * p

UInt == 0 .. (2^W - 1)

(* (int) x *)
Signed(x) == IF x < 2^(W-1) THEN x ELSE x - 2^W

VARIABLES
    read_count, write_count, mask,
    fifo,       \* history: indices put and not yet got, oldest first
    ret         \* history: result of the last operation, and its name

cibVars == <<read_count, write_count, mask, fifo, ret>>

(* cib_init(); the size of a cib never changes. *)
CibInit ==
    /\ \E size \in Sizes : mask = (size - 1) % 2^W
    /\ read_count = 0
    /\ write_count = 0
    /\ fifo = <<>>
    /\ ret = [op |-> "init", value |-> 0]

(* count & mask, for a mask of the form 2^k - 1 *)
Index(count) == count % (mask + 1)

Inc(count) == (count + 1) % 2^W

cib_avail == (write_count - read_count) % 2^W

cib_full == Signed(cib_avail) > Signed(mask)

Puts ==
    /\ write_count' = Inc(write_count)
    /\ fifo' = Append(fifo, Index(write_count))
    /\ ret' = [op |-> "put", value |-> Index(write_count)]
    /\ UNCHANGED <<read_count, mask>>

Gets ==
    /\ read_count' = Inc(read_count)
    /\ fifo' = Tail(fifo)
    /\ ret' = [op |-> "get", value |-> Index(read_count)]
    /\ UNCHANGED <<write_count, mask>>

Fails(name) ==
    /\ ret' = [op |-> name, value |-> -1]
    /\ UNCHANGED <<read_count, write_count, mask, fifo>>

(* "We use a signed compare, because the mask is -1u for an empty CIB." *)
cib_put_OneMore ==
    \/ Signed(cib_avail) <= Signed(mask) + 1 /\ Puts
    \/ Signed(cib_avail) > Signed(mask) + 1 /\ Fails("put")

cib_put ==
    \/ Signed(cib_avail) <= Signed(mask) /\ Puts
    \/ Signed(cib_avail) > Signed(mask) /\ Fails("put")

cib_get ==
    \/ write_count > read_count /\ Gets
    \/ write_count <= read_count /\ Fails("get")

(* cib_peek(): the same test, without removing the item. *)
cib_peek ==
    \/ /\ write_count > read_count
       /\ ret' = [op |-> "peek", value |-> Index(read_count)]
       /\ UNCHANGED <<read_count, write_count, mask, fifo>>
    \/ write_count <= read_count /\ Fails("peek")

(* The unsafe versions, called as core/mbox.c means to: after cib_full()   *)
(* and cib_avail().                                                        *)
cib_put_unsafe == ~cib_full /\ Puts

cib_get_unsafe == cib_avail # 0 /\ Gets

CibNext == cib_put \/ cib_get \/ cib_peek \/ cib_put_unsafe \/ cib_get_unsafe

CibSpec == CibInit /\ [][CibNext]_cibVars

-----------------------------------------------------------------------------
(* Types. *)
CibTypeOK ==
    /\ read_count \in UInt /\ write_count \in UInt /\ mask \in UInt
    /\ fifo \in Seq(UInt)
    /\ ret.value \in UInt \cup {-1}

(* The indices form a queue, counters wrapping included: the array entries *)
(* between the read and the write position are those put and not yet got,  *)
(* in the order they were put, and none of them is handed out again before *)
(* it was got.  cib_full() says that cib_put() would fail, which is when   *)
(* as many are out as the buffer has, also for a buffer of size 0; and     *)
(* cib_get() fails on an empty buffer, or while write_count has wrapped    *)
(* and read_count has not.                                                 *)
IndicesAreFifo ==
    /\ CibTypeOK
    /\ cib_avail = Len(fifo)
    /\ \A i \in DOMAIN fifo : fifo[i] = Index((read_count + i - 1) % 2^W)
    /\ \A i, j \in DOMAIN fifo : fifo[i] = fifo[j] => i = j
    /\ cib_full <=> Len(fifo) = (mask + 1) % 2^W
    /\ ret.op = "put" /\ ret.value = -1 => cib_full
    /\ ret.op = "get" /\ ret.value = -1 => fifo = <<>> \/ write_count < read_count
=============================================================================
