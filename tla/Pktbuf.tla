------------------------------- MODULE Pktbuf -------------------------------
(***************************************************************************)
(* The packet buffer, sys/net/gnrc/pktbuf_static/gnrc_pktbuf_static.c: one *)
(* array from which packet descriptors (snips) and their data are carved,  *)
(* a list of unused pieces threaded through it, and snips linked into      *)
(* packets that several threads share by counting users.                   *)
(*                                                                         *)
(* Every function works under the buffer's mutex and is one step.  The two *)
(* that link outside it (remove and replace a snip) only touch snips no    *)
(* other thread has.  An address is an offset into the array.              *)
(*                                                                         *)
(* Use.  A reference is a pointer a thread has to the first snip of a      *)
(* packet: it counts once in `users' of every snip from there on, is       *)
(* passed on or released once, and whoever changes a snip has it alone     *)
(* (that is what gnrc_pktbuf_start_write() is for).                        *)
(***************************************************************************)
EXTENDS Integers, Sequences, FiniteSets

LOCAL INSTANCE SequencesExt
LOCAL INSTANCE FiniteSetsExt
LOCAL INSTANCE Functions

CONSTANTS
    GNRC_PKTBUF_SIZE,
    Alignment,          \* sizeof(void *)
    UnusedSize,         \* sizeof(_unused_t)
    SnipSize,           \* sizeof(gnrc_pktsnip_t)
    IovecSize,          \* sizeof(struct iovec)
    DataSizes,          \* sizes asked for
    MaxUsers,           \* bound on the references to a packet
    MixedDuplicates     \* a packet is duplicated of which a thread has the
                        \* first snip alone and shares the last one to copy;
                        \* gnrc_ipv6_ext.c, the one caller, tests that the
                        \* first is shared, outside the mutex

ASSUME PktbufAssumption ==
    /\ {GNRC_PKTBUF_SIZE, Alignment, UnusedSize, SnipSize, IovecSize, MaxUsers}
            \subseteq Nat \ {0}
    /\ UnusedSize % Alignment = 0 /\ SnipSize >= UnusedSize
    /\ DataSizes \subseteq Nat
    /\ MixedDuplicates \in BOOLEAN

NULL == -1

VARIABLES
    pktbuf,     \* unused: the list of unused pieces; snips: the snips by address
    refs        \* references the threads have, by the snip they point to

pktbufVars == <<pktbuf, refs>>

Chunk(at, size) == [at |-> at, size |-> size]

PktbufInit ==
    /\ pktbuf = [unused |-> <<Chunk(0, GNRC_PKTBUF_SIZE)>>, snips |-> <<>>]
    /\ refs = <<>>

-----------------------------------------------------------------------------
_align(n) == ((n + Alignment - 1) \div Alignment) * Alignment

(* What a request for n bytes takes. *)
Room(n) == _align(IF n < UnusedSize THEN UnusedSize ELSE n)

End(c) == c.at + c.size

(* First fit.  A remainder that cannot hold an _unused_t is left out of    *)
(* the list.                                                               *)
_pktbuf_alloc(u, n) ==
    LET fits == {i \in DOMAIN u : u[i].size >= Room(n)}
        i == Min(fits)
    IN  IF fits = {} THEN [at |-> NULL, unused |-> u]
        ELSE [at |-> u[i].at,
              unused |-> IF u[i].size - Room(n) < UnusedSize THEN RemoveAt(u, i)
                         ELSE [u EXCEPT ![i] = Chunk(@.at + Room(n), @.size - Room(n))]]

_too_small_hole(a, b) == b.at - End(a) \in 0 .. (UnusedSize - 1)

_merge(a, b) == Chunk(a.at, b.size + b.at - a.at)

(* Two lists of pieces, the first before the second, as one. *)
Join(left, right) ==
    IF left # <<>> /\ right # <<>> /\ _too_small_hole(Last(left), Head(right))
    THEN Front(left) \o <<_merge(Last(left), Head(right))>> \o Tail(right)
    ELSE left \o right

_pktbuf_free(u, at, n) ==
    LET Before(c) == c.at < at
        After(c) == ~Before(c)
        bytes_at_end == GNRC_PKTBUF_SIZE - (at + Room(n))
        new == Chunk(at, Room(n) + IF bytes_at_end < _align(UnusedSize)
                                   THEN bytes_at_end ELSE 0)
    IN  IF at = NULL THEN u
        ELSE Join(Join(SelectSeq(u, Before), <<new>>), SelectSeq(u, After))

-----------------------------------------------------------------------------
Snip(next, data, size) == [next |-> next, data |-> data, size |-> size, users |-> 1]

WithSnip(s, p, snip) ==
    [q \in DOMAIN s \cup {p} |-> IF q = p THEN snip ELSE s[q]]

(* _create_snip(): the new snip's address, NULL if there is no room. *)
_create_snip(pb, next, size) ==
    LET desc == _pktbuf_alloc(pb.unused, SnipSize)
        data == IF size > 0 THEN _pktbuf_alloc(desc.unused, size)
                ELSE [at |-> NULL, unused |-> desc.unused]
    IN  IF desc.at = NULL THEN [at |-> NULL, pktbuf |-> pb]
        ELSE IF size > 0 /\ data.at = NULL
        THEN [at |-> NULL,
              pktbuf |-> [pb EXCEPT !.unused = _pktbuf_free(desc.unused, desc.at, SnipSize)]]
        ELSE [at |-> desc.at,
              pktbuf |-> [unused |-> data.unused,
                          snips |-> WithSnip(pb.snips, desc.at, Snip(next, data.at, size))]]

(* The snips of the packet p, first to last. *)
Packet(s, p) ==
    LET n == Cardinality(DOMAIN s)
        nth[i \in 1 .. n] ==
            IF i = 1 THEN p ELSE IF nth[i - 1] \in DOMAIN s THEN s[nth[i - 1]].next ELSE NULL
        Live(q) == q \in DOMAIN s
    IN  SelectSeq([i \in 1 .. n |-> nth[i]], Live)

Members(s, p) == {Packet(s, p)[i] : i \in DOMAIN Packet(s, p)}

(* _release_error_locked() *)
_release_snip(pb, p) ==
    IF pb.snips[p].users > 1 THEN [pb EXCEPT !.snips[p].users = @ - 1]
    ELSE [unused |-> _pktbuf_free(_pktbuf_free(pb.unused, pb.snips[p].data, pb.snips[p].size),
                                  p, SnipSize),
          snips |-> Restrict(pb.snips, DOMAIN pb.snips \ {p})]

_release_error_locked(pb, p) == FoldLeft(_release_snip, pb, Packet(pb.snips, p))

-----------------------------------------------------------------------------
(* References: pass d more (or fewer) to p. *)
Count(r, p) == IF p \in DOMAIN r THEN r[p] ELSE 0

Refer(r, p, d) ==
    IF p = NULL THEN r
    ELSE IF Count(r, p) + d = 0 THEN Restrict(r, DOMAIN r \ {p})
    ELSE WithSnip(r, p, Count(r, p) + d)

Moved(r, p, q) == Refer(Refer(r, p, -1), q, 1)

snips == pktbuf.snips

Alone(p) == snips[p].users = 1

gnrc_pktbuf_add(next, size) ==
    LET new == _create_snip(pktbuf, next, size)
    IN  /\ size <= GNRC_PKTBUF_SIZE
        /\ pktbuf' = new.pktbuf
        /\ refs' = IF new.at = NULL THEN refs ELSE Moved(refs, next, new.at)

(* Splits the first n bytes off p, in place where both parts can be freed  *)
(* on their own and otherwise by copying both.                             *)
InPlace_AnySize(p, n) == snips[p].size = n \/ snips[p].size - n >= UnusedSize

InPlace(p, n) == snips[p].size = n \/ (n = Room(n) /\ snips[p].size - n >= UnusedSize)

Marked(p, n, marked, rest, u, desc) ==
    [unused |-> u,
     snips |-> WithSnip([snips EXCEPT ![p].next = desc, ![p].data = rest, ![p].size = @ - n],
                        desc, Snip(snips[p].next, marked, n))]

gnrc_pktbuf_mark(p, n) ==
    LET desc == _pktbuf_alloc(pktbuf.unused, SnipSize)
        marked == _pktbuf_alloc(desc.unused, n)
        rest == _pktbuf_alloc(marked.unused, snips[p].size - n)
        old == snips[p]
    IN  /\ Alone(p)
        /\ n \in 1 .. old.size
        /\ desc.at # NULL
        /\ pktbuf' =
            IF InPlace(p, n)
            THEN Marked(p, n, old.data, IF old.size = n THEN NULL ELSE old.data + n,
                        desc.unused, desc.at)
            ELSE IF marked.at = NULL
            THEN [pktbuf EXCEPT !.unused = _pktbuf_free(desc.unused, desc.at, SnipSize)]
            ELSE IF rest.at = NULL
            THEN [pktbuf EXCEPT !.unused =
                    _pktbuf_free(_pktbuf_free(marked.unused, desc.at, SnipSize), marked.at, n)]
            ELSE Marked(p, n, marked.at, rest.at,
                        _pktbuf_free(rest.unused, old.data, old.size), desc.at)
        /\ UNCHANGED refs

(* Grows p's data, or shrinks it: in place where the rest can be freed. *)
gnrc_pktbuf_realloc_data(p, n) ==
    LET old == snips[p]
        new == _pktbuf_alloc(pktbuf.unused, n)
        Becomes(u, data) ==
            pktbuf' = [unused |-> u,
                       snips |-> [snips EXCEPT ![p].data = data, ![p].size = n]]
    IN  /\ Alone(p)
        /\ n # old.size
        /\ IF n = 0 THEN Becomes(_pktbuf_free(pktbuf.unused, old.data, old.size), NULL)
           ELSE IF n > old.size \/ old.size - Room(n) \in 0 .. (UnusedSize - 1)
           THEN /\ new.at # NULL
                /\ Becomes(_pktbuf_free(new.unused, old.data, old.size), new.at)
           ELSE Becomes(IF _align(old.size) > Room(n)
                        THEN _pktbuf_free(pktbuf.unused, old.data + Room(n), old.size - Room(n))
                        ELSE pktbuf.unused,
                        old.data)
        /\ UNCHANGED refs

gnrc_pktbuf_hold(p, num) ==
    LET held == Members(snips, p)
    IN  /\ \A q \in held : snips[q].users + num <= MaxUsers
        /\ pktbuf' = [pktbuf EXCEPT !.snips =
                        [q \in DOMAIN snips |->
                            IF q \in held THEN [snips[q] EXCEPT !.users = @ + num] ELSE snips[q]]]
        /\ refs' = Refer(refs, p, num)

gnrc_pktbuf_release(p) ==
    /\ pktbuf' = _release_error_locked(pktbuf, p)
    /\ refs' = Refer(refs, p, -1)

(* Copies p's first snip if it is shared; the rest stays shared. *)
gnrc_pktbuf_start_write_KeepsUser(p) ==
    LET new == _create_snip(pktbuf, snips[p].next, snips[p].size)
    IN  /\ snips[p].size > 0 /\ ~Alone(p)
        /\ new.at # NULL
        /\ pktbuf' = new.pktbuf
        /\ refs' = Moved(refs, p, new.at)

gnrc_pktbuf_start_write(p) ==
    LET new == _create_snip(pktbuf, snips[p].next, snips[p].size)
    IN  /\ snips[p].size > 0 /\ ~Alone(p)
        /\ pktbuf' = IF new.at = NULL THEN new.pktbuf
                     ELSE [new.pktbuf EXCEPT !.snips[p].users = @ - 1]
        /\ refs' = IF new.at = NULL THEN refs ELSE Moved(refs, p, new.at)

gnrc_pktbuf_get_iovec(p) == gnrc_pktbuf_add(p, Len(Packet(snips, p)) * IovecSize)

(* LL_DELETE and LL_REPLACE_ELEM: whoever pointed to q points to r. *)
Relinked(s, q, r) ==
    [o \in DOMAIN s |-> IF s[o].next = q THEN [s[o] EXCEPT !.next = r] ELSE s[o]]

gnrc_pktbuf_remove_snip(p, q) ==
    LET unlinked == [Relinked(snips, q, snips[q].next) EXCEPT ![q].next = NULL]
    IN  /\ Alone(q)
        /\ pktbuf' = _release_error_locked([pktbuf EXCEPT !.snips = unlinked], q)
        /\ refs' = IF q = p THEN Moved(refs, p, snips[p].next) ELSE refs

(* add, a packet of its own, takes the place of q in p. *)
gnrc_pktbuf_replace_snip(p, q, add) ==
    LET back == Last(Packet(snips, add))
        linked == [Relinked(snips, q, add) EXCEPT ![back].next = snips[q].next, ![q].next = NULL]
    IN  /\ Alone(q) /\ add # p
        /\ \A r \in Members(snips, add) : Alone(r)
        /\ pktbuf' = _release_error_locked([pktbuf EXCEPT !.snips = linked], q)
        /\ refs' = IF q = p THEN Refer(refs, p, -1) ELSE Refer(refs, add, -1)

(* Copies p up to target (all of p if target is NULL) into one snip and    *)
(* releases what was copied.  The link behind target is cut meanwhile and  *)
(* restored if p's first snip was shared.                                  *)
gnrc_pktbuf_duplicate_upto(p, target) ==
    LET packet == Packet(snips, p)
        IsTarget(q) == q = target
        upto == IF target = NULL THEN packet
                ELSE SubSeq(packet, 1, SelectInSeq(packet, IsTarget))
        Plus(n, q) == n + snips[q].size
        next == IF target = NULL THEN NULL ELSE snips[target].next
        new == _create_snip(pktbuf, next, FoldLeft(Plus, 0, upto))
        Link(pb, to) == IF target = NULL THEN pb ELSE [pb EXCEPT !.snips[target].next = to]
        released == _release_error_locked(Link(new.pktbuf, NULL), p)
    IN  /\ ~MixedDuplicates /\ target # NULL => (Alone(p) <=> Alone(target))
        /\ new.at # NULL
        /\ pktbuf' = IF Alone(p) THEN released ELSE Link(released, next)
        /\ refs' = Moved(refs, p, new.at)

PktbufNext ==
    \/ \E size \in DataSizes, next \in DOMAIN refs \cup {NULL} : gnrc_pktbuf_add(next, size)
    \/ \E p \in DOMAIN refs :
        \/ gnrc_pktbuf_hold(p, 1) \/ gnrc_pktbuf_release(p)
        \/ gnrc_pktbuf_start_write(p) \/ gnrc_pktbuf_get_iovec(p)
        \/ \E n \in DataSizes : gnrc_pktbuf_mark(p, n)
        \/ \E q \in Members(snips, p) :
            \/ \E n \in DataSizes : gnrc_pktbuf_realloc_data(q, n)
            \/ gnrc_pktbuf_remove_snip(p, q)
            \/ \E add \in DOMAIN refs : gnrc_pktbuf_replace_snip(p, q, add)
        \/ \E q \in Members(snips, p) \cup {NULL} : gnrc_pktbuf_duplicate_upto(p, q)

PktbufSpec == PktbufInit /\ [][PktbufNext]_pktbufVars

-----------------------------------------------------------------------------
(* Types. *)
PktbufTypeOK ==
    LET Addresses == 0 .. (GNRC_PKTBUF_SIZE - 1)
    IN  /\ pktbuf.unused \in Seq([at : Addresses, size : 1 .. GNRC_PKTBUF_SIZE])
        /\ DOMAIN snips \subseteq Addresses
        /\ \A p \in DOMAIN snips :
                snips[p] \in [next : Addresses \cup {NULL}, data : Addresses \cup {NULL},
                              size : 0 .. GNRC_PKTBUF_SIZE, users : 1 .. MaxUsers]
        /\ DOMAIN refs \subseteq Addresses
        /\ \A p \in DOMAIN refs : refs[p] \in Nat \ {0}

(* What lies in the array: descriptors, data, unused pieces. *)
Pieces ==
    [k \in ({"snip"} \X DOMAIN snips)
           \cup ({"data"} \X {p \in DOMAIN snips : snips[p].data # NULL})
           \cup ({"unused"} \X DOMAIN pktbuf.unused) |->
        CASE k[1] = "snip" -> Chunk(k[2], _align(SnipSize))
          [] k[1] = "data" -> Chunk(snips[k[2]].data, Room(snips[k[2]].size))
          [] k[1] = "unused" -> pktbuf.unused[k[2]]]

(* Nobody's memory is somebody else's: whatever was split, shrunk, merged  *)
(* and reused, descriptors, data and unused pieces lie within the array,   *)
(* do not overlap, and the list of the unused ones is in order, which is   *)
(* what _pktbuf_free() needs to find neighbours.                           *)
PiecesDisjoint ==
    /\ PktbufTypeOK
    /\ \A k \in DOMAIN Pieces :
        /\ End(Pieces[k]) <= GNRC_PKTBUF_SIZE
        /\ \A l \in DOMAIN Pieces \ {k} :
                End(Pieces[k]) <= Pieces[l].at \/ End(Pieces[l]) <= Pieces[k].at
    /\ \A i, j \in DOMAIN pktbuf.unused :
            i < j => pktbuf.unused[i].at < pktbuf.unused[j].at

(* The references from which snip q is reached. *)
References(q) ==
    LET heads == {p \in DOMAIN refs : q \in Members(snips, p)}
        Plus(p, n) == n + refs[p]
    IN  FoldSet(Plus, 0, heads)

(* users counts the references of every snip, however packets were joined, *)
(* copied in part and taken apart; so no snip is freed while a packet      *)
(* contains it, and none is left behind when the last packet is released.  *)
UsersAreCounted ==
    /\ \A p \in DOMAIN refs : p \in DOMAIN snips
    /\ \A p \in DOMAIN snips :
        /\ snips[p].users = References(p)
        /\ snips[p].next \in DOMAIN snips \cup {NULL}
=============================================================================
