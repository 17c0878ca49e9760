------------------------------ MODULE Isrpipe ------------------------------
(***************************************************************************)
(* sys/isrpipe/isrpipe.c over sys/tsrb/tsrb.c: a handler writes bytes into *)
(* a ring buffer and unlocks a mutex, a thread reads them and locks the    *)
(* mutex to wait.  Nothing disables interrupts: handlers come between any  *)
(* two accesses of the reader.  The counters of the buffer have TsrbWidth  *)
(* bits.  Bytes are the numbers of the positions in the stream, modulo     *)
(* Laps.                                                                   *)
(***************************************************************************)
EXTENDS Sync

CONSTANTS
    Reader,         \* the thread that reads
    Other,          \* a thread that preempts it, or that it preempts
    TsrbSize,       \* a power of two
    TsrbWidth,
    MaxCount        \* bound: bytes asked for in one call

(* "size of buffer [...] (must be power of 2)", and smaller than the range *)
(* of the counters, which it divides                                       *)
ASSUME IsrpipeAssumption ==
    /\ Reader \in Pids /\ Other \in Pids
    /\ TsrbSize \in Nat \ {0} /\ MaxCount \in Nat
    /\ \E p \in 2 .. 2^TsrbWidth : 2^TsrbWidth = TsrbSize * p

Laps == 2 * TsrbSize

VARIABLES
    tsrb,       \* [buf, reads, writes]
    rd,         \* the variables of the reader's call, and its timer
    written,    \* history: number of bytes written, modulo Laps
    got         \* history: number of bytes read, modulo Laps

isrpipeVars == <<tsrb, rd, written, got>>

NoCall == [count |-> 0, res |-> 0, c |-> 0, timed |-> FALSE, all |-> FALSE,
           flag |-> FALSE, timer |-> FALSE]

isrpipe_init ==
    /\ tsrb = [buf |-> [i \in 0 .. TsrbSize - 1 |-> 0], reads |-> 0, writes |-> 0]
    /\ rd = NoCall
    /\ written = 0
    /\ got = 0

Slot(count) == count % TsrbSize

tsrb_empty == tsrb.reads = tsrb.writes

tsrb_avail == (tsrb.writes - tsrb.reads) % 2^TsrbWidth

tsrb_full_Late == tsrb_avail = TsrbSize + 1

tsrb_full == tsrb_avail = TsrbSize

(* isrpipe_write_one() by a handler; tsrb_add_one() refuses a byte when    *)
(* the buffer is full, and the mutex is unlocked all the same.             *)
isrpipe_write_one ==
    /\ At(Isr, "out")
    /\ IF tsrb_full THEN UNCHANGED <<tsrb, written>>
       ELSE /\ tsrb' = [tsrb EXCEPT !.buf[Slot(tsrb.writes)] = written,
                                    !.writes = (@ + 1) % 2^TsrbWidth]
            /\ written' = (written + 1) % Laps
    /\ Local(Isr, "unlock")
    /\ UNCHANGED <<rd, got>>

UnlockPipe ==
    /\ At(Isr, "unlock")
    /\ Unlock(Isr, "out")
    /\ UNCHANGED isrpipeVars

(* isrpipe_read(), isrpipe_read_timeout(), isrpipe_read_all_timeout() *)
isrpipe_read(count, timed, all) ==
    /\ At(Reader, "out")
    /\ rd' = [NoCall EXCEPT !.count = count, !.timed = timed, !.all = all]
    /\ Local(Reader, IF timed THEN "arm" ELSE "get")
    /\ UNCHANGED <<tsrb, written, got>>

ArmRead ==
    /\ At(Reader, "arm")
    /\ rd' = [rd EXCEPT !.timer = TRUE, !.flag = FALSE, !.res = 0]
    /\ Local(Reader, "get")
    /\ UNCHANGED <<tsrb, written, got>>

(* tsrb_get()'s loop: _pop() loads the byte and then stores the counter. *)
Load ==
    /\ At(Reader, "get")
    /\ rd.res < rd.count /\ ~tsrb_empty
    /\ rd' = [rd EXCEPT !.c = tsrb.buf[Slot(tsrb.reads)]]
    /\ Local(Reader, "pop")
    /\ UNCHANGED <<tsrb, written, got>>

Pop ==
    /\ At(Reader, "pop")
    /\ tsrb' = [tsrb EXCEPT !.reads = (@ + 1) % 2^TsrbWidth]
    /\ rd' = [rd EXCEPT !.res = @ + 1, !.c = 0]
    /\ got' = (got + 1) % Laps
    /\ Local(Reader, "get")
    /\ UNCHANGED written

(* tsrb_get() returns res; the reader waits if there was nothing. *)
GetReturns ==
    /\ At(Reader, "get")
    /\ rd.res = rd.count \/ tsrb_empty
    /\ Local(Reader, IF rd.res = 0 THEN "lock" ELSE IF rd.timed THEN "disarm" ELSE "out")
    /\ rd' = IF rd.res > 0 /\ ~rd.timed THEN NoCall ELSE rd
    /\ UNCHANGED <<tsrb, written, got>>

LockPipe ==
    /\ At(Reader, "lock")
    /\ Lock(Reader, "woken")
    /\ UNCHANGED isrpipeVars

WokenRead ==
    /\ At(Reader, "woken")
    /\ Local(Reader, IF rd.flag THEN "disarm" ELSE "get")
    /\ UNCHANGED isrpipeVars

(* xtimer_remove(); isrpipe_read_all_timeout() goes on until it has all    *)
(* bytes or runs into a timeout.                                           *)
DisarmRead ==
    LET again == rd.all /\ 0 < rd.res /\ rd.res < rd.count
    IN  /\ At(Reader, "disarm")
        /\ rd' = IF again THEN [rd EXCEPT !.count = @ - rd.res, !.res = 0, !.timer = FALSE]
                 ELSE NoCall
        /\ Local(Reader, IF again THEN "arm" ELSE "out")
        /\ UNCHANGED <<tsrb, written, got>>

(* the timer's handler *)
_cb_OnlyFlag ==
    /\ At(Isr, "out")
    /\ rd.timer
    /\ rd' = [rd EXCEPT !.timer = FALSE, !.flag = TRUE]
    /\ Local(Isr, "out")
    /\ UNCHANGED <<tsrb, written, got>>

_cb ==
    /\ At(Isr, "out")
    /\ rd.timer
    /\ rd' = [rd EXCEPT !.timer = FALSE, !.flag = TRUE]
    /\ Local(Isr, "unlock")
    /\ UNCHANGED <<tsrb, written, got>>

IsrpipeNext ==
    \/ isrpipe_write_one \/ UnlockPipe \/ _cb
    \/ \E n \in 1 .. MaxCount, timed, all \in BOOLEAN :
            (all => timed) /\ isrpipe_read(n, timed, all)
    \/ ArmRead \/ Load \/ Pop \/ GetReturns \/ LockPipe \/ WokenRead \/ DisarmRead
    \/ SyncEnv({Reader, Other}) /\ UNCHANGED isrpipeVars

IsrpipeSpec ==
    /\ SyncInit(FALSE) /\ isrpipe_init
    /\ [][IsrpipeNext]_<<syncVars, isrpipeVars>>

-----------------------------------------------------------------------------
(* The bytes in the buffer, and the one the reader has loaded, are those   *)
(* written and not yet read, in order, none overwritten, counters wrapping *)
(* included: although reader and handler share the buffer without a lock.  *)
IsrpipeInOrder ==
    /\ tsrb_avail <= TsrbSize
    /\ written = (got + tsrb_avail) % Laps
    /\ \A i \in 0 .. tsrb_avail - 1 :
            tsrb.buf[Slot(tsrb.reads + i)] = (got + i) % Laps
    /\ at[Reader] = "pop" => rd.c = got

(* The reader does not wait in vain, although it tests the buffer, and     *)
(* sets its timer, before it locks the mutex: while it waits, the buffer   *)
(* is empty and its timer, if it has one, is still to fire, or the handler *)
(* is about to unlock the mutex.                                           *)
ReaderIsWoken ==
    Waits(Reader) => \/ at[Isr] = "unlock"
                     \/ tsrb_empty /\ (rd.timed => rd.timer)
=============================================================================
