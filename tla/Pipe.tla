-------------------------------- MODULE Pipe --------------------------------
(***************************************************************************)
(* sys/pipe/pipe.c: a ring buffer, and at most one thread each that sleeps *)
(* until there is something to read or room to write.                      *)
(***************************************************************************)
EXTENDS Sync, Ringbuffer

CONSTANT PipeCalls  \* bound: [op, data, n] of the calls that are made

ASSUME PipeAssumption == \A c \in PipeCalls : c.op \in {"read", "write"}

VARIABLES
    pipe,       \* [read, write]: read_blocked and write_blocked; 0 is NULL
    call        \* the arguments of the call a thread is in

pipeVars == <<pipe, call, ringVars>>

NoPipeCall == [op |-> "none", data |-> <<>>, n |-> 0]

pipe_init ==
    /\ pipe = [read |-> 0, write |-> 0]
    /\ call = [t \in Pids |-> NoPipeCall]

OtherOp(op) == IF op = "read" THEN "write" ELSE "read"

(* ringbuffer_op() would move at least one byte. *)
CanMove(c) == IF c.op = "read" THEN ring.avail > 0 ELSE ring.avail < RingSize

Move(c) == IF c.op = "read" THEN ringbuffer_get(c.n) ELSE ringbuffer_add(c.data)

(* pipe_rw()'s loop body, one critical section: something is moved, and    *)
(* the thread that sleeps on the other side is woken; ...                  *)
Moves_WakesOwnSide(a, c) ==
    /\ CanMove(c)
    /\ Move(c)
    /\ LET other == pipe[c.op]
       IN  IF other = 0
           THEN UNCHANGED <<schedVars, pipe>>
           ELSE /\ pipe' = [pipe EXCEPT ![c.op] = 0]
                /\ sched' = sched_set_status(sched, priority, other, "PENDING")
                /\ SwitchTail(sched', priority[other])
                /\ KeepsContext
    /\ Goto(a, "out")

Moves(a, c) ==
    /\ CanMove(c)
    /\ Move(c)
    /\ LET other == pipe[OtherOp(c.op)]
       IN  IF other = 0
           THEN UNCHANGED <<schedVars, pipe>>
           ELSE /\ pipe' = [pipe EXCEPT ![OtherOp(c.op)] = 0]
                /\ sched' = sched_set_status(sched, priority, other, "PENDING")
                /\ SwitchTail(sched', priority[other])
                /\ KeepsContext
    /\ Goto(a, "out")

(* ... or nothing can be moved, and a handler, or a thread that would be   *)
(* the second to wait on this side, returns 0; ...                         *)
GivesUp(a, c) ==
    /\ ~CanMove(c)
    /\ pipe[c.op] # 0 \/ a = Isr
    /\ Goto(a, "out")
    /\ UNCHANGED <<schedVars, pipe, ringVars>>

(* ... or the thread sleeps and goes round the loop once more when it is   *)
(* woken.                                                                  *)
Sleeps(a, c) ==
    /\ ~CanMove(c)
    /\ pipe[c.op] = 0 /\ a # Isr
    /\ pipe' = [pipe EXCEPT ![c.op] = a]
    /\ sched' = sched_set_status(sched, priority, a, "SLEEPING")
    /\ YieldTail(a)
    /\ KeepsContext
    /\ Goto(a, "rw")
    /\ UNCHANGED ringVars

(* pipe_read() and pipe_write() with n > 0 bytes, first and later rounds *)
pipe_rw(a, c) ==
    /\ \/ At(a, "out")
       \/ At(a, "rw") /\ call[a] = c
    /\ Moves(a, c) \/ GivesUp(a, c) \/ Sleeps(a, c)
    /\ call' = [t \in Pids |-> IF t # a THEN call[t]
                               ELSE IF at'[a] = "rw" THEN c ELSE NoPipeCall]
    /\ UNCHANGED mutexOpsVars

PipeNext ==
    \/ \E a \in Actors, c \in PipeCalls : pipe_rw(a, c)
    \/ SyncEnv(Pids) /\ UNCHANGED pipeVars

PipeSpec ==
    /\ SyncInit(FALSE) /\ RingInit /\ pipe_init
    /\ [][PipeNext]_<<syncVars, pipeVars>>

-----------------------------------------------------------------------------
(* No wake-up is lost: a thread that sleeps in pipe_read() or pipe_write() *)
(* is the one registered for that side, and it is registered only as long  *)
(* as there is nothing to read, or no room; so whoever changes that wakes  *)
(* it, however many readers, writers and handlers compete.                 *)
PipeSleeperIsKnown ==
    \A t \in Pids, op \in {"read", "write"} :
        /\ at[t] = "rw" /\ sched.status[t] = "SLEEPING" /\ call[t].op = op => pipe[op] = t
        /\ pipe[op] = t => /\ at[t] = "rw" /\ sched.status[t] = "SLEEPING"
                           /\ call[t].op = op
                           /\ ~CanMove(call[t])
=============================================================================
