------------------------------- MODULE MCSync -------------------------------
(***************************************************************************)
(* The primitives built on the kernel for TLC, one of them at a time.      *)
(***************************************************************************)
EXTENDS Rmutex, Sema, Isrpipe, Pipe, Rwlock, Barrier, Cond, Cib

CONSTANT Components     \* the primitives that are checked

VARIABLE component

(* Two threads share a priority; thread 1 plays the idle thread's part. *)
MCPrio == <<2, 1, 1, 0>>

Read(n) == [op |-> "read", data |-> <<>>, n |-> n]
Write(s) == [op |-> "write", data |-> s, n |-> Len(s)]
MCPipeCalls == {Read(2), Write(<<0>>), Write(<<0, 0>>)}

MCVars == <<syncVars, rmutexVars, semaVars, isrpipeVars, pipeVars, rwlockVars, barrierVars,
            condVars, cibVars, component>>

MCInit ==
    /\ component \in Components
    /\ SyncInit(component = "sema")
    /\ RmutexInit
    /\ SemaInit(0)
    /\ isrpipe_init
    /\ RingInit /\ pipe_init
    /\ pthread_rwlock_init
    /\ pthread_barrier_init
    /\ pthread_cond_init
    /\ CibInit /\ (component # "cib" => mask = 0)

Step ==
    \/ component = "rmutex" /\ RmutexNext
    \/ component = "sema" /\ SemaNext
    \/ component = "isrpipe" /\ IsrpipeNext
    \/ component = "ringbuffer" /\ RingNext /\ UNCHANGED <<syncVars, pipe, call>>
    \/ component = "pipe" /\ PipeNext
    \/ component = "rwlock" /\ RwlockNext
    \/ component = "barrier" /\ BarrierNext
    \/ component = "cond" /\ CondNext
    \/ component = "cib" /\ CibNext /\ UNCHANGED syncVars

(* Only the variables of c change. *)
Keeps(c, cVars) == IF component \in c THEN TRUE ELSE UNCHANGED cVars

MCNext ==
    /\ Step
    /\ Keeps({"rmutex"}, rmutexVars)
    /\ Keeps({"sema"}, semaVars)
    /\ Keeps({"isrpipe"}, isrpipeVars)
    /\ Keeps({"ringbuffer", "pipe"}, pipeVars)
    /\ Keeps({"rwlock"}, rwlockVars)
    /\ Keeps({"barrier"}, barrierVars)
    /\ Keeps({"cond"}, condVars)
    /\ Keeps({"cib"}, cibVars)
    /\ UNCHANGED component

MCSpec == MCInit /\ [][MCNext]_MCVars
=============================================================================
