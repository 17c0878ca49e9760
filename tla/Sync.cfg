CONSTANTS
    MAXTHREADS = 4
    SCHED_PRIO_LEVELS = 3
    Port = "native"
    Window = FALSE
    Mutexes = {mtx}
    None = None
    Prio <- MCPrio
    MaxDepth = 2
    UINT_MAX = 2
    TimedThreads = {3}
    Reader = 3
    Other = 4
    TsrbSize = 2
    TsrbWidth = 2
    MaxCount = 3
    RingSize = 3
    Bytes = {0, 1}
    PipeCalls <- MCPipeCalls
    Parties = {2, 3, 4}
    W = 5
    Sizes = {0, 1, 2, 4}
    Components = {"rmutex", "sema", "isrpipe", "ringbuffer", "pipe", "rwlock", "barrier", "cond", "cib"}
SPECIFICATION MCSpec
INVARIANTS
    SyncListsAgree
    RmutexOwner
    PostIsNotLost
    IsrpipeInOrder
    ReaderIsWoken
    
    PipeSleeperIsKnown
    RwlockExcludes
    
    
    
CHECK_DEADLOCK FALSE
