CONSTANTS
    MAXTHREADS = 5
    SCHED_PRIO_LEVELS = 3
    Port = "cortexm"
    Window = FALSE
    Prio <- MCPrio
    Size = 1
    Writers = {2, 4}
    BlockingWriters = {2, 4}
    Readers = {3, 5}
    MaxMsgs = 2
SPECIFICATION MboxSpec
INVARIANTS ListsAgree ReturnsDone FifoUnlessWaited
