CONSTANTS
    MAXTHREADS = 4
    SCHED_PRIO_LEVELS = 3
    Port = "cortexm"
    Window = FALSE
    Prio <- MCPrio
    Routes <- MCRoutes
    RequestRoutes <- MCRequestRoutes
    QueueSize <- MCQueueSize
    MaxMsgs = 2
SPECIFICATION Spec
INVARIANTS ListsAgree ExactlyOnceInOrder ReturnsDone
