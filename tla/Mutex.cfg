CONSTANTS
    MAXTHREADS = 4
    SCHED_PRIO_LEVELS = 3
    Port = "native"
    Window = FALSE
    Mutexes = {lock, signal}
    Signals = {signal}
    None = None
    Prio <- MCPrio
SPECIFICATION FairSpec
INVARIANTS MutualExclusion MutexListsAgree
PROPERTIES ImplementsLock UrgentGetsLock
