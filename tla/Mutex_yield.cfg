CONSTANTS
    MAXTHREADS = 4
    SCHED_PRIO_LEVELS = 3
    Port = "native"
    Window = TRUE
    Mutexes = {lock, signal}
    Signals = {signal}
    None = None
    Prio <- MCPrio
SPECIFICATION Spec
INVARIANT WakerRemovedUs
