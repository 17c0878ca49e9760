CONSTANTS
    MAXTHREADS = 4
    SCHED_PRIO_LEVELS = 3
    Port = "native"
    Window = FALSE
    Flags = {0, 1}
    Waiters = {3, 4}
    Prio <- MCPrio
SPECIFICATION FlagsFairSpec
INVARIANTS BlockedOnlyIfUnset ReturnsWhatWasAwaited
PROPERTY SetFlagIsSeen
