CONSTANTS
    MAXTHREADS = 4
    SCHED_PRIO_LEVELS = 3
    Port = "cortexm"
    Window = TRUE
    MainPrio = 1
    CreatePrios = {0, 1}
SPECIFICATION FairSpec
INVARIANTS TypeOK RunqueuesAgree RunnerIsFirst TableAgrees PriorityRespected
PROPERTY UrgentThreadRuns
