SPECIFICATION ServiceSpec
CONSTANTS
    r1 = r1
    r2 = r2
    t1 = t1
    t2 = t2
    t3 = t3
    Requests = {r1, r2}
    Jobs = {r1}
    MaxConcurrency = 1
    MaxWorkers = 1
    BusyErrors = TRUE
    States = {"new", "doing", "done", "failed"}
    InitialState = "new"
    TerminalStates = {"done", "failed"}
    Transitions <- Graph
    Callers = {t1, t2}
    MaxHistory = 3
    Limit = 2
    Window = 3
    Handlers = {t1, t2}
    From = 3
    MaxClock = 8
    Texts = {"a", "b"}
    Log <- AgentLog
    Recorders = {t1, t2}
    MaxTasks = 3
    MaxCrashes = 2
    Definitions <- TwoDefinitions
    Runners = {t1, t2}
    MaxRuns = 2
    Askers = {t1, t2, t3}
    Retries = 1
    Threshold = 2
    Cooldown = 2
    Models = {"a", "b"}
    Users = {t1, t2}
    MaxCached = 1
    Loads = {1, 2, 3, 4, 5, 6}
    MaxQueries = 4
    QueueSize = 1
    Workers = 1
    Numbers = {0, 1, 2}
    Ranges <- Requested
    MaxRegistered = 2
INVARIANTS
    ProcessSafe
    MachineSafe
    AdmissionSafe
    RecordsSafe
    AdaptersSafe
PROPERTIES
    VersionsHold
    ServiceProgress
CHECK_DEADLOCK FALSE
