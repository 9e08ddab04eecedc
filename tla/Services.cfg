CONSTANTS
    Proposals = {p1}
    Payloads = {y1}
    Events = {e1}
    NoEvent = NoEvent
    Callers = {}
    MaxClock = 2
    MaxPauses = 1
    Executors = {x1, x2}
    Drills = {x2}
    Lease = 1
    MaxExecFaults = 1
    x1 = x1
    x2 = x2
    m1 = m1
    m2 = m2
    c1 = c1
    c2 = c2
    i1 = i1
    i2 = i2
    Calls = {c1, c2}
    Instances = {i1, i2}
    Homes <- MCHomes
    Requests <- MCRequests
    Keys = {"k1"}
    Wirings <- MCWirings
    MaxRetryCount = 1
    MaxAttempts = 32
    MaxFaults = 1
    FlowNodes = {"t", "a", "b", "c", "h"}
    FlowGraphs <- MCFlowGraphs
    EntryTypes = {"manual", "alert"}
    MaxConcurrentNodes = 2
    MaxFlowFaults = 1
    Managers = {m1, m2}
    Flows = {"f1"}
    Periods = {1}
    NextAfter <- MCNextAfter
    MaxTime = 2
    MaxEdits = 1
    MaxCronFaults = 1
    Evaluators = {m1, m2}
    Series = {"s1"}
    MaxChanges = 3
    MaxAlertFaults = 1
    Workers = {m1, m2}
    RetryAttempts = 5
    MaxDeliveryFaults = 2
    Pods = {m1, m2}
    Turns = {u1, u2}
    Stops = {s1}
    NoPod = NoPod
    NoTurn = NoTurn
    MaxChatFaults = 1
    Plugins = {"logs"}
    Configs = {"cfg1", "cfg2"}
    Off = "off"
    NoPlugin = "none"
    EnvSnapshots <- MCEnvSnapshots
    MaxSets = 2
    MaxPluginFaults = 1
    Nodes = {m1, m2}
    IncidentIDs = {"inc1"}
    Requesters = {q1, q2}
    NoReport = NoReport
    MaxConcurrent = 1
    MaxForces = 1
    MaxInvFaults = 2
SPECIFICATION ServicesFairSpec
CHECK_DEADLOCK FALSE
INVARIANTS
    ContractBeforeEvent FirstWalkReported
    ExecutedOnce VerdictHonest VerdictLands
    OncePerOccurrence NoBurst
    DispatchPerRecurrence
    SerialTurnStoppable
    OneChild HealthHonest NoChildLeft
    PermitsPaired OneInvestigation AnswerOfItsRun
PROPERTIES
    ReservationSettles ImplementsPhaseMachine RunSettles DueMovesOn StatusConverges RetriesEnd
    ConfirmedStopEnds ConfigApplied ReadyStays ReportSettles
