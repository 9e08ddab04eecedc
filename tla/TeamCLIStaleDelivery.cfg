SPECIFICATION CLISpec
CONSTANTS
    TaskIDs = {t1}
    Incidents = {i1}
    Rooms = {r1}
    Admins = {a1}
    Requests = {q1, q2}
    AuditIDs = {}
    Intake <- NoIntake
    AdvanceArgs <- Reopened
    DefaultAdmin = admin
    TimeoutActor = hitl_timeout
    NoRequest = NoRequest
    MaxDecisions = 2
    MaxClock = 2
    Monitor = monitor
    Operators = {op}
    HitlFlags = {}
    Timeout = 1
    MaxCrashes = 0
INVARIANTS
    DeliveredWasPosted
CHECK_DEADLOCK FALSE
