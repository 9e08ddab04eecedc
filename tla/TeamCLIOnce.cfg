SPECIFICATION CLIFairSpec
CONSTANTS
    TaskIDs = {t1, t2}
    Incidents = {i1, i2}
    Rooms = {r1, r2}
    Admins = {a1}
    Requests = {q1}
    AuditIDs = {}
    Intake <- NoIntake
    AdvanceArgs <- OneRound
    DefaultAdmin = admin
    TimeoutActor = hitl_timeout
    NoRequest = NoRequest
    MaxDecisions = 1
    MaxClock = 3
    Monitor = monitor
    Operators = {}
    HitlFlags = {}
    Timeout = 1
    MaxCrashes = 1
INVARIANTS
    DeliveredWasPosted
PROPERTIES
    EscalationDelivered
    OverdueIsDecided
CHECK_DEADLOCK FALSE
