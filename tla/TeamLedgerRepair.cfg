SPECIFICATION Spec
CONSTANTS
    TaskIDs = {t1}
    Incidents = {i1}
    Rooms = {r1}
    Admins = {admin, a1}
    Requests = {q1}
    AuditIDs = {}
    Intake <- NoIntake
    AdvanceArgs <- GateAdvances
    DefaultAdmin = admin
    TimeoutActor = hitl_timeout
    NoRequest = NoRequest
    MaxDecisions = 2
    MaxClock = 0
INVARIANTS
    RepairNeedsApproval
CHECK_DEADLOCK FALSE
