SPECIFICATION Spec
CONSTANTS
    TaskIDs = {t1}
    Incidents = {i1}
    Rooms = {r1}
    Admins = {admin, a1}
    Requests = {q1, q2}
    AuditIDs = {l1}
    Intake <- NoIntake
    AdvanceArgs <- GateAdvances
    DefaultAdmin = admin
    TimeoutActor = hitl_timeout
    NoRequest = NoRequest
    MaxDecisions = 2
    MaxClock = 1
INVARIANTS
    StatusMatchesPhases
PROPERTIES
    RepairStartedByApproval
    OutstandingApprovalStable
SYMMETRY Symmetry
CHECK_DEADLOCK FALSE
