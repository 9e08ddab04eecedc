CONSTANTS
    Proposals = {p1}
    Payloads = {y1, y2}
    Events = {e1, e2}
    NoEvent = NoEvent
    Callers = {c1}
    MaxClock = 1
    MaxPauses = 1
    Executors = {x1, x2, x3}
    Drills = {x3}
    Lease = 1
    MaxExecFaults = 1
SPECIFICATION RecoverySpec
CHECK_DEADLOCK FALSE
SYMMETRY Symmetry
INVARIANT AnswersTruthful
INVARIANT OneMutation
INVARIANT MutationAuthorised
PROPERTY ExecutedByItsHolder
