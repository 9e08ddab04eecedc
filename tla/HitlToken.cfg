CONSTANTS
    Proposals = {p1}
    Payloads = {y1, y2}
    Events = {e1, e2}
    NoEvent = NoEvent
    Callers = {c1, c2}
    MaxClock = 1
    MaxPauses = 1
SPECIFICATION Spec
CHECK_DEADLOCK FALSE
INVARIANT TokenIffPaused
