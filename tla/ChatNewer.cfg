SPECIFICATION ChatSpec
CONSTANTS
    Pods = {m1}
    Turns = {u1, u2}
    Stops = {}
    NoPod = NoPod
    NoTurn = NoTurn
    MaxChatFaults = 0
INVARIANT
    NewerTurnKept
CHECK_DEADLOCK FALSE
