SPECIFICATION FairSpec
CONSTANTS
    Instances = {m1, m2}
    NoOwner = NoOwner
    TTL = 6
    RenewInterval = 1
    StartTimeouts = {1, 7}
    AnswerTimeout = 1
    RequestTimeout = 1
    MaxFaults = 2
INVARIANTS
    OneLeader
PROPERTIES
    StaleLeaderDemoted
    DrainCompletes
    LeaderEmerges
