SPECIFICATION FairSpec
CONSTANTS
    Instances = {m1, m2}
    NoOwner = NoOwner
    TTL = 15
    RenewInterval = 5
    StartTimeouts = {5}
    AnswerTimeout = 0
    RequestTimeout = 2
    MaxFaults = 0
PROPERTY
    ResignedFollows
