SPECIFICATION LoopSafety
CONSTANTS
    a1 = a1
    a2 = a2
    b1 = b1
    A = A
    B = B
    w1 = w1
    w2 = w2
    x = x
    y = y
    Url = {a1}
    Source = {A}
    SourceOf <- OneSource
    Worker = {w1, w2}
    Version = {x, y}
    Answers <- AnyAnswer
    Budget = 1
    RecheckBatch = 1
    ClaimTicks = 1
    RetryBase = 1
    RetryMax = 2
    AttemptCap = 2
    MaxFaults = 1
    Null = Null
    k1 = k1
    k2 = k2
    Kept = {k1, k2}
    Texts <- Kinds
    Worth <- Values
    Automatic = Automatic
    Admin = {m1}
    PromoteBatch = 1
    MaxLlmAttempts = 2
    AutoCritique = FALSE
    Target = {u1, u2}
    SubmitLimit = 1
    PollLimit = 1
    MaxTries = 2
    PollWait = 1
SYMMETRY Symmetry
CHECK_DEADLOCK FALSE
INVARIANTS
    TypeOK
    LeaseKept
    PromotionNotLost
    PromotionIsSound
    SavedOnce
PROPERTIES
    KeepsPosts
    BackoffKept
