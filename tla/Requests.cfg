SPECIFICATION Spec
CONSTANTS
    p1 = p1
    p2 = p2
    Category = {kindness, critique}
    Post = {p1, p2}
    OnTopic <- Topics
    News = {p1}
    Rich = {p1}
    Community = {p1}
    Lost = {p2}
    Draft = {d1, d2, d3}
    MaxPromoted = 1
    Hunter = Hunter
    Request = {r1}
    HunterCap = 1
    StoryCap = 1
    Attempts = 2
    GeminiKey = TRUE
    Client = {a, b, c}
    PerIp = 2
    Global = 3
    Window = 2
    BucketCap = 2
    Message = {"m1", "m2"}
    Event = {"e1", "e2", "e3", "e4"}
    Invalid = {"e4"}
    Conversation <- Talks
    Time = {1, 2}
    Sourced = {"e1"}
    Placed = {"e1", "e3"}
    Dated = {"e1", "e3", "e4"}
    EventId <- Ids
    Participants <- Actors
    Novelty <- News1
    Core = {k1}
    Extra = {k2}
    Visitor = {w1, w2}
    Ttl = 2
    MaxRows = 1
    Told = {s1}
    Secret = {x1, x2}
    Payment = {y1, y2}
    Good = {y1}
    Handler = {h1, h2}
    Settles = TRUE
    Archived = {t1, t2}
    Reader = {q1, q2}
    MaxVerdicts = 1
    VerdictTtl = 2
    Url = {u1, u2}
    Object = {html, image}
    Writer = {v1, v2}
    Directory = {c1, c2}
    StoreLimit = 7
    Key = {i1, i2}
    Value = {n1, n2}
    Bad = Bad
    Absent = Absent
    Thread = {j1, j2}
    BatchLength = 2
    MaxFaults = 1
SYMMETRY Symmetries
CHECK_DEADLOCK FALSE
INVARIANTS
    StoriesAreSound
    PendingBounded
    LimitsHold
    TasksAreHonest
    OneMemoryEach
    CountsAreHonest
    PaidIsGiven
    CacheIsBounded
    StoreIsSound
PROPERTIES
    CallsAreWhole
    KeepsVersions
