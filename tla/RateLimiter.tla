----------------------------- MODULE RateLimiter -----------------------------
(***************************************************************************)
(* The limit on story generation (services/ratelimit.py): a sliding window *)
(* per client and one for all clients together.                            *)
(*                                                                         *)
(* check_story_ratelimit runs in the event loop without an await, so one   *)
(* request is one step.  Entries are kept by their age in ticks; an entry  *)
(* that is too old stays until somebody looks at its bucket, as in the     *)
(* code, and only its being too old matters (age Window + 1).              *)
(***************************************************************************)
EXTENDS Integers, Sequences, FiniteSets

CONSTANTS
    Client,      \* IP addresses
    PerIp,       \* STORY_RATELIMIT_PER_IP
    Global,      \* STORY_RATELIMIT_GLOBAL
    Window,      \* STORY_RATELIMIT_WINDOW_SEC, in ticks
    BucketCap    \* buckets that may exist before the empty ones are removed (the code: 4096)

ASSUME LimitAssumption == {PerIp, Global, Window, BucketCap} \subseteq Nat \ {0}

VARIABLES
    bucket,      \* _ip_limiter._events: ages, oldest first; its domain are the keys
    total,       \* _global_limiter._events, the one key it has
    accepted     \* the past: accepted requests of the last Window ticks

limiterVars == <<bucket, total, accepted>>

LimiterInit == bucket = <<>> /\ total = <<>> /\ accepted = <<>>

\* What the loop over dq[0] < cutoff drops: an entry exactly as old as the window
\* stays.
Stale(ages) == {i \in DOMAIN ages : \A j \in 1 .. i : ages[j] > Window}
Recent(q) == SubSeq(q, Cardinality(Stale(q)) + 1, Len(q))

Entries(c) == IF c \in DOMAIN bucket THEN bucket[c] ELSE <<>>

\* _prune: drop old entries, then the buckets without any.
Prune(b) == [c \in {d \in DOMAIN b : Recent(b[d]) # <<>>} |-> Recent(b[c])]

\* peek drops old entries of a bucket that is there.
Looked(c) == [d \in DOMAIN bucket |-> IF d = c THEN Recent(bucket[d]) ELSE bucket[d]]

\* hit: append, and prune when there are too many buckets.
Hit(c) ==
    LET b == [d \in DOMAIN bucket \cup {c} |->
                IF d = c THEN Append(Recent(Entries(c)), 0) ELSE bucket[d]] IN
    IF Cardinality(DOMAIN b) > BucketCap THEN Prune(b) ELSE b

ClientHasRoom(c) == Len(Recent(Entries(c))) < PerIp
AllHaveRoom == Len(Recent(total)) < Global

\* check_story_ratelimit lets the request pass and records it twice.
Accept(c) ==
    /\ ClientHasRoom(c) /\ AllHaveRoom
    /\ bucket' = Hit(c)
    /\ total' = Append(Recent(total), 0)
    /\ accepted' = Append(accepted, [client |-> c, age |-> 0])

\* Variant: the client's slot is taken before the others are asked.
RefuseAfterHit(c) ==
    /\ ~(ClientHasRoom(c) /\ AllHaveRoom)
    /\ bucket' = IF ClientHasRoom(c) THEN Hit(c) ELSE Looked(c)
    /\ total' = IF ClientHasRoom(c) THEN Recent(total) ELSE total
    /\ UNCHANGED accepted

\* 429.  The global window is looked at only if the client's has room.
Refuse(c) ==
    /\ ~(ClientHasRoom(c) /\ AllHaveRoom)
    /\ bucket' = Looked(c)
    /\ total' = IF ClientHasRoom(c) THEN Recent(total) ELSE total
    /\ UNCHANGED accepted

Older(age) == IF age > Window THEN age ELSE age + 1
AllOlder(q) == [i \in DOMAIN q |-> Older(q[i])]

LimiterTick ==
    /\ bucket' = [c \in DOMAIN bucket |-> AllOlder(bucket[c])]
    /\ total' = AllOlder(total)
    /\ LET past == [i \in DOMAIN accepted |-> [accepted[i] EXCEPT !.age = Older(@)]]
           ages == [i \in DOMAIN accepted |-> past[i].age] IN
       accepted' = SubSeq(past, Cardinality(Stale(ages)) + 1, Len(past))

LimiterNext == LimiterTick \/ \E c \in Client : Accept(c) \/ Refuse(c)

LimiterSpec == LimiterInit /\ [][LimiterNext]_limiterVars
-----------------------------------------------------------------------------
(* Properties *)

AcceptedOf(c) == {i \in DOMAIN accepted : accepted[i].client = c}

\* In no window of the configured length do more requests pass than the
\* configuration allows, per client and together (ratelimit.py:4-6), whatever
\* removal of buckets did in between.
WindowLimit ==
    /\ \A c \in Client : Cardinality(AcceptedOf(c)) <= PerIp
    /\ Len(accepted) <= Global

\* A refused request uses no slot of either window (ratelimit.py:121-122), and
\* no accepted one is forgotten while it counts.
RefusedCostsNothing ==
    /\ \A c \in Client : Len(Recent(Entries(c))) = Cardinality(AcceptedOf(c))
    /\ Len(Recent(total)) = Len(accepted)

\* Clients that come once and never again do not fill the memory
\* (ratelimit.py:70-71): the global limit bounds the buckets still in use, the
\* pruning the others.
BucketsBounded ==
    Cardinality(DOMAIN bucket) <= IF Global > BucketCap THEN Global ELSE BucketCap

\* The limiter keeps its limits, exactly and in bounded memory, although entries
\* age in three places and buckets come and go.
LimitsHold == WindowLimit /\ RefusedCostsNothing /\ BucketsBounded
=============================================================================
