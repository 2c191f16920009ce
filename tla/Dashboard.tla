------------------------------ MODULE Dashboard ------------------------------
(***************************************************************************)
(* The counts of /api/stats and their cache (routers/stats.py).            *)
(*                                                                         *)
(* Requests count in worker threads, one at a time under _stats_lock; the  *)
(* counts are separate queries (in any order here: none depends on         *)
(* another), each of which may fail while the tables change.  The answer   *)
(* is kept for Ttl ticks, counted from before the first query.             *)
(***************************************************************************)
EXTENDS Integers, FiniteSets

CONSTANTS
    Core,     \* counts without which an answer is not kept
    Extra,    \* counts of optional tables
    Visitor,  \* worker threads
    Ttl,      \* _STATS_TTL
    MaxRows   \* rows of a table (a bound)

Counted == Core \cup Extra
ASSUME DashboardAssumption == IsFiniteSet(Counted) /\ Ttl \in Nat \ {0} /\ MaxRows \in Nat

VARIABLES
    rows,      \* what each count would be now
    cache,     \* _stats_cache: the counts (none before the first) and the age that decides
               \* when they expire
    visitor,   \* what each request has counted, and since when
    counting,  \* requests that hold _stats_lock
    shown,     \* the last answer: its counts and how it was come by
    since      \* since[k][n]: how long ago count k really was n

dashboardVars == <<rows, cache, visitor, counting, shown, since>>

Failed == -1  \* None: the query failed
NoCounts == [k \in {} |-> 0]
Away == [pc |-> "away", counts |-> NoCounts, age |-> 0]
Kept(counts, age) == [counts |-> counts, age |-> age]
Answer(counts, by) == [counts |-> counts, by |-> by]
LongAgo == Ttl + 1

DashboardInit ==
    /\ rows \in [Counted -> 0..MaxRows]
    /\ cache = Kept(NoCounts, 0)
    /\ visitor = [v \in Visitor |-> Away]
    /\ counting = {}
    /\ shown = Answer(NoCounts, "nobody")
    /\ since = [k \in Counted |-> [n \in 0..MaxRows |-> IF n = rows[k] THEN 0 ELSE LongAgo]]

Cold == cache.counts = NoCounts

\* A request enters: the answer kept will do, or it begins to count.
Visit(v) ==
    /\ visitor[v].pc = "away" /\ counting = {}
    /\ IF ~Cold /\ cache.age < Ttl
       THEN shown' = Answer(cache.counts, "cache") /\ UNCHANGED <<visitor, counting>>
       ELSE /\ visitor' = [visitor EXCEPT ![v] = [Away EXCEPT !.pc = "count"]]
            /\ counting' = {v}
            /\ UNCHANGED shown
    /\ UNCHANGED <<rows, cache, since>>

\* _count: the number, or None when the query fails.
CountRows(v, k) ==
    LET done == DOMAIN visitor[v].counts IN
    /\ visitor[v].pc = "count" /\ k \notin done
    /\ \E n \in {rows[k], Failed} :
         visitor' = [visitor EXCEPT ![v].counts =
                       [i \in done \cup {k} |-> IF i = k THEN n ELSE @[i]]]
    /\ UNCHANGED <<rows, cache, counting, shown, since>>

FailedIn(counts) == {k \in DOMAIN counts : counts[k] = Failed}

Keeps(counts) == FailedIn(counts) \cap Core = {}

\* Variant: the old answer is good for another while.
Renewed == Kept(cache.counts, 0)

\* What remains of the cache when a count has failed.
AfterFailure == cache

\* The end of the counting: the new answer, kept when it is complete; or the
\* answer kept before, however old; or, at a cold start, what there is.
Conclude(v) ==
    LET counts == visitor[v].counts IN
    /\ visitor[v].pc = "count" /\ DOMAIN counts = Counted
    /\ IF Keeps(counts)
       THEN /\ cache' = Kept(counts, visitor[v].age)
            /\ shown' = Answer(counts, "counting")
       ELSE /\ cache' = AfterFailure
            /\ shown' = Answer(IF Cold THEN counts ELSE cache.counts, "failure")
    /\ visitor' = [visitor EXCEPT ![v] = Away]
    /\ counting' = {}
    /\ UNCHANGED <<rows, since>>

RowsChange(k) ==
    /\ \E n \in 0..MaxRows : /\ rows' = [rows EXCEPT ![k] = n]
                             /\ since' = [since EXCEPT ![k][n] = 0]
    /\ UNCHANGED <<cache, visitor, counting, shown>>

\* Ages beyond LongAgo do not differ.
Aged(age) == IF age > Ttl THEN age ELSE age + 1

DashboardTick ==
    /\ cache' = [cache EXCEPT !.age = Aged(@)]
    /\ visitor' = [v \in Visitor |-> IF v \in counting THEN [visitor[v] EXCEPT !.age = Aged(@)]
                                      ELSE visitor[v]]
    /\ since' = [k \in Counted |-> [n \in 0..MaxRows |->
                  IF n = rows[k] THEN 0 ELSE Aged(since[k][n])]]
    /\ UNCHANGED <<rows, counting, shown>>

DashboardNext ==
    \/ \E v \in Visitor : Visit(v) \/ Conclude(v) \/ \E k \in Counted : CountRows(v, k)
    \/ \E k \in Counted : RowsChange(k)
    \/ DashboardTick

DashboardSpec == DashboardInit /\ [][DashboardNext]_dashboardVars
-----------------------------------------------------------------------------
(* Properties *)

\* A failed count of Core is never shown as a 0 once there has been a complete
\* answer (stats.py:135-136), nor at a cold start to anybody but the request that
\* met it: the 0 is not kept.
NoFalseZero ==
    /\ FailedIn(cache.counts) \cap Core = {}
    /\ FailedIn(shown.counts) \cap Core # {} => shown.by = "failure" /\ Cold

\* Whatever the cache answers to those who come later, each count that did not
\* fail was really that number less than Ttl ago, however long the counting took,
\* whatever failed since and however the tables changed.  A count of Extra that
\* failed is kept with the others (stats.py:108-133, although 207 says that no
\* failure is), and for as long is a 0 to everybody.
ServedIsRecent ==
    ~Cold /\ cache.age < Ttl =>
        \A k \in Counted \ FailedIn(cache.counts) : since[k][cache.counts[k]] < Ttl

\* No old number is taken for a new one, and a failed count of Core for no 0.
CountsAreHonest == NoFalseZero /\ ServedIsRecent
=============================================================================
