------------------------------ MODULE StoreProofs ------------------------------
(***************************************************************************)
(* Theorems about what is kept for whoever asks later: counts (Dashboard), *)
(* verdicts (Verification), captures (CaptureStore), and the tasks and     *)
(* memories of the Witness.                                                *)
(***************************************************************************)
EXTENDS Dashboard, Verification, CaptureStore, Witness, SequenceTheorems, FiniteSetTheorems, TLAPS

-----------------------------------------------------------------------------
(* Counts and their cache *)

\* Counts were true when they were taken: a count that did not fail was that number
\* no longer ago than the age says, which runs from before the first query.
WereTrue(counts, age) ==
    \A k \in DOMAIN counts :
        counts[k] # Failed => /\ k \in Counted /\ counts[k] \in 0..MaxRows
                              /\ since[k][counts[k]] <= age

CountsType ==
    /\ rows \in [Counted -> 0..MaxRows]
    /\ since \in [Counted -> [0..MaxRows -> Nat]]
    /\ cache = Kept(cache.counts, cache.age) /\ cache.age \in Nat
    /\ DOMAIN visitor = Visitor
    /\ \A v \in Visitor : /\ visitor[v].age \in Nat
                          /\ DOMAIN visitor[v] = {"pc", "counts", "age"}

\* One request counts at a time, and what it has counted is true for as long as its
\* age says; so is what is kept, and it is complete.
CountsInv ==
    /\ CountsType
    /\ \A k \in Counted : since[k][rows[k]] = 0
    /\ \A v \in Visitor : IF visitor[v].pc = "count" THEN counting = {v}
                          ELSE visitor[v].counts = NoCounts
    /\ \A v \in Visitor : WereTrue(visitor[v].counts, visitor[v].age)
    /\ WereTrue(cache.counts, cache.age)
    /\ Cold \/ DOMAIN cache.counts = Counted
    /\ NoFalseZero

LEMMA FailedIsNoCount == Failed \notin 0..MaxRows
BY DEF Failed

LEMMA NothingCounted ==
    /\ DOMAIN NoCounts = {} /\ FailedIn(NoCounts) = {}
    /\ Away.counts = NoCounts /\ Away.age = 0 /\ Away.pc = "away"
    /\ DOMAIN Away = {"pc", "counts", "age"}
BY DEF NoCounts, FailedIn, Away

LEMMA AnswerIs ==
    ASSUME NEW counts, NEW by
    PROVE  Answer(counts, by).counts = counts /\ Answer(counts, by).by = by
BY DEF Answer

LEMMA KeptIs ==
    ASSUME NEW counts, NEW age
    PROVE  Kept(counts, age).counts = counts /\ Kept(counts, age).age = age
BY DEF Kept

LEMMA CountsInitially == DashboardInit => CountsInv
<1> SUFFICES ASSUME DashboardInit PROVE CountsInv
  OBVIOUS
<1>1. /\ cache.counts = NoCounts /\ cache.age = 0 /\ shown.counts = NoCounts
      /\ \A v \in Visitor : visitor[v] = Away
  BY AnswerIs, KeptIs DEF DashboardInit
<1>2. CountsType
  BY <1>1, NothingCounted, DashboardAssumption DEF DashboardInit, CountsType, LongAgo
<1>3. \A k \in Counted : since[k][rows[k]] = 0
  BY DEF DashboardInit
<1>4. WereTrue(NoCounts, 0)
  BY NothingCounted DEF WereTrue
<1>5. NoFalseZero /\ Cold
  BY <1>1, NothingCounted DEF NoFalseZero, Cold
<1> QED BY <1>1, <1>2, <1>3, <1>4, <1>5, NothingCounted DEF CountsInv

LEMMA VisitKeeps ==
    ASSUME CountsInv, NEW v \in Visitor, Visit(v)
    PROVE  CountsInv'
<1>1. UNCHANGED <<rows, cache, since>>
  BY DEF Visit
<1>2. CASE /\ shown' = Answer(cache.counts, "cache") /\ UNCHANGED <<visitor, counting>>
  <2>1. shown'.counts = cache.counts
    BY <1>2, AnswerIs
  <2>2. NoFalseZero'
    BY <1>1, <2>1 DEF CountsInv, NoFalseZero, FailedIn
  <2> QED BY <1>1, <1>2, <2>2 DEF CountsInv, CountsType, WereTrue, Cold
<1>3. CASE /\ visitor' = [visitor EXCEPT ![v] = [Away EXCEPT !.pc = "count"]]
           /\ counting' = {v} /\ UNCHANGED shown
  <2> DEFINE begun == [Away EXCEPT !.pc = "count"]
  <2>1. /\ begun.pc = "count" /\ begun.counts = NoCounts /\ begun.age = 0
        /\ DOMAIN begun = {"pc", "counts", "age"}
    BY DEF Away
  <2> HIDE DEF begun
  <2>2. /\ DOMAIN visitor' = Visitor
        /\ \A w \in Visitor : visitor'[w] = IF w = v THEN begun ELSE visitor[w]
    BY <1>3 DEF CountsInv, CountsType, begun
  <2>3. \A w \in Visitor \ {v} : visitor[w].pc # "count"
    <3>1. counting = {}
      BY DEF Visit
    <3> QED BY <3>1 DEF CountsInv
  <2>4. WereTrue(NoCounts, 0)'
    BY NothingCounted DEF WereTrue, NoCounts
  <2>5. CountsType'
    BY <1>1, <2>1, <2>2 DEF CountsInv, CountsType
  <2>6. \A w \in Visitor : WereTrue(visitor[w].counts, visitor[w].age)'
    BY <1>1, <2>1, <2>2, <2>4 DEF CountsInv, WereTrue
  <2>7. NoFalseZero' /\ WereTrue(cache.counts, cache.age)' /\ (Cold \/ DOMAIN cache.counts = Counted)'
    BY <1>1, <1>3 DEF CountsInv, NoFalseZero, WereTrue, Cold, FailedIn
  <2> QED BY <1>1, <1>3, <2>1, <2>2, <2>3, <2>5, <2>6, <2>7 DEF CountsInv
<1> QED BY <1>2, <1>3 DEF Visit

LEMMA CountRowsKeeps ==
    ASSUME CountsInv, NEW v \in Visitor, NEW k \in Counted, CountRows(v, k)
    PROVE  CountsInv'
<1> DEFINE done == DOMAIN visitor[v].counts
           more(n) == [i \in done \cup {k} |-> IF i = k THEN n ELSE visitor[v].counts[i]]
<1>1. PICK n \in {rows[k], Failed} : visitor' = [visitor EXCEPT ![v].counts = more(n)]
  BY DEF CountRows
<1>2. UNCHANGED <<rows, cache, counting, shown, since>> /\ visitor[v].pc = "count"
  BY DEF CountRows
<1> DEFINE counts == more(n)
<1>3. DOMAIN counts = done \cup {k} /\ \A i \in done \cup {k} :
        counts[i] = IF i = k THEN n ELSE visitor[v].counts[i]
  OBVIOUS
<1> HIDE DEF counts
<1>4. /\ DOMAIN visitor' = Visitor
      /\ visitor'[v].counts = counts /\ visitor'[v].age = visitor[v].age
      /\ visitor'[v].pc = "count" /\ DOMAIN visitor'[v] = {"pc", "counts", "age"}
      /\ \A w \in Visitor \ {v} : visitor'[w] = visitor[w]
  BY <1>1, <1>2 DEF CountsInv, CountsType, counts
<1>5. WereTrue(counts, visitor[v].age)
  <2>1. n # Failed => n \in 0..MaxRows /\ since[k][n] <= visitor[v].age
    BY DEF CountsInv, CountsType
  <2> QED BY <1>3, <2>1 DEF CountsInv, WereTrue
<1>6. WereTrue(visitor[v].counts, visitor[v].age)'
  BY <1>2, <1>4, <1>5 DEF WereTrue
<1>7. \A w \in Visitor \ {v} : WereTrue(visitor[w].counts, visitor[w].age)'
  BY <1>2, <1>4 DEF CountsInv, WereTrue
<1>8. CountsType' /\ NoFalseZero' /\ WereTrue(cache.counts, cache.age)'
      /\ (Cold \/ DOMAIN cache.counts = Counted)'
  BY <1>2, <1>4 DEF CountsInv, CountsType, NoFalseZero, WereTrue, Cold, FailedIn
<1> QED BY <1>2, <1>4, <1>6, <1>7, <1>8 DEF CountsInv

LEMMA ConcludeKeeps ==
    ASSUME CountsInv, NEW v \in Visitor, Conclude(v)
    PROVE  CountsInv'
<1> DEFINE counts == visitor[v].counts
           age == visitor[v].age
<1>1. /\ UNCHANGED <<rows, since>> /\ visitor' = [visitor EXCEPT ![v] = Away]
      /\ counting' = {} /\ visitor[v].pc = "count" /\ DOMAIN counts = Counted
  BY DEF Conclude
<1>2. /\ DOMAIN visitor' = Visitor
      /\ \A w \in Visitor : visitor'[w] = IF w = v THEN Away ELSE visitor[w]
  BY <1>1 DEF CountsInv, CountsType
<1>3. \A w \in Visitor \ {v} : visitor[w].pc # "count"
  BY <1>1 DEF CountsInv
<1>4. WereTrue(NoCounts, 0)' /\ WereTrue(counts, age)
  BY NothingCounted DEF WereTrue, NoCounts, CountsInv
<1>5. \A w \in Visitor : WereTrue(visitor[w].counts, visitor[w].age)'
  BY <1>1, <1>2, <1>4, NothingCounted DEF CountsInv, WereTrue
<1>6. /\ CountsType /\ age \in Nat
  BY DEF CountsInv, CountsType
<1>7. \A w \in Visitor : IF visitor'[w].pc = "count" THEN counting' = {w}
                         ELSE visitor'[w].counts = NoCounts
  BY <1>2, <1>3, NothingCounted DEF CountsInv
<1>8. CASE Keeps(counts) /\ cache' = Kept(counts, age) /\ shown' = Answer(counts, "counting")
  <2>1. /\ cache'.counts = counts /\ cache'.age = age /\ shown'.counts = counts
    BY <1>8, KeptIs, AnswerIs
  <2>2. CountsType'
    BY <1>1, <1>2, <1>6, <1>8, <2>1, NothingCounted DEF CountsType
  <2>3. NoFalseZero' /\ DOMAIN cache'.counts = Counted
    BY <1>1, <1>8, <2>1 DEF NoFalseZero, Keeps, FailedIn
  <2>4. WereTrue(cache.counts, cache.age)'
    BY <1>1, <1>4, <2>1 DEF WereTrue
  <2> QED BY <1>1, <1>5, <1>7, <2>2, <2>3, <2>4 DEF CountsInv
<1>9. CASE UNCHANGED cache /\ shown' = Answer(IF Cold THEN counts ELSE cache.counts, "failure")
  <2>1. /\ shown'.by = "failure" /\ shown'.counts = IF Cold THEN counts ELSE cache.counts
    BY <1>9, AnswerIs
  <2>2. CountsType'
    BY <1>1, <1>2, <1>6, <1>9, NothingCounted DEF CountsType
  <2>3. NoFalseZero' /\ (Cold \/ DOMAIN cache.counts = Counted)'
    BY <1>9, <2>1 DEF CountsInv, NoFalseZero, Cold, FailedIn
  <2>4. WereTrue(cache.counts, cache.age)'
    BY <1>1, <1>9 DEF WereTrue, CountsInv
  <2> QED BY <1>1, <1>5, <1>7, <2>2, <2>3, <2>4 DEF CountsInv
<1> QED BY <1>8, <1>9 DEF Conclude, AfterFailure

\* A change of the tables makes no number older.
LEMMA RowsChangeKeeps ==
    ASSUME CountsInv, NEW k \in Counted, RowsChange(k)
    PROVE  CountsInv'
<1>1. UNCHANGED <<cache, visitor, counting, shown>>
  BY DEF RowsChange
<1>2. PICK n \in 0..MaxRows : /\ rows' = [rows EXCEPT ![k] = n]
                              /\ since' = [since EXCEPT ![k][n] = 0]
  BY DEF RowsChange
<1>3. /\ rows' \in [Counted -> 0..MaxRows] /\ since' \in [Counted -> [0..MaxRows -> Nat]]
      /\ \A i \in Counted : since'[i][rows'[i]] = 0
      /\ \A i \in Counted, m \in 0..MaxRows : since'[i][m] <= since[i][m]
  <2>1. rows \in [Counted -> 0..MaxRows] /\ since \in [Counted -> [0..MaxRows -> Nat]]
    BY DEF CountsInv, CountsType
  <2>2. \A i \in Counted : since[i][rows[i]] = 0
    BY DEF CountsInv
  <2>3. rows' \in [Counted -> 0..MaxRows] /\ since' \in [Counted -> [0..MaxRows -> Nat]]
    BY <1>2, <2>1
  <2>4. \A i \in Counted, m \in 0..MaxRows :
          since'[i][m] = IF i = k /\ m = n THEN 0 ELSE since[i][m]
    BY <1>2, <2>1
  <2>5. \A i \in Counted : rows'[i] = IF i = k THEN n ELSE rows[i]
    BY <1>2, <2>1
  <2>6. \A i \in Counted : since'[i][rows'[i]] = 0
    <3> SUFFICES ASSUME NEW i \in Counted PROVE since'[i][rows'[i]] = 0
      OBVIOUS
    <3>1. rows'[i] \in 0..MaxRows
      BY <2>3
    <3> QED BY <2>2, <2>4, <2>5, <3>1
  <2>7. \A i \in Counted, m \in 0..MaxRows : since'[i][m] <= since[i][m]
    <3> SUFFICES ASSUME NEW i \in Counted, NEW m \in 0..MaxRows PROVE since'[i][m] <= since[i][m]
      OBVIOUS
    <3>1. since[i][m] \in Nat
      BY <2>1
    <3> QED BY <2>4, <3>1
  <2> QED BY <2>3, <2>6, <2>7
<1>4. ASSUME NEW counts, NEW age \in Nat, WereTrue(counts, age)
      PROVE  \A i \in DOMAIN counts :
               counts[i] # Failed => /\ i \in Counted /\ counts[i] \in 0..MaxRows
                                     /\ since'[i][counts[i]] <= age
  <2> SUFFICES ASSUME NEW i \in DOMAIN counts, counts[i] # Failed
               PROVE  i \in Counted /\ counts[i] \in 0..MaxRows /\ since'[i][counts[i]] <= age
    OBVIOUS
  <2>1. i \in Counted /\ counts[i] \in 0..MaxRows /\ since[i][counts[i]] <= age
    BY <1>4 DEF WereTrue
  <2>2. since'[i][counts[i]] \in Nat /\ since[i][counts[i]] \in Nat
    BY <1>3, <2>1 DEF CountsInv, CountsType
  <2> QED BY <1>3, <2>1, <2>2
<1>5. \A v \in Visitor : WereTrue(visitor[v].counts, visitor[v].age)'
  <2> SUFFICES ASSUME NEW v \in Visitor PROVE WereTrue(visitor[v].counts, visitor[v].age)'
    OBVIOUS
  <2>1. visitor[v].age \in Nat /\ WereTrue(visitor[v].counts, visitor[v].age)
    BY DEF CountsInv, CountsType
  <2> QED BY <1>1, <1>4, <2>1 DEF WereTrue
<1>6. WereTrue(cache.counts, cache.age)'
  <2>1. cache.age \in Nat /\ WereTrue(cache.counts, cache.age)
    BY DEF CountsInv, CountsType
  <2> QED BY <1>1, <1>4, <2>1 DEF WereTrue
<1>7. CountsType' /\ NoFalseZero' /\ (Cold \/ DOMAIN cache.counts = Counted)'
  BY <1>1, <1>3 DEF CountsInv, CountsType, NoFalseZero, Cold, FailedIn
<1> QED BY <1>1, <1>3, <1>5, <1>6, <1>7 DEF CountsInv

\* Time makes all ages grow alike, up to a bound above Ttl.
LEMMA AgesGrowAlike ==
    ASSUME NEW a \in Nat, NEW b \in Nat, a <= b
    PROVE  Aged(a) \in Nat /\ Aged(b) \in Nat /\ Aged(a) <= Aged(b)
BY DashboardAssumption DEF Aged

LEMMA DashboardTickKeeps ==
    ASSUME CountsInv, DashboardTick
    PROVE  CountsInv'
<1>1. UNCHANGED <<rows, counting, shown>>
  BY DEF DashboardTick
<1>2. /\ cache' = Kept(cache.counts, Aged(cache.age))
      /\ cache'.counts = cache.counts /\ cache'.age = Aged(cache.age)
  BY DEF DashboardTick, CountsInv, CountsType, Kept
<1>3. /\ DOMAIN visitor' = Visitor
      /\ \A v \in Visitor :
           /\ visitor'[v].pc = visitor[v].pc /\ visitor'[v].counts = visitor[v].counts
           /\ visitor'[v].age = IF v \in counting THEN Aged(visitor[v].age) ELSE visitor[v].age
           /\ DOMAIN visitor'[v] = {"pc", "counts", "age"}
  BY DEF DashboardTick, CountsInv, CountsType
<1>4. \A k \in Counted, n \in 0..MaxRows :
        since'[k][n] = IF n = rows[k] THEN 0 ELSE Aged(since[k][n])
  BY DEF DashboardTick
<1>5. since' \in [Counted -> [0..MaxRows -> Nat]]
  <2>1. ASSUME NEW k \in Counted, NEW n \in 0..MaxRows PROVE Aged(since[k][n]) \in Nat
    <3>1. since[k][n] \in Nat
      BY DEF CountsInv, CountsType
    <3> QED BY <3>1, AgesGrowAlike
  <2> DEFINE old(k) == [n \in 0..MaxRows |-> IF n = rows[k] THEN 0 ELSE Aged(since[k][n])]
  <2>2. since' = [k \in Counted |-> old(k)]
    BY DEF DashboardTick
  <2>3. \A k \in Counted : old(k) \in [0..MaxRows -> Nat]
    BY <2>1
  <2> HIDE DEF old
  <2> QED BY <2>2, <2>3
<1>6. ASSUME NEW counts, NEW age \in Nat, WereTrue(counts, age)
      PROVE  \A k \in DOMAIN counts :
               counts[k] # Failed => /\ k \in Counted /\ counts[k] \in 0..MaxRows
                                     /\ since'[k][counts[k]] <= Aged(age)
  <2> SUFFICES ASSUME NEW k \in DOMAIN counts, counts[k] # Failed
               PROVE  k \in Counted /\ counts[k] \in 0..MaxRows /\ since'[k][counts[k]] <= Aged(age)
    OBVIOUS
  <2>1. k \in Counted /\ counts[k] \in 0..MaxRows /\ since[k][counts[k]] <= age
    BY <1>6 DEF WereTrue
  <2>2. since[k][counts[k]] \in Nat
    BY <2>1 DEF CountsInv, CountsType
  <2>3. Aged(since[k][counts[k]]) <= Aged(age) /\ Aged(age) \in Nat
    BY <2>1, <2>2, AgesGrowAlike
  <2> QED BY <1>4, <2>1, <2>3
<1>7. \A v \in Visitor : WereTrue(visitor[v].counts, visitor[v].age)'
  <2> SUFFICES ASSUME NEW v \in Visitor PROVE WereTrue(visitor[v].counts, visitor[v].age)'
    OBVIOUS
  <2>1. visitor[v].age \in Nat /\ WereTrue(visitor[v].counts, visitor[v].age)
    BY DEF CountsInv, CountsType
  <2>2. CASE v \in counting
    BY <1>3, <1>6, <2>1, <2>2 DEF WereTrue
  <2>3. CASE v \notin counting
    <3>1. visitor'[v].counts = NoCounts
      BY <1>3, <2>3 DEF CountsInv
    <3> QED BY <3>1, NothingCounted DEF WereTrue
  <2> QED BY <2>2, <2>3
<1>8. WereTrue(cache.counts, cache.age)'
  <2>1. cache.age \in Nat /\ WereTrue(cache.counts, cache.age)
    BY DEF CountsInv, CountsType
  <2> QED BY <1>2, <1>6, <2>1 DEF WereTrue
<1>9. CountsType'
  <2>1. \A v \in Visitor : visitor'[v].age \in Nat
    BY <1>3, AgesGrowAlike DEF CountsInv, CountsType
  <2>2. cache'.age \in Nat
    BY <1>2, AgesGrowAlike DEF CountsInv, CountsType
  <2> QED BY <1>1, <1>2, <1>3, <1>5, <2>1, <2>2 DEF CountsInv, CountsType
<1>10. NoFalseZero' /\ (Cold \/ DOMAIN cache.counts = Counted)'
  BY <1>1, <1>2 DEF CountsInv, NoFalseZero, Cold, FailedIn
<1>11. \A k \in Counted : since'[k][rows'[k]] = 0
  BY <1>1, <1>4 DEF CountsInv, CountsType
<1> QED BY <1>1, <1>3, <1>7, <1>8, <1>9, <1>10, <1>11 DEF CountsInv

LEMMA CountsPreserved == CountsInv /\ [DashboardNext]_dashboardVars => CountsInv'
<1> SUFFICES ASSUME CountsInv, [DashboardNext]_dashboardVars PROVE CountsInv'
  OBVIOUS
<1>1. CASE UNCHANGED dashboardVars
  BY <1>1 DEF dashboardVars, CountsInv, CountsType, WereTrue, NoFalseZero, Cold, FailedIn
<1> QED BY <1>1, VisitKeeps, ConcludeKeeps, CountRowsKeeps, RowsChangeKeeps, DashboardTickKeeps
        DEF DashboardNext

\* However requests, failing queries and changes of the tables overlap
\* (stats.py: _collect_stats), the cache answers with numbers that were true less
\* than Ttl ago, and a failed count of Core is nobody's 0 but his who met the
\* failure at a cold start.  (A failed count of Extra is a 0 to all for that long.)
THEOREM CountsStayHonest == DashboardSpec => []CountsAreHonest
<1>1. CountsInv => CountsAreHonest
  <2> SUFFICES ASSUME CountsInv PROVE CountsAreHonest
    OBVIOUS
  <2>1. ASSUME ~Cold, cache.age < Ttl, NEW k \in Counted \ FailedIn(cache.counts)
        PROVE  since[k][cache.counts[k]] < Ttl
    <3>1. k \in DOMAIN cache.counts /\ cache.counts[k] # Failed
      BY <2>1 DEF CountsInv, FailedIn
    <3>2. cache.counts[k] \in 0..MaxRows /\ since[k][cache.counts[k]] <= cache.age
      BY <3>1 DEF CountsInv, WereTrue
    <3>3. since[k][cache.counts[k]] \in Nat /\ cache.age \in Nat
      BY <2>1, <3>2 DEF CountsInv, CountsType
    <3> QED BY <2>1, <3>2, <3>3, DashboardAssumption
  <2> QED BY <2>1 DEF CountsAreHonest, ServedIsRecent, CountsInv
<1> QED BY <1>1, CountsInitially, CountsPreserved, PTL DEF DashboardSpec

-----------------------------------------------------------------------------
(* Verdicts and their cache *)

\* A verdict that is still good has been kept for exactly the rest of its time.
VerdictsInv ==
    /\ IsFiniteSet(DOMAIN verdicts)
    /\ \A s \in DOMAIN verdicts :
         /\ DOMAIN verdicts[s] = {"answer", "left", "age"}
         /\ verdicts[s].left \in Nat /\ verdicts[s].age \in Nat
         /\ verdicts[s].left > 0 => verdicts[s].left + verdicts[s].age = VerdictTtl
    /\ CacheIsBounded

LEMMA VerdictsInitially == VerificationInit => VerdictsInv
<1> SUFFICES ASSUME VerificationInit PROVE VerdictsInv
  OBVIOUS
<1>1. DOMAIN verdicts = {} /\ told.by = "nobody"
  BY DEF VerificationInit
<1>2. IsFiniteSet({}) /\ Cardinality({}) = 0
  BY FS_EmptySet
<1>3. MaxVerdicts \in Nat
  BY VerificationAssumption
<1> QED BY <1>1, <1>2, <1>3
        DEF VerdictsInv, CacheIsBounded, VerdictsAreRecent, VerdictsBounded

\* Nothing is said from the cache and the cache stays.
LEMMA SaysElse ==
    ASSUME VerdictsInv, UNCHANGED verdicts, UNCHANGED told \/ told'.by # "cache"
    PROVE  VerdictsInv'
BY DEF VerdictsInv, CacheIsBounded, VerdictsAreRecent, VerdictsBounded

LEMMA SaysIs ==
    ASSUME NEW s, NEW answer, NEW by, NEW age, Says(s, answer, by, age)
    PROVE  told'.by = by /\ told'.age = age
BY DEF Says

LEMMA AskKeeps ==
    ASSUME VerdictsInv, NEW r \in Reader, NEW s \in Archived, AsksVerdict(r, s)
    PROVE  VerdictsInv'
<1>1. CASE Fresh(s) /\ Says(s, verdicts[s].answer, "cache", verdicts[s].age) /\ UNCHANGED verdicts
  <2>1. verdicts[s].age < VerdictTtl
    <3>1. /\ verdicts[s].left \in Nat /\ verdicts[s].age \in Nat /\ verdicts[s].left > 0
          /\ verdicts[s].left + verdicts[s].age = VerdictTtl
      BY <1>1 DEF Fresh, VerdictsInv
    <3> QED BY <3>1
  <2>2. told'.by = "cache" /\ told'.age < VerdictTtl
    BY <1>1, <2>1, SaysIs
  <2> QED BY <1>1, <2>2 DEF VerdictsInv, CacheIsBounded, VerdictsAreRecent, VerdictsBounded
<1>2. CASE UNCHANGED <<verdicts, told>>
  BY <1>2, SaysElse
<1> QED BY <1>1, <1>2 DEF AsksVerdict, AfterHit

\* There is room for one more in what stays.
LEMMA RoomIsMade ==
    ASSUME VerdictsInv, NEW s, NEW rest \in Staying(s)
    PROVE  /\ rest \subseteq DOMAIN verdicts /\ IsFiniteSet(rest \cup {s})
           /\ Cardinality(rest \cup {s}) <= MaxVerdicts
<1>1. MaxVerdicts \in Nat \ {0}
  BY VerificationAssumption
<1>2. Alive \subseteq DOMAIN verdicts
  BY DEF Alive
<1>3. rest \subseteq DOMAIN verdicts /\ Cardinality(rest) < MaxVerdicts
  BY <1>1, <1>2 DEF Staying
<1>4. IsFiniteSet(rest) /\ Cardinality(rest) \in Nat
  BY <1>3, FS_Subset, FS_CardinalityType DEF VerdictsInv
<1>5. /\ IsFiniteSet(rest \cup {s})
      /\ Cardinality(rest \cup {s}) \in {Cardinality(rest), Cardinality(rest) + 1}
  BY <1>4, FS_AddElement
<1> QED BY <1>1, <1>3, <1>4, <1>5

LEMMA FetchKeeps ==
    ASSUME VerdictsInv, NEW r \in Reader, FetchesBundle(r)
    PROVE  VerdictsInv'
<1> DEFINE s == reader[r].post
           found == IF reader[r].row = "spreading" THEN "ok" ELSE reader[r].row
           new == [answer |-> found, left |-> VerdictTtl, age |-> 0]
<1>1. CASE Says(s, "error", "check", 0) /\ UNCHANGED verdicts
  BY <1>1, SaysIs, SaysElse
<1>2. ASSUME Says(s, found, "check", 0), NEW rest \in Staying(s),
             verdicts' = [t \in rest \cup {s} |-> IF t = s THEN new ELSE verdicts[t]]
      PROVE  VerdictsInv'
  <2>1. told'.by = "check"
    BY <1>2, SaysIs
  <2>2. /\ rest \subseteq DOMAIN verdicts /\ IsFiniteSet(rest \cup {s})
        /\ Cardinality(rest \cup {s}) <= MaxVerdicts
    BY RoomIsMade
  <2>3. /\ DOMAIN new = {"answer", "left", "age"} /\ new.left \in Nat /\ new.age \in Nat
        /\ new.left + new.age = VerdictTtl
    BY VerificationAssumption
  <2> HIDE DEF new, s
  <2>4. DOMAIN verdicts' = rest \cup {s}
        /\ \A t \in rest \cup {s} : verdicts'[t] = IF t = s THEN new ELSE verdicts[t]
    BY <1>2
  <2> QED BY <2>1, <2>2, <2>3, <2>4
          DEF VerdictsInv, CacheIsBounded, VerdictsAreRecent, VerdictsBounded
<1> QED BY <1>1, <1>2 DEF FetchesBundle

LEMMA TickKeeps ==
    ASSUME VerdictsInv, VerificationTick
    PROVE  VerdictsInv'
<1>1. DOMAIN verdicts' = DOMAIN verdicts /\ UNCHANGED told
  BY DEF VerificationTick
<1>2. ASSUME NEW s \in DOMAIN verdicts
      PROVE  /\ DOMAIN verdicts'[s] = {"answer", "left", "age"}
             /\ verdicts'[s].left \in Nat /\ verdicts'[s].age \in Nat
             /\ verdicts'[s].left > 0 => verdicts'[s].left + verdicts'[s].age = VerdictTtl
  <2> DEFINE left == verdicts[s].left
             age == verdicts[s].age
  <2>1. /\ DOMAIN verdicts'[s] = {"answer", "left", "age"}
        /\ verdicts'[s].left = IF left = 0 THEN 0 ELSE left - 1
        /\ verdicts'[s].age = IF age > VerdictTtl THEN age ELSE age + 1
    BY DEF VerificationTick, VerdictsInv
  <2>2. left \in Nat /\ age \in Nat /\ (left > 0 => left + age = VerdictTtl)
    BY DEF VerdictsInv
  <2>3. VerdictTtl \in Nat
    BY VerificationAssumption
  <2> HIDE DEF left, age
  <2> QED BY <2>1, <2>2, <2>3
<1> QED BY <1>1, <1>2 DEF VerdictsInv, CacheIsBounded, VerdictsAreRecent, VerdictsBounded

LEMMA VerdictsPreserved == VerdictsInv /\ [VerificationNext]_verificationVars => VerdictsInv'
<1> SUFFICES ASSUME VerdictsInv, [VerificationNext]_verificationVars PROVE VerdictsInv'
  OBVIOUS
<1>1. CASE UNCHANGED <<verdicts, told>>
  BY <1>1, SaysElse
<1>2. CASE \E r \in Reader : ReadsRow(r)
  BY <1>2, SaysIs, SaysElse DEF ReadsRow
<1>3. CASE \E r \in Reader : FetchesBundle(r) \/ \E s \in Archived : AsksVerdict(r, s)
  BY <1>3, FetchKeeps, AskKeeps
<1>4. CASE VerificationTick
  BY <1>4, TickKeeps
<1> QED BY <1>1, <1>2, <1>3, <1>4
        DEF VerificationNext, verificationVars, RowChanges, RowIsReplaced

\* However often a verdict is asked for and however many stories are verified at
\* the same time (transparency.py: verify_story_archive, _cache_put), no answer
\* from the cache is older than it may be and the cache keeps its size.
THEOREM CacheStaysBounded == VerificationSpec => []CacheIsBounded
<1>1. VerdictsInv => CacheIsBounded
  BY DEF VerdictsInv
<1> QED BY <1>1, VerdictsInitially, VerdictsPreserved, PTL DEF VerificationSpec

-----------------------------------------------------------------------------
(* The captures *)

\* The manifest comes last, and a final name is only given to what has one.
Whole(x) ==
    /\ DOMAIN x = {"state", "url", "wants", "files"}
    /\ "manifest.json" \in x.files \/ x.state = "version" => x.wants \subseteq x.files

\* What a writer has of the directory it made: pending while it writes, then a
\* version, of the page it works on.
Owns(q, dirs) ==
    /\ DOMAIN q = {"pc", "url", "objects", "dir"}
    /\ q.pc \in {"idle", "lock", "measure", "write", "sync", "row"}
    /\ q.pc # "idle" => \E u \in Url : q.url = {u}
    /\ q.pc \in {"idle", "lock", "measure"} => q.dir = {}
    /\ \A d, e \in q.dir : d = e
    /\ \A d \in q.dir :
         /\ d \in Directory /\ dirs[d].url = q.url
         /\ dirs[d].state = IF q.pc = "write" THEN "pending" ELSE "version"

RowsNamed(names, dirs) ==
    /\ DOMAIN names = Url
    /\ \A u \in Url : \A d \in names[u] :
         d \in Directory /\ dirs[d].state = "version" /\ dirs[d].url = {u}

CapturesInv ==
    /\ DOMAIN directory = Directory /\ \A d \in Directory : Whole(directory[d])
    /\ DOMAIN writer = Writer /\ \A w \in Writer : Owns(writer[w], directory)
    /\ \A w, v \in Writer : w # v => writer[w].dir \cap writer[v].dir = {}
    /\ RowsNamed(manifestOf, directory)

LEMMA AtRestOwns == \A dirs : Owns(AtRest, dirs) /\ AtRest.dir = {}
BY DEF Owns, AtRest

LEMMA CapturesInitially == StoreInit => CapturesInv
<1> SUFFICES ASSUME StoreInit PROVE CapturesInv
  OBVIOUS
<1>1. Whole(NoDirectory)
  BY DEF Whole, NoDirectory
<1>2. RowsNamed(manifestOf, directory)
  BY DEF StoreInit, RowsNamed
<1> QED BY <1>1, <1>2, AtRestOwns DEF StoreInit, CapturesInv

\* A writer goes on and no directory changes.
LEMMA WriterGoesOn ==
    ASSUME CapturesInv, NEW w \in Writer, NEW q, writer' = [writer EXCEPT ![w] = q],
           UNCHANGED directory, Owns(q, directory), q.dir \subseteq writer[w].dir,
           RowsNamed(manifestOf', directory)
    PROVE  CapturesInv'
<1>1. DOMAIN writer' = Writer /\ \A v \in Writer : writer'[v] = IF v = w THEN q ELSE writer[v]
  BY DEF CapturesInv
<1>2. \A v \in Writer : Owns(writer'[v], directory)
  BY <1>1 DEF CapturesInv
<1>3. \A v \in Writer : writer'[v].dir \subseteq writer[v].dir
  BY <1>1
<1>4. ASSUME NEW v \in Writer, NEW u \in Writer, v # u
      PROVE  writer'[v].dir \cap writer'[u].dir = {}
  BY <1>3, <1>4 DEF CapturesInv
<1> QED BY <1>1, <1>2, <1>4 DEF CapturesInv

\* A directory that is no version and that no other writer has becomes x.
LEMMA DirectoryBecomes ==
    ASSUME CapturesInv, NEW w \in Writer, NEW q, DOMAIN writer' = Writer,
           \A v \in Writer : writer'[v] = IF v = w THEN q ELSE writer[v],
           NEW d \in Directory, NEW x, directory' = [directory EXCEPT ![d] = x],
           directory[d].state # "version", Whole(x),
           \A v \in Writer \ {w} : d \notin writer[v].dir,
           Owns(q, directory'), q.dir \subseteq writer[w].dir \cup {d}, UNCHANGED manifestOf
    PROVE  CapturesInv'
<1>1. DOMAIN writer' = Writer /\ \A v \in Writer : writer'[v] = IF v = w THEN q ELSE writer[v]
  OBVIOUS
<1>2. /\ DOMAIN directory' = Directory
      /\ \A e \in Directory : directory'[e] = IF e = d THEN x ELSE directory[e]
  BY DEF CapturesInv
<1>3. \A e \in Directory : Whole(directory'[e])
  BY <1>2 DEF CapturesInv
<1>4. ASSUME NEW v \in Writer PROVE Owns(writer'[v], directory')
  <2>1. CASE v = w
    BY <1>1, <2>1
  <2>2. CASE v # w
    <3>1. writer'[v] = writer[v] /\ Owns(writer[v], directory) /\ d \notin writer[v].dir
      BY <1>1, <2>2 DEF CapturesInv
    <3>2. \A e \in writer[v].dir : directory'[e] = directory[e]
      BY <1>2, <3>1 DEF Owns
    <3> QED BY <3>1, <3>2 DEF Owns
  <2> QED BY <2>1, <2>2
<1>5. ASSUME NEW v \in Writer, NEW u \in Writer, v # u
      PROVE  writer'[v].dir \cap writer'[u].dir = {}
  BY <1>1, <1>5 DEF CapturesInv
<1>6. RowsNamed(manifestOf', directory')
  BY <1>2 DEF CapturesInv, RowsNamed
<1> QED BY <1>1, <1>2, <1>3, <1>4, <1>5, <1>6 DEF CapturesInv

LEMMA StagesAlone ==
    ASSUME CapturesInv, NEW d \in Directory, directory[d].state = "absent"
    PROVE  \A v \in Writer : d \notin writer[v].dir
BY DEF CapturesInv, Owns

LEMMA PreserveKeeps ==
    ASSUME CapturesInv, NEW w \in Writer, NEW u \in Url, NEW objects, Preserve(w, u, objects)
    PROVE  CapturesInv'
<1> DEFINE q == [AtRest EXCEPT !.pc = "lock", !.url = {u}, !.objects = objects]
<1>1. Owns(q, directory) /\ q.dir = {}
  BY DEF Owns, AtRest
<1> HIDE DEF q
<1>2. writer' = [writer EXCEPT ![w] = q] /\ UNCHANGED <<directory, manifestOf>>
  BY DEF Preserve, q
<1> QED BY <1>1, <1>2, WriterGoesOn DEF CapturesInv

\* Going on with the same directory, or to rest.
LEMMA DoesKeeps ==
    ASSUME CapturesInv, NEW w \in Writer, NEW pc, Does(w, pc), UNCHANGED <<directory, manifestOf>>,
           \/ writer[w].pc = "lock" /\ pc = "measure"
           \/ writer[w].pc = "sync" /\ pc = "row"
    PROVE  CapturesInv'
<1> DEFINE q == [writer[w] EXCEPT !.pc = pc]
<1>1. Owns(writer[w], directory) /\ w \in DOMAIN writer
  BY DEF CapturesInv
<1>2. /\ DOMAIN q = {"pc", "url", "objects", "dir"} /\ q.pc = pc
      /\ q.url = writer[w].url /\ q.dir = writer[w].dir
  BY <1>1 DEF Owns
<1>3. writer' = [writer EXCEPT ![w] = q]
  BY <1>1 DEF Does
<1> HIDE DEF q
<1>4. Owns(q, directory)
  BY <1>1, <1>2 DEF Owns
<1> QED BY <1>2, <1>3, <1>4, WriterGoesOn DEF CapturesInv

LEMMA RestsKeeps ==
    ASSUME CapturesInv, NEW w \in Writer, Rests(w), UNCHANGED directory,
           RowsNamed(manifestOf', directory)
    PROVE  CapturesInv'
BY AtRestOwns, WriterGoesOn DEF Rests

LEMMA StageKeeps ==
    ASSUME CapturesInv, NEW w \in Writer, Stage(w)
    PROVE  CapturesInv'
<1>1. PICK d \in Directory :
        /\ directory[d].state = "absent"
        /\ directory' = [directory EXCEPT ![d] =
             [NoDirectory EXCEPT !.state = "pending", !.url = writer[w].url,
                                 !.wants = Files(writer[w].objects)]]
        /\ writer' = [writer EXCEPT ![w].pc = "write", ![w].dir = {d}]
  BY DEF Stage
<1> DEFINE x == [NoDirectory EXCEPT !.state = "pending", !.url = writer[w].url,
                                    !.wants = Files(writer[w].objects)]
           q == [writer[w] EXCEPT !.pc = "write", !.dir = {d}]
<1>2. DOMAIN x = {"state", "url", "wants", "files"} /\ x.state = "pending"
      /\ x.url = writer[w].url /\ x.files = {}
  BY DEF NoDirectory
<1>3. Owns(writer[w], directory) /\ w \in DOMAIN writer /\ writer[w].pc = "measure"
  BY DEF CapturesInv, Stage
<1>4. /\ DOMAIN q = {"pc", "url", "objects", "dir"} /\ q.pc = "write"
      /\ q.url = writer[w].url /\ q.dir = {d}
  BY <1>3 DEF Owns
<1>5. directory' = [directory EXCEPT ![d] = x] /\ writer' = [writer EXCEPT ![w] = q]
  BY <1>1, <1>3
<1> HIDE DEF x, q
<1>6. directory'[d] = x
  BY <1>5 DEF CapturesInv
<1>7. Owns(q, directory')
  BY <1>2, <1>3, <1>4, <1>6 DEF Owns
<1>8. Whole(x)
  BY <1>2 DEF Whole
<1>9. \A v \in Writer : d \notin writer[v].dir
  BY <1>1, StagesAlone
<1>10. DOMAIN writer' = Writer /\ \A v \in Writer : writer'[v] = IF v = w THEN q ELSE writer[v]
  BY <1>5 DEF CapturesInv
<1>11. /\ UNCHANGED manifestOf /\ directory[d].state # "version"
       /\ q.dir \subseteq writer[w].dir \cup {d}
  BY <1>1, <1>4 DEF Stage
<1> QED BY <1>5, <1>7, <1>8, <1>9, <1>10, <1>11, DirectoryBecomes

\* The directory that a writer has in hand.
LEMMA InHand ==
    ASSUME CapturesInv, NEW w \in Writer, NEW d \in writer[w].dir
    PROVE  /\ d \in Directory /\ Whole(directory[d]) /\ Owns(writer[w], directory)
           /\ directory[d].url = writer[w].url
           /\ directory[d].state = IF writer[w].pc = "write" THEN "pending" ELSE "version"
           /\ \A v \in Writer \ {w} : d \notin writer[v].dir
<1>1. Owns(writer[w], directory)
  BY DEF CapturesInv
<1>2. \A v \in Writer \ {w} : writer[w].dir \cap writer[v].dir = {}
  BY DEF CapturesInv
<1> QED BY <1>1, <1>2 DEF CapturesInv, Owns

\* The manifest is written when nothing else is missing.
LEMMA ManifestLast ==
    ASSUME NEW d \in Directory, Whole(directory[d]), directory[d].state = "pending",
           NEW file \in NextFile(d)
    PROVE  Whole([directory[d] EXCEPT !.files = @ \cup {file}])
<1> DEFINE x == [directory[d] EXCEPT !.files = @ \cup {file}]
<1>1. /\ DOMAIN x = {"state", "url", "wants", "files"} /\ x.state = "pending"
      /\ x.wants = directory[d].wants /\ x.files = directory[d].files \cup {file}
  BY DEF Whole
<1> HIDE DEF x
<1>2. file \in Missing(d)
  BY DEF NextFile
<1>3. file # "manifest.json" => "manifest.json" \notin x.files
  BY <1>1, <1>2 DEF Whole, Missing
<1>4. file = "manifest.json" => Missing(d) \subseteq {file}
  BY DEF NextFile
<1>5. file = "manifest.json" => x.wants \subseteq x.files
  BY <1>1, <1>4 DEF Missing
<1> QED BY <1>1, <1>3, <1>5 DEF Whole, x

LEMMA WriteKeeps ==
    ASSUME CapturesInv, NEW w \in Writer, WriteFile(w)
    PROVE  CapturesInv'
<1>1. PICK d \in writer[w].dir : \E file \in NextFile(d) :
         directory' = [directory EXCEPT ![d].files = @ \cup {file}]
  BY DEF WriteFile
<1>2. PICK file \in NextFile(d) : directory' = [directory EXCEPT ![d].files = @ \cup {file}]
  BY <1>1
<1> DEFINE x == [directory[d] EXCEPT !.files = @ \cup {file}]
<1>3. /\ d \in Directory /\ Whole(directory[d]) /\ Owns(writer[w], directory)
      /\ directory[d].state = "pending" /\ writer[w].pc = "write"
      /\ \A v \in Writer \ {w} : d \notin writer[v].dir
  BY InHand DEF WriteFile
<1>4. directory' = [directory EXCEPT ![d] = x]
  BY <1>2, <1>3 DEF CapturesInv
<1>5. Whole(x) /\ x.state = "pending" /\ x.url = directory[d].url
  BY <1>3, ManifestLast DEF Whole
<1> HIDE DEF x
<1>6. \A e \in Directory : directory'[e].url = directory[e].url
                           /\ directory'[e].state = directory[e].state
  BY <1>3, <1>4, <1>5 DEF CapturesInv
<1>7. Owns(writer[w], directory')
  BY <1>3, <1>6 DEF Owns
<1>8. DOMAIN writer' = Writer /\ UNCHANGED writer
  BY DEF WriteFile, CapturesInv
<1>9. UNCHANGED manifestOf
  BY DEF WriteFile
<1> QED BY <1>3, <1>4, <1>5, <1>7, <1>8, <1>9, DirectoryBecomes

LEMMA RenameKeeps ==
    ASSUME CapturesInv, NEW w \in Writer, Rename(w)
    PROVE  CapturesInv'
<1>1. PICK d \in writer[w].dir :
        /\ "manifest.json" \in directory[d].files
        /\ directory' = [directory EXCEPT ![d].state = "version"]
  BY DEF Rename
<1> DEFINE x == [directory[d] EXCEPT !.state = "version"]
           q == [writer[w] EXCEPT !.pc = "sync"]
<1>2. /\ d \in Directory /\ Whole(directory[d]) /\ Owns(writer[w], directory)
      /\ directory[d].state = "pending" /\ writer[w].pc = "write"
      /\ directory[d].url = writer[w].url
      /\ \A v \in Writer \ {w} : d \notin writer[v].dir
  BY InHand DEF Rename
<1>3. directory' = [directory EXCEPT ![d] = x] /\ writer' = [writer EXCEPT ![w] = q]
  BY <1>1, <1>2 DEF CapturesInv, Rename, Does
<1>4. /\ DOMAIN x = {"state", "url", "wants", "files"} /\ x.state = "version"
      /\ x.url = directory[d].url /\ x.wants = directory[d].wants /\ x.files = directory[d].files
  BY <1>2 DEF Whole
<1>5. /\ DOMAIN q = {"pc", "url", "objects", "dir"} /\ q.pc = "sync"
      /\ q.url = writer[w].url /\ q.dir = writer[w].dir
  BY <1>2 DEF Owns
<1> HIDE DEF x, q
<1>6. Whole(x)
  BY <1>1, <1>2, <1>4 DEF Whole
<1>7. directory'[d] = x
  BY <1>2, <1>3 DEF CapturesInv
<1>8. writer[w].dir = {d}
  BY <1>2 DEF Owns
<1>9. Owns(q, directory')
  BY <1>2, <1>4, <1>5, <1>7, <1>8 DEF Owns
<1>10. DOMAIN writer' = Writer /\ \A v \in Writer : writer'[v] = IF v = w THEN q ELSE writer[v]
  BY <1>3 DEF CapturesInv
<1> QED BY <1>2, <1>3, <1>5, <1>6, <1>9, <1>10, DirectoryBecomes DEF Rename

LEMMA CommitFailsKeeps ==
    ASSUME CapturesInv, NEW w \in Writer, CommitFails(w)
    PROVE  CapturesInv'
<1>1. CASE UNCHANGED directory
  BY <1>1, RestsKeeps DEF CommitFails, CapturesInv
<1>2. ASSUME NEW d \in writer[w].dir, directory[d].state = "pending",
             directory' = [directory EXCEPT ![d] = NoDirectory]
      PROVE  CapturesInv'
  <2>1. d \in Directory /\ \A v \in Writer \ {w} : d \notin writer[v].dir
    BY InHand
  <2>2. Whole(NoDirectory)
    BY DEF Whole, NoDirectory
  <2>3. /\ DOMAIN writer' = Writer /\ UNCHANGED manifestOf
        /\ \A v \in Writer : writer'[v] = IF v = w THEN AtRest ELSE writer[v]
    BY DEF CommitFails, Rests, CapturesInv
  <2> QED BY <1>2, <2>1, <2>2, <2>3, AtRestOwns, DirectoryBecomes
<1> QED BY <1>1, <1>2 DEF CommitFails, RemoveStaging

LEMMA NameKeeps ==
    ASSUME CapturesInv, NEW w \in Writer, NameInRow(w)
    PROVE  CapturesInv'
<1>1. PICK u \in writer[w].url :
        UNCHANGED manifestOf \/ manifestOf' = [manifestOf EXCEPT ![u] = writer[w].dir]
  BY DEF NameInRow
<1>2. writer[w].pc = "row" /\ Owns(writer[w], directory) /\ UNCHANGED directory /\ Rests(w)
  BY DEF NameInRow, CapturesInv
<1>3. u \in Url /\ writer[w].url = {u}
  BY <1>2 DEF Owns
<1>4. \A d \in writer[w].dir :
        d \in Directory /\ directory[d].state = "version" /\ directory[d].url = {u}
  BY <1>2, <1>3 DEF Owns
<1>5. RowsNamed(manifestOf', directory)
  BY <1>1, <1>3, <1>4 DEF RowsNamed, CapturesInv
<1> QED BY <1>2, <1>5, RestsKeeps

LEMMA CapturesPreserved == CapturesInv /\ [StoreNext]_storeVars => CapturesInv'
<1> SUFFICES ASSUME CapturesInv, [StoreNext]_storeVars PROVE CapturesInv'
  OBVIOUS
<1>1. CASE UNCHANGED storeVars
  BY <1>1 DEF storeVars, CapturesInv
<1>2. ASSUME NEW w \in Writer, WriterStep(w) PROVE CapturesInv'
  <2>1. CASE \E u \in Url, objects \in (SUBSET Object) \ {{}} : Preserve(w, u, objects)
    BY <2>1, PreserveKeeps
  <2>2. CASE Lock(w) \/ Synced(w)
    BY <2>2, DoesKeeps DEF Lock, Synced
  <2>3. CASE Full(w) \/ Killed(w)
    <3>1. RowsNamed(manifestOf', directory) /\ Rests(w) /\ UNCHANGED directory
      BY <2>3 DEF Full, Killed, CapturesInv
    <3> QED BY <3>1, RestsKeeps
  <2>4. CASE Stage(w) \/ WriteFile(w) \/ Rename(w) \/ CommitFails(w) \/ NameInRow(w)
    BY <2>4, StageKeeps, WriteKeeps, RenameKeeps, CommitFailsKeeps, NameKeeps
  <2> QED BY <1>2, <2>1, <2>2, <2>3, <2>4 DEF WriterStep
<1> QED BY <1>1, <1>2 DEF StoreNext

-----------------------------------------------------------------------------
(* The size of the store *)

\* A directory holds what it is wanted for and nothing else.
Within(x) ==
    /\ x.files \subseteq x.wants
    /\ x.wants \subseteq Files(Object)

\* The writer that has measured the store is the only one that holds the lock,
\* and what it has not written yet has room.
RoomInv ==
    /\ \A d \in Directory : Within(directory[d])
    /\ \A w \in Writer : writer[w].objects \subseteq Object
    /\ \A w \in Writer : writer[w].pc \in {"measure", "write", "sync"} => w \in locked
    /\ \A w, v \in locked : w = v
    /\ Used <= StoreLimit
    /\ \A w \in Writer : writer[w].pc = "write" =>
          \A d \in writer[w].dir : Used + Cardinality(Missing(d)) <= StoreLimit

SoundInv == CapturesInv /\ RoomInv

LEMMA FilesFinite ==
    /\ IsFiniteSet(Files(Object))
    /\ \A objects \in SUBSET Object : Files(objects) \subseteq Files(Object)
<1>1. IsFiniteSet(Object \cup {"index.html"})
  BY StoreAssumption, FS_AddElement
<1>2. IsFiniteSet((Object \cup {"index.html"}) \cup {"manifest.json"})
  BY <1>1, FS_AddElement
<1>3. Files(Object) = (Object \cup {"index.html"}) \cup {"manifest.json"}
  BY DEF Files
<1> QED BY <1>2, <1>3 DEF Files

LEMMA InStore ==
    \A x : x \in Stored <=> \E d \in Directory : \E file \in directory[d].files : x = <<d, file>>
BY DEF Stored

LEMMA StoreFinite ==
    ASSUME \A d \in Directory : Within(directory[d])
    PROVE  /\ IsFiniteSet(Stored) /\ Used \in Nat
           /\ \A d \in Directory : IsFiniteSet(Missing(d)) /\ Cardinality(Missing(d)) \in Nat
<1>1. Stored \subseteq Directory \X Files(Object)
  BY InStore DEF Within
<1>2. IsFiniteSet(Directory \X Files(Object))
  BY StoreAssumption, FilesFinite, FS_Product
<1>3. IsFiniteSet(Stored) /\ Used \in Nat
  BY <1>1, <1>2, FS_Subset, FS_CardinalityType DEF Used
<1>4. ASSUME NEW d \in Directory PROVE IsFiniteSet(Missing(d)) /\ Cardinality(Missing(d)) \in Nat
  <2>1. Missing(d) \subseteq Files(Object)
    BY DEF Missing, Within
  <2> QED BY <2>1, FilesFinite, FS_Subset, FS_CardinalityType
<1> QED BY <1>3, <1>4

\* Of two stores the one with fewer files is the smaller.
LEMMA FewerFiles ==
    ASSUME \A d \in Directory : Within(directory[d]),
           \A d \in Directory : directory'[d].files \subseteq directory[d].files
    PROVE  Used' \in Nat /\ Used' <= Used
<1>1. Stored' \subseteq Stored
  BY DEF Stored
<1> QED BY <1>1, StoreFinite, FS_Subset, FS_CardinalityType DEF Used

LEMMA RoomInitially == StoreInit => RoomInv
<1> SUFFICES ASSUME StoreInit PROVE RoomInv
  OBVIOUS
<1>1. \A d \in Directory : directory[d].files = {} /\ directory[d].wants = {}
  BY DEF StoreInit, NoDirectory
<1>2. Stored = {}
  BY <1>1, InStore
<1>3. Used = 0 /\ StoreLimit \in Nat
  BY <1>2, FS_EmptySet, StoreAssumption DEF Used
<1>4. \A w \in Writer : writer[w].pc = "idle" /\ writer[w].objects = {}
  BY DEF StoreInit, AtRest
<1>5. locked = {}
  BY DEF StoreInit
<1> QED BY <1>1, <1>3, <1>4, <1>5 DEF RoomInv, Within

\* One writer goes on, and the files stay.
LEMMA RoomStays ==
    ASSUME SoundInv, NEW w \in Writer, NEW q, writer' = [writer EXCEPT ![w] = q],
           UNCHANGED directory, q.objects \subseteq Object, q.pc # "write",
           \A v \in locked' : v = w \/ v \in locked,
           \A v, u \in locked' : v = u,
           \A v \in locked : v = w \/ v \in locked',
           q.pc \in {"measure", "write", "sync"} => w \in locked'
    PROVE  RoomInv'
<1>1. \A v \in Writer : writer'[v] = IF v = w THEN q ELSE writer[v]
  BY DEF SoundInv, CapturesInv
<1>2. UNCHANGED <<Used, Stored>> /\ \A d \in Directory : UNCHANGED Missing(d)
  BY DEF Used, Stored, Missing
<1>3. \A v \in Writer : writer'[v].pc = "write" => writer'[v] = writer[v]
  BY <1>1
<1>4. \A v \in Writer : writer'[v].pc = "write" => 
          \A d \in writer'[v].dir : Used' + Cardinality(Missing(d)') <= StoreLimit
  BY <1>2, <1>3 DEF SoundInv, RoomInv, CapturesInv, Owns
<1>5. \A v \in Writer : writer'[v].pc \in {"measure", "write", "sync"} => v \in locked'
  BY <1>1 DEF SoundInv, RoomInv
<1> QED BY <1>1, <1>2, <1>4, <1>5 DEF SoundInv, RoomInv, Within

\* Going to rest, with or without the lock.
LEMMA RestRoom ==
    ASSUME SoundInv, NEW w \in Writer, Rests(w), UNCHANGED directory,
           \/ Releases(w)
           \/ writer[w].pc \notin {"measure", "write", "sync"} /\ UNCHANGED locked
    PROVE  RoomInv'
<1>1. AtRest.pc = "idle" /\ AtRest.objects = {}
  BY DEF AtRest
<1> QED BY <1>1, RoomStays DEF Rests, Releases, SoundInv, RoomInv

LEMMA DoesRoom ==
    ASSUME SoundInv, NEW w \in Writer, NEW pc, Does(w, pc), UNCHANGED directory, pc # "write",
           \A v \in locked' : v = w \/ v \in locked,
           \A v, u \in locked' : v = u,
           \A v \in locked : v = w \/ v \in locked',
           pc \in {"measure", "write", "sync"} => w \in locked'
    PROVE  RoomInv'
<1> DEFINE q == [writer[w] EXCEPT !.pc = pc]
<1>1. writer' = [writer EXCEPT ![w] = q]
  BY DEF Does, SoundInv, CapturesInv
<1>2. q.pc = pc /\ q.objects = writer[w].objects
  BY DEF SoundInv, CapturesInv, Owns
<1> HIDE DEF q
<1> QED BY <1>1, <1>2, RoomStays DEF SoundInv, RoomInv

LEMMA PreserveRoom ==
    ASSUME SoundInv, NEW w \in Writer, NEW u \in Url, NEW objects \in SUBSET Object,
           Preserve(w, u, objects)
    PROVE  RoomInv'
<1> DEFINE q == [AtRest EXCEPT !.pc = "lock", !.url = {u}, !.objects = objects]
<1>1. q.pc = "lock" /\ q.objects = objects
  BY DEF AtRest
<1> HIDE DEF q
<1>2. writer' = [writer EXCEPT ![w] = q] /\ UNCHANGED <<directory, locked>>
  BY DEF Preserve, q
<1> QED BY <1>1, <1>2, RoomStays DEF SoundInv, RoomInv

\* Who holds the lock is the only writer that has measured or writes.
LEMMA Alone ==
    ASSUME SoundInv, NEW w \in Writer, writer[w].pc \in {"measure", "write", "sync"}
    PROVE  /\ w \in locked /\ locked \ {w} = {}
           /\ \A v \in Writer : writer[v].pc \in {"measure", "write", "sync"} => v = w
BY DEF SoundInv, RoomInv

\* The writer that holds the lock changes its own directory.
LEMMA RoomChanges ==
    ASSUME SoundInv, NEW w \in Writer, NEW q,
           \A v \in Writer : writer'[v] = IF v = w THEN q ELSE writer[v],
           writer[w].pc \in {"measure", "write", "sync"}, 
           q.objects \subseteq Object, q.pc \in {"measure", "write", "sync"} => UNCHANGED locked,
           locked' \subseteq locked,
           \A d \in Directory : Within(directory'[d]),
           Used' <= StoreLimit,
           q.pc = "write" => \A d \in q.dir : Used' + Cardinality(Missing(d)') <= StoreLimit
    PROVE  RoomInv'
<1>1. \A v \in Writer : writer'[v].pc = "write" => v = w
  BY Alone
<1>2. \A v \in Writer : writer'[v].pc \in {"measure", "write", "sync"} => v = w
  BY Alone
<1>3. \A v \in Writer : writer'[v].pc \in {"measure", "write", "sync"} => v \in locked'
  BY <1>2, Alone
<1> QED BY <1>1, <1>3 DEF SoundInv, RoomInv

LEMMA StageRoom ==
    ASSUME SoundInv, NEW w \in Writer, Stage(w)
    PROVE  RoomInv'
<1>1. PICK d \in Directory :
        /\ directory[d].state = "absent"
        /\ directory' = [directory EXCEPT ![d] =
             [NoDirectory EXCEPT !.state = "pending", !.url = writer[w].url,
                                 !.wants = Files(writer[w].objects)]]
        /\ writer' = [writer EXCEPT ![w].pc = "write", ![w].dir = {d}]
  BY DEF Stage
<1> DEFINE wants == Files(writer[w].objects)
           x == [NoDirectory EXCEPT !.state = "pending", !.url = writer[w].url, !.wants = wants]
           q == [writer[w] EXCEPT !.pc = "write", !.dir = {d}]
<1>2. x.files = {} /\ x.wants = wants
  BY DEF NoDirectory
<1>3. /\ writer[w].pc = "measure" /\ Fits(w) /\ UNCHANGED locked
      /\ DOMAIN writer = Writer /\ DOMAIN directory = Directory
      /\ DOMAIN writer[w] = {"pc", "url", "objects", "dir"}
  BY DEF Stage, SoundInv, CapturesInv, Owns
<1>4. q.pc = "write" /\ q.dir = {d} /\ q.objects = writer[w].objects
  BY <1>3
<1>5. directory' = [directory EXCEPT ![d] = x] /\ writer' = [writer EXCEPT ![w] = q]
  BY <1>1, <1>3
<1> HIDE DEF x, q
<1>6. \A e \in Directory : directory'[e] = IF e = d THEN x ELSE directory[e]
  BY <1>3, <1>5
<1>7. writer[w].objects \subseteq Object
  BY DEF SoundInv, RoomInv
<1>8. wants \subseteq Files(Object)
  BY <1>7, FilesFinite
<1>9. \A e \in Directory : Within(directory'[e])
  BY <1>2, <1>6, <1>8 DEF Within, SoundInv, RoomInv
<1>10. Used' \in Nat /\ Used' <= Used /\ Used \in Nat
  <2>1. \A e \in Directory : directory'[e].files \subseteq directory[e].files
    BY <1>2, <1>6
  <2> QED BY <2>1, FewerFiles, StoreFinite DEF SoundInv, RoomInv
<1>11. Missing(d)' = wants
  BY <1>2, <1>6 DEF Missing
<1>12. Cardinality(wants) \in Nat
  BY <1>8, FilesFinite, FS_Subset, FS_CardinalityType
<1>13. Used' + Cardinality(Missing(d)') <= StoreLimit /\ Used' <= StoreLimit
  BY <1>3, <1>10, <1>11, <1>12, StoreAssumption DEF Fits
<1>14. \A v \in Writer : writer'[v] = IF v = w THEN q ELSE writer[v]
  BY <1>3, <1>5
<1> QED BY <1>3, <1>4, <1>7, <1>9, <1>13, <1>14, RoomChanges

LEMMA WriteRoom ==
    ASSUME SoundInv, NEW w \in Writer, WriteFile(w)
    PROVE  RoomInv'
<1>1. PICK d \in writer[w].dir : \E file \in NextFile(d) :
         directory' = [directory EXCEPT ![d].files = @ \cup {file}]
  BY DEF WriteFile
<1>2. PICK file \in NextFile(d) : directory' = [directory EXCEPT ![d].files = @ \cup {file}]
  BY <1>1
<1> DEFINE x == [directory[d] EXCEPT !.files = @ \cup {file}]
<1>3. /\ d \in Directory /\ Whole(directory[d]) /\ DOMAIN directory = Directory
      /\ writer[w].pc = "write" /\ UNCHANGED <<writer, locked>> /\ writer[w].dir = {d}
  BY InHand DEF WriteFile, SoundInv, CapturesInv, Owns
<1>4. file \in Missing(d)
  BY DEF NextFile
<1>5. x.files = directory[d].files \cup {file} /\ x.wants = directory[d].wants
  BY <1>3 DEF Whole
<1>6. directory' = [directory EXCEPT ![d] = x]
  BY <1>2, <1>3
<1> HIDE DEF x
<1>7. \A e \in Directory : directory'[e] = IF e = d THEN x ELSE directory[e]
  BY <1>3, <1>6
<1>8. \A e \in Directory : Within(directory[e])
  BY DEF SoundInv, RoomInv
<1>9. \A e \in Directory : Within(directory'[e])
  BY <1>4, <1>5, <1>7, <1>8 DEF Within, Missing
<1>10. Stored' = Stored \cup {<<d, file>>}
  <2>1. ASSUME NEW z \in Stored' PROVE z \in Stored \cup {<<d, file>>}
    <3>1. PICK e \in Directory : \E f \in directory'[e].files : z = <<e, f>>
      BY <2>1 DEF Stored
    <3>2. PICK f \in directory'[e].files : z = <<e, f>>
      BY <3>1
    <3>3. f \in directory[e].files \/ (e = d /\ f = file)
      BY <1>5, <1>7
    <3> QED BY <3>2, <3>3, InStore
  <2>2. ASSUME NEW z \in Stored PROVE z \in Stored'
    <3>1. PICK e \in Directory : \E f \in directory[e].files : z = <<e, f>>
      BY InStore
    <3>2. PICK f \in directory'[e].files : z = <<e, f>>
      BY <1>5, <1>7, <3>1
    <3> QED BY <3>2 DEF Stored
  <2>3. <<d, file>> \in Stored'
    <3>1. file \in directory'[d].files
      BY <1>3, <1>5, <1>7
    <3> QED BY <1>3, <3>1 DEF Stored
  <2> QED BY <2>1, <2>2, <2>3
<1>11. IsFiniteSet(Stored) /\ Used \in Nat /\ IsFiniteSet(Missing(d)) /\ Cardinality(Missing(d)) \in Nat
  BY <1>3, <1>8, StoreFinite
<1>12. Used' \in {Used, Used + 1}
  BY <1>10, <1>11, FS_AddElement DEF Used
<1>13. Missing(d)' = Missing(d) \ {file}
  BY <1>3, <1>5, <1>7 DEF Missing
<1>14. Cardinality(Missing(d)') = Cardinality(Missing(d)) - 1
  BY <1>4, <1>11, <1>13, FS_RemoveElement
<1>15. Cardinality(Missing(d)') \in Nat
  BY <1>11, <1>13, FS_Subset, FS_CardinalityType
<1>16. Used + Cardinality(Missing(d)) <= StoreLimit
  BY <1>3 DEF SoundInv, RoomInv
<1>17. Used' + Cardinality(Missing(d)') <= StoreLimit /\ Used' <= StoreLimit
  BY <1>11, <1>12, <1>14, <1>15, <1>16, StoreAssumption
<1>18. writer[w].objects \subseteq Object
  BY DEF SoundInv, RoomInv
<1>19. \A v \in Writer : writer'[v] = IF v = w THEN writer[w] ELSE writer[v]
  BY <1>3
<1> QED BY <1>3, <1>9, <1>17, <1>18, <1>19, RoomChanges

LEMMA RenameRoom ==
    ASSUME SoundInv, NEW w \in Writer, Rename(w)
    PROVE  RoomInv'
<1>1. PICK d \in writer[w].dir : directory' = [directory EXCEPT ![d].state = "version"]
  BY DEF Rename
<1> DEFINE x == [directory[d] EXCEPT !.state = "version"]
           q == [writer[w] EXCEPT !.pc = "sync"]
<1>2. /\ d \in Directory /\ Whole(directory[d]) /\ Owns(writer[w], directory)
      /\ DOMAIN directory = Directory /\ DOMAIN writer = Writer
      /\ writer[w].pc = "write" /\ UNCHANGED locked
  BY InHand DEF Rename, SoundInv, CapturesInv
<1>3. directory' = [directory EXCEPT ![d] = x] /\ writer' = [writer EXCEPT ![w] = q]
  BY <1>1, <1>2 DEF Rename, Does
<1>4. x.wants = directory[d].wants /\ x.files = directory[d].files
  BY <1>2 DEF Whole
<1>5. q.pc = "sync" /\ q.objects = writer[w].objects
  BY <1>2 DEF Owns
<1> HIDE DEF x, q
<1>6. \A e \in Directory : directory'[e].files = directory[e].files
                           /\ directory'[e].wants = directory[e].wants
  BY <1>2, <1>3, <1>4
<1>7. \A e \in Directory : Within(directory[e])
  BY DEF SoundInv, RoomInv
<1>8. Used' \in Nat /\ Used' <= Used /\ Used \in Nat /\ Used <= StoreLimit
  BY <1>6, <1>7, FewerFiles, StoreFinite DEF SoundInv, RoomInv
<1>9. Used' <= StoreLimit
  BY <1>8, StoreAssumption
<1>10. \A v \in Writer : writer'[v] = IF v = w THEN q ELSE writer[v]
  BY <1>2, <1>3
<1>11. \A e \in Directory : Within(directory'[e])
  BY <1>6, <1>7 DEF Within
<1>12. writer[w].objects \subseteq Object
  BY DEF SoundInv, RoomInv
<1> QED BY <1>2, <1>5, <1>9, <1>10, <1>11, <1>12, RoomChanges

LEMMA CommitFailsRoom ==
    ASSUME SoundInv, NEW w \in Writer, CommitFails(w)
    PROVE  RoomInv'
<1>1. CASE UNCHANGED directory
  BY <1>1, RestRoom DEF CommitFails
<1>2. ASSUME NEW d \in writer[w].dir, directory' = [directory EXCEPT ![d] = NoDirectory]
      PROVE  RoomInv'
  <2>1. /\ d \in Directory /\ DOMAIN directory = Directory /\ DOMAIN writer = Writer
        /\ writer[w].pc \in {"measure", "write", "sync"} /\ locked' \subseteq locked
    BY InHand DEF CommitFails, Releases, SoundInv, CapturesInv
  <2>2. \A v \in Writer : writer'[v] = IF v = w THEN AtRest ELSE writer[v]
    BY <2>1 DEF CommitFails, Rests
  <2>3. AtRest.pc = "idle" /\ AtRest.objects = {}
    BY DEF AtRest
  <2>4. NoDirectory.files = {} /\ NoDirectory.wants = {}
    BY DEF NoDirectory
  <2>5. \A e \in Directory : directory'[e] = IF e = d THEN NoDirectory ELSE directory[e]
    BY <1>2, <2>1
  <2>6. \A e \in Directory : Within(directory[e])
    BY DEF SoundInv, RoomInv
  <2>7. \A e \in Directory : Within(directory'[e])
    BY <2>4, <2>5, <2>6 DEF Within
  <2>8. \A e \in Directory : directory'[e].files \subseteq directory[e].files
    BY <2>4, <2>5
  <2>9. Used' \in Nat /\ Used' <= Used /\ Used \in Nat /\ Used <= StoreLimit
    BY <2>6, <2>8, FewerFiles, StoreFinite DEF SoundInv, RoomInv
  <2>10. Used' <= StoreLimit
    BY <2>9, StoreAssumption
  <2> QED BY <2>1, <2>2, <2>3, <2>7, <2>10, RoomChanges
<1> QED BY <1>1, <1>2 DEF CommitFails, RemoveStaging

LEMMA RoomPreserved == SoundInv /\ [StoreNext]_storeVars => RoomInv'
<1> SUFFICES ASSUME SoundInv, [StoreNext]_storeVars PROVE RoomInv'
  OBVIOUS
<1>1. CASE UNCHANGED storeVars
  BY <1>1 DEF storeVars, SoundInv, RoomInv, Within, Used, Stored, Missing
<1>2. ASSUME NEW w \in Writer, WriterStep(w) PROVE RoomInv'
  <2>1. CASE \E u \in Url, objects \in (SUBSET Object) \ {{}} : Preserve(w, u, objects)
    BY <2>1, PreserveRoom
  <2>2. CASE Lock(w)
    BY <2>2, DoesRoom DEF Lock, TakesLock
  <2>3. CASE Synced(w)
    BY <2>3, DoesRoom DEF Synced, Releases, SoundInv, RoomInv
  <2>4. CASE Full(w) \/ Killed(w) \/ NameInRow(w)
    BY <2>4, RestRoom DEF Full, Killed, NameInRow
  <2>5. CASE Stage(w) \/ WriteFile(w) \/ Rename(w) \/ CommitFails(w)
    BY <2>5, StageRoom, WriteRoom, RenameRoom, CommitFailsRoom
  <2> QED BY <1>2, <2>1, <2>2, <2>3, <2>4, <2>5 DEF WriterStep
<1> QED BY <1>1, <1>2 DEF StoreNext

\* However many processes write and are killed while they do, what they leave
\* behind included, the store keeps to its size (preservation.py: _commit), and
\* what the rows name is whole.
THEOREM StoreStaysSound == StoreSpec => []StoreIsSound
<1>1. StoreInit => SoundInv
  BY CapturesInitially, RoomInitially DEF SoundInv
<1>2. SoundInv /\ [StoreNext]_storeVars => SoundInv'
  BY CapturesPreserved, RoomPreserved DEF SoundInv
<1>3. SoundInv => StoreIsSound
  BY DEF SoundInv, CapturesInv, RoomInv, Whole, RowsNamed, StoreIsSound, StoreIsBounded,
         VersionsAreWhole, RowsNameVersions, Verified, Missing
<1> QED BY <1>1, <1>2, <1>3, PTL DEF StoreSpec

-----------------------------------------------------------------------------
(* The store implements VersionStore *)

\* What belongs to a capture.
Wanted(files) ==
    /\ {"index.html", "manifest.json"} \subseteq files
    /\ \E object \in Object : object \in files

\* What a writer brings is never empty, and is what the directory it then has is
\* wanted for.
OfferInv ==
    /\ \A w \in Writer : writer[w].pc \in {"lock", "measure"} =>
          \E object \in Object : object \in writer[w].objects
    /\ \A w \in Writer : writer[w].pc \in {"write", "sync", "row"} => writer[w].dir # {}
    /\ \A d \in Directory : directory[d].state # "absent" => Wanted(directory[d].wants)

LEMMA OfferInitially == StoreInit => OfferInv
BY DEF StoreInit, OfferInv, AtRest, NoDirectory

\* A step that changes one directory to x and one writer to q.
LEMMA OfferStays ==
    ASSUME SoundInv, OfferInv, NEW w \in Writer, NEW q,
           \A v \in Writer : writer'[v] = IF v = w THEN q ELSE writer[v],
           q.pc \in {"lock", "measure"} => \E object \in Object : object \in q.objects,
           q.pc \in {"write", "sync", "row"} => q.dir # {},
           \A d \in Directory :
              \/ directory'[d] = directory[d]
              \/ directory'[d].state = "absent"
              \/ Wanted(directory'[d].wants)
    PROVE  OfferInv'
<1>1. ASSUME NEW v \in Writer, writer'[v].pc \in {"lock", "measure"}
      PROVE  \E object \in Object : object \in writer'[v].objects
  BY <1>1 DEF OfferInv
<1>3. ASSUME NEW v \in Writer, writer'[v].pc \in {"write", "sync", "row"}
      PROVE  writer'[v].dir # {}
  BY <1>3 DEF OfferInv
<1>2. ASSUME NEW d \in Directory, directory'[d].state # "absent"
      PROVE  Wanted(directory'[d].wants)
  BY <1>2 DEF OfferInv
<1> QED BY <1>1, <1>2, <1>3 DEF OfferInv, Wanted

LEMMA PreserveOffers ==
    ASSUME SoundInv, OfferInv, NEW w \in Writer, NEW u \in Url,
           NEW objects \in (SUBSET Object) \ {{}}, Preserve(w, u, objects)
    PROVE  OfferInv'
<1> DEFINE q == [AtRest EXCEPT !.pc = "lock", !.url = {u}, !.objects = objects]
<1>1. q.objects = objects /\ q.pc = "lock"
  BY DEF AtRest
<1> HIDE DEF q
<1>2. /\ writer' = [writer EXCEPT ![w] = q] /\ UNCHANGED directory
      /\ DOMAIN writer = Writer
  BY DEF Preserve, q, SoundInv, CapturesInv
<1>3. \E object \in Object : object \in objects
  OBVIOUS
<1> QED BY <1>1, <1>2, <1>3, OfferStays

\* A writer goes on with what it has, or rests, and changes no directory.
LEMMA GoesOnOffers ==
    ASSUME SoundInv, OfferInv, NEW w \in Writer, UNCHANGED directory,
           \/ Rests(w)
           \/ writer[w].pc = "lock" /\ Does(w, "measure")
           \/ writer[w].pc = "sync" /\ Does(w, "row")
    PROVE  OfferInv'
<1>1. DOMAIN writer = Writer /\ DOMAIN writer[w] = {"pc", "url", "objects", "dir"}
  BY DEF SoundInv, CapturesInv, Owns
<1>2. CASE Rests(w)
  BY <1>1, <1>2, OfferStays DEF Rests, AtRest
<1>3. ASSUME NEW pc, Does(w, pc),
             \/ writer[w].pc = "lock" /\ pc = "measure"
             \/ writer[w].pc = "sync" /\ pc = "row"
      PROVE  OfferInv'
  <2> DEFINE q == [writer[w] EXCEPT !.pc = pc]
  <2>1. /\ q.pc = pc /\ q.objects = writer[w].objects /\ q.dir = writer[w].dir
        /\ writer' = [writer EXCEPT ![w] = q]
    BY <1>1, <1>3 DEF Does
  <2> HIDE DEF q
  <2>2. /\ q.pc \in {"lock", "measure"} => \E object \in Object : object \in q.objects
        /\ q.pc \in {"write", "sync", "row"} => q.dir # {}
    BY <1>3, <2>1 DEF OfferInv
  <2>3. \A v \in Writer : writer'[v] = IF v = w THEN q ELSE writer[v]
    BY <1>1, <2>1
  <2> QED BY <2>2, <2>3, OfferStays
<1> QED BY <1>2, <1>3

LEMMA StageOffers ==
    ASSUME SoundInv, OfferInv, NEW w \in Writer, Stage(w)
    PROVE  OfferInv'
<1>1. PICK d \in Directory :
        /\ directory' = [directory EXCEPT ![d] =
             [NoDirectory EXCEPT !.state = "pending", !.url = writer[w].url,
                                 !.wants = Files(writer[w].objects)]]
        /\ writer' = [writer EXCEPT ![w].pc = "write", ![w].dir = {d}]
  BY DEF Stage
<1> DEFINE wants == Files(writer[w].objects)
           x == [NoDirectory EXCEPT !.state = "pending", !.url = writer[w].url, !.wants = wants]
           q == [writer[w] EXCEPT !.pc = "write", !.dir = {d}]
<1>2. x.wants = wants
  BY DEF NoDirectory
<1>3. /\ writer[w].pc = "measure" /\ DOMAIN writer = Writer /\ DOMAIN directory = Directory
      /\ DOMAIN writer[w] = {"pc", "url", "objects", "dir"}
  BY DEF Stage, SoundInv, CapturesInv, Owns
<1>4. q.pc = "write" /\ q.dir = {d}
  BY <1>3
<1>5. directory' = [directory EXCEPT ![d] = x] /\ writer' = [writer EXCEPT ![w] = q]
  BY <1>1, <1>3
<1> HIDE DEF x, q
<1>6. Wanted(wants)
  BY <1>3 DEF OfferInv, Wanted, Files
<1>7. \A e \in Directory : directory'[e] = IF e = d THEN x ELSE directory[e]
  BY <1>3, <1>5
<1>8. \A v \in Writer : writer'[v] = IF v = w THEN q ELSE writer[v]
  BY <1>3, <1>5
<1> QED BY <1>2, <1>4, <1>6, <1>7, <1>8, OfferStays

\* A writer writes, renames or removes its own directory.
LEMMA OwnOffers ==
    ASSUME SoundInv, OfferInv, NEW w \in Writer, WriteFile(w) \/ Rename(w) \/ CommitFails(w)
    PROVE  OfferInv'
<1>1. /\ DOMAIN writer = Writer /\ DOMAIN directory = Directory
      /\ DOMAIN writer[w] = {"pc", "url", "objects", "dir"}
      /\ \A e \in Directory : DOMAIN directory[e] = {"state", "url", "wants", "files"}
      /\ \A e \in writer[w].dir : e \in Directory
  BY DEF SoundInv, CapturesInv, Owns, Whole
<1>2. \A e \in Directory :
        \/ directory'[e] = directory[e]
        \/ directory'[e].state = "absent"
        \/ directory'[e].wants = directory[e].wants /\ directory[e].state # "absent"
  <2>1. CASE CommitFails(w)
    BY <1>1, <2>1 DEF CommitFails, RemoveStaging, NoDirectory
  <2>2. CASE WriteFile(w) \/ Rename(w)
    <3>1. PICK d \in writer[w].dir : \E x : 
             /\ directory' = [directory EXCEPT ![d] = x]
             /\ x.wants = directory[d].wants
      <4>1. CASE WriteFile(w)
        <5>1. PICK d \in writer[w].dir : \E file \in NextFile(d) :
                directory' = [directory EXCEPT ![d].files = @ \cup {file}]
          BY <4>1 DEF WriteFile
        <5>2. PICK file \in NextFile(d) : directory' = [directory EXCEPT ![d].files = @ \cup {file}]
          BY <5>1
        <5>3. [directory[d] EXCEPT !.files = @ \cup {file}].wants = directory[d].wants
          BY <1>1
        <5>4. directory' = [directory EXCEPT ![d] = [directory[d] EXCEPT !.files = @ \cup {file}]]
          BY <1>1, <5>2
        <5> QED BY <5>3, <5>4
      <4>2. CASE Rename(w)
        <5>1. PICK d \in writer[w].dir : directory' = [directory EXCEPT ![d].state = "version"]
          BY <4>2 DEF Rename
        <5>2. [directory[d] EXCEPT !.state = "version"].wants = directory[d].wants
          BY <1>1
        <5>3. directory' = [directory EXCEPT ![d] = [directory[d] EXCEPT !.state = "version"]]
          BY <1>1, <5>1
        <5> QED BY <5>2, <5>3
      <4> QED BY <2>2, <4>1, <4>2
    <3>2. directory[d].state # "absent"
      BY InHand DEF SoundInv
    <3>3. \A e \in Directory : e # d => directory'[e] = directory[e]
      BY <1>1, <3>1
    <3>4. directory'[d].wants = directory[d].wants
      BY <1>1, <3>1
    <3> QED BY <3>2, <3>3, <3>4
  <2> QED BY <2>1, <2>2
<1>3. \A e \in Directory :
        \/ directory'[e] = directory[e]
        \/ directory'[e].state = "absent"
        \/ Wanted(directory'[e].wants)
  BY <1>2 DEF OfferInv
<1>4. PICK q : /\ \A v \in Writer : writer'[v] = IF v = w THEN q ELSE writer[v]
               /\ q.pc \notin {"lock", "measure"}
               /\ q.pc \in {"write", "sync", "row"} => q.dir # {}
  <2>1. CASE WriteFile(w)
    BY <2>1 DEF WriteFile, OfferInv
  <2>2. CASE CommitFails(w)
    BY <1>1, <2>2 DEF CommitFails, Rests, AtRest
  <2>3. CASE Rename(w)
    <3>1. writer' = [writer EXCEPT ![w] = [writer[w] EXCEPT !.pc = "sync"]]
      BY <1>1, <2>3 DEF Rename, Does
    <3>2. /\ [writer[w] EXCEPT !.pc = "sync"].pc = "sync"
          /\ [writer[w] EXCEPT !.pc = "sync"].dir = writer[w].dir
      BY <1>1
    <3>3. writer[w].dir # {}
      BY <2>3 DEF Rename
    <3> QED BY <1>1, <3>1, <3>2, <3>3
  <2> QED BY <2>1, <2>2, <2>3
<1> QED BY <1>3, <1>4, OfferStays

LEMMA OfferPreserved == SoundInv /\ OfferInv /\ [StoreNext]_storeVars => OfferInv'
<1> SUFFICES ASSUME SoundInv, OfferInv, [StoreNext]_storeVars PROVE OfferInv'
  OBVIOUS
<1>1. CASE UNCHANGED storeVars
  BY <1>1 DEF storeVars, OfferInv, Wanted
<1>2. ASSUME NEW w \in Writer, WriterStep(w) PROVE OfferInv'
  <2>1. CASE \E u \in Url, objects \in (SUBSET Object) \ {{}} : Preserve(w, u, objects)
    BY <2>1, PreserveOffers
  <2>2. CASE Lock(w) \/ Full(w) \/ Synced(w) \/ NameInRow(w) \/ Killed(w)
    BY <2>2, GoesOnOffers DEF Lock, Full, Synced, NameInRow, Killed
  <2>3. CASE Stage(w) \/ WriteFile(w) \/ Rename(w) \/ CommitFails(w)
    BY <2>3, StageOffers, OwnOffers
  <2> QED BY <1>2, <2>1, <2>2, <2>3 DEF WriterStep
<1> QED BY <1>1, <1>2 DEF StoreNext

\* Nothing happens to what has its final name.
LEMMA NothingPublished ==
    ASSUME \A d \in Directory :
              \/ directory'[d] = directory[d]
              \/ directory[d].state # "version" /\ directory'[d].state # "version",
           UNCHANGED manifestOf
    PROVE  UNCHANGED Captures!kept
<1> DEFINE publishes(d) == {[page |-> u, files |-> directory[d].files] : u \in Final(d)}
<1>1. ASSUME NEW d \in Directory PROVE publishes(d)' = publishes(d)
  <2>1. CASE directory'[d] = directory[d]
    BY <2>1 DEF Final
  <2>2. CASE directory[d].state # "version" /\ directory'[d].state # "version"
    <3>1. Final(d) = {} /\ Final(d)' = {}
      BY <2>2 DEF Final
    <3> QED BY <3>1
  <2> QED BY <2>1, <2>2
<1>2. [d \in Directory |-> publishes(d)]' = [d \in Directory |-> publishes(d)]
  BY <1>1
<1> QED BY <1>2 DEF Captures!kept

\* The rename publishes a capture, whole.
LEMMA RenamePublishes ==
    ASSUME SoundInv, OfferInv, NEW w \in Writer, Rename(w)
    PROVE  Captures!Next
<1>1. PICK d \in writer[w].dir :
        /\ "manifest.json" \in directory[d].files
        /\ directory' = [directory EXCEPT ![d].state = "version"]
  BY DEF Rename
<1> DEFINE x == [directory[d] EXCEPT !.state = "version"]
           publishes(e) == {[page |-> u, files |-> directory[e].files] : u \in Final(e)}
           version == [e \in Directory |-> publishes(e)]
<1>2. /\ d \in Directory /\ Whole(directory[d]) /\ Owns(writer[w], directory)
      /\ directory[d].state = "pending" /\ writer[w].pc = "write"
      /\ directory[d].url = writer[w].url /\ DOMAIN directory = Directory
  BY InHand DEF Rename, SoundInv, CapturesInv
<1>3. PICK u \in Url : directory[d].url = {u}
  BY <1>2 DEF Owns
<1>4. /\ x.state = "version" /\ x.url = {u} /\ x.files = directory[d].files
      /\ directory' = [directory EXCEPT ![d] = x]
  BY <1>1, <1>2, <1>3 DEF Whole
<1> HIDE DEF x
<1>5. directory'[d] = x /\ \A e \in Directory : e # d => directory'[e] = directory[e]
  BY <1>2, <1>4
<1>6. directory[d].files = directory[d].wants
  BY <1>1, <1>2 DEF Whole, SoundInv, RoomInv, Within
<1>7. Wanted(directory[d].files) /\ directory[d].files \subseteq Files(Object)
  BY <1>2, <1>6 DEF OfferInv, SoundInv, RoomInv, Within
<1> DEFINE v == [page |-> u, files |-> directory[d].files]
<1>8. Captures!IsCapture(v)
  BY <1>7 DEF Captures!IsCapture, Wanted, Files
<1>9. publishes(d) = {} 
  BY <1>2 DEF Final
<1>10. publishes(d)' = {v}
  BY <1>4, <1>5 DEF Final
<1>11. \A e \in Directory : e # d => publishes(e)' = publishes(e)
  BY <1>5 DEF Final
<1> HIDE DEF publishes, v
<1>12. version' = [version EXCEPT ![d] = {v}]
  BY <1>2, <1>10, <1>11
<1>13. version[d] = {} /\ v \in version'[d]
  BY <1>2, <1>9, <1>10
<1>14. UNCHANGED manifestOf
  BY DEF Rename
<1>15. Captures!Publish(d)
  BY <1>8, <1>12, <1>13, <1>14 DEF Captures!Publish, publishes
<1> QED BY <1>2, <1>15 DEF Captures!Next

\* The UPDATE names a capture of that page, where none was named.
LEMMA UpdateNames ==
    ASSUME SoundInv, OfferInv, NEW w \in Writer, NameInRow(w)
    PROVE  Captures!Next \/ UNCHANGED Captures!kept
<1>1. UNCHANGED directory /\ DOMAIN manifestOf = Url /\ Owns(writer[w], directory) /\ writer[w].pc = "row"
  BY DEF NameInRow, SoundInv, CapturesInv, RowsNamed
<1>2. CASE UNCHANGED manifestOf
  BY <1>1, <1>2, NothingPublished
<1>3. ASSUME NEW u \in writer[w].url, manifestOf[u] = {},
             manifestOf' = [manifestOf EXCEPT ![u] = writer[w].dir]
      PROVE  Captures!Next
  <2>1. u \in Url /\ writer[w].url = {u}
    BY <1>1 DEF Owns
  <2>2. PICK d \in writer[w].dir : writer[w].dir = {d}
    BY <1>1 DEF Owns, OfferInv
  <2>3. d \in Directory /\ directory[d].state = "version" /\ directory[d].url = {u}
    BY <1>1, <2>1, <2>2 DEF Owns
  <2> DEFINE publishes(e) == {[page |-> a, files |-> directory[e].files] : a \in Final(e)}
             version == [e \in Directory |-> publishes(e)]
  <2>4. [page |-> u, files |-> directory[d].files] \in publishes(d)
    BY <2>3 DEF Final
  <2>5. \E v \in version[d] : v.page = u
    BY <2>3, <2>4
  <2>6. UNCHANGED version
    BY <1>1 DEF Final
  <2> HIDE DEF version
  <2>7. Captures!Name(u, d)
    BY <1>3, <2>2, <2>5, <2>6 DEF Captures!Name, version
  <2> QED BY <2>1, <2>3, <2>7 DEF Captures!Next
<1> QED BY <1>2, <1>3 DEF NameInRow

LEMMA StoreStep ==
    ASSUME SoundInv, OfferInv, [StoreNext]_storeVars
    PROVE  [Captures!Next]_(Captures!kept)
<1>1. CASE UNCHANGED storeVars
  BY <1>1, NothingPublished DEF storeVars
<1>2. ASSUME NEW w \in Writer, WriterStep(w)
      PROVE  Captures!Next \/ UNCHANGED Captures!kept
  <2>1. DOMAIN directory = Directory
    BY DEF SoundInv, CapturesInv
  <2>2. CASE \/ \E u \in Url, objects \in (SUBSET Object) \ {{}} : Preserve(w, u, objects)
             \/ Lock(w) \/ Full(w) \/ Synced(w) \/ Killed(w)
    <3>1. UNCHANGED <<directory, manifestOf>>
      BY <2>2 DEF Preserve, Lock, Full, Synced, Killed
    <3> QED BY <3>1, NothingPublished
  <2>3. CASE Stage(w)
    <3>1. PICK d \in Directory :
            /\ directory[d].state = "absent"
            /\ directory' = [directory EXCEPT ![d] =
                 [NoDirectory EXCEPT !.state = "pending", !.url = writer[w].url,
                                     !.wants = Files(writer[w].objects)]]
      BY <2>3 DEF Stage
    <3>2. directory'[d].state = "pending" /\ UNCHANGED manifestOf
      BY <2>1, <2>3, <3>1 DEF NoDirectory, Stage
    <3>3. \A e \in Directory : e # d => directory'[e] = directory[e]
      BY <2>1, <3>1
    <3> QED BY <3>1, <3>2, <3>3, NothingPublished
  <2>4. CASE WriteFile(w)
    <3>1. PICK d \in writer[w].dir : \E file \in NextFile(d) :
            directory' = [directory EXCEPT ![d].files = @ \cup {file}]
      BY <2>4 DEF WriteFile
    <3>2. PICK file \in NextFile(d) : directory' = [directory EXCEPT ![d].files = @ \cup {file}]
      BY <3>1
    <3>3. d \in Directory /\ directory[d].state = "pending" /\ Whole(directory[d])
      BY <2>4, InHand DEF WriteFile, SoundInv
    <3>4. [directory[d] EXCEPT !.files = @ \cup {file}].state = "pending"
      BY <3>3 DEF Whole
    <3>5. directory'[d].state = "pending" /\ \A e \in Directory : e # d => directory'[e] = directory[e]
      BY <2>1, <3>2, <3>3, <3>4
    <3>6. UNCHANGED manifestOf
      BY <2>4 DEF WriteFile
    <3> QED BY <3>3, <3>5, <3>6, NothingPublished
  <2>5. CASE CommitFails(w)
    <3>1. UNCHANGED manifestOf
      BY <2>5 DEF CommitFails
    <3>2. CASE UNCHANGED directory
      BY <3>1, <3>2, NothingPublished
    <3>3. ASSUME NEW d \in writer[w].dir, RemoveStaging(d)
          PROVE  UNCHANGED Captures!kept
      <4>1. d \in Directory
        BY InHand DEF SoundInv
      <4>2. /\ directory[d].state # "version" /\ directory'[d].state # "version"
            /\ \A e \in Directory : e # d => directory'[e] = directory[e]
        BY <2>1, <3>3, <4>1 DEF RemoveStaging, NoDirectory
      <4> QED BY <3>1, <4>2, NothingPublished
    <3> QED BY <2>5, <3>2, <3>3 DEF CommitFails
  <2>6. CASE Rename(w) \/ NameInRow(w)
    BY <2>6, RenamePublishes, UpdateNames
  <2> QED BY <1>2, <2>2, <2>3, <2>4, <2>5, <2>6 DEF WriterStep
<1> QED BY <1>1, <1>2 DEF StoreNext

LEMMA StoreStarts == StoreInit => Captures!Init
<1> SUFFICES ASSUME StoreInit PROVE Captures!Init
  OBVIOUS
<1>1. \A d \in Directory : {[page |-> u, files |-> directory[d].files] : u \in Final(d)} = {}
  BY DEF StoreInit, NoDirectory, Final
<1> QED BY <1>1 DEF Captures!Init, StoreInit

\* However captures are written, fail and are killed, by any number of processes
\* (preservation.py: _commit), what the rows and the directories show is a
\* behaviour of VersionStore.
THEOREM VersionsAreKept == StoreSpec => KeepsVersions
<1>1. StoreInit => SoundInv /\ OfferInv
  BY CapturesInitially, RoomInitially, OfferInitially DEF SoundInv
<1>2. SoundInv /\ OfferInv /\ [StoreNext]_storeVars => (SoundInv /\ OfferInv)'
  BY CapturesPreserved, RoomPreserved, OfferPreserved DEF SoundInv
<1> QED BY <1>1, <1>2, StoreStarts, StoreStep, PTL DEF StoreSpec, KeepsVersions, Captures!Spec

-----------------------------------------------------------------------------
(* Tasks and memories *)

\* An event in hand, as a message brought it; and as it is hashed and stored.
IsPayload(p) ==
    /\ p.event \in Event
    /\ p.source \in Message \cup {Nothing, Own}
    /\ p.conversation \in {Conversation[m] : m \in Message} \cup {Nothing, Own}
    /\ p.event \in Sourced => p.source = Own
    /\ p.event \in Placed => p.conversation = Own

Observations ==
    {o \in [event : Event, source : Message \cup {Nothing, Own},
            conversation : {Conversation[m] : m \in Message} \cup {Nothing, Own},
            at : Time \cup {Own}] :
        IsPayload(o) /\ (o.event \in Dated => o.at = Own)}

LEMMA PayloadIs ==
    ASSUME NEW e \in Event, NEW n \in Message \cup {Nothing}
    PROVE  IsPayload(Payload(e, n))
BY DEF IsPayload, Payload

LEMMA ObservationIs ==
    ASSUME NEW p, IsPayload(p), NEW at \in Moments(p.event)
    PROVE  Observation(p, at) \in Observations
BY DEF Observation, Observations, IsPayload, Moments

\* Of what its sender has described completely there is one observation.
LEMMA OneObservation ==
    ASSUME NEW d \in Observations, NEW e \in Observations, d.event = e.event,
           d.event \in SelfContained
    PROVE  d = e
BY DEF Observations, IsPayload, SelfContained

IsTask(r) == DOMAIN r = {"state", "event", "remembered"}

\* Tables that may be shown and kept: a memory belongs to an event, an event has
\* one, and what a completed task says is so.
Truthful(t, r) ==
    r.state = "completed" => r.event \in t.events /\ (r.remembered => Remembered(t, r.event))

Sound(t) ==
    /\ DOMAIN t = {"task", "events", "memories", "links"}
    /\ DOMAIN t.task = Message /\ \A m \in Message : IsTask(t.task[m]) /\ Truthful(t, t.task[m])
    /\ t.events \subseteq Observations /\ \A d, e \in t.events : SameId(d, e) => d = e
    /\ t.memories \in Seq(Observations) /\ IsInjective(t.memories)
    /\ \A e \in Observations : Remembered(t, e) => e \in t.events

\* Nothing is lost from one to the other.
Grown(t, u) ==
    /\ t.events \subseteq u.events
    /\ \A e \in Observations : Remembered(t, e) => Remembered(u, e)

\* What the handler has in hand at each point of its work.
HandlerHolds(h, t, d) ==
    /\ DOMAIN h = {"pc", "message", "event", "remembered"}
    /\ h.pc \in {"idle", "ingest", "event", "memory", "link", "finish", "fail"}
    /\ h.message \in Message \cup {Nothing}
    /\ h.pc = "ingest" => IsPayload(h.event)
    /\ h.pc \in {"event", "memory", "link", "finish"} => h.event \in Observations
    /\ h.pc = "memory" => h.event \in d.events /\ ~Remembered(t, h.event)
    /\ h.pc = "link" => h.event \in d.events /\ Remembered(d, h.event)
    /\ h.pc = "finish" => /\ h.event \in d.events
                          /\ h.remembered => Remembered(d, h.event)

\* Without a fault: who works is worked on, and what deserves a memory has one.
Quiet(t, h) ==
    /\ \A m \in Message : t.task[m].state = "working" => h.pc # "idle" /\ h.message = m
    /\ \A e \in t.events : Novelty[e.event] >= 0 =>
         \/ Agents(e) # {} /\ \E i \in DOMAIN t.memories : Agents(e) \subseteq Agents(t.memories[i])
         \/ Remembered(t, e)
         \/ h.pc = "memory" /\ h.event = e

WitnessInv ==
    /\ Sound(seen) /\ Sound(disk) /\ Grown(disk, seen)
    /\ HandlerHolds(handler, seen, disk)
    /\ faults \in Nat
    /\ faults = 0 => seen = disk /\ Quiet(seen, handler)

LEMMA WitnessInitially == WitnessInit => WitnessInv
<1> SUFFICES ASSUME WitnessInit PROVE WitnessInv
  OBVIOUS
<1>1. IsTask(NoTask) /\ NoTask.state = "none"
  BY DEF NoTask, IsTask
<1>2. /\ DOMAIN Empty = {"task", "events", "memories", "links"}
      /\ DOMAIN Empty.task = Message /\ \A m \in Message : Empty.task[m] = NoTask
      /\ Empty.events = {} /\ Empty.memories = <<>>
  BY DEF Empty
<1>3. \A e : ~Remembered(Empty, e)
  BY <1>2 DEF Remembered
<1>4. <<>> \in Seq(Observations) /\ IsInjective(<<>>)
  BY DEF IsInjective
<1>5. Sound(Empty)
  BY <1>1, <1>2, <1>3, <1>4 DEF Sound, Truthful
<1>6. HandlerHolds(Free, Empty, Empty)
  BY DEF HandlerHolds, Free
<1>7. Quiet(Empty, Free)
  BY <1>1, <1>2 DEF Quiet
<1> QED BY <1>5, <1>6, <1>7 DEF WitnessInit, WitnessInv, Grown

\* A call that makes new of what is seen: it commits, or fails.
LEMMA CallMoves ==
    ASSUME WitnessInv, NEW new, Sound(new), Grown(seen, new),
           HandlerHolds(handler', seen', disk'),
           \/ /\ Commits(new) /\ UNCHANGED faults
              /\ faults = 0 => Quiet(new, handler')
           \/ CallFails(new)
    PROVE  WitnessInv'
<1>1. CASE Commits(new) /\ UNCHANGED faults /\ (faults = 0 => Quiet(new, handler'))
  BY <1>1 DEF Commits, WitnessInv, Grown
<1>2. CASE CallFails(new)
  <2>1. faults' \in Nat /\ faults' # 0
    BY <1>2 DEF CallFails, Fault, WitnessInv
  <2>2. Grown(disk', seen')
    BY <1>2 DEF CallFails, WitnessInv, Grown
  <2> QED BY <1>2, <2>1, <2>2 DEF CallFails, WitnessInv
<1> QED BY <1>1, <1>2

\* Only the handler moves.
LEMMA HandlerMoves ==
    ASSUME WitnessInv, UNCHANGED <<seen, disk, faults>>, HandlerHolds(handler', seen, disk),
           faults = 0 => Quiet(seen, handler')
    PROVE  WitnessInv'
BY DEF WitnessInv

\* A row of the tasks is written.
LEMMA TaskWritten ==
    ASSUME NEW t, Sound(t), NEW m \in Message, NEW r, IsTask(r), Truthful(t, r)
    PROVE  LET new == [t EXCEPT !.task[m] = r] IN
           /\ Sound(new) /\ Grown(t, new)
           /\ new.events = t.events /\ new.memories = t.memories
           /\ \A n \in Message : new.task[n] = IF n = m THEN r ELSE t.task[n]
           /\ \A e : Remembered(new, e) <=> Remembered(t, e)
<1> DEFINE task == [t.task EXCEPT ![m] = r]
           new == [t EXCEPT !.task = task]
<1>1. /\ DOMAIN new = {"task", "events", "memories", "links"} /\ new.task = task
      /\ new.events = t.events /\ new.memories = t.memories
  BY DEF Sound
<1>2. DOMAIN task = Message /\ \A n \in Message : task[n] = IF n = m THEN r ELSE t.task[n]
  BY DEF Sound
<1>3. new = [t EXCEPT !.task[m] = r]
  OBVIOUS
<1> HIDE DEF task, new
<1>4. \A e : Remembered(new, e) <=> Remembered(t, e)
  BY <1>1 DEF Remembered
<1>5. Sound(new)
  BY <1>1, <1>2, <1>4 DEF Sound, Truthful
<1>6. Grown(t, new)
  BY <1>1, <1>4 DEF Grown
<1> QED BY <1>1, <1>2, <1>3, <1>4, <1>5, <1>6

LEMMA WithStateIs ==
    ASSUME WitnessInv, NEW m \in Message, NEW s
    PROVE  LET r == [seen.task[m] EXCEPT !.state = s] IN
           WithState(m, s) = WithTask(m, r) /\ IsTask(r) /\ r.state = s
BY DEF WithState, WithTask, WitnessInv, Sound, IsTask

\* A request without a handler is taken up: event p for the task of m.
LEMMA TakenUp ==
    ASSUME WitnessInv, NEW m \in Message, NEW p, IsPayload(p), handler.pc = "idle",
           \/ /\ Commits(WithState(m, "working")) /\ handler' = Ingests(m, p)
              /\ UNCHANGED faults
           \/ CallFails(WithState(m, "working")) /\ UNCHANGED handler
    PROVE  WitnessInv'
<1> DEFINE r == [seen.task[m] EXCEPT !.state = "working"]
           new == WithTask(m, r)
<1>0. WithState(m, "working") = new /\ IsTask(r) /\ r.state = "working"
  BY WithStateIs
<1> HIDE DEF r
<1>1. Truthful(seen, r)
  BY <1>0 DEF Truthful
<1>2. /\ Sound(new) /\ Grown(seen, new)
      /\ new.events = seen.events /\ new.memories = seen.memories
      /\ \A n \in Message : new.task[n] = IF n = m THEN r ELSE seen.task[n]
      /\ \A x : Remembered(new, x) <=> Remembered(seen, x)
  BY <1>0, <1>1, TaskWritten DEF WitnessInv, WithTask
<1> HIDE DEF new
<1> DEFINE h == Ingests(m, p)
<1>3. /\ DOMAIN h = {"pc", "message", "event", "remembered"}
      /\ h.pc = "ingest" /\ h.message = m /\ h.event = p
  BY DEF Free, Ingests
<1> HIDE DEF h
<1>4. CASE Commits(new) /\ handler' = h /\ UNCHANGED faults
  <2>1. HandlerHolds(handler', new, new)
    BY <1>2, <1>3, <1>4 DEF HandlerHolds
  <2>2. ASSUME faults = 0 PROVE Quiet(new, handler')
    BY <1>0, <1>2, <1>3, <1>4, <2>2 DEF Quiet, WitnessInv
  <2> QED BY <1>2, <1>4, <2>1, <2>2, CallMoves DEF Commits
<1>5. CASE CallFails(new) /\ UNCHANGED handler
  <2>1. HandlerHolds(handler', seen', disk')
    BY <1>5 DEF HandlerHolds, WitnessInv
  <2> QED BY <1>2, <1>5, <2>1, CallMoves
<1> QED BY <1>0, <1>4, <1>5 DEF h

\* No request is in hand and none is taken up: the row of a task is written.
LEMMA LeftAlone ==
    ASSUME WitnessInv, NEW m \in Message, NEW r, IsTask(r), r.state \notin {"working", "completed"},
           handler.pc = "idle", handler' \in {handler, Free},
           \/ Commits(WithTask(m, r)) /\ UNCHANGED faults
           \/ CallFails(WithTask(m, r))
    PROVE  WitnessInv'
<1> DEFINE new == WithTask(m, r)
<1>1. Truthful(seen, r)
  BY DEF Truthful
<1>2. /\ Sound(new) /\ Grown(seen, new)
      /\ new.events = seen.events /\ new.memories = seen.memories
      /\ \A n \in Message : new.task[n] = IF n = m THEN r ELSE seen.task[n]
      /\ \A x : Remembered(new, x) <=> Remembered(seen, x)
  BY <1>1, TaskWritten DEF WitnessInv, WithTask
<1> HIDE DEF new
<1>3. HandlerHolds(handler', seen', disk') /\ handler'.pc = "idle"
  BY DEF HandlerHolds, WitnessInv, Free
<1>4. ASSUME faults = 0 PROVE Quiet(new, handler')
  BY <1>2, <1>3, <1>4 DEF Quiet, WitnessInv
<1> QED BY <1>2, <1>3, <1>4, CallMoves DEF new

LEMMA SendKeeps ==
    ASSUME WitnessInv, NEW m \in Message, NEW e \in Event \cup {Nothing}, Send(m, e)
    PROVE  WitnessInv'
<1>1. CASE e = Nothing
  <2> DEFINE r == [seen.task[m] EXCEPT !.state = "input"]
  <2>1. WithState(m, "input") = WithTask(m, r) /\ IsTask(r) /\ r.state = "input"
    BY WithStateIs
  <2>2. /\ handler.pc = "idle" /\ handler' \in {handler, Free}
        /\ \/ Commits(WithState(m, "input")) /\ UNCHANGED faults
           \/ CallFails(WithState(m, "input"))
    BY <1>1 DEF Send
  <2> HIDE DEF r
  <2> QED BY <2>1, <2>2, LeftAlone
<1>2. CASE e # Nothing
  <2>1. IsPayload(Payload(e, m))
    BY <1>2, PayloadIs
  <2> QED BY <1>2, <2>1, TakenUp DEF Send
<1> QED BY <1>1, <1>2

LEMMA ContinueKeeps ==
    ASSUME WitnessInv, NEW m \in Message, NEW n \in Message, NEW e \in Event, Continue(m, n, e)
    PROVE  WitnessInv'
<1>1. IsPayload(Payload(e, n))
  BY PayloadIs
<1> QED BY <1>1, TakenUp DEF Continue

LEMMA CancelKeeps ==
    ASSUME WitnessInv, NEW m \in Message, Cancel(m)
    PROVE  WitnessInv'
<1> DEFINE r == [seen.task[m] EXCEPT !.state = "canceled"]
<1>1. WithState(m, "canceled") = WithTask(m, r) /\ IsTask(r) /\ r.state = "canceled"
  BY WithStateIs
<1> HIDE DEF r
<1> QED BY <1>1, LeftAlone DEF Cancel

LEMMA PostKeeps ==
    ASSUME WitnessInv, NEW e \in Event, PostEvent(e)
    PROVE  WitnessInv'
<1> DEFINE p == Payload(e, Nothing)
           h == Ingests(Nothing, p)
<1>0. IsPayload(p)
  BY PayloadIs
<1> HIDE DEF p
<1>1. /\ DOMAIN h = {"pc", "message", "event", "remembered"}
      /\ h.pc = "ingest" /\ h.message = Nothing /\ h.event = p
  BY DEF Free, Ingests
<1>2. handler' = h /\ handler.pc = "idle" /\ UNCHANGED <<seen, disk, faults>>
  BY DEF PostEvent, p
<1> HIDE DEF h
<1>3. HandlerHolds(handler', seen, disk)
  BY <1>0, <1>1, <1>2 DEF HandlerHolds
<1>4. ASSUME faults = 0 PROVE Quiet(seen, handler')
  BY <1>1, <1>2, <1>4 DEF Quiet, WitnessInv
<1> QED BY <1>2, <1>3, <1>4, HandlerMoves

-----------------------------------------------------------------------------
(* The handler at work *)

LEMMA HandlerIs ==
    ASSUME WitnessInv, NEW p, NEW b
    PROVE  LET g == Goes(p)
               a == Answers(b) IN
           /\ DOMAIN g = {"pc", "message", "event", "remembered"}
           /\ g.pc = p /\ g.message = handler.message /\ g.event = handler.event
           /\ DOMAIN a = {"pc", "message", "event", "remembered"}
           /\ a.pc = "finish" /\ a.message = handler.message /\ a.event = handler.event
           /\ a.remembered = b
BY DEF Goes, Answers, WitnessInv, HandlerHolds

\* A handler that gives up holds with any tables.
LEMMA FailHolds ==
    ASSUME WitnessInv, NEW t, NEW d
    PROVE  HandlerHolds(Goes("fail"), t, d) /\ Goes("fail").pc = "fail"
           /\ Goes("fail").message = handler.message
BY HandlerIs DEF WitnessInv, HandlerHolds

LEMMA FreeHolds ==
    ASSUME NEW t, NEW d
    PROVE  HandlerHolds(Free, t, d) /\ Free.pc = "idle"
BY DEF HandlerHolds, Free

LEMMA NormalizeKeeps ==
    ASSUME WitnessInv, Normalize
    PROVE  WitnessInv'
<1>1. IsPayload(handler.event) /\ handler.pc = "ingest"
  BY DEF Normalize, WitnessInv, HandlerHolds
<1>2. faults = 0 => Quiet(seen, Goes("fail"))
  BY <1>1, FailHolds DEF WitnessInv, Quiet
<1>3. Grown(seen, seen) /\ Sound(seen)
  BY DEF Grown, WitnessInv
<1>4. ASSUME NEW at \in Moments(handler.event.event), Commits(seen), UNCHANGED faults,
             handler' = [Goes("event") EXCEPT !.event = Observation(handler.event, at)]
      PROVE  WitnessInv'
  <2> DEFINE o == Observation(handler.event, at)
  <2>1. o \in Observations
    BY <1>1, ObservationIs
  <2> HIDE DEF o
  <2>2. handler' = [Goes("event") EXCEPT !.event = o]
    BY <1>4 DEF o
  <2>3. /\ DOMAIN handler' = {"pc", "message", "event", "remembered"}
        /\ handler'.pc = "event" /\ handler'.message = handler.message /\ handler'.event = o
    BY <2>2, HandlerIs
  <2>4. HandlerHolds(handler', seen, seen)
    BY <2>1, <2>3 DEF HandlerHolds, WitnessInv
  <2>5. ASSUME faults = 0 PROVE Quiet(seen, handler')
    BY <1>1, <2>3, <2>5 DEF Quiet, WitnessInv
  <2> QED BY <1>3, <1>4, <2>4, <2>5, CallMoves DEF Commits
<1>5. CASE CallFails(seen) /\ handler' = Goes("fail")
  BY <1>3, <1>5, FailHolds, CallMoves
<1>6. CASE handler' = Goes("fail") /\ UNCHANGED <<seen, disk, faults>>
  BY <1>2, <1>6, FailHolds, HandlerMoves
<1> QED BY <1>4, <1>5, <1>6 DEF Normalize

LEMMA StoreKeeps ==
    ASSUME WitnessInv, StoreEvent
    PROVE  WitnessInv'
<1> DEFINE e == handler.event
           new == [seen EXCEPT !.events = @ \cup {e}]
<1>1. e \in Observations /\ handler.pc = "event"
  BY DEF StoreEvent, WitnessInv, HandlerHolds
<1>2. /\ new.events = seen.events \cup {e} /\ new.memories = seen.memories
      /\ new.task = seen.task /\ DOMAIN new = {"task", "events", "memories", "links"}
  BY DEF WitnessInv, Sound
<1> HIDE DEF new
<1>3. \A x : Remembered(new, x) <=> Remembered(seen, x)
  BY <1>2 DEF Remembered
<1>4. ASSUME ~Conflicts(e) PROVE Sound(new) /\ Grown(seen, new)
  <2>1. \A x, y \in new.events : SameId(x, y) => x = y
    BY <1>2, <1>4 DEF Conflicts, SameId, Sound, WitnessInv
  <2> QED BY <1>1, <1>2, <1>3, <2>1 DEF Sound, Grown, Truthful, WitnessInv
<1>5. CASE seen' = disk /\ UNCHANGED <<disk, faults>>
           /\ handler' = IF e \in disk.events THEN Answers(AnswersAgain(e)) ELSE Goes("fail")
  <2>1. HandlerHolds(Goes("fail"), disk, disk) /\ Goes("fail").pc = "fail"
    BY FailHolds
  <2>2. handler'.message = handler.message /\ handler'.pc \in {"finish", "fail"}
    BY <1>5, HandlerIs
  <2>3. ASSUME e \in disk.events PROVE HandlerHolds(Answers(AnswersAgain(e)), disk, disk)
    BY <1>1, <2>3, HandlerIs DEF HandlerHolds, WitnessInv, AnswersAgain
  <2>4. HandlerHolds(handler', seen', disk')
    BY <1>5, <2>1, <2>3
  <2>5. ASSUME faults = 0 PROVE Quiet(seen', handler')
    BY <1>1, <1>5, <2>2, <2>5 DEF Quiet, WitnessInv
  <2> QED BY <1>5, <2>4, <2>5 DEF WitnessInv, Grown
<1>6. CASE ~Conflicts(e) /\ Commits(new) /\ handler' = Goes("memory") /\ UNCHANGED faults
  <2>1. e \notin seen.events
    BY <1>6 DEF Conflicts
  <2>2. ~Remembered(new, e) /\ e \in new.events
    BY <1>1, <1>2, <1>3, <2>1 DEF WitnessInv, Sound
  <2>3. /\ DOMAIN handler' = {"pc", "message", "event", "remembered"}
        /\ handler'.pc = "memory" /\ handler'.message = handler.message /\ handler'.event = e
    BY <1>6, HandlerIs
  <2>4. HandlerHolds(handler', new, new)
    BY <1>1, <1>2, <2>2, <2>3 DEF HandlerHolds, WitnessInv
  <2>5. ASSUME faults = 0 PROVE Quiet(new, handler')
    BY <1>1, <1>2, <1>3, <2>3, <2>5 DEF Quiet, WitnessInv
  <2> QED BY <1>4, <1>6, <2>4, <2>5, CallMoves DEF Commits
<1>7. CASE ~Conflicts(e) /\ CallFails(new) /\ handler' = Goes("fail")
  BY <1>4, <1>7, FailHolds, CallMoves
<1> QED BY <1>5, <1>6, <1>7 DEF StoreEvent, new

\* One more memory, of an event that has none.
LEMMA OneMore ==
    ASSUME NEW s \in Seq(Observations), NEW e \in Observations, IsInjective(s), \A i \in DOMAIN s : s[i] # e
    PROVE  LET a == Append(s, e) IN
           /\ a \in Seq(Observations) /\ IsInjective(a)
           /\ \A i \in DOMAIN s : i \in DOMAIN a /\ a[i] = s[i]
           /\ \E i \in DOMAIN a : a[i] = e
           /\ \A i \in DOMAIN a : i \in DOMAIN s \/ a[i] = e
<1> DEFINE a == Append(s, e)
<1>1. /\ a \in Seq(Observations) /\ Len(a) = Len(s) + 1 /\ a[Len(s) + 1] = e
      /\ \A i \in 1 .. Len(s) : a[i] = s[i]
  BY AppendProperties
<1>2. DOMAIN s = 1 .. Len(s) /\ DOMAIN a = 1 .. (Len(s) + 1) /\ Len(s) \in Nat
  BY <1>1
<1> HIDE DEF a
<1>3. \A i \in DOMAIN a : i \in DOMAIN s \/ i = Len(s) + 1
  BY <1>2
<1>4. IsInjective(a)
  BY <1>1, <1>2, <1>3 DEF IsInjective
<1> QED BY <1>1, <1>2, <1>3, <1>4 DEF a

\* Who is not significant is not the first.
LEMMA NotTheFirst ==
    ASSUME NEW e \in Observations, ~Significant(e), Novelty[e.event] >= 0
    PROVE  Agents(e) # {} /\ \E i \in DOMAIN seen.memories : Agents(e) \subseteq Agents(seen.memories[i])
<1> DEFINE S == {i \in DOMAIN seen.memories : Agents(e) \subseteq Agents(seen.memories[i])}
<1>1. Novelty[e.event] \in Int
  BY WitnessAssumption DEF Observations
<1>2. Prior(e) # 0
  BY <1>1 DEF Significant
<1>3. Agents(e) # {} /\ Cardinality(S) # 0
  BY <1>2 DEF Prior
<1>4. S # {}
  BY <1>3, FS_EmptySet
<1> QED BY <1>3, <1>4

LEMMA MemoryKeeps ==
    ASSUME WitnessInv, MakeMemory
    PROVE  WitnessInv'
<1> DEFINE e == handler.event
           list == Append(seen.memories, e)
           new == [seen EXCEPT !.memories = list]
<1>1. /\ e \in Observations /\ handler.pc = "memory" /\ e \in disk.events /\ e \in seen.events
      /\ ~Remembered(seen, e)
  BY DEF MakeMemory, WitnessInv, HandlerHolds, Grown
<1>2. /\ new.memories = list /\ new.events = seen.events
      /\ new.task = seen.task /\ DOMAIN new = {"task", "events", "memories", "links"}
  BY DEF WitnessInv, Sound
<1>3. /\ list \in Seq(Observations) /\ IsInjective(list)
      /\ \A i \in DOMAIN seen.memories : i \in DOMAIN list /\ list[i] = seen.memories[i]
      /\ \E i \in DOMAIN list : list[i] = e
      /\ \A i \in DOMAIN list : i \in DOMAIN seen.memories \/ list[i] = e
  <2>1. seen.memories \in Seq(Observations) /\ IsInjective(seen.memories)
        /\ \A i \in DOMAIN seen.memories : seen.memories[i] # e
    BY <1>1 DEF Remembered, WitnessInv, Sound
  <2> QED BY <1>1, <2>1, OneMore
<1> HIDE DEF new, list
<1>4. \A x : Remembered(new, x) <=> Remembered(seen, x) \/ x = e
  BY <1>2, <1>3 DEF Remembered
<1>5. Sound(new) /\ Grown(seen, new)
  BY <1>1, <1>2, <1>3, <1>4 DEF Sound, Grown, Truthful, WitnessInv
<1>6. CASE ~Significant(e) /\ handler' = Answers(FALSE) /\ UNCHANGED <<seen, disk, faults>>
  <2>1. /\ DOMAIN handler' = {"pc", "message", "event", "remembered"}
        /\ handler'.pc = "finish" /\ handler'.message = handler.message /\ handler'.event = e
        /\ ~handler'.remembered
    BY <1>6, HandlerIs
  <2>2. HandlerHolds(handler', seen, disk)
    BY <1>1, <2>1 DEF HandlerHolds, WitnessInv
  <2>3. ASSUME faults = 0 PROVE Quiet(seen, handler')
    BY <1>1, <1>6, <2>1, <2>3, NotTheFirst DEF Quiet, WitnessInv
  <2> QED BY <1>6, <2>2, <2>3, HandlerMoves
<1>7. CASE Commits(new) /\ handler' = Goes("link") /\ UNCHANGED faults
  <2>1. /\ DOMAIN handler' = {"pc", "message", "event", "remembered"}
        /\ handler'.pc = "link" /\ handler'.message = handler.message /\ handler'.event = e
    BY <1>7, HandlerIs
  <2>2. HandlerHolds(handler', new, new)
    BY <1>1, <1>2, <1>4, <2>1 DEF HandlerHolds, WitnessInv
  <2>3. ASSUME faults = 0 PROVE Quiet(new, handler')
    <3>1. \A m \in Message : new.task[m].state = "working" =>
            handler'.pc # "idle" /\ handler'.message = m
      BY <1>2, <2>1, <2>3 DEF Quiet, WitnessInv
    <3>2. ASSUME NEW x \in new.events, Novelty[x.event] >= 0
          PROVE  \/ Agents(x) # {} /\ \E i \in DOMAIN new.memories :
                      Agents(x) \subseteq Agents(new.memories[i])
                 \/ Remembered(new, x)
      <4>1. \/ Agents(x) # {} /\ \E i \in DOMAIN seen.memories :
                  Agents(x) \subseteq Agents(seen.memories[i])
            \/ Remembered(seen, x)
            \/ x = e
        BY <1>2, <2>3, <3>2 DEF Quiet, WitnessInv
      <4> QED BY <1>2, <1>3, <1>4, <4>1
    <3> QED BY <3>1, <3>2 DEF Quiet
  <2> QED BY <1>5, <1>7, <2>2, <2>3, CallMoves DEF Commits
<1>8. CASE CallFails(new) /\ handler' = Goes("fail")
  BY <1>5, <1>8, FailHolds, CallMoves
<1> QED BY <1>6, <1>7, <1>8 DEF MakeMemory, WithMemory, new, list

LEMMA LinkKeeps ==
    ASSUME WitnessInv, LinkMemory
    PROVE  WitnessInv'
<1> DEFINE e == handler.event
           Linked(d) == [seen EXCEPT !.links = @ \cup {<<d, e>>}]
<1>1. e \in Observations /\ handler.pc = "link" /\ e \in disk.events /\ Remembered(disk, e)
  BY DEF LinkMemory, WitnessInv, HandlerHolds
<1>2. /\ DOMAIN Answers(TRUE) = {"pc", "message", "event", "remembered"}
      /\ Answers(TRUE).pc = "finish" /\ Answers(TRUE).message = handler.message
      /\ Answers(TRUE).event = e
  BY HandlerIs
<1>3. HandlerHolds(Answers(TRUE), seen, disk)
  BY <1>1, <1>2 DEF HandlerHolds, WitnessInv
<1>4. ASSUME faults = 0 PROVE Quiet(seen, Answers(TRUE))
  BY <1>1, <1>2, <1>4 DEF Quiet, WitnessInv
<1>5. CASE handler' = Answers(TRUE) /\ UNCHANGED <<seen, disk, faults>>
  BY <1>3, <1>4, <1>5, HandlerMoves
<1>6. ASSUME NEW d, \/ Commits(Linked(d)) /\ handler' = Answers(TRUE) /\ UNCHANGED faults
                    \/ CallFails(Linked(d)) /\ handler' = Goes("fail")
      PROVE  WitnessInv'
  <2> DEFINE new == Linked(d)
  <2>1. /\ new.memories = seen.memories /\ new.events = seen.events
        /\ new.task = seen.task /\ DOMAIN new = {"task", "events", "memories", "links"}
    BY DEF WitnessInv, Sound
  <2> HIDE DEF new
  <2>2. \A x : Remembered(new, x) <=> Remembered(seen, x)
    BY <2>1 DEF Remembered
  <2>3. Sound(new) /\ Grown(seen, new)
    BY <2>1, <2>2 DEF Sound, Grown, Truthful, WitnessInv
  <2>4. CASE Commits(new) /\ handler' = Answers(TRUE) /\ UNCHANGED faults
    <3>1. HandlerHolds(handler', new, new)
      BY <1>1, <1>2, <2>1, <2>2, <2>4 DEF HandlerHolds, WitnessInv, Grown
    <3>2. ASSUME faults = 0 PROVE Quiet(new, handler')
      BY <1>4, <2>1, <2>2, <2>4, <3>2 DEF Quiet
    <3> QED BY <2>3, <2>4, <3>1, <3>2, CallMoves DEF Commits
  <2>5. CASE CallFails(new) /\ handler' = Goes("fail")
    BY <2>3, <2>5, FailHolds, CallMoves
  <2> QED BY <1>6, <2>4, <2>5 DEF new
<1> QED BY <1>5, <1>6 DEF LinkMemory

LEMMA FinishKeeps ==
    ASSUME WitnessInv, FinishTask
    PROVE  WitnessInv'
<1> DEFINE m == handler.message
           r == [state |-> "completed", event |-> handler.event,
                 remembered |-> handler.remembered]
           new == WithTask(m, r)
<1>1. /\ handler.event \in Observations /\ handler.pc = "finish" /\ m \in Message \cup {Nothing}
      /\ handler.event \in disk.events
      /\ handler.remembered => Remembered(disk, handler.event)
  BY DEF FinishTask, WitnessInv, HandlerHolds
<1>2. CASE m = Nothing /\ handler' = Free /\ UNCHANGED <<seen, disk, faults>>
  <2>1. ASSUME faults = 0 PROVE Quiet(seen, handler')
    BY <1>1, <1>2, <2>1, WitnessAssumption DEF Quiet, WitnessInv
  <2> QED BY <1>2, <2>1, FreeHolds, HandlerMoves
<1>3. ASSUME m \in Message,
             \/ Commits(new) /\ handler' = Free /\ UNCHANGED faults
             \/ CallFails(new) /\ handler' = Goes("fail")
      PROVE  WitnessInv'
  <2>2. /\ IsTask(r) /\ r.state = "completed" /\ r.event = handler.event
        /\ r.remembered = handler.remembered
    BY DEF IsTask
  <2> HIDE DEF r
  <2>3. Truthful(seen, r)
    BY <1>1, <2>2 DEF Truthful, WitnessInv, Grown
  <2>4. /\ Sound(new) /\ Grown(seen, new)
        /\ new.events = seen.events /\ new.memories = seen.memories
        /\ \A n \in Message : new.task[n] = IF n = m THEN r ELSE seen.task[n]
        /\ \A x : Remembered(new, x) <=> Remembered(seen, x)
    BY <1>3, <2>2, <2>3, TaskWritten DEF WitnessInv, WithTask
  <2> HIDE DEF new
  <2>5. CASE Commits(new) /\ handler' = Free /\ UNCHANGED faults
    <3>1. ASSUME faults = 0 PROVE Quiet(new, handler')
      BY <1>1, <2>2, <2>4, <2>5, <3>1 DEF Quiet, WitnessInv
    <3> QED BY <2>4, <2>5, <3>1, FreeHolds, CallMoves
  <2>6. CASE CallFails(new) /\ handler' = Goes("fail")
    BY <2>4, <2>6, FailHolds, CallMoves
  <2> QED BY <1>3, <2>5, <2>6
<1> QED BY <1>1, <1>2, <1>3 DEF FinishTask

LEMMA FailKeeps ==
    ASSUME WitnessInv, FailTask
    PROVE  WitnessInv'
<1> DEFINE m == handler.message
           r == [seen.task[m] EXCEPT !.state = "failed"]
           new == WithTask(m, r)
<1>1. handler.pc = "fail" /\ m \in Message \cup {Nothing} /\ handler' = Free
  BY DEF FailTask, WitnessInv, HandlerHolds
<1>2. CASE m = Nothing /\ UNCHANGED <<seen, disk, faults>>
  <2>1. ASSUME faults = 0 PROVE Quiet(seen, handler')
    BY <1>1, <1>2, <2>1, WitnessAssumption DEF Quiet, WitnessInv
  <2> QED BY <1>1, <1>2, <2>1, FreeHolds, HandlerMoves
<1>3. ASSUME m \in Message, (Commits(new) /\ UNCHANGED faults) \/ CallFails(new)
      PROVE  WitnessInv'
  <2>2. IsTask(r) /\ r.state = "failed"
    BY <1>3, WithStateIs
  <2> HIDE DEF r
  <2>3. Truthful(seen, r)
    BY <2>2 DEF Truthful
  <2>4. /\ Sound(new) /\ Grown(seen, new)
        /\ new.events = seen.events /\ new.memories = seen.memories
        /\ \A n \in Message : new.task[n] = IF n = m THEN r ELSE seen.task[n]
        /\ \A x : Remembered(new, x) <=> Remembered(seen, x)
    BY <1>3, <2>2, <2>3, TaskWritten DEF WitnessInv, WithTask
  <2> HIDE DEF new
  <2>5. ASSUME faults = 0 PROVE Quiet(new, handler')
    BY <1>1, <2>2, <2>4, <2>5 DEF Quiet, WitnessInv
  <2> QED BY <1>1, <1>3, <2>4, <2>5, FreeHolds, CallMoves
<1>4. m \in Message => WithState(m, "failed") = new
  BY WithStateIs
<1> QED BY <1>1, <1>2, <1>3, <1>4 DEF FailTask

LEMMA CrashKeeps ==
    ASSUME WitnessInv, WitnessCrash
    PROVE  WitnessInv'
<1>1. faults' \in Nat /\ faults' # 0
  BY DEF WitnessCrash, Fault, WitnessInv
<1> QED BY <1>1, FreeHolds DEF WitnessCrash, WitnessInv, Grown

LEMMA WitnessPreserved == WitnessInv /\ [WitnessNext]_witnessVars => WitnessInv'
<1> SUFFICES ASSUME WitnessInv, [WitnessNext]_witnessVars PROVE WitnessInv'
  OBVIOUS
<1>1. CASE UNCHANGED witnessVars
  BY <1>1 DEF witnessVars, WitnessInv
<1>2. CASE \E m \in Message, e \in Event \cup {Nothing} : Send(m, e)
  BY <1>2, SendKeeps
<1>3. CASE \E m, n \in Message, e \in Event : Continue(m, n, e)
  BY <1>3, ContinueKeeps
<1>4. CASE \E m \in Message : Cancel(m)
  BY <1>4, CancelKeeps
<1>5. CASE \E e \in Event : PostEvent(e)
  BY <1>5, PostKeeps
<1>6. CASE Handles
  BY <1>6, NormalizeKeeps, StoreKeeps, MemoryKeeps, LinkKeeps, FinishKeeps, FailKeeps DEF Handles
<1>7. CASE WitnessCrash
  BY <1>7, CrashKeeps
<1> QED BY <1>1, <1>2, <1>3, <1>4, <1>5, <1>6, <1>7 DEF WitnessNext

\* What a client reads of its task is so (handlers.py: _complete_memory_task,
\* engine.py: ingest): without a fault a working task is worked on, and whatever
\* failed or was rolled back, the result of a completed one is on the disk.
THEOREM ATaskIsHonest == WitnessSpec => []TasksAreHonest
<1>1. WitnessInv => TasksAreHonest
  BY DEF WitnessInv, Sound, Truthful, Quiet, TasksAreHonest, TasksTellTheTruth, WorkingIsWorkedOn,
         WorkedOn
<1> QED BY <1>1, WitnessInitially, WitnessPreserved, PTL DEF WitnessSpec

\* No event is remembered twice that names its id, or that brings its source, its
\* conversation and its time, and no other twice as it was observed
\* (repository.py: insert_event); and without a fault the first event of its
\* agents that is worth a memory has one.
THEOREM AMemoryEach == WitnessSpec => []OneMemoryEach
<1>1. WitnessInv => FirstIsRemembered
  BY DEF WitnessInv, Quiet, FirstIsRemembered
<1>2. WitnessInv => RememberedOnce
  <2> SUFFICES ASSUME WitnessInv, NEW i \in DOMAIN seen.memories, NEW j \in DOMAIN seen.memories,
                      i # j
               PROVE  LET d == seen.memories[i]
                          e == seen.memories[j] IN
                      d # e /\ ~SameId(d, e) /\ (d.event = e.event => d.event \notin SelfContained)
    BY DEF RememberedOnce
  <2> DEFINE d == seen.memories[i]
             e == seen.memories[j]
  <2>1. seen.memories \in Seq(Observations) /\ IsInjective(seen.memories)
    BY DEF WitnessInv, Sound
  <2>2. d \in Observations /\ e \in Observations
    BY <2>1
  <2>3. d # e
    BY <2>1 DEF IsInjective
  <2>4. d \in seen.events /\ e \in seen.events
    BY <2>2 DEF WitnessInv, Sound, Remembered
  <2>5. ~SameId(d, e)
    BY <2>3, <2>4 DEF WitnessInv, Sound
  <2>6. d.event = e.event => d.event \notin SelfContained
    BY <2>2, <2>3, OneObservation
  <2> QED BY <2>3, <2>5, <2>6
<1> QED BY <1>1, <1>2, WitnessInitially, WitnessPreserved, PTL DEF WitnessSpec, OneMemoryEach
=============================================================================
