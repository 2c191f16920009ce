------------------------- MODULE CaptureQueueSafety -------------------------
(***************************************************************************)
(* Safety of CaptureQueue, for any number of workers, URLs and sources:    *)
(* what each worker knows about the row and the post it has in hand.       *)
(***************************************************************************)
EXTENDS CaptureQueueProofs

\* A page that brings a text is live, and a worker knows the promotion columns
\* while it rechecks.
KnowsWhatItRechecks ==
    \A w \in Worker :
        /\ proc[w].pc \in {"save", "store"} /\ proc[w].page.body # Null
             => proc[w].page.status = "live"
        /\ proc[w].pc \in {"rows", "store", "resolve"} => proc[w].knows

PromotionInv == TypeOK /\ KnowsWhatItRechecks /\ PromotionNotLost

\* Whatever a worker is about to record of a URL is so.
EvidenceInHand ==
    /\ \A u \in Url : post[u].status = "hard" => u \in gone
    /\ \A w \in Worker :
         LET p == proc[w] IN
         /\ p.pc \in {"save", "store"} /\ p.page.status = "hard" => p.url \in gone
         /\ p.pc = "finish" /\ p.success => post[p.url].body # Null
         /\ p.pc \in {"settle", "resolve"} =>
              /\ p.verdict.status = "captured" => post[p.url].body # Null
              /\ p.verdict.status = "deleted" => p.url \in gone

ReasonInv == TypeOK /\ EvidenceInHand /\ GivenUpForAReason

\* A lease is at most as old as the row, and no two workers have the same one.
LeaseInHand ==
    /\ \A u \in Url : queue[u].status = "absent" => queue[u].attempts = 0
    /\ \A w \in Worker : proc[w].pc \in Attempting =>
         /\ 0 < proc[w].attempts /\ proc[w].attempts <= queue[proc[w].url].attempts
         /\ proc[w].pc = "settle" => proc[w].verdict.attempts = proc[w].attempts
    /\ \A v, w \in Worker :
         /\ v # w /\ proc[v].pc \in Attempting /\ proc[w].pc \in Attempting
         /\ proc[v].url = proc[w].url
         => proc[v].attempts # proc[w].attempts

LeaseInv == TypeOK /\ LeaseInHand /\ LeaseKept

\* A row that is just due is the first of the overdue ones.
LEMMA RankedNow ==
    ASSUME NEW q \in [Url -> QueueRow], NEW u \in Url, q[u].due = 0
    PROVE  Ranked(q)[u] = q[u]
<1> DEFINE overdue == {q[v].due : v \in {x \in Url : q[x].due # Null /\ q[x].due <= 0}}
           later == {d \in overdue : d > q[u].due}
<1>1. later = {}
    <2>1. \A d \in overdue : d \in Int /\ d <= 0
        BY DEF QueueRow
    <2> HIDE DEF overdue
    <2> QED BY <2>1
<1>2. Cardinality(later) = 0
    BY <1>1, FS_EmptySet
<1>3. Ranked(q)[u] = q[u] \/ Ranked(q)[u] = [q[u] EXCEPT !.due = -Cardinality(later)]
    BY DEF Ranked
<1> HIDE DEF later
<1>4. q[u] \in QueueRow
    OBVIOUS
<1>5. [q[u] EXCEPT !.due = q[u].due] = q[u]
    BY <1>4 DEF QueueRow
<1>6. \A n \in Int : -n \in Int /\ (-n) + n = 0
    OBVIOUS
<1> DEFINE place == -Cardinality(later)
<1>7. place \in Int /\ place + Cardinality(later) = 0
    BY <1>2, <1>6
<1> HIDE DEF place
<1>8. place = q[u].due
    BY <1>2, <1>7
<1> QED BY <1>3, <1>5, <1>8 DEF place
-----------------------------------------------------------------------------
(* What each step does to the rows of the queue *)

LEMMA BecomesOnly ==
    ASSUME TypeOK, NEW w \in Worker, NEW state, Becomes(w, state)
    PROVE  /\ proc'[w] = state
           /\ \A v \in Worker : v # w => proc'[v] = proc[v]
BY DEF TypeOK, Becomes

\* A row keeps its status and attempts, and a time that is still to come.
Keeps(new, old) ==
    /\ new.status = old.status
    /\ new.attempts = old.attempts
    /\ old.due \in Int /\ old.due > 0 => new = old

LEMMA RankedKeeps ==
    ASSUME NEW q \in [Url -> QueueRow], NEW u \in Url
    PROVE  Keeps(Ranked(q)[u], q[u])
BY RankedType DEF Keeps

LEMMA DiscoverRows ==
    ASSUME TypeOK, NEW w \in Worker, NEW listed \in SUBSET Url, Discover(w, listed), NEW u \in Url
    PROVE  \/ Keeps(queue'[u], queue[u])
           \/ /\ queue[u].status = "absent"
              /\ queue'[u].status = "queued" /\ queue'[u].attempts = 0
<1> DEFINE new == {v \in listed : post[v].body = Null /\ post[v].status # "hard"}
           row == [NoRow EXCEPT !.status = "queued", !.due = 0]
           q == Enqueue(queue, new)
<1>1. row \in QueueRow /\ row.status = "queued" /\ row.attempts = 0
    <2>1. 0 \in Int \cup {Null} /\ "queued" \in Unfinished /\ NoRow \in QueueRow
        BY IdleType DEF Unfinished
    <2>2. row \in QueueRow
        BY <2>1, RowType
    <2>3. row.status = "queued" /\ row.attempts = 0
        BY DEF NoRow
    <2> QED BY <2>2, <2>3
<1>2. q = [v \in Url |-> IF v \in new /\ queue[v].status = "absent" THEN row ELSE queue[v]]
    BY DEF Enqueue
<1>3. queue' = Ranked(q)
    BY DEF Discover
<1> HIDE DEF row, new, q
<1>4. q \in [Url -> QueueRow]
    BY <1>1, <1>2 DEF TypeOK
<1>5. Keeps(queue'[u], q[u])
    BY <1>3, <1>4, RankedKeeps
<1>6. q[u] = queue[u] \/ (queue[u].status = "absent" /\ q[u] = row)
    BY <1>2
<1> QED BY <1>1, <1>5, <1>6 DEF Keeps

LEMMA ClaimRows ==
    ASSUME TypeOK, NEW w \in Worker, Claim(w), Claimable(Head(Head(proc[w].groups))), NEW u \in Url
    PROVE  LET c == Head(Head(proc[w].groups)) IN
           /\ c \in Claims
           /\ u # c.url => Keeps(queue'[u], queue[u])
           /\ u = c.url => /\ queue'[u].status = "capturing"
                           /\ queue'[u].attempts = Raised(c.attempts)
<1> DEFINE c == Head(Head(proc[w].groups))
           row == [queue[c.url] EXCEPT !.status = "capturing",
                      !.attempts = Raised(c.attempts), !.due = ClaimTicks]
           q == [queue EXCEPT ![c.url] = row]
<1>1. c \in Claims
    BY HeadType DEF Claim
<1>2. c.url \in Url /\ c.attempts \in Nat /\ Raised(c.attempts) \in Nat
    <2>1. c.url \in Url /\ c.attempts \in Nat
        BY <1>1 DEF Claims
    <2> HIDE DEF c
    <2> QED BY <2>1 DEF Raised
<1>3. queue' = Ranked(q)
    BY DEF Claim
<1> HIDE DEF c
<1>4. row \in QueueRow /\ row.status = "capturing" /\ row.attempts = Raised(c.attempts)
    <2>1. queue[c.url] \in QueueRow
        BY <1>2 DEF TypeOK
    <2>2. ClaimTicks \in Int
        BY Numbers
    <2> QED BY <1>2, <2>1, <2>2 DEF QueueRow, Unfinished
<1> HIDE DEF row
<1>5. q \in [Url -> QueueRow] /\ (u # c.url => q[u] = queue[u]) /\ (u = c.url => q[u] = row)
    BY <1>2, <1>4 DEF TypeOK
<1> HIDE DEF q
<1>6. Keeps(queue'[u], q[u])
    BY <1>3, <1>5, RankedKeeps
<1> QED BY <1>1, <1>4, <1>5, <1>6 DEF Keeps, c

LEMMA FinishRows ==
    ASSUME TypeOK, NEW w \in Worker, FinishWrite(w), NEW u \in Url
    PROVE  \/ Keeps(queue'[u], queue[u])
           \/ /\ u = proc[w].url
              /\ queue[u].status = "capturing" /\ queue[u].attempts = proc[w].attempts
              /\ queue'[u].status = proc[w].verdict.status
              /\ queue'[u].attempts = proc[w].verdict.attempts
<1> DEFINE q == [queue EXCEPT ![proc[w].url] = proc[w].verdict]
<1>1. proc[w].verdict \in QueueRow /\ proc[w].url \in Url
    BY DEF TypeOK, WorkerState, InHand, Attempting, FinishWrite
<1>2. q \in [Url -> QueueRow] /\ \A v \in Url : IF v = proc[w].url THEN q[v] = proc[w].verdict
                                                               ELSE q[v] = queue[v]
    BY <1>1 DEF TypeOK
<1>3. CASE Holds(queue[proc[w].url], proc[w].attempts)
    <2>1. queue' = Ranked(q)
        BY <1>3 DEF FinishWrite
    <2> HIDE DEF q
    <2>2. Keeps(queue'[u], q[u])
        BY <1>2, <2>1, RankedKeeps
    <2> QED BY <1>2, <1>3, <2>2 DEF Keeps, Holds
<1>4. CASE ~Holds(queue[proc[w].url], proc[w].attempts)
    BY <1>4 DEF FinishWrite, Keeps
<1> QED BY <1>3, <1>4

LEMMA ResolveRows ==
    ASSUME TypeOK, NEW w \in Worker, Resolve(w), NEW u \in Url
    PROVE  \/ Keeps(queue'[u], queue[u])
           \/ /\ u = proc[w].url
              /\ queue'[u].status = proc[w].verdict.status /\ proc[w].verdict.status \in Terminal
              /\ queue'[u].attempts = queue[u].attempts
<1>1. proc[w].url \in Url /\ queue[proc[w].url] \in QueueRow /\ proc[w].verdict.status \in Terminal
    BY DEF TypeOK, InHand, Resolve
<1> DEFINE row == [queue[proc[w].url] EXCEPT !.status = proc[w].verdict.status, !.due = Null]
<1>2. queue' = queue \/ queue' = [queue EXCEPT ![proc[w].url] = row]
    BY <1>1 DEF Resolve, TypeOK
<1>3. row.status = proc[w].verdict.status /\ row.attempts = queue[proc[w].url].attempts
    BY <1>1 DEF QueueRow
<1> HIDE DEF row
<1> QED BY <1>1, <1>2, <1>3 DEF Keeps, TypeOK

\* Time only shortens what is left, and keeps the rest of a row.
LEMMA TickRows ==
    ASSUME TypeOK, Tick, NEW u \in Url
    PROVE  /\ queue'[u].status = queue[u].status
           /\ queue'[u].attempts = queue[u].attempts
           /\ queue[u].due \in Int /\ queue[u].due > 0 => queue'[u] = [queue[u] EXCEPT !.due = @ - 1]
<1> DEFINE older(v) == [queue[v] EXCEPT !.due = @ - 1]
           q == [v \in Url |-> IF queue[v].due = Null THEN queue[v] ELSE older(v)]
<1>1. ASSUME NEW v \in Url, queue[v].due # Null
      PROVE  /\ older(v) \in QueueRow /\ older(v).status = queue[v].status
             /\ older(v).attempts = queue[v].attempts /\ older(v).due = queue[v].due - 1
    <2>1. queue[v] \in QueueRow /\ queue[v].due \in Int
        BY <1>1 DEF TypeOK, QueueRow
    <2> DEFINE n == queue[v].due - 1
    <2>2. n \in Int
        BY <2>1
    <2> HIDE DEF n
    <2>3. older(v) = [queue[v] EXCEPT !.due = n]
        BY DEF n
    <2>4. older(v) \in QueueRow /\ older(v).status = queue[v].status
          /\ older(v).attempts = queue[v].attempts /\ older(v).due = n
        BY <2>1, <2>2, <2>3 DEF QueueRow
    <2> QED BY <2>4 DEF n
<1>2. queue' = Ranked(q)
    BY DEF Tick
<1> HIDE DEF older
<1>3. \A v \in Url : IF queue[v].due = Null THEN q[v] = queue[v] ELSE q[v] = older(v)
    OBVIOUS
<1>4. q \in [Url -> QueueRow]
    <2>1. \A v \in Url : q[v] \in QueueRow
        BY <1>1, <1>3 DEF TypeOK
    <2> QED BY <2>1
<1> HIDE DEF q
<1>5. Keeps(queue'[u], q[u])
    BY <1>2, <1>4, RankedKeeps
<1>6. queue'[u].status = queue[u].status /\ queue'[u].attempts = queue[u].attempts
    BY <1>1, <1>3, <1>5 DEF Keeps
<1>7. ASSUME queue[u].due \in Int, queue[u].due > 0
      PROVE  queue'[u] = older(u)
    <2>1. queue[u].due # Null
        BY <1>7, Numbers
    <2>2. q[u] = older(u) /\ q[u].due = queue[u].due - 1
        BY <1>1, <1>3, <2>1
    <2> DEFINE n == q[u].due
    <2>3. n \in Int /\ n >= 0
        BY <1>7, <2>2
    <2> HIDE DEF n
    <2>4. CASE n > 0
        BY <1>5, <2>2, <2>3, <2>4 DEF Keeps, n
    <2>5. CASE n = 0
        BY <1>2, <1>4, <2>2, <2>5, RankedNow DEF n
    <2> QED BY <2>3, <2>4, <2>5
<1> QED BY <1>6, <1>7 DEF older
-----------------------------------------------------------------------------
(* The first text of a post *)

LEMMA TextStep ==
    ASSUME TypeOK, [Next]_vars, NEW u \in Url, post[u].body # Null
    PROVE  post'[u].body = post[u].body
<1>1. post[u] \in Post
    BY DEF TypeOK
<1>2. ASSUME NEW w \in Worker, Capture(w)
      PROVE  post'[u].body = post[u].body
    BY <1>1, <1>2 DEF Capture, TypeOK, Post
<1>3. ASSUME NEW w \in Worker, Save(w)
      PROVE  post'[u].body = post[u].body
    <2>1. post' = post \/ (Free(post[proc[w].url]) /\ \E new : post' = [post EXCEPT ![proc[w].url] = new])
        BY <1>3 DEF Save
    <2> QED BY <2>1 DEF Free, TypeOK
<1>4. ASSUME NEW w \in Worker, RecheckStore(w)
      PROVE  post'[u].body = post[u].body
    <2> DEFINE page == proc[w].page
               brings == page.body # Null /\ proc[w].needs
               body == IF brings THEN page.body ELSE Null
    <2>1. /\ proc[w].url \in Url /\ page.status \in Verdict /\ page.body \in Text
          /\ proc[w].knows \in BOOLEAN
        BY <1>4 DEF TypeOK, InHand, RecheckStore, WorkerState
    <2>2. body \in Text
        BY <2>1 DEF Text
    <2>3. \/ post' = post
          \/ /\ brings => Free(post[proc[w].url])
             /\ post' = [post EXCEPT ![proc[w].url] =
                           Updated(post[proc[w].url], page.status, body, proc[w].knows)]
        BY <1>4 DEF RecheckStore
    <2> HIDE DEF page
    <2>4. CASE proc[w].url = u /\ brings
        BY <2>3, <2>4 DEF Free
    <2>5. CASE proc[w].url = u /\ ~brings
        <3>1. Updated(post[u], page.status, Null, proc[w].knows).body = post[u].body
            BY <1>1, <2>1, <2>2, <2>5, UpdatedType
        <3> QED BY <2>3, <2>5, <3>1 DEF TypeOK
    <2>6. CASE proc[w].url # u
        BY <2>3, <2>6 DEF TypeOK
    <2> QED BY <2>4, <2>5, <2>6
<1>5. \/ \E w \in Worker : Capture(w) \/ Save(w) \/ RecheckStore(w)
      \/ post' = post
    BY DEF Next, WorkerStep, Crash, Change, Tick, vars, Discover, Plan, Claim, Drained, CaptureFails,
       FinishRead, FinishWrite, PollFails, SelectRows, RecheckFetch, Resolve, RecheckFails, Rechecked
<1> QED BY <1>2, <1>3, <1>4, <1>5
-----------------------------------------------------------------------------
(* Back-offs *)

LEMMA BackoffStep ==
    ASSUME TypeOK, [Next]_vars, NEW u \in Url, queue[u].status = "retry", queue[u].due > 0
    PROVE  \/ queue'[u] = queue[u] \/ queue'[u].status \in Terminal
           \/ queue'[u] = [queue[u] EXCEPT !.due = @ - 1]
<1>1. queue[u].due \in Int
    <2>1. queue[u].due # Null /\ queue[u] \in QueueRow
        BY DEF TypeOK, Unfinished
    <2> QED BY <2>1 DEF QueueRow
<1>2. \A new : Keeps(new, queue[u]) => new = queue[u]
    BY <1>1 DEF Keeps
<1>3. ASSUME NEW w \in Worker, NEW listed \in SUBSET Url, Discover(w, listed)
      PROVE  queue'[u] = queue[u]
    BY <1>2, <1>3, DiscoverRows
<1>4. ASSUME NEW w \in Worker, Claim(w)
      PROVE  queue'[u] = queue[u]
    <2> DEFINE c == Head(Head(proc[w].groups))
    <2>1. CASE Claimable(c)
        <3>1. u # c.url
            BY <2>1, <1>1 DEF Claimable
        <3> QED BY <1>2, <1>4, <2>1, <3>1, ClaimRows
    <2>2. CASE ~Claimable(c)
        BY <1>4, <2>2 DEF Claim
    <2> QED BY <2>1, <2>2
<1>5. ASSUME NEW w \in Worker, FinishWrite(w)
      PROVE  queue'[u] = queue[u]
    BY <1>2, <1>5, FinishRows
<1>6. ASSUME NEW w \in Worker, Resolve(w)
      PROVE  queue'[u] = queue[u] \/ queue'[u].status \in Terminal
    BY <1>2, <1>6, ResolveRows
<1>7. ASSUME Tick
      PROVE  queue'[u] = [queue[u] EXCEPT !.due = @ - 1]
    BY <1>1, <1>7, TickRows
<1>8. \/ \E w \in Worker : \/ \E listed \in SUBSET Url : Discover(w, listed)
                           \/ Claim(w) \/ FinishWrite(w) \/ Resolve(w)
      \/ Tick
      \/ queue' = queue
    BY DEF Next, WorkerStep, Crash, Change, vars, Plan, Drained, Capture, Save, CaptureFails,
       FinishRead, PollFails, SelectRows, RecheckFetch, RecheckStore, RecheckFails, Rechecked
<1> QED BY <1>3, <1>4, <1>5, <1>6, <1>7, <1>8

\* Neither rediscovery nor another worker shortens a back-off (discovery.py:28):
\* it runs down tick by tick, or ends because the post is settled.
THEOREM BackoffIsKept == Spec => BackoffKept
<1>1. TypeOK /\ [Next]_vars
        => [\A u \in Url : queue[u].status = "retry" /\ queue[u].due > 0 =>
              \/ queue'[u] = queue[u] \/ queue'[u].status \in Terminal
              \/ queue'[u] = [queue[u] EXCEPT !.due = @ - 1]]_vars
    BY BackoffStep
<1> QED BY <1>1, TypeCorrect, PTL DEF Spec, BackoffKept
-----------------------------------------------------------------------------
(* What a post was fetched as, and what is recorded of it *)

\* A page brings a text only if it is live, and is gone only if somebody saw it so.
LEMMA LookFinds ==
    ASSUME TypeOK, NEW w \in Worker, NEW u \in Url, NEW needed \in BOOLEAN,
           NEW next \in WorkerState, Look(w, u, needed, next)
    PROVE  \E page \in [status : Verdict, body : Text] :
              /\ proc' = [proc EXCEPT ![w] = [next EXCEPT !.page = page]]
              /\ page.body # Null => page.status = "live"
              /\ page.status = "hard" => u \in gone'
<1>1. site[u] \in Version \cup {"soft", "gone", "error"}
    BY SetAssumption DEF TypeOK, Web
<1>2. /\ Judge(site[u]) \in [status : Verdict, body : Text]
      /\ Judge(site[u]).body # Null => Judge(site[u]).status = "live"
      /\ Judge(site[u]).status = "hard" => site[u] = "gone"
    BY <1>1, SetAssumption DEF Judge, Verdict, Text
<1>3. /\ Unstored \in [status : Verdict, body : Text]
      /\ Unstored.body = Null /\ Unstored.status # "hard"
    BY DEF Unstored, Verdict, Text
<1>4. site[u] = "gone" => u \in gone'
    BY DEF Look
<1>5. \/ proc' = [proc EXCEPT ![w] = [next EXCEPT !.page = Judge(site[u])]]
      \/ proc' = [proc EXCEPT ![w] = [next EXCEPT !.page = Unstored]]
    BY DEF Look, Becomes
<1> HIDE DEF Judge, Unstored
<1> QED BY <1>2, <1>3, <1>4, <1>5

\* The post that Save and RecheckStore leave.
LEMMA SavePost ==
    ASSUME TypeOK, NEW w \in Worker, Save(w)
    PROVE  LET u == proc[w].url
               page == proc[w].page IN
           /\ u \in Url
           /\ \A v \in Url : v # u => post'[v] = post[v]
           /\ post'[u] = post[u] \/
                /\ post[u].body = Null
                /\ post'[u].status = page.status
                /\ post'[u].body = page.body
           /\ proc'[w].pc = "finish" /\ proc'[w].url = u
           /\ proc'[w].success => page.body # Null /\ post'[u].body = page.body
<1> DEFINE u == proc[w].url
           page == proc[w].page
<1>1. /\ u \in Url /\ proc[w] \in WorkerState /\ page.status \in Verdict /\ page.body \in Text
    BY DEF TypeOK, InHand, Attempting, Save, WorkerState
<1>2. PICK found \in BOOLEAN :
         /\ post' = IF Free(post[u])
                    THEN [post EXCEPT ![u] = Updated(@, page.status, page.body, KnowsAfter(w, found))]
                    ELSE post
         /\ Becomes(w, [proc[w] EXCEPT !.pc = "finish", !.knows = KnowsAfter(w, found), !.page = NoPage,
                          !.success = page.body # Null /\ Free(post[u])])
         /\ KnowsAfter(w, found) \in BOOLEAN
    BY ProbeType DEF Save
<1> HIDE DEF u, page
<1>3. /\ proc'[w].pc = "finish" /\ proc'[w].url = u
      /\ proc'[w].success => page.body # Null /\ Free(post[u])
    <2> DEFINE success == page.body # Null /\ Free(post[u])
    <2>1. proc'[w] = [proc[w] EXCEPT !.pc = "finish", !.knows = KnowsAfter(w, found),
                                     !.page = NoPage, !.success = success]
        BY <1>2, BecomesOnly
    <2> HIDE DEF success
    <2>2. proc'[w].pc = "finish" /\ proc'[w].url = u /\ proc'[w].success = success
        BY <1>1, <2>1 DEF WorkerState, u
    <2> QED BY <2>2 DEF success
<1>4. CASE Free(post[u])
    <2>1. post[u] \in Post /\ post[u].body = Null
        BY <1>1, <1>4 DEF TypeOK, Free
    <2>2. post' = [post EXCEPT ![u] = Updated(post[u], page.status, page.body, KnowsAfter(w, found))]
        BY <1>2, <1>4
    <2>3. post'[u] = Updated(post[u], page.status, page.body, KnowsAfter(w, found))
          /\ \A v \in Url : v # u => post'[v] = post[v]
        BY <1>1, <2>2 DEF TypeOK
    <2>4. post'[u].status = page.status /\ post'[u].body = page.body
        BY <1>1, <1>2, <2>1, <2>3, UpdatedType
    <2> QED BY <1>1, <1>3, <2>1, <2>3, <2>4 DEF u, page
<1>5. CASE ~Free(post[u])
    BY <1>1, <1>2, <1>3, <1>5 DEF u, page
<1> QED BY <1>4, <1>5

LEMMA RecheckPost ==
    ASSUME TypeOK, NEW w \in Worker, RecheckStore(w)
    PROVE  LET u == proc[w].url
               page == proc[w].page
               brings == page.body # Null /\ proc[w].needs
               stored == /\ post'[u].status = page.status
                         /\ post'[u].body = IF brings THEN page.body ELSE post[u].body
                         /\ post'[u].hard = (post[u].hard \/ (page.status = "hard" /\ proc[w].knows)) IN
           /\ u \in Url
           /\ \A v \in Url : v # u => post'[v] = post[v]
           /\ post'[u] = post[u] \/ stored
           /\ \/ /\ proc'[w].pc = "resolve" /\ proc'[w].url = u /\ proc'[w].knows = proc[w].knows
                 /\ stored
                 /\ proc'[w].verdict.status = "captured" /\ brings
              \/ /\ proc'[w].pc = "resolve" /\ proc'[w].url = u /\ proc'[w].knows = proc[w].knows
                 /\ stored
                 /\ proc'[w].verdict.status = "deleted" /\ page.status = "hard"
              \/ proc'[w] = NextRow(w)
<1> DEFINE u == proc[w].url
           page == proc[w].page
           brings == page.body # Null /\ proc[w].needs
           saved == brings => Free(post[u])
           body == IF brings THEN page.body ELSE Null
           stored == /\ post'[u].status = page.status
                     /\ post'[u].body = IF brings THEN page.body ELSE post[u].body
                     /\ post'[u].hard = (post[u].hard \/ (page.status = "hard" /\ proc[w].knows))
           Resolving(status) == [proc[w] EXCEPT !.pc = "resolve", !.verdict.status = status]
<1>1. /\ u \in Url /\ proc[w] \in WorkerState /\ page.status \in Verdict /\ page.body \in Text
      /\ proc[w].knows \in BOOLEAN /\ proc[w].verdict \in QueueRow
    BY DEF TypeOK, InHand, RecheckStore, WorkerState
<1>2. body \in Text /\ (brings => body = page.body /\ body # Null) /\ (~brings => body = Null)
    BY <1>1 DEF Text
<1>3. /\ saved => post' = [post EXCEPT ![u] = Updated(post[u], page.status, body, proc[w].knows)]
      /\ ~saved => post' = post
    BY DEF RecheckStore
<1>4. \/ saved /\ brings /\ Becomes(w, Resolving("captured"))
      \/ saved /\ page.status = "hard" /\ Becomes(w, Resolving("deleted"))
      \/ Becomes(w, NextRow(w))
    BY DEF RecheckStore
<1>5. \A status \in {"captured", "deleted"} : /\ Resolving(status).pc = "resolve" /\ Resolving(status).url = u
                             /\ Resolving(status).knows = proc[w].knows
                             /\ Resolving(status).verdict.status = status
    BY <1>1 DEF WorkerState, QueueRow
<1> HIDE DEF Resolving, body, brings, page, u
<1>6. saved => stored /\ \A v \in Url : v # u => post'[v] = post[v]
    <2> SUFFICES ASSUME saved PROVE stored /\ \A v \in Url : v # u => post'[v] = post[v]
        OBVIOUS
    <2>1. post'[u] = Updated(post[u], page.status, body, proc[w].knows)
          /\ \A v \in Url : v # u => post'[v] = post[v]
        BY <1>1, <1>3 DEF TypeOK
    <2>2. post[u] \in Post
        BY <1>1 DEF TypeOK
    <2>3. /\ post'[u].status = page.status
          /\ post'[u].body = IF body = Null THEN post[u].body ELSE body
          /\ post'[u].hard = (post[u].hard \/ (page.status = "hard" /\ proc[w].knows))
        BY <1>1, <1>2, <2>1, <2>2, UpdatedType
    <2> QED BY <1>2, <2>1, <2>3
<1>7. ~saved => \A v \in Url : post'[v] = post[v]
    BY <1>3
<1> HIDE DEF saved, stored
<1>8. \/ saved /\ brings /\ proc'[w] = Resolving("captured")
      \/ saved /\ page.status = "hard" /\ proc'[w] = Resolving("deleted")
      \/ proc'[w] = NextRow(w)
    BY <1>4, BecomesOnly
<1>9. \/ /\ proc'[w].pc = "resolve" /\ proc'[w].url = u /\ proc'[w].knows = proc[w].knows
         /\ stored /\ proc'[w].verdict.status = "captured" /\ brings
      \/ /\ proc'[w].pc = "resolve" /\ proc'[w].url = u /\ proc'[w].knows = proc[w].knows
         /\ stored /\ proc'[w].verdict.status = "deleted" /\ page.status = "hard"
      \/ proc'[w] = NextRow(w)
    BY <1>5, <1>6, <1>8
<1>10. post'[u] = post[u] \/ stored
    BY <1>1, <1>6, <1>7
<1>11. \A v \in Url : v # u => post'[v] = post[v]
    BY <1>6, <1>7
<1> QED BY <1>1, <1>9, <1>10, <1>11 DEF u, page, brings, stored
-----------------------------------------------------------------------------
(* Posts that are kept and gone *)

LEMMA PromotionInit == Init => PromotionInv
BY InitTypeOK DEF Init, PromotionInv, KnowsWhatItRechecks, PromotionNotLost, Idle, NoPost

\* A worker that reaches these points knows no more of its page than before.
LEMMA KnowsStep ==
    ASSUME TypeOK, KnowsWhatItRechecks, [Next]_vars
    PROVE  KnowsWhatItRechecks'
<1> DEFINE Good(p) == /\ p.pc \in {"save", "store"} /\ p.page.body # Null => p.page.status = "live"
                      /\ p.pc \in {"rows", "store", "resolve"} => p.knows
<1>1. \A w \in Worker : Good(proc[w])
    BY DEF KnowsWhatItRechecks
<1>2. ASSUME NEW w \in Worker, NEW state, Becomes(w, state), Good(state)
      PROVE  KnowsWhatItRechecks'
    <2>1. \A v \in Worker : Good(proc'[v])
        <3> HIDE DEF Good
        <3> QED BY <1>1, <1>2, BecomesOnly
    <2> QED BY <2>1 DEF KnowsWhatItRechecks
<1>3. ASSUME NEW w \in Worker, WorkerStep(w) \/ Crash(w)
      PROVE  KnowsWhatItRechecks'
    <2>1. proc[w] \in WorkerState /\ Rest(w) \in WorkerState /\ NextRow(w) \in WorkerState
          /\ Rest(w).pc = "idle" /\ NextRow(w).pc = "rows" /\ NextRow(w).knows = proc[w].knows
        <3>1. proc[w] \in WorkerState /\ Rest(w) \in WorkerState /\ NextRow(w) \in WorkerState
              /\ Rest(w).pc = "idle" /\ NextRow(w).pc = "rows"
            BY RestType DEF TypeOK
        <3>2. NextRow(w).knows = proc[w].knows
            BY IdleType DEF NextRow, Rest, WorkerState
        <3> QED BY <3>1, <3>2
    <2>2. ASSUME NEW listed \in SUBSET Url, Discover(w, listed)
          PROVE  KnowsWhatItRechecks'
        BY <1>2, <2>1, <2>2 DEF Discover, WorkerState
    <2>3. CASE Plan(w)
        <3>1. PICK g : Becomes(w, [proc[w] EXCEPT !.pc = "drain", !.budget = Budget, !.groups = g])
            BY <2>3 DEF Plan
        <3> QED BY <1>2, <2>1, <3>1 DEF WorkerState
    <2>4. CASE Claim(w)
        BY <1>1, <1>2, <2>1, <2>4 DEF Claim, WorkerState
    <2>5. CASE Drained(w)
        BY <1>2, <2>1, <2>5 DEF Drained, WorkerState
    <2>6. CASE Capture(w)
        <3>1. CASE Becomes(w, [proc[w] EXCEPT !.pc = "finish", !.success = post[proc[w].url].body # Null])
            BY <1>2, <2>1, <3>1 DEF WorkerState
        <3>2. CASE Look(w, proc[w].url, TRUE, [proc[w] EXCEPT !.pc = "save"])
            <4> DEFINE next == [proc[w] EXCEPT !.pc = "save"]
            <4>1. proc[w].url \in Url /\ next \in WorkerState /\ next.pc = "save"
                BY <2>1, <2>6 DEF TypeOK, InHand, Attempting, Capture, WorkerState
            <4>2. PICK needed \in BOOLEAN : Look(w, proc[w].url, needed, next)
                BY <3>2
            <4> HIDE DEF next
            <4>3. PICK page \in [status : Verdict, body : Text] :
                    /\ Becomes(w, [next EXCEPT !.page = page])
                    /\ page.body # Null => page.status = "live"
                BY <4>1, <4>2, LookFinds DEF Becomes
            <4>4. Good([next EXCEPT !.page = page])
                BY <4>1, <4>3 DEF WorkerState
            <4> QED BY <1>2, <4>3, <4>4
        <3> QED BY <2>6, <3>1, <3>2 DEF Capture
    <2>7. CASE Save(w)
        <3>1. PICK state : Becomes(w, state)
            BY <2>7 DEF Save
        <3>2. state.pc = "finish"
            BY <2>7, <3>1, SavePost, BecomesOnly
        <3> QED BY <1>2, <3>1, <3>2
    <2>8. CASE CaptureFails(w) \/ FinishRead(w)
        BY <1>2, <2>1, <2>8 DEF CaptureFails, FinishRead, WorkerState
    <2>9. CASE FinishWrite(w)
        BY <1>2, <2>1, <2>9 DEF FinishWrite, WorkerState
    <2>10. CASE PollFails(w) \/ Rechecked(w)
        BY <1>2, <2>1, <2>10 DEF PollFails, Rechecked
    <2>11. CASE SelectRows(w)
        <3>1. PICK found \in BOOLEAN :
                IF KnowsAfter(w, found)
                THEN \E read : Becomes(w, [Idle EXCEPT !.pc = "rows", !.knows = KnowsAfter(w, found),
                                                       !.rows = read])
                ELSE Becomes(w, Rest(w))
            BY <2>11 DEF SelectRows, MayRecheck
        <3>2. CASE KnowsAfter(w, found)
            <4>1. PICK read : Becomes(w, [Idle EXCEPT !.pc = "rows", !.knows = KnowsAfter(w, found),
                                                      !.rows = read])
                BY <3>1, <3>2
            <4>2. Good([Idle EXCEPT !.pc = "rows", !.knows = KnowsAfter(w, found), !.rows = read])
                BY <3>2 DEF Idle
            <4> QED BY <1>2, <4>1, <4>2
        <3>3. CASE ~KnowsAfter(w, found)
            BY <1>2, <2>1, <3>1, <3>3
        <3> QED BY <3>2, <3>3
    <2>12. CASE RecheckFetch(w)
        <3>1. PICK r \in proc[w].rows :
                Look(w, r.url, r.needs, [proc[w] EXCEPT !.pc = "store", !.rows = @ \ {r},
                                                        !.url = r.url, !.needs = r.needs])
            BY <2>12 DEF RecheckFetch
        <3> DEFINE next == [proc[w] EXCEPT !.pc = "store", !.rows = @ \ {r},
                                           !.url = r.url, !.needs = r.needs]
        <3>2. r.url \in Url /\ r.needs \in BOOLEAN /\ next \in WorkerState /\ next.knows = proc[w].knows
            BY <2>1 DEF WorkerState
        <3>3. proc[w].knows
            BY <1>1, <2>12 DEF RecheckFetch
        <3>4. Look(w, r.url, r.needs, next)
            BY <3>1
        <3> HIDE DEF next
        <3>5. PICK page \in [status : Verdict, body : Text] :
                /\ Becomes(w, [next EXCEPT !.page = page])
                /\ page.body # Null => page.status = "live"
            BY <3>2, <3>4, LookFinds DEF Becomes
        <3>6. Good([next EXCEPT !.page = page])
            BY <3>2, <3>3, <3>5 DEF WorkerState
        <3> QED BY <1>2, <3>5, <3>6
    <2>13. CASE RecheckStore(w)
        <3>1. proc[w].knows
            BY <1>1, <2>13 DEF RecheckStore
        <3>2. PICK state : Becomes(w, state)
            BY <2>13 DEF RecheckStore
        <3>3. (state.pc = "resolve" /\ state.knows) \/ state = NextRow(w)
            BY <2>13, <3>1, <3>2, RecheckPost, BecomesOnly
        <3> QED BY <1>2, <2>1, <3>1, <3>2, <3>3
    <2>14. CASE Resolve(w) \/ RecheckFails(w)
        <3>1. proc[w].knows
            BY <1>1, <2>14 DEF Resolve, RecheckFails
        <3> QED BY <1>2, <2>1, <2>14, <3>1 DEF Resolve, RecheckFails
    <2>15. CASE Crash(w)
        BY <1>2, <2>15 DEF Crash, Idle
    <2> QED BY <1>3, <2>2, <2>3, <2>4, <2>5, <2>6, <2>7, <2>8, <2>9, <2>10, <2>11, <2>12, <2>13,
               <2>14, <2>15 DEF WorkerStep
<1>4. CASE UNCHANGED proc
    BY <1>4 DEF KnowsWhatItRechecks
<1> QED BY <1>3, <1>4 DEF Next, Change, Tick, vars

LEMMA PromotionStep == PromotionInv /\ [Next]_vars => PromotionInv'
<1> SUFFICES ASSUME PromotionInv, [Next]_vars PROVE PromotionNotLost'
    BY NextTypeOK, KnowsStep DEF PromotionInv
<1> USE DEF PromotionInv
<1> DEFINE Kept(p) == p.body # Null /\ p.status = "hard" => p.hard
<1>1. \A u \in Url : Kept(post[u])
    BY DEF PromotionNotLost
<1>2. ASSUME NEW w \in Worker, Capture(w), NEW u \in Url
      PROVE  Kept(post'[u])
    <2>1. post[u] \in Post /\ Kept(post[u])
        BY <1>1 DEF TypeOK
    <2>2. post'[u] = post[u] \/ post'[u] = [post[u] EXCEPT !.here = TRUE]
        BY <1>2 DEF Capture, TypeOK
    <2> QED BY <2>1, <2>2 DEF Post
<1>3. ASSUME NEW w \in Worker, Save(w), NEW u \in Url
      PROVE  Kept(post'[u])
    <2>1. proc[w].page.body # Null => proc[w].page.status = "live"
        BY <1>3 DEF KnowsWhatItRechecks, Save
    <2>2. CASE u # proc[w].url
        BY <1>1, <1>3, <2>2, SavePost
    <2>3. CASE u = proc[w].url
        <3>1. post'[u] = post[u] \/ (post'[u].status = proc[w].page.status
                                     /\ post'[u].body = proc[w].page.body)
            BY <1>3, <2>3, SavePost
        <3> QED BY <1>1, <2>1, <3>1
    <2> QED BY <2>2, <2>3
<1>4. ASSUME NEW w \in Worker, RecheckStore(w), NEW u \in Url
      PROVE  Kept(post'[u])
    <2>1. /\ proc[w].page.body # Null => proc[w].page.status = "live"
          /\ proc[w].knows
        BY <1>4 DEF KnowsWhatItRechecks, RecheckStore
    <2>2. CASE u # proc[w].url
        BY <1>1, <1>4, <2>2, RecheckPost
    <2>3. CASE u = proc[w].url
        <3>1. \/ post'[u] = post[u]
              \/ /\ post'[u].status = proc[w].page.status
                 /\ post'[u].hard = (post[u].hard \/ (proc[w].page.status = "hard" /\ proc[w].knows))
            BY <1>4, <2>3, RecheckPost
        <3> QED BY <1>1, <2>1, <3>1
    <2> QED BY <2>2, <2>3
<1>5. \/ \E w \in Worker : Capture(w) \/ Save(w) \/ RecheckStore(w)
      \/ post' = post
    BY DEF Next, WorkerStep, Crash, Change, Tick, vars, Discover, Plan, Claim, Drained, CaptureFails,
       FinishRead, FinishWrite, PollFails, SelectRows, RecheckFetch, Resolve, RecheckFails, Rechecked
<1>6. \A u \in Url : Kept(post'[u])
    BY <1>1, <1>2, <1>3, <1>4, <1>5
<1> QED BY <1>6 DEF PromotionNotLost

\* A kept post that answered 404 or 410 always has its hard_deleted_at, the mark
\* by which it is promoted (collector.py:642-649, 718-723).
THEOREM PromotionIsNotLost == Spec => []PromotionNotLost
<1>1. PromotionInv => PromotionNotLost
    BY DEF PromotionInv
<1> QED BY <1>1, PromotionInit, PromotionStep, PTL DEF Spec
-----------------------------------------------------------------------------
(* Why the queue gives up *)

\* What a worker has in hand is so of the posts ps and the URLs g seen gone.
Backed(p, ps, g) ==
    /\ p.pc \in {"save", "store"} /\ p.page.status = "hard" => p.url \in g
    /\ p.pc = "finish" /\ p.success => ps[p.url].body # Null
    /\ p.pc \in {"settle", "resolve"} =>
         /\ p.verdict.status = "captured" => ps[p.url].body # Null
         /\ p.verdict.status = "deleted" => p.url \in g

LEMMA ReasonInit == Init => ReasonInv
BY InitTypeOK DEF Init, ReasonInv, EvidenceInHand, GivenUpForAReason, Idle, NoPost, NoRow

LEMMA GoneGrows ==
    ASSUME TypeOK, [Next]_vars
    PROVE  gone \subseteq gone'
<1>1. ASSUME NEW w \in Worker, NEW u, NEW needed \in BOOLEAN, NEW next, Look(w, u, needed, next)
      PROVE  gone \subseteq gone'
    BY <1>1 DEF Look
<1>2. ASSUME NEW w \in Worker, Capture(w)
      PROVE  gone \subseteq gone'
    BY <1>1, <1>2 DEF Capture
<1>3. ASSUME NEW w \in Worker, RecheckFetch(w)
      PROVE  gone \subseteq gone'
    <2>1. PICK r \in proc[w].rows : \E next : Look(w, r.url, r.needs, next)
        BY <1>3 DEF RecheckFetch
    <2> QED BY <2>1 DEF Look
<1>4. \/ \E w \in Worker : Capture(w) \/ RecheckFetch(w)
      \/ gone' = gone
    BY DEF Next, WorkerStep, Crash, Change, Tick, vars, Discover, Plan, Claim, Drained, Save,
       CaptureFails, FinishRead, FinishWrite, PollFails, SelectRows, RecheckStore, Resolve,
       RecheckFails, Rechecked
<1> QED BY <1>2, <1>3, <1>4

LEMMA HardStep ==
    ASSUME TypeOK, EvidenceInHand, [Next]_vars, NEW u \in Url, post'[u].status = "hard"
    PROVE  u \in gone'
<1>1. gone \subseteq gone'
    BY GoneGrows
<1>2. post[u].status = "hard" => u \in gone'
    BY <1>1 DEF EvidenceInHand
<1>3. ASSUME NEW w \in Worker, Capture(w)
      PROVE  post'[u].status = post[u].status
    <2>1. post[u] \in Post
        BY DEF TypeOK
    <2>2. post'[u] = post[u] \/ post'[u] = [post[u] EXCEPT !.here = TRUE]
        BY <1>3 DEF Capture, TypeOK
    <2> QED BY <2>1, <2>2 DEF Post
<1>4. ASSUME NEW w \in Worker, Save(w)
      PROVE  u \in gone'
    <2>1. proc[w].page.status = "hard" => proc[w].url \in gone'
        BY <1>1, <1>4 DEF EvidenceInHand, Save
    <2>2. CASE u # proc[w].url
        BY <1>2, <1>4, <2>2, SavePost
    <2>3. CASE u = proc[w].url
        <3>1. post'[u] = post[u] \/ post'[u].status = proc[w].page.status
            BY <1>4, <2>3, SavePost
        <3> QED BY <1>2, <2>1, <2>3, <3>1
    <2> QED BY <2>2, <2>3
<1>5. ASSUME NEW w \in Worker, RecheckStore(w)
      PROVE  u \in gone'
    <2>1. proc[w].page.status = "hard" => proc[w].url \in gone'
        BY <1>1, <1>5 DEF EvidenceInHand, RecheckStore
    <2>2. CASE u # proc[w].url
        BY <1>2, <1>5, <2>2, RecheckPost
    <2>3. CASE u = proc[w].url
        <3>1. post'[u] = post[u] \/ post'[u].status = proc[w].page.status
            BY <1>5, <2>3, RecheckPost
        <3> QED BY <1>2, <2>1, <2>3, <3>1
    <2> QED BY <2>2, <2>3
<1>6. \/ \E w \in Worker : Capture(w) \/ Save(w) \/ RecheckStore(w)
      \/ post' = post
    BY DEF Next, WorkerStep, Crash, Change, Tick, vars, Discover, Plan, Claim, Drained, CaptureFails,
       FinishRead, FinishWrite, PollFails, SelectRows, RecheckFetch, Resolve, RecheckFails, Rechecked
<1> QED BY <1>2, <1>3, <1>4, <1>5, <1>6

LEMMA EvidenceStep ==
    ASSUME TypeOK, EvidenceInHand, [Next]_vars
    PROVE  EvidenceInHand'
<1>1. \A u \in Url : post'[u].status = "hard" => u \in gone'
    BY HardStep
<1>2. ASSUME NEW w \in Worker
      PROVE  Backed(proc[w], post, gone) /\ Backed(proc[w], post', gone')
    <2>1. Backed(proc[w], post, gone)
        BY DEF EvidenceInHand, Backed
    <2>2. proc[w].pc \in {"save", "store", "finish", "settle", "resolve"} => proc[w].url \in Url
        BY DEF TypeOK, InHand, Attempting
    <2> QED BY <2>1, <2>2, GoneGrows, TextStep DEF Backed
<1>3. ASSUME \A w \in Worker : Backed(proc'[w], post', gone')
      PROVE  EvidenceInHand'
    BY <1>1, <1>3 DEF EvidenceInHand, Backed
<1>4. ASSUME NEW w \in Worker, NEW state, Becomes(w, state), Backed(state, post', gone')
      PROVE  EvidenceInHand'
    BY <1>2, <1>3, <1>4, BecomesOnly
<1>5. \A p : p.pc \in {"idle", "plan", "drain", "capture", "recheck", "rows"} => Backed(p, post', gone')
    BY DEF Backed
<1>6. ASSUME NEW w \in Worker, WorkerStep(w) \/ Crash(w)
      PROVE  EvidenceInHand'
    <2>1. proc[w] \in WorkerState /\ Rest(w) \in WorkerState /\ NextRow(w) \in WorkerState
          /\ Rest(w).pc = "idle" /\ NextRow(w).pc = "rows"
        BY RestType DEF TypeOK
    <2>2. ASSUME NEW state \in WorkerState, Becomes(w, state),
                 state.pc \in {"idle", "plan", "drain", "capture", "recheck", "rows"}
          PROVE  EvidenceInHand'
        BY <1>4, <1>5, <2>2
    <2>3. CASE \/ \E listed \in SUBSET Url : Discover(w, listed)
               \/ Plan(w) \/ Claim(w) \/ Drained(w) \/ FinishWrite(w) \/ PollFails(w) \/ SelectRows(w)
               \/ Resolve(w) \/ RecheckFails(w) \/ Rechecked(w) \/ Crash(w)
        <3>1. proc' \in [Worker -> WorkerState]
            BY NextTypeOK DEF TypeOK
        <3>2. PICK state : Becomes(w, state)
            BY <2>3 DEF Discover, Plan, Claim, Drained, FinishWrite, PollFails, SelectRows,
               Resolve, RecheckFails, Rechecked, Crash
        <3>3. state \in WorkerState /\ proc'[w] = state
            BY <3>1, <3>2, BecomesOnly
        <3>4. proc'[w].pc \in {"idle", "plan", "drain", "capture", "recheck", "rows"}
            <4> USE DEF Becomes, TypeOK
            <4>1. ASSUME NEW listed \in SUBSET Url, Discover(w, listed) PROVE proc'[w].pc = "plan"
                BY <2>1, <4>1 DEF Discover, WorkerState
            <4>2. CASE Plan(w)
                BY <2>1, <4>2 DEF Plan, WorkerState
            <4>3. CASE Claim(w)
                <5>1. \/ \E u, n : Becomes(w, [proc[w] EXCEPT !.pc = "capture", !.url = u, !.attempts = n])
                      \/ proc[w].pc = "drain" /\ \E g : Becomes(w, [proc[w] EXCEPT !.groups = g])
                    BY <4>3 DEF Claim
                <5>2. CASE \E u, n : Becomes(w, [proc[w] EXCEPT !.pc = "capture", !.url = u, !.attempts = n])
                    BY <2>1, <5>2 DEF WorkerState
                <5>3. CASE proc[w].pc = "drain" /\ \E g : Becomes(w, [proc[w] EXCEPT !.groups = g])
                    <6>1. PICK g : proc' = [proc EXCEPT ![w] = [proc[w] EXCEPT !.groups = g]]
                        BY <5>3
                    <6>2. proc'[w] = [proc[w] EXCEPT !.groups = g]
                        BY <6>1
                    <6> QED BY <2>1, <5>3, <6>2 DEF WorkerState
                <5> QED BY <5>1, <5>2, <5>3
            <4>4. CASE Drained(w)
                BY <2>1, <4>4 DEF Drained, WorkerState
            <4>8. CASE FinishWrite(w)
                <5>1. \E n, g : Becomes(w, [Rest(w) EXCEPT !.pc = "drain", !.budget = n, !.groups = g])
                    BY <4>8 DEF FinishWrite
                <5> QED BY <2>1, <5>1 DEF WorkerState
            <4>5. CASE PollFails(w) \/ Resolve(w) \/ RecheckFails(w) \/ Rechecked(w)
                BY <2>1, <4>5 DEF PollFails, Resolve, RecheckFails, Rechecked
            <4>6. CASE SelectRows(w)
                <5>1. \/ \E k, rows : Becomes(w, [Idle EXCEPT !.pc = "rows", !.knows = k, !.rows = rows])
                      \/ Becomes(w, Rest(w))
                    BY <4>6 DEF SelectRows
                <5>2. CASE Becomes(w, Rest(w))
                    BY <2>1, <5>2
                <5>3. CASE \E k, rows : Becomes(w, [Idle EXCEPT !.pc = "rows", !.knows = k, !.rows = rows])
                    <6>1. PICK k, rows : Becomes(w, [Idle EXCEPT !.pc = "rows", !.knows = k, !.rows = rows])
                        BY <5>3
                    <6>2. proc'[w] = [Idle EXCEPT !.pc = "rows", !.knows = k, !.rows = rows]
                        BY <6>1, BecomesOnly
                    <6> QED BY <6>2 DEF Idle
                <5> QED BY <5>1, <5>2, <5>3
            <4>7. CASE Crash(w)
                BY <4>7 DEF Crash, Idle
            <4> QED BY <2>3, <4>1, <4>2, <4>3, <4>4, <4>5, <4>6, <4>7, <4>8
        <3> QED BY <2>2, <3>2, <3>3, <3>4
    <2>4. CASE Capture(w)
        <3> DEFINE u == proc[w].url
        <3>1. u \in Url
            BY <2>4 DEF TypeOK, InHand, Attempting, Capture
        <3>2. CASE Becomes(w, [proc[w] EXCEPT !.pc = "finish", !.success = post[u].body # Null])
            <4> DEFINE success == post[u].body # Null
                       state == [proc[w] EXCEPT !.pc = "finish", !.success = success]
            <4>1. success => post'[u].body # Null
                BY <3>1, TextStep
            <4> HIDE DEF success
            <4>2. state.pc = "finish" /\ state.success = success /\ state.url = u
                BY <2>1 DEF WorkerState
            <4>3. Backed(state, post', gone')
                BY <4>1, <4>2 DEF Backed
            <4>4. Becomes(w, state)
                BY <3>2 DEF success
            <4> HIDE DEF state
            <4> QED BY <1>4, <4>3, <4>4
        <3>3. CASE Look(w, u, TRUE, [proc[w] EXCEPT !.pc = "save"])
            <4> DEFINE next == [proc[w] EXCEPT !.pc = "save"]
            <4>1. next \in WorkerState /\ next.pc = "save" /\ next.url = u
                BY <2>1 DEF WorkerState
            <4>2. PICK needed \in BOOLEAN : Look(w, u, needed, next)
                BY <3>3
            <4> HIDE DEF next
            <4>3. PICK page \in [status : Verdict, body : Text] :
                    /\ Becomes(w, [next EXCEPT !.page = page])
                    /\ page.status = "hard" => u \in gone'
                BY <3>1, <4>1, <4>2, LookFinds DEF Becomes
            <4>4. Backed([next EXCEPT !.page = page], post', gone')
                BY <4>1, <4>3 DEF WorkerState, Backed
            <4> QED BY <1>4, <4>3, <4>4
        <3> QED BY <2>4, <3>2, <3>3 DEF Capture
    <2>5. CASE Save(w)
        <3>1. PICK state : Becomes(w, state)
            BY <2>5 DEF Save
        <3>2. /\ state.pc = "finish" /\ state.url = proc[w].url
              /\ state.success => post'[state.url].body # Null
            BY <2>5, <3>1, SavePost, BecomesOnly
        <3>3. Backed(state, post', gone')
            BY <3>2 DEF Backed
        <3> QED BY <1>4, <3>1, <3>3
    <2>6. CASE CaptureFails(w)
        <3> DEFINE state == [proc[w] EXCEPT !.pc = "finish", !.page = NoPage, !.success = FALSE]
        <3>1. Becomes(w, state) /\ state.pc = "finish" /\ ~state.success
            BY <2>1, <2>6 DEF CaptureFails, WorkerState
        <3> HIDE DEF state
        <3> QED BY <1>4, <3>1 DEF Backed
    <2>7. CASE FinishRead(w)
        <3> DEFINE u == proc[w].url
                   verdict == Outcome(proc[w].success, post[u], proc[w].attempts)
                   state == [proc[w] EXCEPT !.pc = "settle", !.verdict = verdict]
        <3>1. u \in Url /\ post[u] \in Post /\ post' = post
            BY <2>7 DEF TypeOK, InHand, Attempting, FinishRead
        <3>2. proc[w].success => post[u].body # Null
            BY <2>7 DEF EvidenceInHand, FinishRead
        <3>3. /\ verdict.status = "captured" => post[u].body # Null
              /\ verdict.status = "deleted" => post[u].status = "hard"
            <4>1. CASE proc[w].success
                BY <3>2, <4>1 DEF Outcome
            <4>2. CASE ~proc[w].success /\ post[u].body # Null
                BY <4>2 DEF Outcome
            <4>3. CASE ~proc[w].success /\ post[u].body = Null /\ post[u].status = "hard"
                BY <4>3 DEF Outcome
            <4>4. CASE ~proc[w].success /\ post[u].body = Null /\ post[u].status # "hard"
                BY <4>4 DEF Outcome, Retry
            <4> QED BY <4>1, <4>2, <4>3, <4>4
        <3>4. Becomes(w, state)
            BY <2>7 DEF FinishRead
        <3> HIDE DEF verdict
        <3>5. state.pc = "settle" /\ state.verdict = verdict /\ state.url = u
            BY <2>1 DEF WorkerState
        <3> HIDE DEF state, u
        <3>6. Backed(state, post', gone')
            BY <1>1, <3>1, <3>3, <3>5 DEF Backed
        <3> QED BY <1>4, <3>4, <3>6
    <2>8. CASE RecheckFetch(w)
        <3>1. PICK r \in proc[w].rows :
                Look(w, r.url, r.needs, [proc[w] EXCEPT !.pc = "store", !.rows = @ \ {r},
                                                        !.url = r.url, !.needs = r.needs])
            BY <2>8 DEF RecheckFetch
        <3> DEFINE next == [proc[w] EXCEPT !.pc = "store", !.rows = @ \ {r},
                                           !.url = r.url, !.needs = r.needs]
        <3>2. /\ r.url \in Url /\ r.needs \in BOOLEAN
              /\ next \in WorkerState /\ next.pc = "store" /\ next.url = r.url
            BY <2>1 DEF WorkerState
        <3>3. Look(w, r.url, r.needs, next)
            BY <3>1
        <3> HIDE DEF next
        <3>4. PICK page \in [status : Verdict, body : Text] :
                /\ Becomes(w, [next EXCEPT !.page = page])
                /\ page.status = "hard" => r.url \in gone'
            BY <3>2, <3>3, LookFinds DEF Becomes
        <3>5. Backed([next EXCEPT !.page = page], post', gone')
            BY <3>2, <3>4 DEF WorkerState, Backed
        <3> QED BY <1>4, <3>4, <3>5
    <2>9. CASE RecheckStore(w)
        <3> DEFINE u == proc[w].url
        <3>1. PICK state : Becomes(w, state)
            BY <2>9 DEF RecheckStore
        <3>2. proc'[w] = state
            BY <3>1, BecomesOnly
        <3>3. proc[w].page.status = "hard" => u \in gone'
            BY <2>9, GoneGrows DEF EvidenceInHand, RecheckStore
        <3>4. \/ /\ state.pc = "resolve" /\ state.url = u /\ state.verdict.status = "captured"
                 /\ post'[u].body # Null
              \/ /\ state.pc = "resolve" /\ state.url = u /\ state.verdict.status = "deleted"
                 /\ proc[w].page.status = "hard"
              \/ state = NextRow(w)
            BY <2>9, <3>2, RecheckPost
        <3> HIDE DEF u
        <3>5. Backed(state, post', gone')
            BY <1>5, <2>1, <3>3, <3>4 DEF Backed
        <3> QED BY <1>4, <3>1, <3>5
    <2> QED BY <1>6, <2>3, <2>4, <2>5, <2>6, <2>7, <2>8, <2>9 DEF WorkerStep
<1>7. CASE UNCHANGED proc
    BY <1>2, <1>3, <1>7
<1> QED BY <1>6, <1>7 DEF Next, Change, Tick, vars

LEMMA ReasonStep == ReasonInv /\ [Next]_vars => ReasonInv'
<1> SUFFICES ASSUME ReasonInv, [Next]_vars PROVE GivenUpForAReason'
    BY NextTypeOK, EvidenceStep DEF ReasonInv
<1> USE DEF ReasonInv
<1> DEFINE Why(status, u, ps, g) == /\ status = "captured" => ps[u].body # Null
                                    /\ status = "deleted" => u \in g
<1>1. ASSUME NEW u \in Url, NEW status, Why(status, u, post, gone)
      PROVE  Why(status, u, post', gone')
    BY <1>1, GoneGrows, TextStep
<1>2. \A u \in Url : Why(queue[u].status, u, post, gone)
    BY DEF GivenUpForAReason
<1> SUFFICES ASSUME NEW u \in Url PROVE Why(queue'[u].status, u, post', gone')
    BY DEF GivenUpForAReason
<1>3. queue'[u].status = queue[u].status => Why(queue'[u].status, u, post', gone')
    BY <1>1, <1>2
<1>4. ASSUME NEW w \in Worker, NEW listed \in SUBSET Url, Discover(w, listed)
      PROVE  Why(queue'[u].status, u, post', gone')
    BY <1>3, <1>4, DiscoverRows DEF Keeps
<1>5. ASSUME NEW w \in Worker, Claim(w)
      PROVE  Why(queue'[u].status, u, post', gone')
    <2> DEFINE c == Head(Head(proc[w].groups))
    <2>1. CASE Claimable(c)
        <3>1. queue'[u].status = queue[u].status \/ queue'[u].status = "capturing"
            BY <1>5, <2>1, ClaimRows DEF Keeps
        <3> QED BY <1>3, <3>1
    <2>2. CASE ~Claimable(c)
        BY <1>3, <1>5, <2>2 DEF Claim
    <2> QED BY <2>1, <2>2
<1>6. ASSUME NEW w \in Worker, FinishWrite(w)
      PROVE  Why(queue'[u].status, u, post', gone')
    <2>1. Why(proc[w].verdict.status, proc[w].url, post, gone)
        BY <1>6 DEF EvidenceInHand, FinishWrite
    <2>2. queue'[u].status = queue[u].status
          \/ (u = proc[w].url /\ queue'[u].status = proc[w].verdict.status)
        BY <1>6, FinishRows DEF Keeps
    <2> QED BY <1>1, <1>3, <2>1, <2>2
<1>7. ASSUME NEW w \in Worker, Resolve(w)
      PROVE  Why(queue'[u].status, u, post', gone')
    <2>1. Why(proc[w].verdict.status, proc[w].url, post, gone)
        BY <1>7 DEF EvidenceInHand, Resolve
    <2>2. queue'[u].status = queue[u].status
          \/ (u = proc[w].url /\ queue'[u].status = proc[w].verdict.status)
        BY <1>7, ResolveRows DEF Keeps
    <2> QED BY <1>1, <1>3, <2>1, <2>2
<1>8. CASE Tick
    BY <1>3, <1>8, TickRows
<1>9. \/ \E w \in Worker : \/ \E listed \in SUBSET Url : Discover(w, listed)
                           \/ Claim(w) \/ FinishWrite(w) \/ Resolve(w)
      \/ Tick
      \/ queue' = queue
    BY DEF Next, WorkerStep, Crash, Change, vars, Plan, Drained, Capture, Save, CaptureFails,
       FinishRead, PollFails, SelectRows, RecheckFetch, RecheckStore, RecheckFails, Rechecked
<1> QED BY <1>3, <1>4, <1>5, <1>6, <1>7, <1>8, <1>9

\* The queue gives up on a URL only because its text is kept, or because
\* somebody has seen it answer 404 or 410 (discovery.py:77-95, collector.py:733).
THEOREM GivenUpOnlyForAReason == Spec => []GivenUpForAReason
<1>1. ReasonInv => GivenUpForAReason
    BY DEF ReasonInv
<1> QED BY <1>1, ReasonInit, ReasonStep, PTL DEF Spec
-----------------------------------------------------------------------------
(* Leases *)

LEMMA LeaseInit == Init => LeaseInv
BY InitTypeOK DEF Init, LeaseInv, LeaseInHand, LeaseKept, Idle, NoRow, Attempting

\* An attempt goes on with the lease it has, or begins with a claim.
LEMMA AttemptStep ==
    ASSUME TypeOK, [Next]_vars, NEW v \in Worker, proc'[v].pc \in Attempting
    PROVE  \/ /\ proc[v].pc \in Attempting
              /\ proc'[v].url = proc[v].url /\ proc'[v].attempts = proc[v].attempts
              /\ proc'[v].pc = "settle" =>
                   \/ proc[v].pc = "settle" /\ proc'[v].verdict = proc[v].verdict
                   \/ proc'[v].verdict.attempts = proc[v].attempts
           \/ LET c == Head(Head(proc[v].groups)) IN
              /\ Claim(v) /\ Claimable(c)
              /\ proc'[v].pc = "capture"
              /\ proc'[v].url = c.url /\ proc'[v].attempts = Raised(c.attempts)
<1> DEFINE GoesOn(old, new) ==
              /\ old.pc \in Attempting
              /\ new.url = old.url /\ new.attempts = old.attempts
              /\ new.pc = "settle" => \/ old.pc = "settle" /\ new.verdict = old.verdict
                                      \/ new.verdict.attempts = old.attempts
           c == Head(Head(proc[v].groups))
           Begins == /\ Claim(v) /\ Claimable(c)
                     /\ proc'[v].pc = "capture"
                     /\ proc'[v].url = c.url /\ proc'[v].attempts = Raised(c.attempts)
<1> SUFFICES GoesOn(proc[v], proc'[v]) \/ Begins
    OBVIOUS
<1>1. CASE proc'[v] = proc[v]
    BY <1>1
<1>2. CASE WorkerStep(v) \/ Crash(v)
    <2>1. proc[v] \in WorkerState /\ Rest(v) \in WorkerState /\ NextRow(v) \in WorkerState
          /\ Rest(v).pc = "idle" /\ NextRow(v).pc = "rows"
        BY RestType DEF TypeOK
    <2>2. ASSUME NEW listed \in SUBSET Url, Discover(v, listed)
          PROVE  proc'[v].pc = "plan"
        BY <2>1, <2>2 DEF Discover, Becomes, TypeOK, WorkerState
    <2>3. CASE Plan(v)
        <3>1. PICK g : Becomes(v, [proc[v] EXCEPT !.pc = "drain", !.budget = Budget, !.groups = g])
            BY <2>3 DEF Plan
        <3>2. proc'[v] = [proc[v] EXCEPT !.pc = "drain", !.budget = Budget, !.groups = g]
            BY <3>1, BecomesOnly
        <3>3. proc'[v].pc = "drain"
            BY <2>1, <3>2 DEF WorkerState
        <3> QED BY <3>3 DEF Attempting
    <2>4. CASE Claim(v)
        <3>1. CASE Claimable(c)
            <4> DEFINE state == [proc[v] EXCEPT !.pc = "capture", !.url = c.url,
                                                !.attempts = Raised(c.attempts)]
            <4>1. proc'[v] = state
                BY <2>4, <3>1, BecomesOnly DEF Claim
            <4> HIDE DEF c
            <4>2. state.pc = "capture" /\ state.url = c.url /\ state.attempts = Raised(c.attempts)
                BY <2>1 DEF WorkerState
            <4> HIDE DEF state
            <4> QED BY <2>4, <3>1, <4>1, <4>2
        <3>2. CASE ~Claimable(c)
            <4>1. PICK g : Becomes(v, [proc[v] EXCEPT !.groups = g])
                BY <2>4, <3>2 DEF Claim
            <4>2. proc'[v] = [proc[v] EXCEPT !.groups = g]
                BY <4>1, BecomesOnly
            <4>3. proc'[v].pc = "drain"
                BY <2>1, <2>4, <4>2 DEF Claim, WorkerState
            <4> QED BY <4>3 DEF Attempting
        <3> QED BY <3>1, <3>2
    <2>5. CASE Drained(v)
        <3>1. proc'[v].pc = "recheck"
            BY <2>1, <2>5 DEF Drained, Becomes, TypeOK, WorkerState
        <3> QED BY <3>1 DEF Attempting
    <2>6. CASE Capture(v)
        <3>1. CASE Becomes(v, [proc[v] EXCEPT !.pc = "finish", !.success = post[proc[v].url].body # Null])
            <4> DEFINE success == post[proc[v].url].body # Null
                       state == [proc[v] EXCEPT !.pc = "finish", !.success = success]
            <4>1. proc'[v] = state
                BY <3>1, BecomesOnly
            <4> HIDE DEF success
            <4>2. state.pc = "finish" /\ state.url = proc[v].url /\ state.attempts = proc[v].attempts
                BY <2>1 DEF WorkerState
            <4> HIDE DEF state
            <4> QED BY <2>6, <4>1, <4>2 DEF Capture, Attempting
        <3>2. CASE Look(v, proc[v].url, TRUE, [proc[v] EXCEPT !.pc = "save"])
            <4>1. PICK page : Becomes(v, [[proc[v] EXCEPT !.pc = "save"] EXCEPT !.page = page])
                BY <3>2 DEF Look
            <4>2. proc'[v] = [proc[v] EXCEPT !.pc = "save", !.page = page]
                BY <4>1, BecomesOnly
            <4>3. /\ proc'[v].pc = "save" /\ proc'[v].url = proc[v].url
                  /\ proc'[v].attempts = proc[v].attempts
                BY <2>1, <4>2 DEF WorkerState
            <4> QED BY <2>6, <4>3 DEF Capture, Attempting
        <3> QED BY <2>6, <3>1, <3>2 DEF Capture
    <2>7. CASE Save(v) \/ CaptureFails(v)
        <3>1. CASE Save(v)
            <4>1. PICK k, b : Becomes(v, [proc[v] EXCEPT !.pc = "finish", !.knows = k,
                                                         !.page = NoPage, !.success = b])
                BY <3>1 DEF Save
            <4>2. proc'[v] = [proc[v] EXCEPT !.pc = "finish", !.knows = k, !.page = NoPage, !.success = b]
                BY <4>1, BecomesOnly
            <4>3. /\ proc'[v].pc = "finish" /\ proc'[v].url = proc[v].url
                  /\ proc'[v].attempts = proc[v].attempts
                BY <2>1, <4>2 DEF WorkerState
            <4> QED BY <3>1, <4>3 DEF Save, Attempting
        <3>2. CASE CaptureFails(v)
            <4>1. proc'[v] = [proc[v] EXCEPT !.pc = "finish", !.page = NoPage, !.success = FALSE]
                BY <3>2, BecomesOnly DEF CaptureFails
            <4>2. /\ proc'[v].pc = "finish" /\ proc'[v].url = proc[v].url
                  /\ proc'[v].attempts = proc[v].attempts
                BY <2>1, <4>1 DEF WorkerState
            <4> QED BY <3>2, <4>2 DEF CaptureFails, Attempting
        <3> QED BY <2>7, <3>1, <3>2
    <2>8. CASE FinishRead(v)
        <3> DEFINE verdict == Outcome(proc[v].success, post[proc[v].url], proc[v].attempts)
                   state == [proc[v] EXCEPT !.pc = "settle", !.verdict = verdict]
        <3>1. verdict.attempts = proc[v].attempts
            <4>1. /\ proc[v].success \in BOOLEAN /\ proc[v].attempts \in Nat
                  /\ post[proc[v].url] \in Post
                BY <2>1, <2>8 DEF TypeOK, WorkerState, InHand, Attempting, FinishRead
            <4> QED BY <4>1, OutcomeType
        <3>2. proc'[v] = state
            BY <2>8, BecomesOnly DEF FinishRead
        <3> HIDE DEF verdict
        <3>3. state.url = proc[v].url /\ state.attempts = proc[v].attempts /\ state.verdict = verdict
            BY <2>1 DEF WorkerState
        <3> HIDE DEF state
        <3> QED BY <2>8, <3>1, <3>2, <3>3 DEF FinishRead, Attempting
    <2>9. CASE FinishWrite(v)
        <3>1. PICK n, g : Becomes(v, [Rest(v) EXCEPT !.pc = "drain", !.budget = n, !.groups = g])
            BY <2>9 DEF FinishWrite
        <3>2. proc'[v] = [Rest(v) EXCEPT !.pc = "drain", !.budget = n, !.groups = g]
            BY <3>1, BecomesOnly
        <3>3. proc'[v].pc = "drain"
            BY <2>1, <3>2 DEF WorkerState
        <3> QED BY <3>3 DEF Attempting
    <2>10. CASE PollFails(v) \/ Resolve(v) \/ RecheckFails(v) \/ Rechecked(v)
        <3>1. proc'[v] = Rest(v) \/ proc'[v] = NextRow(v)
            BY <2>10, BecomesOnly DEF PollFails, Resolve, RecheckFails, Rechecked
        <3> QED BY <2>1, <3>1 DEF Attempting
    <2>11. CASE SelectRows(v)
        <3>1. \/ \E k, rows : Becomes(v, [Idle EXCEPT !.pc = "rows", !.knows = k, !.rows = rows])
              \/ Becomes(v, Rest(v))
            BY <2>11 DEF SelectRows
        <3>2. CASE Becomes(v, Rest(v))
            <4>1. proc'[v] = Rest(v)
                BY <3>2, BecomesOnly
            <4> QED BY <2>1, <4>1 DEF Attempting
        <3>3. CASE \E k, rows : Becomes(v, [Idle EXCEPT !.pc = "rows", !.knows = k, !.rows = rows])
            <4>1. PICK k, rows : Becomes(v, [Idle EXCEPT !.pc = "rows", !.knows = k, !.rows = rows])
                BY <3>3
            <4>2. proc'[v] = [Idle EXCEPT !.pc = "rows", !.knows = k, !.rows = rows]
                BY <4>1, BecomesOnly
            <4>3. proc'[v].pc = "rows"
                BY <4>2 DEF Idle
            <4> QED BY <4>3 DEF Attempting
        <3> QED BY <3>1, <3>2, <3>3
    <2>12. CASE RecheckFetch(v)
        <3>1. PICK rows, u, n, page :
                Becomes(v, [[proc[v] EXCEPT !.pc = "store", !.rows = rows, !.url = u, !.needs = n]
                              EXCEPT !.page = page])
            BY <2>12 DEF RecheckFetch, Look
        <3>2. proc'[v] = [proc[v] EXCEPT !.pc = "store", !.rows = rows, !.url = u, !.needs = n,
                                         !.page = page]
            BY <3>1, BecomesOnly
        <3>3. proc'[v].pc = "store"
            BY <2>1, <3>2 DEF WorkerState
        <3> QED BY <3>3 DEF Attempting
    <2>13. CASE RecheckStore(v)
        <3>1. proc'[v].pc = "resolve" \/ proc'[v] = NextRow(v)
            BY <2>13, RecheckPost
        <3> QED BY <2>1, <3>1 DEF Attempting
    <2>14. CASE Crash(v)
        <3>1. proc'[v] = Idle
            BY <2>14, BecomesOnly DEF Crash
        <3> QED BY <3>1 DEF Idle, Attempting
    <2>15. ASSUME NEW listed \in SUBSET Url, Discover(v, listed)
           PROVE  FALSE
        BY <2>2, <2>15 DEF Attempting
    <2> QED BY <1>2, <2>3, <2>4, <2>5, <2>6, <2>7, <2>8, <2>9, <2>10, <2>11, <2>12, <2>13, <2>14,
               <2>15 DEF WorkerStep
<1>3. ASSUME NEW w \in Worker, WorkerStep(w) \/ Crash(w), w # v
      PROVE  proc'[v] = proc[v]
    <2>1. PICK state : Becomes(w, state)
        BY <1>3 DEF WorkerStep, Crash, Discover, Plan, Claim, Drained, Capture, Save, CaptureFails,
           FinishRead, FinishWrite, PollFails, SelectRows, RecheckFetch, RecheckStore, Resolve,
           RecheckFails, Rechecked, Look
    <2> QED BY <1>3, <2>1, BecomesOnly
<1>4. CASE UNCHANGED proc
    BY <1>1, <1>4
<1> QED BY <1>1, <1>2, <1>3, <1>4 DEF Next, Change, Tick, vars

\* Two workers: a claim always raises the attempts of its row.
LEMMA ClaimRaises ==
    ASSUME TypeOK, NEW w \in Worker, Claim(w), NEW v \in Worker, v # w
    PROVE  LET c == Head(Head(proc[w].groups)) IN Raised(c.attempts) = c.attempts + 1
<1>1. Cardinality(Worker) > 1
    <2>1. {v, w} \subseteq Worker /\ IsFiniteSet(Worker) /\ Cardinality(Worker) \in Nat
        BY SetAssumption, FS_CardinalityType
    <2>2. IsFiniteSet({v}) /\ Cardinality({v}) = 1
        BY FS_Singleton
    <2>3. Cardinality({v} \cup {w}) = Cardinality({v}) + 1
        BY <2>2, FS_AddElement
    <2>4. {v} \cup {w} = {v, w}
        OBVIOUS
    <2>5. Cardinality({v, w}) <= Cardinality(Worker)
        BY <2>1, FS_Subset
    <2> QED BY <2>1, <2>2, <2>3, <2>4, <2>5
<1> QED BY <1>1 DEF Claim, Raised

LEMMA RaisedGrows ==
    ASSUME NEW n \in Nat
    PROVE  Raised(n) \in Nat /\ n <= Raised(n) /\ 0 < Raised(n)
BY Numbers DEF Raised

LEMMA LeaseStep == LeaseInv /\ [Next]_vars => LeaseInv'
<1> SUFFICES ASSUME LeaseInv, [Next]_vars PROVE LeaseInHand' /\ LeaseKept'
    BY NextTypeOK DEF LeaseInv
<1> USE DEF LeaseInv
<1>1. TypeOK'
    BY NextTypeOK
<1>2. /\ \A w \in Worker : proc[w].attempts \in Nat /\ proc'[w].attempts \in Nat
      /\ \A u \in Url : queue[u].attempts \in Nat /\ queue'[u].attempts \in Nat
      /\ \A w \in Worker : proc[w].pc \in Attempting => proc[w].url \in Url
      /\ \A w \in Worker : proc'[w].pc \in Attempting => proc'[w].url \in Url
    BY <1>1 DEF TypeOK, WorkerState, QueueRow, InHand
\* What happens to the rows.
<1>3. ASSUME NEW u \in Url
      PROVE  \/ /\ queue'[u].attempts = queue[u].attempts
                /\ queue'[u].status = queue[u].status \/ queue'[u].status \in Terminal
             \/ /\ queue[u].status = "absent"
                /\ queue'[u].status = "queued" /\ queue'[u].attempts = queue[u].attempts
             \/ \E w \in Worker :
                  LET c == Head(Head(proc[w].groups)) IN
                  /\ Claim(w) /\ Claimable(c) /\ u = c.url
                  /\ queue'[u].status = "capturing" /\ queue'[u].attempts = Raised(c.attempts)
             \/ \E w \in Worker :
                  /\ FinishWrite(w) /\ u = proc[w].url
                  /\ queue[u].attempts = proc[w].attempts
                  /\ queue'[u].attempts = queue[u].attempts
                  /\ queue'[u].status # "absent"
    <2>1. ASSUME NEW w \in Worker, NEW listed \in SUBSET Url, Discover(w, listed)
          PROVE  \/ queue'[u].attempts = queue[u].attempts /\ queue'[u].status = queue[u].status
                 \/ /\ queue[u].status = "absent"
                    /\ queue'[u].status = "queued" /\ queue'[u].attempts = queue[u].attempts
        <3>1. queue[u].status = "absent" => queue[u].attempts = 0
            BY DEF LeaseInHand
        <3> QED BY <2>1, <3>1, DiscoverRows DEF Keeps
    <2>2. ASSUME NEW w \in Worker, Claim(w)
          PROVE  LET c == Head(Head(proc[w].groups)) IN
                 \/ queue'[u].attempts = queue[u].attempts /\ queue'[u].status = queue[u].status
                 \/ /\ Claimable(c) /\ u = c.url
                    /\ queue'[u].status = "capturing" /\ queue'[u].attempts = Raised(c.attempts)
        <3>1. CASE Claimable(Head(Head(proc[w].groups)))
            BY <2>2, <3>1, ClaimRows DEF Keeps
        <3>2. CASE ~Claimable(Head(Head(proc[w].groups)))
            BY <2>2, <3>2 DEF Claim
        <3> QED BY <3>1, <3>2
    <2>3. ASSUME NEW w \in Worker, FinishWrite(w)
          PROVE  \/ queue'[u].attempts = queue[u].attempts /\ queue'[u].status = queue[u].status
                 \/ /\ u = proc[w].url
                    /\ queue[u].attempts = proc[w].attempts
                    /\ queue'[u].attempts = queue[u].attempts
                    /\ queue'[u].status # "absent"
        <3>1. /\ proc[w].verdict.attempts = proc[w].attempts
              /\ proc[w].verdict.status # "absent"
            BY <2>3 DEF LeaseInHand, FinishWrite, Attempting, TypeOK, InHand, Terminal
        <3> QED BY <2>3, <3>1, FinishRows DEF Keeps
    <2>4. ASSUME NEW w \in Worker, Resolve(w)
          PROVE  /\ queue'[u].attempts = queue[u].attempts
                 /\ queue'[u].status = queue[u].status \/ queue'[u].status \in Terminal
        BY <2>4, ResolveRows DEF Keeps
    <2>5. CASE Tick
        BY <2>5, TickRows
    <2>6. \/ \E w \in Worker : \/ \E listed \in SUBSET Url : Discover(w, listed)
                               \/ Claim(w) \/ FinishWrite(w) \/ Resolve(w)
          \/ Tick
          \/ queue' = queue
        BY DEF Next, WorkerStep, Crash, Change, vars, Plan, Drained, Capture, Save, CaptureFails,
           FinishRead, PollFails, SelectRows, RecheckFetch, RecheckStore, RecheckFails, Rechecked
    <2>7. CASE \E w \in Worker : Claim(w)
        BY <2>2, <2>7
    <2>8. CASE \E w \in Worker : FinishWrite(w)
        BY <2>3, <2>8
    <2>9. CASE \E w \in Worker : (\E listed \in SUBSET Url : Discover(w, listed)) \/ Resolve(w)
        BY <2>1, <2>4, <2>9
    <2> QED BY <2>5, <2>6, <2>7, <2>8, <2>9
<1>4. ASSUME NEW u \in Url
      PROVE  queue[u].attempts <= queue'[u].attempts
    <2>1. ASSUME NEW w \in Worker, NEW n \in Nat, Raised(n) = queue'[u].attempts, n = queue[u].attempts
          PROVE  queue[u].attempts <= queue'[u].attempts
        BY <2>1, RaisedGrows
    <2>2. CASE queue'[u].attempts = queue[u].attempts
        BY <1>2, <2>2
    <2> QED BY <1>2, <1>3, <2>1, <2>2 DEF Claimable
\* The attempts that go on.
<1>5. ASSUME NEW v \in Worker, proc'[v].pc \in Attempting
      PROVE  LET c == Head(Head(proc[v].groups)) IN
             \/ /\ proc[v].pc \in Attempting
                /\ proc'[v].url = proc[v].url /\ proc'[v].attempts = proc[v].attempts
                /\ 0 < proc[v].attempts /\ proc[v].attempts <= queue[proc[v].url].attempts
                /\ proc'[v].pc = "settle" => proc'[v].verdict.attempts = proc[v].attempts
             \/ /\ Claim(v) /\ Claimable(c) /\ proc'[v].pc = "capture"
                /\ proc'[v].url = c.url /\ proc'[v].attempts = Raised(c.attempts)
                /\ c.url \in Url /\ c.attempts = queue[c.url].attempts
                /\ queue'[c.url].status = "capturing" /\ queue'[c.url].attempts = Raised(c.attempts)
    <2> DEFINE c == Head(Head(proc[v].groups))
    <2>1. CASE /\ Claim(v) /\ Claimable(c) /\ proc'[v].pc = "capture"
               /\ proc'[v].url = c.url /\ proc'[v].attempts = Raised(c.attempts)
        <3>1. c.url \in Url
            BY <1>2, <1>5, <2>1
        <3>2. c.attempts = queue[c.url].attempts
            BY <2>1 DEF Claimable
        <3>3. queue'[c.url].status = "capturing" /\ queue'[c.url].attempts = Raised(c.attempts)
            BY <2>1, <3>1, ClaimRows
        <3> QED BY <2>1, <3>1, <3>2, <3>3
    <2>2. CASE /\ proc[v].pc \in Attempting
               /\ proc'[v].url = proc[v].url /\ proc'[v].attempts = proc[v].attempts
               /\ proc'[v].pc = "settle" =>
                    \/ proc[v].pc = "settle" /\ proc'[v].verdict = proc[v].verdict
                    \/ proc'[v].verdict.attempts = proc[v].attempts
        BY <2>2 DEF LeaseInHand
    <2> QED BY <1>5, <2>1, <2>2, AttemptStep
<1>6. ASSUME NEW v \in Worker, proc'[v].pc \in Attempting
      PROVE  /\ 0 < proc'[v].attempts /\ proc'[v].attempts <= queue'[proc'[v].url].attempts
             /\ proc'[v].pc = "settle" => proc'[v].verdict.attempts = proc'[v].attempts
    <2> DEFINE c == Head(Head(proc[v].groups))
    <2>1. CASE /\ proc[v].pc \in Attempting
               /\ proc'[v].url = proc[v].url /\ proc'[v].attempts = proc[v].attempts
               /\ 0 < proc[v].attempts /\ proc[v].attempts <= queue[proc[v].url].attempts
               /\ proc'[v].pc = "settle" => proc'[v].verdict.attempts = proc[v].attempts
        <3>1. queue[proc[v].url].attempts <= queue'[proc[v].url].attempts
            BY <1>2, <1>4, <2>1
        <3>2. proc[v].attempts <= queue'[proc[v].url].attempts
            BY <1>2, <2>1, <3>1
        <3> QED BY <2>1, <3>2
    <2>2. CASE /\ proc'[v].pc = "capture"
               /\ proc'[v].url = c.url /\ proc'[v].attempts = Raised(c.attempts)
               /\ c.url \in Url /\ c.attempts = queue[c.url].attempts
               /\ queue'[c.url].attempts = Raised(c.attempts)
        <3>1. c.attempts \in Nat
            BY <1>2, <2>2
        <3> HIDE DEF c
        <3>2. Raised(c.attempts) \in Nat /\ 0 < Raised(c.attempts)
            BY <3>1, RaisedGrows
        <3>3. Raised(c.attempts) <= Raised(c.attempts)
            BY <3>2
        <3> QED BY <2>2, <3>2, <3>3
    <2> QED BY <1>5, <1>6, <2>1, <2>2
\* Nobody else has the lease that a claim takes.
<1>7. ASSUME NEW v \in Worker, NEW w \in Worker, v # w,
             proc'[v].pc \in Attempting, proc[v].pc \in Attempting,
             proc'[v].url = proc[v].url, proc'[v].attempts = proc[v].attempts,
             Claim(w), Claimable(Head(Head(proc[w].groups))),
             Head(Head(proc[w].groups)).url = proc[v].url
      PROVE  proc[v].attempts # Raised(Head(Head(proc[w].groups)).attempts)
    <2> DEFINE c == Head(Head(proc[w].groups))
    <2>1. c.attempts = queue[proc[v].url].attempts /\ proc[v].url \in Url
        BY <1>2, <1>7 DEF Claimable
    <2>2. proc[v].attempts <= c.attempts /\ c.attempts \in Nat /\ proc[v].attempts \in Nat
        BY <1>2, <1>7, <2>1 DEF LeaseInHand
    <2>3. Raised(c.attempts) = c.attempts + 1
        BY <1>7, ClaimRaises
    <2> HIDE DEF c
    <2> QED BY <2>2, <2>3 DEF c
\* Two attempts do not begin at once, and none begins where one goes on.
<1>8. ASSUME NEW v \in Worker, NEW w \in Worker, Claim(w), Claimable(Head(Head(proc[w].groups))),
             proc'[v].pc \in Attempting, v # w
      PROVE  proc'[v] = proc[v] /\ ~Claim(v)
    <2>1. PICK state : Becomes(w, state)
        BY <1>8 DEF Claim
    <2>2. proc'[v] = proc[v]
        BY <1>8, <2>1, BecomesOnly
    <2>3. Claim(v) => proc[v].pc = "drain"
        BY DEF Claim
    <2> QED BY <1>8, <2>2, <2>3 DEF Attempting
<1>9. ASSUME NEW v \in Worker, NEW w \in Worker, v # w,
             proc'[v].pc \in Attempting, proc'[w].pc \in Attempting, proc'[v].url = proc'[w].url
      PROVE  proc'[v].attempts # proc'[w].attempts
    <2> DEFINE GoesOn(x) == /\ proc[x].pc \in Attempting
                            /\ proc'[x].url = proc[x].url /\ proc'[x].attempts = proc[x].attempts
               c(x) == Head(Head(proc[x].groups))
               Begins(x) == /\ Claim(x) /\ Claimable(c(x))
                            /\ proc'[x].url = c(x).url /\ proc'[x].attempts = Raised(c(x).attempts)
    <2>1. (GoesOn(v) \/ Begins(v)) /\ (GoesOn(w) \/ Begins(w))
        BY <1>5, <1>9
    <2>2. CASE GoesOn(v) /\ GoesOn(w)
        BY <1>9, <2>2 DEF LeaseInHand
    <2>3. CASE GoesOn(v) /\ Begins(w)
        BY <1>7, <1>9, <2>3
    <2>4. CASE Begins(v) /\ GoesOn(w)
        BY <1>7, <1>9, <2>4
    <2>5. CASE Begins(v) /\ Begins(w)
        BY <1>8, <1>9, <2>5
    <2> QED BY <2>1, <2>2, <2>3, <2>4, <2>5
<1>10. ASSUME NEW u \in Url, queue'[u].status = "absent"
       PROVE  queue'[u].attempts = 0
    <2>1. queue'[u].attempts = queue[u].attempts /\ queue[u].status = "absent"
        BY <1>3, <1>10 DEF Terminal
    <2> QED BY <2>1 DEF LeaseInHand
<1>11. LeaseInHand'
    BY <1>6, <1>9, <1>10 DEF LeaseInHand
<1>12. ASSUME NEW v \in Worker, proc'[v].pc \in Attempting,
              queue'[proc'[v].url].attempts = proc'[v].attempts
       PROVE  queue'[proc'[v].url].status \in {"capturing"} \cup Terminal
    <2> DEFINE u == proc[v].url
    <2>1. CASE Claim(v) /\ queue'[proc'[v].url].status = "capturing"
        BY <2>1
    <2>2. CASE /\ proc[v].pc \in Attempting
               /\ proc'[v].url = u /\ proc'[v].attempts = proc[v].attempts
               /\ 0 < proc[v].attempts /\ proc[v].attempts <= queue[u].attempts
        <3>1. u \in Url /\ proc[v].attempts \in Nat /\ queue[u].attempts \in Nat
              /\ queue'[u].attempts \in Nat
            BY <1>2, <2>2
        <3>2. queue[u].attempts = proc[v].attempts
            BY <1>4, <1>12, <2>2, <3>1
        <3>3. queue[u].status \in {"capturing"} \cup Terminal
            BY <2>2, <3>2 DEF LeaseKept
        <3>4. CASE queue'[u].status = queue[u].status \/ queue'[u].status \in Terminal
            BY <2>2, <3>3, <3>4
        <3>5. CASE queue[u].status = "absent"
            BY <3>3, <3>5 DEF Terminal
        <3>6. ASSUME NEW w \in Worker, queue'[u].status = "capturing"
              PROVE  queue'[proc'[v].url].status \in {"capturing"} \cup Terminal
            BY <2>2, <3>6
        <3>7. ASSUME NEW w \in Worker, FinishWrite(w), u = proc[w].url,
                     queue[u].attempts = proc[w].attempts
              PROVE  FALSE
            <4>1. CASE w = v
                <5>1. PICK n, g : Becomes(v, [Rest(v) EXCEPT !.pc = "drain", !.budget = n, !.groups = g])
                    BY <3>7, <4>1 DEF FinishWrite
                <5>2. proc'[v] = [Rest(v) EXCEPT !.pc = "drain", !.budget = n, !.groups = g]
                    BY <5>1, BecomesOnly
                <5>3. proc'[v].pc = "drain"
                    BY <5>2, RestType DEF WorkerState
                <5> QED BY <1>12, <5>3 DEF Attempting
            <4>2. CASE w # v
                <5>1. proc[w].pc \in Attempting
                    BY <3>7 DEF FinishWrite, Attempting
                <5> QED BY <2>2, <3>2, <3>7, <4>2, <5>1 DEF LeaseInHand
            <4> QED BY <4>1, <4>2
        <3> QED BY <1>3, <3>1, <3>4, <3>5, <3>6, <3>7
    <2> QED BY <1>5, <1>12, <2>1, <2>2
<1>13. LeaseKept'
    BY <1>12 DEF LeaseKept
<1> QED BY <1>11, <1>13

\* While a worker holds the latest lease of a URL nobody puts the URL back: a
\* late finish of a lease that has expired changes nothing (discovery.py:94-95).
THEOREM LeaseIsKept == Spec => []LeaseKept
<1>1. LeaseInv => LeaseKept
    BY DEF LeaseInv
<1> QED BY <1>1, LeaseInit, LeaseStep, PTL DEF Spec
-----------------------------------------------------------------------------
(* The turns of the sources, where one worker runs *)

\* Where one worker runs, which is how the service is deployed.
OneWorker == \A v, w \in Worker : v = w

\* A row for whose sake its source is left alone.
PausesIn(q, u) ==
    /\ \/ q[u].status = "capturing"
       \/ q[u].status = "retry" /\ q[u].cooldown
    /\ q[u].due > 0

SiteOf(group) == SourceOf[Head(group).url]

\* Each group of a plan is of one source, and no two are of the same.
OneTurnEach(groups) ==
    /\ \A i \in DOMAIN groups : \A k \in DOMAIN groups[i] :
          SourceOf[groups[i][k].url] = SiteOf(groups[i])
    /\ \A i, j \in DOMAIN groups : i # j => SiteOf(groups[i]) # SiteOf(groups[j])

\* What a worker has in hand: turns of sources that nothing pauses but its own
\* attempt, whose lease it still has.
TurnInHand(w) ==
    LET p == proc[w] IN
    /\ p.pc \in {"drain"} \cup Attempting =>
         /\ OneTurnEach(p.groups)
         /\ \A u \in Url : PausesIn(queue, u) =>
              \/ \A i \in DOMAIN p.groups : SourceOf[u] # SiteOf(p.groups[i])
              \/ p.pc \in Attempting /\ u = p.url
    /\ p.pc \in Attempting =>
         /\ SourceOf[p.url] = SiteOf(Head(p.groups))
         /\ queue[p.url].status = "capturing" /\ queue[p.url].attempts = p.attempts
    /\ p.pc = "settle" /\ p.success => p.verdict.status = "captured"

TurnInv == TypeOK /\ \A w \in Worker : TurnInHand(w)

\* Ordering the overdue rows pauses no source.
LEMMA RankedPauses ==
    ASSUME NEW q \in [Url -> QueueRow], NEW u \in Url,
           q[u].due = Null => q[u].status \notin Unfinished,
           PausesIn(Ranked(q), u)
    PROVE  PausesIn(q, u)
<1> DEFINE overdue == {q[v].due : v \in {x \in Url : q[x].due # Null /\ q[x].due <= 0}}
           later == {d \in overdue : d > q[u].due}
<1>1. Ranked(q)[u].status = q[u].status /\ Ranked(q)[u].cooldown = q[u].cooldown
    BY RankedType
<1>2. q[u].due \in Int
    <2>1. q[u].status \in Unfinished
        BY <1>1 DEF PausesIn, Unfinished
    <2> QED BY <2>1 DEF QueueRow
<1>3. q[u].due > 0
    <2> SUFFICES ASSUME ~(q[u].due > 0) PROVE FALSE
        OBVIOUS
    <2>1. Ranked(q)[u] = [q[u] EXCEPT !.due = -Cardinality(later)]
        BY <1>2, Numbers DEF Ranked
    <2>2. Cardinality(later) \in Nat
        <3> DEFINE rows == {x \in Url : q[x].due # Null /\ q[x].due <= 0}
                   dueOf == [v \in rows |-> q[v].due]
        <3>1. IsFiniteSet(rows)
            BY SetAssumption, FS_Subset
        <3>2. dueOf \in Surjection(rows, overdue)
            BY DEF Surjection
        <3>3. later \subseteq overdue
            OBVIOUS
        <3> HIDE DEF dueOf, rows, overdue, later
        <3>4. IsFiniteSet(overdue)
            BY <3>1, <3>2, FS_Surjection
        <3> QED BY <3>3, <3>4, FS_Subset, FS_CardinalityType
    <2> HIDE DEF later
    <2> DEFINE n == -Cardinality(later)
    <2>3. n \in Int /\ ~(n > 0)
        BY <2>2
    <2> HIDE DEF n
    <2>4. Ranked(q)[u] = [q[u] EXCEPT !.due = n] /\ q[u] \in QueueRow
        BY <2>1 DEF n
    <2>5. Ranked(q)[u].due = n
        BY <2>4 DEF QueueRow
    <2> QED BY <2>3, <2>5 DEF PausesIn
<1> QED BY <1>1, <1>3 DEF PausesIn

\* Only a claim, and the failure of an attempt, pause a source.
LEMMA PauseStep ==
    ASSUME TypeOK, [Next]_vars, NEW u \in Url, PausesIn(queue', u), ~PausesIn(queue, u)
    PROVE  \E w \in Worker :
              \/ Claim(w) /\ Claimable(Head(Head(proc[w].groups)))
                 /\ u = Head(Head(proc[w].groups)).url
              \/ FinishWrite(w) /\ u = proc[w].url /\ queue'[u].status = proc[w].verdict.status
<1>1. /\ queue \in [Url -> QueueRow]
      /\ \A v \in Url : queue[v].due = Null <=> queue[v].status \notin Unfinished
    BY DEF TypeOK
<1>2. ASSUME NEW w \in Worker, NEW listed \in SUBSET Url, Discover(w, listed)
      PROVE  FALSE
    <2> DEFINE new == {v \in listed : post[v].body = Null /\ post[v].status # "hard"}
               row == [NoRow EXCEPT !.status = "queued", !.due = 0]
               q == Enqueue(queue, new)
    <2>1. row \in QueueRow /\ row.status = "queued" /\ row.due # Null
        <3>1. 0 \in Int \cup {Null} /\ "queued" \in Unfinished /\ NoRow \in QueueRow /\ 0 # Null
            BY IdleType, Numbers DEF Unfinished
        <3>2. row \in QueueRow
            BY <3>1, RowType
        <3>3. row.status = "queued" /\ row.due = 0
            BY DEF NoRow
        <3> QED BY <3>1, <3>2, <3>3
    <2>2. q = [v \in Url |-> IF v \in new /\ queue[v].status = "absent" THEN row ELSE queue[v]]
        BY DEF Enqueue
    <2>3. queue' = Ranked(q)
        BY <1>2 DEF Discover
    <2> HIDE DEF row, new, q
    <2>4. q \in [Url -> QueueRow] /\ (q[u] = row \/ q[u] = queue[u])
        BY <1>1, <2>1, <2>2
    <2>5. q[u].due = Null => q[u].status \notin Unfinished
        BY <1>1, <2>1, <2>4
    <2>6. PausesIn(q, u)
        BY <2>3, <2>4, <2>5, RankedPauses
    <2> QED BY <2>1, <2>4, <2>6 DEF PausesIn
<1>3. ASSUME NEW w \in Worker, Claim(w)
      PROVE  Claimable(Head(Head(proc[w].groups))) /\ u = Head(Head(proc[w].groups)).url
    <2> DEFINE c == Head(Head(proc[w].groups))
               row == [queue[c.url] EXCEPT !.status = "capturing",
                          !.attempts = Raised(c.attempts), !.due = ClaimTicks]
               q == [queue EXCEPT ![c.url] = row]
    <2>1. Claimable(c)
        BY <1>3 DEF Claim, PausesIn
    <2>2. queue' = Ranked(q)
        BY <1>3, <2>1 DEF Claim
    <2>3. u = c.url
        <3> SUFFICES ASSUME u # c.url PROVE FALSE
            OBVIOUS
        <3>1. c \in Claims
            BY <1>3, HeadType DEF Claim
        <3>2. c.url \in Url /\ c.attempts \in Nat
            BY <3>1 DEF Claims
        <3> HIDE DEF c
        <3>3. Raised(c.attempts) \in Nat
            BY <3>2, RaisedGrows
        <3>4. row \in QueueRow
            <4>1. queue[c.url] \in QueueRow
                BY <1>1, <3>2
            <4>2. ClaimTicks \in Int
                BY Numbers
            <4> QED BY <3>3, <4>1, <4>2 DEF QueueRow, Unfinished
        <3> HIDE DEF row
        <3>5. q \in [Url -> QueueRow] /\ q[u] = queue[u]
            BY <1>1, <3>2, <3>4
        <3> HIDE DEF q
        <3>6. PausesIn(q, u)
            BY <1>1, <2>2, <3>5, RankedPauses
        <3> QED BY <3>5, <3>6 DEF PausesIn
    <2> QED BY <2>1, <2>3
<1>4. ASSUME NEW w \in Worker, FinishWrite(w)
      PROVE  u = proc[w].url /\ queue'[u].status = proc[w].verdict.status
    <2> DEFINE q == [queue EXCEPT ![proc[w].url] = proc[w].verdict]
    <2>1. queue' = Ranked(q)
        BY <1>4 DEF FinishWrite, PausesIn
    <2>2. /\ proc[w].verdict \in QueueRow /\ proc[w].url \in Url
        BY <1>4 DEF TypeOK, WorkerState, InHand, Attempting, FinishWrite
    <2>3. q \in [Url -> QueueRow] /\ (IF u = proc[w].url THEN q[u] = proc[w].verdict
                                                          ELSE q[u] = queue[u])
        BY <1>1, <2>2
    <2> HIDE DEF q
    <2>4. u = proc[w].url
        <3> SUFFICES ASSUME u # proc[w].url PROVE FALSE
            OBVIOUS
        <3>1. PausesIn(q, u)
            BY <1>1, <2>1, <2>3, RankedPauses
        <3> QED BY <2>3, <3>1 DEF PausesIn
    <2>5. queue'[u].status = proc[w].verdict.status
        BY <2>1, <2>3, <2>4, RankedType
    <2> QED BY <2>4, <2>5
<1>5. ASSUME NEW w \in Worker, Resolve(w)
      PROVE  FALSE
    <2>1. \/ queue'[u].status \in Terminal
          \/ queue'[u] = queue[u]
        BY <1>1, <1>5 DEF Resolve, TypeOK, InHand, QueueRow
    <2> QED BY <2>1 DEF PausesIn, Terminal
<1>6. ASSUME Tick
      PROVE  FALSE
    <2> DEFINE older(v) == [queue[v] EXCEPT !.due = @ - 1]
               q == [v \in Url |-> IF queue[v].due = Null THEN queue[v] ELSE older(v)]
    <2>1. ASSUME NEW v \in Url, queue[v].due # Null
          PROVE  /\ older(v) \in QueueRow /\ older(v).status = queue[v].status
                 /\ older(v).cooldown = queue[v].cooldown /\ older(v).due = queue[v].due - 1
                 /\ queue[v].due \in Int /\ older(v).due # Null
        <3>1. queue[v] \in QueueRow /\ queue[v].due \in Int
            BY <1>1, <2>1 DEF QueueRow
        <3> DEFINE n == queue[v].due - 1
        <3>2. n \in Int /\ n # Null
            BY <3>1, Numbers
        <3> HIDE DEF n
        <3>3. older(v) = [queue[v] EXCEPT !.due = n]
            BY DEF n
        <3>4. older(v) \in QueueRow /\ older(v).status = queue[v].status
              /\ older(v).cooldown = queue[v].cooldown /\ older(v).due = n
            BY <3>1, <3>2, <3>3 DEF QueueRow
        <3> QED BY <3>1, <3>2, <3>4 DEF n
    <2>2. queue' = Ranked(q)
        BY <1>6 DEF Tick
    <2> HIDE DEF older
    <2>3. \A v \in Url : IF queue[v].due = Null THEN q[v] = queue[v] ELSE q[v] = older(v)
        OBVIOUS
    <2>4. q \in [Url -> QueueRow]
        <3>1. \A v \in Url : q[v] \in QueueRow
            BY <1>1, <2>1, <2>3
        <3> QED BY <3>1
    <2> HIDE DEF q
    <2>5. q[u].due = Null => q[u].status \notin Unfinished
        BY <1>1, <2>1, <2>3
    <2>6. PausesIn(q, u)
        BY <2>2, <2>4, <2>5, RankedPauses
    <2>7. CASE queue[u].due = Null
        BY <2>3, <2>6, <2>7 DEF PausesIn
    <2>8. CASE queue[u].due # Null
        BY <2>1, <2>3, <2>6, <2>8 DEF PausesIn
    <2> QED BY <2>7, <2>8
<1>7. \/ \E w \in Worker : \/ \E listed \in SUBSET Url : Discover(w, listed)
                           \/ Claim(w) \/ FinishWrite(w) \/ Resolve(w)
      \/ Tick
      \/ queue' = queue
    BY DEF Next, WorkerStep, Crash, Change, vars, Plan, Drained, Capture, Save, CaptureFails,
       FinishRead, PollFails, SelectRows, RecheckFetch, RecheckStore, RecheckFails, Rechecked
<1>8. queue' # queue
    BY DEF PausesIn
<1> QED BY <1>2, <1>3, <1>4, <1>5, <1>6, <1>7, <1>8

\* What is left of a plan after a turn: each group goes back to one of the plan.
LEMMA RotatedTurns ==
    ASSUME NEW g \in Seq(Seq(Claims) \ {<<>>}), g # <<>>, OneTurnEach(g),
           NEW n \in {Rotated(g), Tail(g)}
    PROVE  /\ OneTurnEach(n)
           /\ \A i \in DOMAIN n : \E j \in DOMAIN g : SiteOf(n[i]) = SiteOf(g[j])
           /\ n = Tail(g) => \A i \in DOMAIN n : SiteOf(n[i]) # SiteOf(Head(g))
<1> DEFINE tail == Tail(g)
           left == Tail(Head(g))
           size == Len(g)
<1>1. /\ size \in Nat /\ size >= 1 /\ DOMAIN g = 1..size /\ Head(g) = g[1]
      /\ tail \in Seq(Seq(Claims) \ {<<>>}) /\ Len(tail) = size - 1
      /\ \A i \in 1..size - 1 : tail[i] = g[i + 1]
    BY HeadTailProperties
<1>2. /\ g[1] \in Seq(Claims) /\ g[1] # <<>> /\ DOMAIN g[1] = 1..Len(g[1])
      /\ Len(g[1]) \in Nat /\ Len(g[1]) >= 1
    BY <1>1
<1>3. /\ left \in Seq(Claims) /\ Len(left) = Len(g[1]) - 1
      /\ \A k \in 1..Len(g[1]) - 1 : left[k] = g[1][k + 1]
    BY <1>1, <1>2, HeadTailProperties
\* The last group, where it is not spent, has the source of the first.
<1>4. ASSUME left # <<>>
      PROVE  /\ SiteOf(left) = SiteOf(g[1])
             /\ \A k \in DOMAIN left : SourceOf[left[k].url] = SiteOf(left)
    <2>1. /\ DOMAIN left = 1..Len(g[1]) - 1 /\ Head(left) = left[1] /\ 1 \in DOMAIN left
        BY <1>2, <1>3, <1>4
    <2>2. \A k \in DOMAIN left : left[k] = g[1][k + 1] /\ k + 1 \in DOMAIN g[1]
        BY <1>2, <1>3, <2>1
    <2>3. \A k \in DOMAIN left : SourceOf[left[k].url] = SiteOf(g[1])
        BY <1>1, <2>2 DEF OneTurnEach
    <2>4. SiteOf(left) = SiteOf(g[1])
        BY <2>1, <2>3 DEF SiteOf
    <2> QED BY <2>3, <2>4
<1> DEFINE from(i) == IF i = size THEN 1 ELSE i + 1
<1>5. /\ DOMAIN n \subseteq 1..size
      /\ n = tail => DOMAIN n = 1..size - 1
      /\ \A i \in DOMAIN n : IF i = size THEN left # <<>> /\ n[i] = left ELSE n[i] = g[i + 1]
    <2>1. CASE n = tail
        <3>1. DOMAIN n = 1..size - 1
            BY <1>1, <2>1
        <3> HIDE DEF tail, left, size
        <3>2. \A i \in DOMAIN n : i # size /\ n[i] = g[i + 1]
            BY <1>1, <2>1, <3>1
        <3> QED BY <1>1, <3>1, <3>2
    <2>2. CASE n # tail
        <3>1. left # <<>> /\ n = Append(tail, left)
            BY <2>2 DEF Rotated
        <3>2. left \in Seq(Claims) \ {<<>>}
            BY <1>3, <3>1
        <3> HIDE DEF tail, left, size
        <3>3. /\ DOMAIN n = 1..Len(tail) + 1 /\ n[Len(tail) + 1] = left
              /\ \A i \in 1..Len(tail) : n[i] = tail[i]
            BY <1>1, <3>1, <3>2, AppendProperties
        <3>4. DOMAIN n = 1..size /\ n[size] = left /\ \A i \in 1..size - 1 : n[i] = tail[i]
            BY <1>1, <3>3
        <3> QED BY <1>1, <2>2, <3>1, <3>4
    <2> QED BY <2>1, <2>2
<1>6. ASSUME NEW i \in DOMAIN n
      PROVE  /\ from(i) \in DOMAIN g /\ SiteOf(n[i]) = SiteOf(g[from(i)])
             /\ \A k \in DOMAIN n[i] : SourceOf[n[i][k].url] = SiteOf(n[i])
    <2> HIDE DEF left, size, tail
    <2>1. from(i) \in DOMAIN g
        BY <1>1, <1>5
    <2>2. CASE i = size
        BY <1>4, <1>5, <2>1, <2>2
    <2>3. CASE i # size
        BY <1>5, <2>1, <2>3 DEF OneTurnEach
    <2> QED BY <2>1, <2>2, <2>3
<1>7. \A i, j \in DOMAIN n : i # j => from(i) # from(j)
    <2> HIDE DEF left, tail, size
    <2> QED BY <1>1, <1>5
<1>8. OneTurnEach(n)
    <2> HIDE DEF from
    <2> QED BY <1>6, <1>7 DEF OneTurnEach
<1>9. ASSUME n = tail, NEW i \in DOMAIN n
      PROVE  SiteOf(n[i]) # SiteOf(Head(g))
    <2>1. from(i) # 1 /\ from(i) \in DOMAIN g /\ 1 \in DOMAIN g
        <3> HIDE DEF left, tail, size
        <3> QED BY <1>1, <1>5, <1>9
    <2> DEFINE j == from(i)
    <2>2. j # 1 /\ j \in DOMAIN g /\ SiteOf(n[i]) = SiteOf(g[j])
        BY <1>6, <1>9, <2>1
    <2> HIDE DEF j
    <2>3. SiteOf(g[j]) # SiteOf(g[1])
        BY <2>1, <2>2 DEF OneTurnEach
    <2> QED BY <1>1, <2>2, <2>3
<1> HIDE DEF from
<1> QED BY <1>6, <1>8, <1>9

\* A plan has one turn for each source that nothing pauses.
LEMMA PlanTurns ==
    ASSUME TypeOK, NEW w \in Worker, Plan(w)
    PROVE  /\ proc'[w].pc = "drain"
           /\ OneTurnEach(proc'[w].groups)
           /\ \A i \in DOMAIN proc'[w].groups : ~Paused(SiteOf(proc'[w].groups[i]))
<1> DEFINE ready == {s \in Source : DueRows(s) # {} /\ ~Paused(s)}
<1>1. PICK order \in {q \in SetToSeqs(ready) : Sorted(q, TurnOf)},
           rows \in [ready -> UNION {Candidates(s) : s \in Source}] :
         /\ \A s \in ready : rows[s] \in Candidates(s)
         /\ Becomes(w, [proc[w] EXCEPT !.pc = "drain", !.budget = Budget,
                          !.groups = IF Budget = 0 THEN <<>>
                                     ELSE [i \in DOMAIN order |-> rows[order[i]]]])
    BY DEF Plan
<1> DEFINE g == IF Budget = 0 THEN <<>> ELSE [i \in DOMAIN order |-> rows[order[i]]]
<1>2. proc'[w].pc = "drain" /\ proc'[w].groups = g
    <2> HIDE DEF g
    <2>1. proc'[w] = [proc[w] EXCEPT !.pc = "drain", !.budget = Budget, !.groups = g]
        BY <1>1, BecomesOnly DEF g
    <2>2. proc[w] \in WorkerState
        BY DEF TypeOK
    <2> QED BY <2>1, <2>2 DEF WorkerState
<1>3. CASE Budget = 0
    BY <1>2, <1>3 DEF OneTurnEach
<1>4. CASE Budget # 0
    <2>1. order \in [1..Cardinality(ready) -> ready]
          /\ \A i, j \in 1..Cardinality(ready) : order[i] = order[j] => i = j
        BY DEF SetToSeqs
    <2>2. ASSUME NEW s \in ready
          PROVE  /\ SiteOf(rows[s]) = s
                 /\ \A k \in DOMAIN rows[s] : SourceOf[rows[s][k].url] = s
        <3>1. rows[s] \in Seq(Claims) \ {<<>>}
            BY <1>1, <1>4, <2>2, CandidatesType
        <3>2. PICK q \in SetToSeqs(DueRows(s)) :
                 rows[s] = [i \in 1..Lesser(Budget, Len(q)) |-> Candidate(q[i])]
            BY <1>1, <2>2 DEF Candidates
        <3>3. q \in [1..Cardinality(DueRows(s)) -> DueRows(s)]
              /\ Cardinality(DueRows(s)) \in Nat
            BY SetAssumption, FS_Subset, FS_CardinalityType DEF SetToSeqs, DueRows
        <3>4. \A k \in DOMAIN rows[s] : k \in 1..Cardinality(DueRows(s))
            <4>1. Len(q) = Cardinality(DueRows(s))
                BY <3>3
            <4>2. Lesser(Budget, Len(q)) \in Nat /\ Lesser(Budget, Len(q)) <= Len(q)
                BY <3>3, <4>1, Numbers DEF Lesser
            <4> QED BY <3>2, <3>3, <4>1, <4>2
        <3>5. \A k \in DOMAIN rows[s] : SourceOf[rows[s][k].url] = s
            <4>1. \A u \in DueRows(s) : SourceOf[Candidate(u).url] = s
                BY DEF DueRows, Candidate
            <4>2. \A k \in DOMAIN rows[s] : rows[s][k] = Candidate(q[k]) /\ q[k] \in DueRows(s)
                BY <3>2, <3>3, <3>4
            <4> QED BY <4>1, <4>2
        <3>6. Head(rows[s]) = rows[s][1] /\ 1 \in DOMAIN rows[s]
            BY <3>1
        <3> QED BY <3>5, <3>6 DEF SiteOf
    <2>3. /\ DOMAIN g = 1..Cardinality(ready)
          /\ \A i \in DOMAIN g : g[i] = rows[order[i]] /\ order[i] \in ready
          /\ \A i, j \in DOMAIN g : order[i] = order[j] => i = j
        BY <1>4, <2>1
    <2>4. \A s \in ready : ~Paused(s)
        OBVIOUS
    <2> HIDE DEF ready, g
    <2>5. OneTurnEach(g)
        BY <2>2, <2>3 DEF OneTurnEach
    <2>6. \A i \in DOMAIN g : ~Paused(SiteOf(g[i]))
        BY <2>2, <2>3, <2>4
    <2> QED BY <1>2, <2>5, <2>6
<1> QED BY <1>3, <1>4

\* The steps after which a worker has no plan.
LEMMA NoTurn ==
    ASSUME TypeOK, NEW w \in Worker,
           \/ \E listed \in SUBSET Url : Discover(w, listed)
           \/ Drained(w) \/ PollFails(w) \/ SelectRows(w) \/ RecheckFetch(w) \/ RecheckStore(w)
           \/ Resolve(w) \/ RecheckFails(w) \/ Rechecked(w) \/ Crash(w)
    PROVE  proc'[w].pc \notin {"drain"} \cup Attempting
<1>1. proc[w] \in WorkerState /\ Rest(w) \in WorkerState /\ NextRow(w) \in WorkerState
      /\ Rest(w).pc = "idle" /\ NextRow(w).pc = "rows"
    BY RestType DEF TypeOK
<1>2. ASSUME NEW listed \in SUBSET Url, Discover(w, listed)
      PROVE  proc'[w].pc = "plan"
    <2>1. proc'[w] = [Rest(w) EXCEPT !.pc = "plan"]
        BY <1>2, BecomesOnly DEF Discover
    <2> QED BY <1>1, <2>1 DEF WorkerState
<1>3. CASE Drained(w)
    <2>1. proc'[w] = [Rest(w) EXCEPT !.pc = "recheck"]
        BY <1>3, BecomesOnly DEF Drained
    <2>2. proc'[w].pc = "recheck"
        BY <1>1, <2>1 DEF WorkerState
    <2> QED BY <2>2 DEF Attempting
<1>4. CASE PollFails(w) \/ Resolve(w) \/ RecheckFails(w) \/ Rechecked(w)
    <2>1. proc'[w] = Rest(w) \/ proc'[w] = NextRow(w)
        BY <1>4, BecomesOnly DEF PollFails, Resolve, RecheckFails, Rechecked
    <2> QED BY <1>1, <2>1 DEF Attempting
<1>5. CASE SelectRows(w)
    <2>1. \/ \E k, rows : Becomes(w, [Idle EXCEPT !.pc = "rows", !.knows = k, !.rows = rows])
          \/ Becomes(w, Rest(w))
        BY <1>5 DEF SelectRows
    <2>2. proc'[w].pc \in {"rows", "idle"}
        <3>1. CASE Becomes(w, Rest(w))
            BY <1>1, <3>1, BecomesOnly
        <3>2. ASSUME NEW k, NEW rows,
                     Becomes(w, [Idle EXCEPT !.pc = "rows", !.knows = k, !.rows = rows])
              PROVE  proc'[w].pc = "rows"
            <4>1. proc'[w] = [Idle EXCEPT !.pc = "rows", !.knows = k, !.rows = rows]
                BY <3>2, BecomesOnly
            <4> QED BY <4>1 DEF Idle
        <3> QED BY <2>1, <3>1, <3>2
    <2> QED BY <2>2 DEF Attempting
<1>6. CASE RecheckFetch(w)
    <2>1. PICK rows, u, n, page :
            Becomes(w, [[proc[w] EXCEPT !.pc = "store", !.rows = rows, !.url = u, !.needs = n]
                          EXCEPT !.page = page])
        BY <1>6 DEF RecheckFetch, Look
    <2>2. proc'[w] = [proc[w] EXCEPT !.pc = "store", !.rows = rows, !.url = u, !.needs = n,
                                     !.page = page]
        BY <2>1, BecomesOnly
    <2>3. proc'[w].pc = "store"
        BY <1>1, <2>2 DEF WorkerState
    <2> QED BY <2>3 DEF Attempting
<1>7. CASE RecheckStore(w)
    <2>1. proc'[w].pc = "resolve" \/ proc'[w] = NextRow(w)
        BY <1>7, RecheckPost
    <2> QED BY <1>1, <2>1 DEF Attempting
<1>8. CASE Crash(w)
    <2>1. proc'[w] = Idle
        BY <1>8, BecomesOnly DEF Crash
    <2> QED BY <2>1 DEF Idle, Attempting
<1> QED BY <1>2, <1>3, <1>4, <1>5, <1>6, <1>7, <1>8 DEF Attempting

\* The steps of one attempt: a successful one is recorded as captured.
LEMMA AttemptGoesOn ==
    ASSUME TypeOK, NEW w \in Worker, Capture(w) \/ Save(w) \/ CaptureFails(w) \/ FinishRead(w)
    PROVE  /\ proc[w].pc \in Attempting /\ proc'[w].pc \in Attempting
           /\ proc'[w].groups = proc[w].groups /\ proc'[w].url = proc[w].url
           /\ proc'[w].attempts = proc[w].attempts
           /\ proc'[w].pc = "settle" /\ proc'[w].success => proc'[w].verdict.status = "captured"
           /\ queue' = queue
<1>1. proc[w] \in WorkerState
    BY DEF TypeOK
<1>2. CASE Capture(w)
    <2>1. CASE Becomes(w, [proc[w] EXCEPT !.pc = "finish", !.success = post[proc[w].url].body # Null])
        <3> DEFINE success == post[proc[w].url].body # Null
                   state == [proc[w] EXCEPT !.pc = "finish", !.success = success]
        <3>1. proc'[w] = state
            BY <2>1, BecomesOnly
        <3> HIDE DEF success
        <3>2. /\ state.pc = "finish" /\ state.url = proc[w].url /\ state.groups = proc[w].groups
              /\ state.attempts = proc[w].attempts
            BY <1>1 DEF WorkerState
        <3> HIDE DEF state
        <3> QED BY <1>2, <3>1, <3>2 DEF Capture, Attempting
    <2>2. CASE Look(w, proc[w].url, TRUE, [proc[w] EXCEPT !.pc = "save"])
        <3>1. PICK page : Becomes(w, [[proc[w] EXCEPT !.pc = "save"] EXCEPT !.page = page])
            BY <2>2 DEF Look
        <3>2. proc'[w] = [proc[w] EXCEPT !.pc = "save", !.page = page]
            BY <3>1, BecomesOnly
        <3>3. /\ proc'[w].pc = "save" /\ proc'[w].url = proc[w].url
              /\ proc'[w].groups = proc[w].groups /\ proc'[w].attempts = proc[w].attempts
            BY <1>1, <3>2 DEF WorkerState
        <3> QED BY <1>2, <3>3 DEF Capture, Attempting
    <2> QED BY <1>2, <2>1, <2>2 DEF Capture
<1>3. CASE Save(w)
    <2>1. PICK k, b : Becomes(w, [proc[w] EXCEPT !.pc = "finish", !.knows = k,
                                                 !.page = NoPage, !.success = b])
        BY <1>3 DEF Save
    <2>2. proc'[w] = [proc[w] EXCEPT !.pc = "finish", !.knows = k, !.page = NoPage, !.success = b]
        BY <2>1, BecomesOnly
    <2>3. /\ proc'[w].pc = "finish" /\ proc'[w].url = proc[w].url
          /\ proc'[w].groups = proc[w].groups /\ proc'[w].attempts = proc[w].attempts
        BY <1>1, <2>2 DEF WorkerState
    <2> QED BY <1>3, <2>3 DEF Save, Attempting
<1>4. CASE CaptureFails(w)
    <2>1. proc'[w] = [proc[w] EXCEPT !.pc = "finish", !.page = NoPage, !.success = FALSE]
        BY <1>4, BecomesOnly DEF CaptureFails
    <2>2. /\ proc'[w].pc = "finish" /\ proc'[w].url = proc[w].url
          /\ proc'[w].groups = proc[w].groups /\ proc'[w].attempts = proc[w].attempts
        BY <1>1, <2>1 DEF WorkerState
    <2> QED BY <1>4, <2>2 DEF CaptureFails, Attempting
<1>5. CASE FinishRead(w)
    <2> DEFINE verdict == Outcome(proc[w].success, post[proc[w].url], proc[w].attempts)
               state == [proc[w] EXCEPT !.pc = "settle", !.verdict = verdict]
    <2>1. proc[w].success => verdict.status = "captured"
        BY DEF Outcome
    <2>2. proc'[w] = state
        BY <1>5, BecomesOnly DEF FinishRead
    <2> HIDE DEF verdict
    <2>3. /\ state.pc = "settle" /\ state.url = proc[w].url /\ state.groups = proc[w].groups
          /\ state.attempts = proc[w].attempts /\ state.verdict = verdict
          /\ state.success = proc[w].success
        BY <1>1 DEF WorkerState
    <2> HIDE DEF state
    <2> QED BY <1>5, <2>1, <2>2, <2>3 DEF FinishRead, Attempting
<1> QED BY <1>2, <1>3, <1>4, <1>5

LEMMA TurnInit == Init => TurnInv
BY InitTypeOK DEF Init, TurnInv, TurnInHand, Idle, Attempting

LEMMA TurnStep ==
    ASSUME OneWorker, TurnInv, [Next]_vars
    PROVE  TurnInv'
<1> SUFFICES ASSUME NEW w \in Worker PROVE TurnInHand(w)'
    BY NextTypeOK DEF TurnInv
<1> DEFINE p == proc[w]
           g == proc[w].groups
<1>1. TypeOK /\ TypeOK' /\ TurnInHand(w)
    BY NextTypeOK DEF TurnInv
<1>2. /\ p \in WorkerState /\ g \in Seq(Seq(Claims) \ {<<>>})
      /\ p.pc \in Attempting => p.url \in Url /\ g # <<>>
    BY <1>1 DEF TypeOK, WorkerState, InHand
\* What the steps that pause a source are.
<1>3. ASSUME NEW u \in Url, PausesIn(queue', u), ~PausesIn(queue, u)
      PROVE  \/ Claim(w) /\ Claimable(Head(Head(g))) /\ u = Head(Head(g)).url
             \/ FinishWrite(w) /\ u = p.url
    <2> HIDE DEF TurnInv
    <2> QED BY <1>1, <1>3, PauseStep DEF OneWorker
<1>4. CASE Plan(w)
    <2>1. \A u \in Url : PausesIn(queue', u) => PausesIn(queue, u)
        BY <1>4 DEF Plan
    <2>2. \A u \in Url : \A s : PausesIn(queue, u) /\ ~Paused(s) => SourceOf[u] # s
        BY DEF PausesIn, Paused
    <2>3. /\ proc'[w].pc = "drain" /\ OneTurnEach(proc'[w].groups)
          /\ \A i \in DOMAIN proc'[w].groups : ~Paused(SiteOf(proc'[w].groups[i]))
        BY <1>1, <1>4, PlanTurns
    <2> QED BY <2>1, <2>2, <2>3 DEF TurnInHand, Attempting
<1>5. CASE Claim(w)
    <2> DEFINE c == Head(Head(g))
    <2>1. p.pc = "drain" /\ g # <<>> /\ OneTurnEach(g)
        BY <1>1, <1>5 DEF Claim, TurnInHand
    <2>2. \A u \in Url : PausesIn(queue, u) => \A i \in DOMAIN g : SourceOf[u] # SiteOf(g[i])
        BY <1>1, <2>1 DEF TurnInHand, Attempting
    <2>3. CASE Claimable(c)
        <3> DEFINE state == [p EXCEPT !.pc = "capture", !.url = c.url, !.attempts = Raised(c.attempts)]
        <3>1. proc'[w] = state
            BY <1>1, <1>5, <2>3, BecomesOnly DEF Claim
        <3>2. c.url \in Url /\ SourceOf[c.url] = SiteOf(Head(g))
            <4>1. c \in Claims
                BY <1>1, <2>1, HeadType
            <4> QED BY <4>1 DEF Claims, SiteOf
        <3>3. queue'[c.url].status = "capturing" /\ queue'[c.url].attempts = Raised(c.attempts)
            BY <1>1, <1>5, <2>3, <3>2, ClaimRows
        <3>4. \A u \in Url : PausesIn(queue', u) => PausesIn(queue, u) \/ u = c.url
            BY <1>3, <2>1 DEF FinishWrite
        <3> HIDE DEF c
        <3>5. /\ state.pc = "capture" /\ state.url = c.url /\ state.groups = g
              /\ state.attempts = Raised(c.attempts)
            BY <1>2 DEF WorkerState
        <3> HIDE DEF state
        <3> QED BY <2>1, <2>2, <3>1, <3>2, <3>3, <3>4, <3>5 DEF TurnInHand, Attempting
    <2>4. CASE ~Claimable(c)
        <3> DEFINE state == [p EXCEPT !.groups = Rotated(g)]
        <3>1. proc'[w] = state /\ queue' = queue
            BY <1>1, <1>5, <2>4, BecomesOnly DEF Claim
        <3> HIDE DEF c
        <3>2. state.pc = "drain" /\ state.groups = Rotated(g)
            BY <1>2, <2>1 DEF WorkerState
        <3> HIDE DEF state
        <3>3. /\ OneTurnEach(Rotated(g))
              /\ \A i \in DOMAIN Rotated(g) : \E j \in DOMAIN g : SiteOf(Rotated(g)[i]) = SiteOf(g[j])
            <4> HIDE DEF g
            <4> QED BY <1>2, <2>1, RotatedTurns
        <3> HIDE DEF g
        <3> QED BY <2>2, <3>1, <3>2, <3>3 DEF TurnInHand, Attempting
    <2> QED BY <2>3, <2>4
<1>6. CASE Capture(w) \/ Save(w) \/ CaptureFails(w) \/ FinishRead(w)
    BY <1>1, <1>6, AttemptGoesOn DEF TurnInHand, Attempting
<1>7. CASE FinishWrite(w)
    <2> DEFINE n == LeftOf(g, p.success)
               q == [queue EXCEPT ![p.url] = p.verdict]
    <2>1. p.pc = "settle" /\ p.url \in Url /\ g # <<>> /\ p.verdict \in QueueRow
        BY <1>1, <1>2, <1>7 DEF FinishWrite, Attempting, WorkerState
    <2>2. /\ OneTurnEach(g) /\ SourceOf[p.url] = SiteOf(Head(g))
          /\ \A u \in Url : PausesIn(queue, u) =>
                (\A i \in DOMAIN g : SourceOf[u] # SiteOf(g[i])) \/ u = p.url
          /\ Holds(queue[p.url], p.attempts)
          /\ p.success => p.verdict.status = "captured"
        BY <1>1, <2>1 DEF TurnInHand, Attempting, Holds
    <2>3. proc'[w].pc = "drain" /\ proc'[w].groups = n
        <3>1. Rest(w) \in WorkerState
            BY <1>1, RestType
        <3>2. proc'[w] = [Rest(w) EXCEPT !.pc = "drain", !.budget = p.budget - 1, !.groups = n]
            BY <1>1, <1>7, BecomesOnly DEF FinishWrite
        <3> HIDE DEF n
        <3> QED BY <3>1, <3>2 DEF WorkerState
    <2>4. queue'[p.url].status = p.verdict.status
        <3>1. queue' = Ranked(q)
            BY <1>7, <2>2 DEF FinishWrite
        <3>2. q \in [Url -> QueueRow] /\ q[p.url] = p.verdict
            BY <1>1, <2>1 DEF TypeOK
        <3> HIDE DEF q
        <3> QED BY <2>1, <3>1, <3>2, RankedType
    <2>5. \A u \in Url : PausesIn(queue', u) => PausesIn(queue, u) \/ u = p.url
        BY <1>3, <2>1 DEF Claim
    <2>6. /\ OneTurnEach(n)
          /\ \A i \in DOMAIN n : \E j \in DOMAIN g : SiteOf(n[i]) = SiteOf(g[j])
          /\ ~p.success => \A i \in DOMAIN n : SiteOf(n[i]) # SiteOf(Head(g))
        <3>1. n \in {Rotated(g), Tail(g)} /\ (~p.success => n = Tail(g))
            BY DEF LeftOf
        <3> HIDE DEF g, n
        <3> QED BY <1>2, <2>1, <2>2, <3>1, RotatedTurns
    <2>7. ASSUME PausesIn(queue', p.url), NEW i \in DOMAIN n
          PROVE  SourceOf[p.url] # SiteOf(n[i])
        <3>1. ~p.success
            BY <2>2, <2>4, <2>7 DEF PausesIn
        <3> QED BY <2>2, <2>6, <2>7, <3>1
    <2> HIDE DEF n, g
    <2> QED BY <2>2, <2>3, <2>5, <2>6, <2>7 DEF TurnInHand, Attempting
<1>8. CASE UNCHANGED proc /\ (Tick \/ queue' = queue)
    <2>1. ASSUME NEW u \in Url
          PROVE  queue'[u].status = queue[u].status /\ queue'[u].attempts = queue[u].attempts
        BY <1>1, <1>8, TickRows
    <2>2. \A u \in Url : PausesIn(queue', u) => PausesIn(queue, u)
        <3> SUFFICES ASSUME NEW u \in Url, PausesIn(queue', u), ~PausesIn(queue, u) PROVE FALSE
            OBVIOUS
        <3>1. PICK state : state # p /\ Becomes(w, state)
            <4>1. CASE Claim(w) /\ Claimable(Head(Head(g)))
                <5> DEFINE state == [p EXCEPT !.pc = "capture", !.url = Head(Head(g)).url,
                                              !.attempts = Raised(Head(Head(g)).attempts)]
                <5>1. Becomes(w, state) /\ p.pc = "drain"
                    BY <4>1 DEF Claim
                <5>2. state.pc = "capture"
                    BY <1>2 DEF WorkerState
                <5> QED BY <5>1, <5>2
            <4>2. CASE FinishWrite(w)
                <5> DEFINE state == [Rest(w) EXCEPT !.pc = "drain", !.budget = p.budget - 1,
                                                    !.groups = LeftOf(g, p.success)]
                <5>1. Becomes(w, state) /\ p.pc = "settle"
                    BY <4>2 DEF FinishWrite
                <5>2. state.pc = "drain"
                    BY <1>1, RestType DEF WorkerState
                <5> QED BY <5>1, <5>2
            <4> QED BY <1>3, <4>1, <4>2
        <3>2. proc'[w] = state
            BY <1>1, <3>1, BecomesOnly
        <3> QED BY <1>8, <3>1, <3>2
    <2> QED BY <1>1, <1>2, <1>8, <2>1, <2>2 DEF TurnInHand
<1>9. CASE proc'[w].pc \notin {"drain"} \cup Attempting
    BY <1>9 DEF TurnInHand, Attempting
<1>10. \A v \in Worker : v = w
    BY DEF OneWorker
<1>11. CASE WorkerStep(w) \/ Crash(w)
    BY <1>1, <1>4, <1>5, <1>6, <1>7, <1>9, <1>11, NoTurn DEF WorkerStep
<1>12. CASE Tick \/ (\E u \in Url : Change(u)) \/ UNCHANGED vars
    BY <1>8, <1>12 DEF Tick, Change, vars
<1> QED BY <1>10, <1>11, <1>12 DEF Next

\* No URL of a source is attempted while another is being attempted, or has
\* failed for a reason that concerns the source and is not due again
\* (discovery.py:39-40): one worker has a turn of each source in its plan, and
\* takes it out of the plan when the attempt fails.  Two workers may have turns
\* of one source.
THEOREM SourceLeftAlone ==
    ASSUME OneWorker
    PROVE  Spec => SourceIsLeftAlone
<1>1. TurnInv /\ [Next]_vars => TurnInv'
    BY TurnStep
<1>2. ASSUME TurnInv, [Next]_vars, NEW u \in Url,
             queue'[u].status = "capturing", queue'[u].due > 0, queue[u].due <= 0,
             NEW v \in Url \ {u}, SourceOf[v] = SourceOf[u], PausesIn(queue, v)
      PROVE  FALSE
    <2>1. TypeOK
        BY <1>2 DEF TurnInv
    <2>2. PausesIn(queue', u) /\ ~PausesIn(queue, u)
        <3>1. PausesIn(queue, u) => queue[u].due \in Int
            BY <2>1 DEF TypeOK, QueueRow, Unfinished, PausesIn
        <3> QED BY <1>2, <3>1 DEF PausesIn
    <2>3. PICK w \in Worker :
              \/ /\ Claim(w) /\ Claimable(Head(Head(proc[w].groups)))
                 /\ u = Head(Head(proc[w].groups)).url
              \/ FinishWrite(w) /\ queue'[u].status = proc[w].verdict.status
        BY <1>2, <2>1, <2>2, PauseStep
    <2>4. ~FinishWrite(w) \/ queue'[u].status # proc[w].verdict.status
        BY <1>2, <2>1 DEF FinishWrite, TypeOK, InHand, Terminal
    <2>5. /\ proc[w].pc = "drain" /\ proc[w].groups # <<>>
          /\ SourceOf[u] = SiteOf(Head(proc[w].groups))
        BY <2>3, <2>4 DEF Claim, SiteOf
    <2>6. 1 \in DOMAIN proc[w].groups /\ Head(proc[w].groups) = proc[w].groups[1]
        BY <2>1, <2>5 DEF TypeOK, WorkerState
    <2>7. SourceOf[v] # SiteOf(proc[w].groups[1])
        BY <1>2, <2>5, <2>6 DEF TurnInv, TurnInHand, Attempting
    <2> QED BY <1>2, <2>5, <2>6, <2>7
<1>3. TurnInv /\ [Next]_vars
        => [\A u \in Url :
              queue'[u].status = "capturing" /\ queue'[u].due > 0 /\ queue[u].due <= 0 =>
                ~ \E v \in Url \ {u} :
                    /\ SourceOf[v] = SourceOf[u]
                    /\ \/ queue[v].status = "capturing"
                       \/ queue[v].status = "retry" /\ queue[v].cooldown
                    /\ queue[v].due > 0]_vars
    BY <1>2 DEF PausesIn
<1> QED BY <1>1, <1>3, TurnInit, PTL DEF Spec, SourceIsLeftAlone
-----------------------------------------------------------------------------
(* The promise *)

\* What the promise says of a row.
FateOf(row) ==
    IF row.status = "absent" THEN "unknown"
    ELSE IF row.status \in Unfinished THEN "open" ELSE row.status

LEMMA PromiseInit == Init => Collected!Init
BY DEF Init, Collected!Init, NoRow, NoPost

\* A step finds posts, keeps a text, sees a post gone or concludes on one, and
\* does one of these at a time.
LEMMA PromiseStep ==
    ASSUME ReasonInv, [Next]_vars
    PROVE  [Collected!Next]_(Collected!promised)
<1> DEFINE fate == [u \in Url |-> FateOf(queue[u])]
           fateThen == [u \in Url |-> FateOf(queue'[u])]
           kept == [u \in Url |-> post[u].body]
           keptThen == [u \in Url |-> post'[u].body]
           Found(found) ==
               /\ \A u \in found : fate[u] = "unknown"
               /\ fateThen = [u \in Url |-> IF u \in found THEN "open" ELSE fate[u]]
           Keeping(u, body) == kept[u] = Null /\ keptThen = [kept EXCEPT ![u] = body]
           Concluded(u, conclusion) ==
               /\ fate[u] = "open"
               /\ \/ conclusion = "captured" /\ kept[u] # Null
                  \/ conclusion = "deleted" /\ u \in gone
               /\ fateThen = [fate EXCEPT ![u] = conclusion]
<1> SUFFICES \/ /\ keptThen = kept /\ gone' = gone
                /\ \/ fateThen = fate
                   \/ \E found \in SUBSET Url : Found(found)
                   \/ \E u \in Url, conclusion \in {"captured", "deleted"} : Concluded(u, conclusion)
             \/ /\ fateThen = fate /\ gone' = gone
                /\ keptThen = kept \/ \E u \in Url, body \in Version : Keeping(u, body)
             \/ /\ fateThen = fate /\ keptThen = kept
                /\ gone' = gone \/ \E u \in Url : gone' = gone \cup {u}
    BY DEF Collected!Next, Collected!promised, Collected!Find, Collected!Keep, Collected!SeeGone,
           Collected!Conclude, FateOf
<1>1. TypeOK /\ EvidenceInHand
    BY DEF ReasonInv
<1>2. \A new, old : Keeps(new, old) => FateOf(new) = FateOf(old)
    BY DEF Keeps, FateOf
<1>3. queue' = queue => fateThen = fate
    OBVIOUS
<1>4. post' = post => keptThen = kept
    OBVIOUS
<1>5. ASSUME NEW w \in Worker, NEW listed \in SUBSET Url, Discover(w, listed)
      PROVE  (\E found \in SUBSET Url : Found(found)) /\ keptThen = kept /\ gone' = gone
    <2> DEFINE found == {u \in Url : queue[u].status = "absent" /\ queue'[u].status # "absent"}
    <2>1. ASSUME NEW u \in Url
          PROVE  FateOf(queue'[u]) = IF u \in found THEN "open" ELSE FateOf(queue[u])
        <3>1. CASE Keeps(queue'[u], queue[u])
            BY <1>2, <3>1 DEF Keeps
        <3>2. CASE queue[u].status = "absent" /\ queue'[u].status = "queued"
            BY <3>2 DEF FateOf, Unfinished
        <3> QED BY <1>1, <1>5, <3>1, <3>2, DiscoverRows
    <2>2. \A u \in found : FateOf(queue[u]) = "unknown"
        BY DEF FateOf
    <2>3. found \in SUBSET Url
        OBVIOUS
    <2> HIDE DEF found
    <2>4. Found(found)
        BY <2>1, <2>2, <2>3
    <2> QED BY <1>4, <1>5, <2>3, <2>4 DEF Discover
<1>6. ASSUME NEW w \in Worker, Claim(w)
      PROVE  fateThen = fate /\ keptThen = kept /\ gone' = gone
    <2> DEFINE c == Head(Head(proc[w].groups))
    <2>1. ASSUME Claimable(c), NEW u \in Url
          PROVE  FateOf(queue'[u]) = FateOf(queue[u])
        <3>1. c \in Claims
            BY <1>1, <1>6, <2>1, ClaimRows
        <3>2. CASE u = c.url
            <4>1. queue[u].status \in Unfinished
                BY <2>1, <3>1, <3>2 DEF Claimable, Claims
            <4>2. queue'[u].status = "capturing"
                BY <1>1, <1>6, <2>1, <3>2, ClaimRows
            <4> QED BY <4>1, <4>2 DEF FateOf, Unfinished
        <3>3. CASE u # c.url
            BY <1>1, <1>2, <1>6, <2>1, <3>3, ClaimRows
        <3> QED BY <3>2, <3>3
    <2>2. ~Claimable(c) => queue' = queue
        BY <1>6 DEF Claim
    <2> HIDE DEF c
    <2>3. fateThen = fate
        BY <2>1, <2>2
    <2> QED BY <1>4, <1>6, <2>3 DEF Claim
<1>7. ASSUME NEW w \in Worker, FinishWrite(w) \/ Resolve(w)
      PROVE  /\ fateThen = fate
                \/ \E u \in Url, conclusion \in {"captured", "deleted"} : Concluded(u, conclusion)
             /\ keptThen = kept /\ gone' = gone
    <2> DEFINE u == proc[w].url
               status == proc[w].verdict.status
    <2>1. /\ u \in Url /\ status \in Terminal \cup {"retry"}
          /\ status = "captured" => post[u].body # Null
          /\ status = "deleted" => u \in gone
        BY <1>1, <1>7 DEF FinishWrite, Resolve, Attempting, TypeOK, InHand, EvidenceInHand
    <2>2. ASSUME NEW v \in Url, v # u
          PROVE  FateOf(queue'[v]) = FateOf(queue[v])
        <3>1. Keeps(queue'[v], queue[v])
            BY <1>1, <1>7, <2>2, FinishRows, ResolveRows
        <3> QED BY <1>2, <3>1
    <2>3. \/ FateOf(queue'[u]) = FateOf(queue[u])
          \/ queue[u].status \in Unfinished /\ queue'[u].status = status
        <3>1. CASE FinishWrite(w)
            <4>1. \/ Keeps(queue'[u], queue[u])
                  \/ queue[u].status = "capturing" /\ queue'[u].status = status
                BY <1>1, <2>1, <3>1, FinishRows
            <4> QED BY <1>2, <4>1 DEF Unfinished
        <3>2. CASE Resolve(w)
            <4>1. CASE queue[u].status \in Unfinished
                <5>1. Keeps(queue'[u], queue[u]) \/ queue'[u].status = status
                    BY <1>1, <2>1, <3>2, ResolveRows
                <5> QED BY <1>2, <4>1, <5>1
            <4>2. CASE queue[u].status \notin Unfinished
                BY <3>2, <4>2 DEF Resolve
            <4> QED BY <4>1, <4>2
        <3> QED BY <1>7, <3>1, <3>2
    <2>4. CASE FateOf(queue'[u]) = FateOf(queue[u])
        <3>1. \A v \in Url : FateOf(queue'[v]) = FateOf(queue[v])
            BY <2>2, <2>4
        <3>2. fateThen = fate
            BY <3>1
        <3> QED BY <1>4, <1>7, <3>2 DEF FinishWrite, Resolve
    <2>5. CASE FateOf(queue'[u]) # FateOf(queue[u])
        <3>1. queue[u].status \in Unfinished /\ queue'[u].status = status /\ FateOf(queue[u]) = "open"
            BY <2>3, <2>5 DEF FateOf, Unfinished
        <3>2. status \in Terminal /\ FateOf(queue'[u]) = status
            BY <2>1, <2>5, <3>1 DEF FateOf, Unfinished, Terminal
        <3> HIDE DEF u, status
        <3>3. fateThen = [fate EXCEPT ![u] = status]
            BY <2>1, <2>2, <3>2
        <3>4. Concluded(u, status)
            BY <2>1, <3>1, <3>2, <3>3 DEF Terminal
        <3> QED BY <1>4, <1>7, <2>1, <3>2, <3>4 DEF FinishWrite, Resolve, Terminal
    <2> QED BY <2>4, <2>5
<1>8. CASE Tick
    <2>1. \A u \in Url : FateOf(queue'[u]) = FateOf(queue[u])
        BY <1>1, <1>8, TickRows DEF FateOf
    <2>2. fateThen = fate
        BY <2>1
    <2> QED BY <1>4, <1>8, <2>2 DEF Tick
<1>9. ASSUME NEW w \in Worker, Save(w) \/ RecheckStore(w)
      PROVE  /\ fateThen = fate /\ gone' = gone
             /\ keptThen = kept \/ \E u \in Url, body \in Version : Keeping(u, body)
    <2> DEFINE u == proc[w].url
               body == post'[u].body
    <2>1. /\ u \in Url
          /\ \A v \in Url : v # u => post'[v] = post[v]
          /\ body # post[u].body => post[u].body = Null /\ body \in Text
        <3>1. u \in Url
            BY <1>1, <1>9, SavePost, RecheckPost
        <3>2. body \in Text
            BY <1>1, <1>9, <3>1, NextTypeOK DEF TypeOK, Post
        <3>3. body # post[u].body => post[u].body = Null
            BY <1>1, <3>1, TextStep
        <3> QED BY <1>1, <1>9, <3>1, <3>2, <3>3, SavePost, RecheckPost
    <2>2. fateThen = fate /\ gone' = gone
        BY <1>3, <1>9 DEF Save, RecheckStore
    <2>3. CASE body = post[u].body
        <3>1. \A v \in Url : post'[v].body = post[v].body
            BY <2>1, <2>3
        <3> QED BY <2>2, <3>1
    <2>4. CASE body # post[u].body
        <3>1. body \in Version /\ post[u].body = Null
            BY <2>1, <2>4 DEF Text
        <3>2. \A v \in Url : post'[v].body = IF v = u THEN body ELSE post[v].body
            BY <2>1
        <3> HIDE DEF u, body
        <3>3. Keeping(u, body)
            BY <2>1, <3>1, <3>2
        <3> QED BY <2>1, <2>2, <3>1, <3>3
    <2> QED BY <2>3, <2>4
<1>10. ASSUME NEW w \in Worker, Capture(w) \/ RecheckFetch(w)
       PROVE  /\ fateThen = fate /\ keptThen = kept
              /\ gone' = gone \/ \E u \in Url : gone' = gone \cup {u}
    <2>1. fateThen = fate
        BY <1>3, <1>10 DEF Capture, RecheckFetch
    <2>2. CASE Capture(w)
        <3>1. proc[w].url \in Url
            BY <1>1, <2>2 DEF TypeOK, InHand, Attempting, Capture
        <3>2. \A u \in Url : post'[u].body = post[u].body
            BY <1>1, <2>2 DEF Capture, TypeOK, Post
        <3>3. keptThen = kept
            BY <3>2
        <3> QED BY <2>1, <2>2, <3>1, <3>3 DEF Capture, Look
    <2>3. CASE RecheckFetch(w)
        <3>1. \A r \in proc[w].rows : r.url \in Url
            BY <1>1 DEF TypeOK, WorkerState
        <3> QED BY <1>4, <2>1, <2>3, <3>1 DEF RecheckFetch, Look
    <2> QED BY <1>10, <2>2, <2>3
<1>11. \/ \E w \in Worker : \/ \E listed \in SUBSET Url : Discover(w, listed)
                            \/ Claim(w) \/ FinishWrite(w) \/ Resolve(w)
                            \/ Save(w) \/ RecheckStore(w) \/ Capture(w) \/ RecheckFetch(w)
       \/ Tick
       \/ queue' = queue /\ post' = post /\ gone' = gone
    BY DEF Next, WorkerStep, Crash, Change, vars, Plan, Drained, CaptureFails, FinishRead, PollFails,
       SelectRows, RecheckFails, Rechecked
<1> HIDE DEF fate, fateThen, kept, keptThen, Found, Keeping, Concluded
<1>12. CASE \E w \in Worker : (\E listed \in SUBSET Url : Discover(w, listed)) \/ Claim(w)
    BY <1>5, <1>6, <1>12
<1>13. CASE \E w \in Worker : FinishWrite(w) \/ Resolve(w)
    BY <1>7, <1>13
<1>14. CASE \E w \in Worker : Save(w) \/ RecheckStore(w)
    BY <1>9, <1>14
<1>15. CASE \E w \in Worker : Capture(w) \/ RecheckFetch(w)
    BY <1>10, <1>15
<1> QED BY <1>3, <1>4, <1>8, <1>11, <1>12, <1>13, <1>14, <1>15

\* Whatever workers race, and however their steps fall, the collector implements
\* CapturePromise: a post once found is not dropped, its first text stays
\* (collector.py:505-506, 728-731), and the queue concludes once, with a reason.
THEOREM EveryPostIsKept == Spec => KeepsPosts
<1>1. ReasonInv /\ [Next]_vars => [Collected!Next]_(Collected!promised)
    BY PromiseStep
<1> QED BY <1>1, PromiseInit, ReasonInit, ReasonStep, PTL DEF Spec, KeepsPosts, Collected!Spec
=============================================================================
