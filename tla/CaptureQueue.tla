---------------------------- MODULE CaptureQueue ----------------------------
(***************************************************************************)
(* Finding posts and keeping their first text.                             *)
(*                                                                         *)
(*   services/discovery.py  enqueue, ready, claim, finish, resolve         *)
(*   services/collector.py  poll_feeds, _capture, recheck_captured_batch   *)
(*                                                                         *)
(* A worker runs background_loop: poll (discover, then drain the queue     *)
(* within a budget), then recheck what it has.  One worker is the usual    *)
(* deployment; leases and conditional writes are there for more than one.  *)
(* Each database call, and each page fetched, is a step.                   *)
(*                                                                         *)
(* next_attempt_at is relative (Tick counts it down); rows that are        *)
(* overdue keep only their order.  A definition marked "Variant" is a      *)
(* version with a bug that the properties must tell from the code.         *)
(***************************************************************************)
EXTENDS Faults, SequencesExt

CONSTANTS
    Url,
    Source, SourceOf,  \* the site of each URL, whatever feed lists it
    Worker,            \* instances of background_loop
    Version,           \* texts a post may have
    Answers,           \* what the page of each URL may come to: a Version, or
                       \* "soft" (a deletion notice), "gone" (404 or 410) or
                       \* "error" (anything else, a wall or a time-out)
    Budget,            \* COLLECTOR_MAX_CAPTURE_PER_CYCLE
    RecheckBatch,      \* COLLECTOR_RECHECK_BATCH
    ClaimTicks,        \* CLAIM_SEC, in ticks
    RetryBase, RetryMax,  \* COLLECTOR_RETRY_*_SEC, in ticks
    AttemptCap,        \* bounds attempts: see Raised
    Null

ASSUME SetAssumption ==
    /\ IsFiniteSet(Url) /\ IsFiniteSet(Source) /\ IsFiniteSet(Worker)
    /\ SourceOf \in [Url -> Source]
    /\ {"soft", "gone", "error", Null} \cap Version = {}
    /\ Answers \in [Url -> (SUBSET (Version \cup {"soft", "gone", "error"})) \ {{}}]
    /\ Null \notin Url /\ Null \notin Int

ASSUME NumberAssumption ==
    /\ {Budget, RecheckBatch} \subseteq Nat
    /\ {ClaimTicks, RetryBase, RetryMax, AttemptCap} \subseteq Nat \ {0}

VARIABLES
    \* the database
    queue,   \* discovery_queue: status ("absent": no row), attempts, due, cooldown
    since,   \* last_attempt_at: how many sources were attempted after each one
    post,    \* captured_posts: here, body, status, hard (hard_deleted_at is set)
    \* the workers
    proc,
    site,    \* the web
    gone     \* URLs that somebody has seen answer 404 or 410

vars == <<queue, since, post, proc, faults, site, gone>>

NoRow == [status |-> "absent", attempts |-> 0, due |-> Null, cooldown |-> TRUE]
NoPost == [here |-> FALSE, body |-> Null, status |-> "unchecked", hard |-> FALSE]

\* What a page comes to: the verdict, and the text to keep.
NoPage == [status |-> "unchecked", body |-> Null]

\* knows: _promo_cols_supported is True.  groups: what is left of the plan of
\* this cycle.  url, attempts: the row in hand.  rows: the posts to recheck,
\* and whether they had no text when they were read.
Idle == [pc |-> "idle", knows |-> FALSE, groups |-> <<>>, budget |-> 0,
         url |-> Null, attempts |-> 0, page |-> NoPage, success |-> FALSE,
         verdict |-> NoRow, rows |-> {}, needs |-> FALSE]

Unfinished == {"queued", "retry", "capturing"}
Terminal == {"captured", "deleted"}

\* What the pages may come to at one time.
Web == {f \in [Url -> UNION {Answers[u] : u \in Url}] : \A u \in Url : f[u] \in Answers[u]}

Init ==
    /\ queue = [u \in Url |-> NoRow]
    /\ since = [s \in Source |-> Cardinality(Source)]
    /\ post = [u \in Url |-> NoPost]
    /\ proc = [w \in Worker |-> Idle]
    /\ faults = 0
    /\ site \in Web
    /\ gone = {}
-----------------------------------------------------------------------------
Becomes(w, state) == proc' = [proc EXCEPT ![w] = state]
Rest(w) == [Idle EXCEPT !.knows = proc[w].knows]
Lesser(m, n) == IF m < n THEN m ELSE n

\* Overdue rows keep their order only.
Ranked(q) ==
    LET overdue == {q[u].due : u \in {v \in Url : q[v].due # Null /\ q[v].due <= 0}} IN
    [u \in Url |->
        IF q[u].due = Null \/ q[u].due > 0 THEN q[u]
        ELSE [q[u] EXCEPT !.due = -Cardinality({d \in overdue : d > q[u].due})]]
-----------------------------------------------------------------------------
(* poll_feeds: discovery *)

\* Variant: the upsert updates the rows that are there.
EnqueueResets(q, listed) ==
    [u \in Url |-> IF u \in listed /\ q[u].status \notin Terminal
                   THEN [NoRow EXCEPT !.status = "queued", !.due = 0] ELSE q[u]]

\* ON CONFLICT DO NOTHING.
Enqueue(q, listed) ==
    [u \in Url |-> IF u \in listed /\ q[u].status = "absent"
                   THEN [NoRow EXCEPT !.status = "queued", !.due = 0] ELSE q[u]]

\* The feeds list some posts; those that are kept already or gone for good are
\* left out.  A feed that cannot be read lists nothing.
Discover(w, listed) ==
    LET new == {u \in listed : post[u].body = Null /\ post[u].status # "hard"} IN
    /\ proc[w].pc = "idle"
    /\ queue' = Ranked(Enqueue(queue, new))
    /\ Becomes(w, [Rest(w) EXCEPT !.pc = "plan"])
    /\ UNCHANGED <<since, post, faults, site, gone>>
-----------------------------------------------------------------------------
(* discovery.ready *)

DueRows(s) ==
    {u \in Url : SourceOf[u] = s /\ queue[u].status \in Unfinished /\ queue[u].due <= 0}

\* Variant: only a lease pauses a source.
PausedByLease(s) ==
    \E u \in Url : SourceOf[u] = s /\ queue[u].status = "capturing" /\ queue[u].due > 0

\* A lease, or a failure that was not the post's own, pauses the whole source.
Paused(s) ==
    \E u \in Url :
        /\ SourceOf[u] = s
        /\ \/ queue[u].status = "capturing"
           \/ queue[u].status = "retry" /\ queue[u].cooldown
        /\ queue[u].due > 0

\* Variant: the sources in the order of the catalogue.
TurnOfCatalogue(s) == 0

\* The source attempted longest ago comes first, those never attempted before it.
TurnOf(s) == -since[s]

Sorted(seq, Key(_)) == \A i, j \in DOMAIN seq : i < j => Key(seq[i]) <= Key(seq[j])

\* A source's rows, the longest due first, at most the budget (first_seen and
\* priority settle ties: any order).
Candidate(u) == [url |-> u, status |-> queue[u].status, attempts |-> queue[u].attempts]
DueOf(u) == queue[u].due
Candidates(s) ==
    LET rows == DueRows(s) IN
    {[i \in 1..Lesser(Budget, Len(q)) |-> Candidate(q[i])] :
        q \in {r \in SetToSeqs(rows) : Sorted(r, DueOf)}}

Plan(w) ==
    LET ready == {s \in Source : DueRows(s) # {} /\ ~Paused(s)} IN
    /\ proc[w].pc = "plan"
    /\ \E order \in {q \in SetToSeqs(ready) : Sorted(q, TurnOf)},
          rows \in [ready -> UNION {Candidates(s) : s \in Source}] :
         /\ \A s \in ready : rows[s] \in Candidates(s)
         /\ Becomes(w, [proc[w] EXCEPT !.pc = "drain", !.budget = Budget,
                          !.groups = IF Budget = 0 THEN <<>>
                                     ELSE [i \in DOMAIN order |-> rows[order[i]]]])
    /\ UNCHANGED <<queue, since, post, faults, site, gone>>
-----------------------------------------------------------------------------
(* poll_feeds: one candidate of each source in turn, and discovery.claim *)

\* The next source's turn, without the candidate just taken.
Rotated(groups) ==
    LET left == Tail(Head(groups)) IN
    IF left = <<>> THEN Tail(groups) ELSE Append(Tail(groups), left)

Raised(n) == IF n < AttemptCap THEN n + 1 ELSE n

\* The condition of the UPDATE: nobody else has claimed the row since it was
\* read, and it is due.  Where several workers run, attempts tell two leases of
\* a row apart, so a row is claimed AttemptCap times at most.
Claimable(c) ==
    /\ queue[c.url].status = c.status
    /\ queue[c.url].attempts = c.attempts
    /\ queue[c.url].due # Null /\ queue[c.url].due <= 0

Claim(w) ==
    LET c == Head(Head(proc[w].groups))
        s == SourceOf[c.url] IN
    /\ proc[w].pc = "drain"
    /\ proc[w].groups # <<>> /\ proc[w].budget > 0
    /\ Cardinality(Worker) > 1 => c.attempts < AttemptCap
    /\ IF Claimable(c)
       THEN /\ queue' = Ranked([queue EXCEPT ![c.url] =
                          [@ EXCEPT !.status = "capturing",
                                    !.attempts = Raised(c.attempts), !.due = ClaimTicks]])
            /\ since' = [t \in Source |->
                           IF t = s THEN 0
                           ELSE IF since[t] < since[s] THEN since[t] + 1 ELSE since[t]]
            /\ Becomes(w, [proc[w] EXCEPT !.pc = "capture", !.url = c.url,
                                          !.attempts = Raised(c.attempts)])
       ELSE /\ Becomes(w, [proc[w] EXCEPT !.groups = Rotated(@)])
            /\ UNCHANGED <<queue, since>>
    /\ UNCHANGED <<post, faults, site, gone>>

Drained(w) ==
    /\ proc[w].pc = "drain"
    /\ proc[w].groups = <<>> \/ proc[w].budget = 0
    /\ Becomes(w, [Rest(w) EXCEPT !.pc = "recheck"])
    /\ UNCHANGED <<queue, since, post, faults, site, gone>>
-----------------------------------------------------------------------------
(* _capture *)

\* fetch_observation and decide_status (module CitationTracker).
Judge(o) ==
    CASE o \in Version -> [status |-> "live", body |-> o]
      [] o = "soft"    -> [status |-> "soft", body |-> Null]
      [] o = "gone"    -> [status |-> "hard", body |-> Null]
      [] o = "error"   -> [status |-> "error", body |-> Null]

\* A live page whose artifacts could not be stored is an error.
Unstored == [status |-> "error", body |-> Null]

\* The page as fetched and judged now; artifacts are stored only when needed.
Look(w, u, needed, next) ==
    /\ gone' = IF site[u] = "gone" THEN gone \cup {u} ELSE gone
    /\ \/ Becomes(w, [next EXCEPT !.page = Judge(site[u])]) /\ UNCHANGED faults
       \/ needed /\ site[u] \in Version /\ Fault
          /\ Becomes(w, [next EXCEPT !.page = Unstored])

\* The row is created, read, and the page fetched (what others change between
\* the read and the answer is left to the condition of the UPDATE).
Capture(w) ==
    LET u == proc[w].url IN
    /\ proc[w].pc = "capture"
    /\ post' = [post EXCEPT ![u].here = TRUE]
    /\ IF post[u].body # Null \/ post[u].status = "hard"
       THEN /\ Becomes(w, [proc[w] EXCEPT !.pc = "finish", !.success = post[u].body # Null])
            /\ UNCHANGED <<faults, gone>>
       ELSE Look(w, u, TRUE, [proc[w] EXCEPT !.pc = "save"])
    /\ UNCHANGED <<queue, since, site>>

\* Variant: the first text is not protected.
FreeAlways(p) == TRUE

\* captured_at IS NULL AND body_text IS NULL.
Free(p) == p.body = Null

\* _promotion_cols: cached once it has succeeded.
Probe(w, found) == proc[w].knows \/ found \/ faults < MaxFaults
KnowsAfter(w, found) == proc[w].knows \/ found
CountProbe(w, found) == faults' = IF proc[w].knows \/ found THEN faults ELSE faults + 1

\* The columns of a post that an UPDATE sets; hard_deleted_at only when it is known.
Updated(p, status, body, knows) ==
    [p EXCEPT !.status = status,
              !.body = IF body = Null THEN @ ELSE body,
              !.hard = @ \/ (status = "hard" /\ knows)]

\* The conditional UPDATE.
Save(w) ==
    LET u == proc[w].url
        page == proc[w].page IN
    /\ proc[w].pc = "save"
    /\ \E found \in BOOLEAN :
         /\ Probe(w, found) /\ CountProbe(w, found)
         /\ post' = IF Free(post[u])
                    THEN [post EXCEPT ![u] = Updated(@, page.status, page.body, KnowsAfter(w, found))]
                    ELSE post
         /\ Becomes(w, [proc[w] EXCEPT !.pc = "finish", !.knows = KnowsAfter(w, found), !.page = NoPage,
                          !.success = page.body # Null /\ Free(post[u])])
    /\ UNCHANGED <<queue, since, site, gone>>

\* A database call of _capture fails: the attempt has failed.
CaptureFails(w) ==
    /\ Fault
    /\ proc[w].pc \in {"capture", "save"}
    /\ Becomes(w, [proc[w] EXCEPT !.pc = "finish", !.page = NoPage, !.success = FALSE])
    /\ UNCHANGED <<queue, since, post, site, gone>>
-----------------------------------------------------------------------------
(* discovery.finish *)

Delay(attempts) == Lesser(RetryMax, RetryBase * 2^(attempts - 1))

\* Variant: a retry without a time.
RetryUntimed(attempts, cooldown) ==
    [status |-> "retry", attempts |-> attempts, due |-> Null, cooldown |-> cooldown]

Retry(attempts, cooldown) ==
    [status |-> "retry", attempts |-> attempts, due |-> Delay(attempts), cooldown |-> cooldown]

\* Variant: a soft deletion is final.
OutcomeSoftEnds(success, p, attempts) ==
    IF success \/ p.body # Null
    THEN [status |-> "captured", attempts |-> attempts, due |-> Null, cooldown |-> FALSE]
    ELSE IF p.status \in {"soft", "hard"}
    THEN [status |-> "deleted", attempts |-> attempts, due |-> Null, cooldown |-> TRUE]
    ELSE Retry(attempts, TRUE)

\* The new row: a failed attempt looks at the post, which somebody else may have
\* captured.  Only a soft deletion is no reason to pause the source.
Outcome(success, p, attempts) ==
    LET ended(status, cooldown) ==
            [status |-> status, attempts |-> attempts, due |-> Null, cooldown |-> cooldown] IN
    CASE success -> ended("captured", FALSE)
      [] ~success /\ p.body # Null -> ended("captured", TRUE)
      [] ~success /\ p.body = Null /\ p.status = "hard" -> ended("deleted", TRUE)
      [] ~success /\ p.body = Null /\ p.status # "hard" -> Retry(attempts, p.status # "soft")

FinishRead(w) ==
    /\ proc[w].pc = "finish"
    /\ Becomes(w, [proc[w] EXCEPT !.pc = "settle",
                     !.verdict = Outcome(proc[w].success, post[proc[w].url], proc[w].attempts)])
    /\ UNCHANGED <<queue, since, post, faults, site, gone>>

\* Variant: whoever holds the lease now.
HoldsAny(q, attempts) == q.status = "capturing"

\* The condition of the UPDATE: the lease is still this worker's.
Holds(q, attempts) == q.status = "capturing" /\ q.attempts = attempts

\* After a failure the source has no further turn in this cycle.
LeftOf(groups, success) == IF success THEN Rotated(groups) ELSE Tail(groups)

FinishWrite(w) ==
    LET u == proc[w].url IN
    /\ proc[w].pc = "settle"
    /\ queue' = IF Holds(queue[u], proc[w].attempts)
                THEN Ranked([queue EXCEPT ![u] = proc[w].verdict]) ELSE queue
    /\ Becomes(w, [Rest(w) EXCEPT !.pc = "drain", !.budget = proc[w].budget - 1,
                     !.groups = LeftOf(proc[w].groups, proc[w].success)])
    /\ UNCHANGED <<since, post, faults, site, gone>>

\* A database call of the queue fails: poll_feeds ends, the recheck too.
PollFails(w) ==
    /\ Fault
    /\ proc[w].pc \in {"plan", "drain", "finish", "settle"}
    /\ Becomes(w, Rest(w))
    /\ UNCHANGED <<queue, since, post, site, gone>>
-----------------------------------------------------------------------------
(* recheck_captured_batch *)

\* Variant: the batch goes on although the columns are not known.
MayRecheckAlways(w, found) == TRUE
MayRecheck(w, found) == KnowsAfter(w, found)

\* Rows that are due (their schedule is in CitationTracker: any of them); a post
\* that answered 404 is out for good.  Without the columns the cycle is skipped.
SelectRows(w) ==
    LET eligible == {u \in Url : post[u].here /\ post[u].status # "hard"} IN
    /\ proc[w].pc = "recheck"
    /\ \E found \in BOOLEAN :
         /\ Probe(w, found) /\ CountProbe(w, found)
         /\ IF MayRecheck(w, found)
            THEN \E rows \in {r \in SUBSET eligible : Cardinality(r) <= RecheckBatch} :
                   Becomes(w, [Idle EXCEPT !.pc = "rows", !.knows = KnowsAfter(w, found),
                                 !.rows = {[url |-> u, needs |-> post[u].body = Null] : u \in rows}])
            ELSE Becomes(w, Rest(w))
    /\ UNCHANGED <<queue, since, post, site, gone>>

RecheckFetch(w) ==
    /\ proc[w].pc = "rows"
    /\ \E r \in proc[w].rows :
         Look(w, r.url, r.needs,
              [proc[w] EXCEPT !.pc = "store", !.rows = @ \ {r}, !.url = r.url,
                              !.needs = r.needs])
    /\ UNCHANGED <<queue, since, post, site>>

\* Back to the rows that are left.
NextRow(w) == [Rest(w) EXCEPT !.pc = "rows", !.rows = proc[w].rows]

\* The UPDATE, conditional only when it brings a first text.  A text that is
\* not needed is not part of it.
RecheckStore(w) ==
    LET u == proc[w].url
        page == proc[w].page
        brings == page.body # Null /\ proc[w].needs
        saved == brings => Free(post[u]) IN
    /\ proc[w].pc = "store"
    /\ post' = IF saved
               THEN [post EXCEPT ![u] = Updated(@, page.status, IF brings THEN page.body ELSE Null,
                                                proc[w].knows)]
               ELSE post
    /\ Becomes(w, IF saved /\ brings
                  THEN [proc[w] EXCEPT !.pc = "resolve", !.verdict.status = "captured"]
                  ELSE IF saved /\ page.status = "hard"
                  THEN [proc[w] EXCEPT !.pc = "resolve", !.verdict.status = "deleted"]
                  ELSE NextRow(w))
    /\ UNCHANGED <<queue, since, faults, site, gone>>

\* discovery.resolve.
Resolve(w) ==
    LET u == proc[w].url IN
    /\ proc[w].pc = "resolve"
    /\ queue' = IF queue[u].status \in Unfinished
                THEN [queue EXCEPT ![u].status = proc[w].verdict.status, ![u].due = Null]
                ELSE queue
    /\ Becomes(w, NextRow(w))
    /\ UNCHANGED <<since, post, faults, site, gone>>

\* Failed updates of a row are logged.
RecheckFails(w) ==
    /\ Fault
    /\ proc[w].pc \in {"store", "resolve"}
    /\ Becomes(w, NextRow(w))
    /\ UNCHANGED <<queue, since, post, site, gone>>

Rechecked(w) ==
    /\ proc[w].pc = "rows" /\ proc[w].rows = {}
    /\ Becomes(w, Rest(w))
    /\ UNCHANGED <<queue, since, post, faults, site, gone>>
-----------------------------------------------------------------------------
Crash(w) ==
    /\ Fault
    /\ proc[w] # Idle
    /\ Becomes(w, Idle)
    /\ UNCHANGED <<queue, since, post, site, gone>>

Tick ==
    /\ queue' = Ranked([u \in Url |-> IF queue[u].due = Null THEN queue[u]
                                      ELSE [queue[u] EXCEPT !.due = @ - 1]])
    /\ UNCHANGED <<since, post, proc, faults, site, gone>>

\* A post is edited, removed, or cannot be reached.
Change(u) ==
    /\ site' \in {[site EXCEPT ![u] = o] : o \in Answers[u] \ {site[u]}}
    /\ UNCHANGED <<queue, since, post, proc, faults, gone>>

WorkerStep(w) ==
    \/ \E listed \in SUBSET Url : Discover(w, listed)
    \/ Plan(w) \/ Claim(w) \/ Drained(w)
    \/ Capture(w) \/ Save(w) \/ CaptureFails(w)
    \/ FinishRead(w) \/ FinishWrite(w) \/ PollFails(w)
    \/ SelectRows(w) \/ RecheckFetch(w) \/ RecheckStore(w) \/ Resolve(w)
    \/ RecheckFails(w) \/ Rechecked(w)

Next ==
    \/ \E w \in Worker : WorkerStep(w) \/ Crash(w)
    \/ \E u \in Url : Change(u)
    \/ Tick

Spec == Init /\ [][Next]_vars

\* background_loop catches every exception and goes on; time passes.
FairSpec == Spec /\ WF_vars(Tick) /\ \A w \in Worker : WF_vars(WorkerStep(w))
-----------------------------------------------------------------------------
(* Properties *)

QueueRow == [status : {"absent"} \cup Unfinished \cup Terminal, attempts : Nat,
             due : Int \cup {Null}, cooldown : BOOLEAN]
Verdict == {"unchecked", "live", "soft", "hard", "error"}
Text == Version \cup {Null}
Post == [here : BOOLEAN, body : Text, status : Verdict, hard : BOOLEAN]
Claims == [url : Url, status : Unfinished, attempts : Nat]
Attempting == {"capture", "save", "finish", "settle"}
WorkerState ==
    [pc : {"idle", "plan", "drain", "capture", "save", "finish", "settle", "recheck",
           "rows", "store", "resolve"},
     knows : BOOLEAN, groups : Seq(Seq(Claims) \ {<<>>}), budget : Nat, url : Url \cup {Null},
     attempts : Nat, page : [status : Verdict, body : Text], success : BOOLEAN,
     verdict : QueueRow, rows : SUBSET [url : Url, needs : BOOLEAN], needs : BOOLEAN]

\* What a worker has in hand at each point of its work.
InHand(p) ==
    /\ p.pc \in Attempting => p.url \in Url /\ p.groups # <<>> /\ p.budget > 0
    /\ p.pc \in {"store", "resolve"} => p.url \in Url
    /\ p.pc = "settle" => /\ p.verdict.status \in Terminal \cup {"retry"}
                          /\ p.verdict.due = Null <=> p.verdict.status \in Terminal
    /\ p.pc = "resolve" => p.verdict.status \in Terminal

\* Every variable has its type; a row to be attempted has a time for it
\* (discovery.py:93: only a terminal row has none).
TypeOK ==
    /\ queue \in [Url -> QueueRow]
    /\ \A u \in Url : queue[u].due = Null <=> queue[u].status \notin Unfinished
    /\ since \in [Source -> Nat]
    /\ post \in [Url -> Post]
    /\ proc \in [Worker -> WorkerState]
    /\ \A w \in Worker : InHand(proc[w])
    /\ faults \in 0..MaxFaults
    /\ site \in Web
    /\ gone \subseteq Url

\* The queue gives up on a URL only for a reason: its text is kept, or it has
\* answered 404 or 410 (discovery.py:67-71).
GivenUpForAReason ==
    \A u \in Url :
        /\ queue[u].status = "captured" => post[u].body # Null
        /\ queue[u].status = "deleted" => u \in gone

\* While a worker holds the latest lease of a URL nobody puts the URL back
\* (discovery.py:86-87): a late finish of an expired lease changes nothing.
LeaseKept ==
    \A w \in Worker :
        (/\ proc[w].pc \in Attempting
         /\ queue[proc[w].url].attempts = proc[w].attempts)
          => queue[proc[w].url].status \in {"capturing"} \cup Terminal

\* discovery.py:28: neither rediscovery nor another worker shortens a back-off;
\* it runs down, or ends because the post is settled.
BackoffKept ==
    [][\A u \in Url : queue[u].status = "retry" /\ queue[u].due > 0 =>
          \/ queue'[u] = queue[u] \/ queue'[u].status \in Terminal
          \/ queue'[u] = [queue[u] EXCEPT !.due = @ - 1]]_vars

\* collector.py:69-71: a kept post that answered 404 leaves the recheck queue
\* for good, so hard_deleted_at, which makes it a candidate for promotion, must
\* be recorded with it.
PromotionNotLost ==
    \A u \in Url : post[u].body # Null /\ post[u].status = "hard" => post[u].hard

\* discovery.py:39-40: no URL of a source is attempted while another is being
\* attempted, or has failed for a reason that concerns the source, and is not
\* due again.
SourceIsLeftAlone ==
    [][\A u \in Url :
          queue'[u].status = "capturing" /\ queue'[u].due > 0 /\ queue[u].due <= 0 =>
              ~ \E v \in Url \ {u} :
                  /\ SourceOf[v] = SourceOf[u]
                  /\ \/ queue[v].status = "capturing"
                     \/ queue[v].status = "retry" /\ queue[v].cooldown
                  /\ queue[v].due > 0]_vars

\* discovery.py:1-5: a URL once found is never dropped, though it leaves the
\* feeds, though other posts or sources keep failing, and through crashes: if
\* its page settles, it is kept, or known to be gone.
NothingForgotten ==
    \A u \in Url :
        <>[](queue[u].status # "absent" /\ site[u] \in Version \cup {"gone"})
          => <>(queue[u].status \in Terminal)

\* collector.py:466-467 and COMMUNITY_ARCHIVING_OPERATIONS.md:7, discovery.py:1-5,
\* 67-71: whatever workers race, a post once found is not dropped, the first text
\* kept of it is never replaced or lost, and a conclusion of the queue is final
\* and has its reason when it is drawn.
Collected == INSTANCE CapturePromise WITH
    fate <- [u \in Url |-> IF queue[u].status = "absent" THEN "unknown"
                           ELSE IF queue[u].status \in Unfinished THEN "open"
                           ELSE queue[u].status],
    kept <- [u \in Url |-> post[u].body]
KeepsPosts == Collected!Spec
=============================================================================
