--------------------------- MODULE CitationTracker ---------------------------
(***************************************************************************)
(* Watching the sources of a story.                                        *)
(*                                                                         *)
(*   services/tracker.py    register_citations, decide_status,             *)
(*                          compute_next_check, _process_row,              *)
(*                          recheck_batch, recheck_one_story               *)
(*   services/proxyfetch.py maybe_observe_via_proxy                        *)
(*   routers/stories.py     get_story, manual_recheck                      *)
(*                                                                         *)
(* A recheck reads rows, then for each row fetches the page, judges it     *)
(* against the baseline it has read, and writes the row.  Fetch and write  *)
(* are two steps: a page's answer travels while others act.  Story         *)
(* creation and get_story run in threads of their own.                     *)
(*                                                                         *)
(* Time to the next check is relative (Tick counts it down); rows that are *)
(* due keep only the order in which they fell due, so time is unbounded    *)
(* and the state space still finite.  A definition marked "Variant" is a   *)
(* version with a bug that the properties must tell from the code.         *)
(***************************************************************************)
EXTENDS Threshold

CONSTANTS
    Citation,        \* rows of citation_checks (a story and a URL)
    Story, StoryOf,  \* the story of each citation
    FromCapture,     \* stories that may be made from a capture of the collector
    Loop, Checker,   \* background_loop and requests of manual_recheck
    Thread,          \* threads that create a story or answer get_story
    Hash,            \* of the text of a page; "fresh": no other visit shows that text
    Page,            \* what a source may answer: see MCCitationTracker
    Untrackable,     \* citations on UNTRACKABLE_DOMAINS
    ProxyEnabled,    \* PROXY_FETCH_ENABLED
    BatchSize,       \* CHECK_BATCH_SIZE
    LiveMin, LiveMax, SoftWait, ErrorBase, ErrorMax,  \* TRACK_*_SEC, in ticks
    CountCap,        \* bounds check_count and error_count (the code: 20)
    MaxFaults,       \* bounds crashes and failed database calls
    NoStory, Null

Watcher == Checker \cup {Loop}
Proc == Watcher \cup Thread

ASSUME SetAssumption ==
    /\ IsFiniteSet(Citation)
    /\ StoryOf \in [Citation -> Story]
    /\ FromCapture \subseteq Story
    /\ Loop \notin Checker \cup Thread /\ Checker \cap Thread = {}
    /\ NoStory \notin Story
    /\ Untrackable \subseteq Citation

ASSUME NumberAssumption ==
    /\ {BatchSize, LiveMin, LiveMax, SoftWait, ErrorBase, ErrorMax} \subseteq Nat \ {0}
    /\ CountCap \in Nat \ {0} /\ MaxFaults \in Nat
    /\ ProxyEnabled \in BOOLEAN
    /\ Null \notin Int

\* A page as fetch_observation reports it.  net: a body ("ok"), an error
\* status ("http") or neither ("none": unsafe, time-out, network, redirects).
\* at: the final URL.  hash: "fresh" when the text differs at every visit.
Observation ==
    [net : {"ok", "http", "none"}, code : Nat \cup {Null},
     at : {"page", "moved", "root"}, bot : BOOLEAN,
     article : {"none", "live", "deleted", "blocked", "unknown"},
     long : BOOLEAN, hash : Hash, del : BOOLEAN, blk : BOOLEAN]

\* is_untrackable_source: the HTTP codes with which a site refuses bots.
BotBlockCodes == {403, 429, 430, 503}

ASSUME PageAssumption ==
    /\ "fresh" \in Hash /\ Page \subseteq Observation /\ Page # {}
    /\ \A o \in Page : o.net = "ok" <=> o.code \in 100..399

VARIABLES
    \* the database
    published,   \* stories that exist
    known,       \* citations that have a row
    row,         \* status, http, base, checks, errors
    next,        \* ticks until next_check_at, or Null
    \* the process
    adaptive,    \* _adaptive_supported_flag is True
    proc,        \* what each loop, request or thread is doing
    faults,
    \* the web
    site,        \* what each source answers now
    \* the past, for the properties
    hist,        \* per citation: see NoPast
    untold       \* stories newly gone whose threshold nobody has looked at yet

db == <<published, known, row, next>>
vars == <<db, adaptive, proc, faults, site, hist, untold>>

NoBase == [captured |-> FALSE, at |-> "page", long |-> FALSE, hash |-> "fresh",
           del |-> FALSE, blk |-> FALSE]
NewRow == [status |-> "unchecked", http |-> Null, base |-> NoBase,
           checks |-> 0, errors |-> 0]
Silence == [net |-> "none", code |-> Null, at |-> "page", bot |-> FALSE,
            article |-> "none", long |-> FALSE, hash |-> "fresh",
            del |-> FALSE, blk |-> FALSE]
Idle == [pc |-> "idle", story |-> NoStory, todo |-> {}, newly |-> {},
         cite |-> Null, read |-> NewRow, verdict |-> NewRow, page |-> Silence,
         later |-> FALSE]

\* alive: somebody has seen the source alive.  seen: the page the baseline was
\* taken from.  Of the last verdict, answered: the code of the page it is about;
\* lost: that page was fetched after the source was seen alive; crossed: before it
\* was written another recheck was the first to see the source alive; unchanged: the
\* page shows what the baseline shows it was judged by; gone: its status.
\* overtaken: rechecks that fetched their page before that first sight.
NoPast == [alive |-> FALSE, answered |-> Null, lost |-> FALSE, crossed |-> FALSE,
           unchanged |-> FALSE, gone |-> FALSE, seen |-> Silence, overtaken |-> {}]

SameContent(o, q) == [o EXCEPT !.hash = "fresh"] = [q EXCEPT !.hash = "fresh"]
-----------------------------------------------------------------------------
(* decide_status *)

Verdict(status, code) == [status |-> status, http |-> code, base |-> NoBase]

\* Variant: the marks a page always shows are not part of the baseline.
BaseWithoutMarks(o) == [captured |-> TRUE, at |-> o.at, long |-> o.long,
                        hash |-> o.hash, del |-> FALSE, blk |-> FALSE]

\* The baseline captured from an observation, and the one register_citations
\* hands on from the collector: only baseline_at and a hash.
BaseOf(o) == [captured |-> TRUE, at |-> o.at, long |-> o.long, hash |-> o.hash,
              del |-> o.del, blk |-> o.blk]
Inherited(base, o) == [base EXCEPT !.captured = TRUE, !.hash = o.hash]

SentToRoot(o, base) == base.captured /\ o.at # base.at /\ o.at = "root"
SameText(o, base) == o.hash # "fresh" /\ o.hash = base.hash

\* Variant: a wall at the first visit is a status of its own.
WallStatus(o, base) ==
    IF o.blk /\ ~base.captured THEN Verdict("walled", o.code)
    ELSE IF o.del THEN Verdict("deleted", o.code)
    ELSE [Verdict("live", o.code) EXCEPT !.base = BaseOf(o)]

\* A page without error status.  "deleted" and "blocked" need a change against
\* the baseline; the first page without a deletion mark becomes the baseline.
DecideBody(o, base) ==
    IF o.bot THEN Verdict("error", o.code)
    ELSE IF o.article = "deleted" \/ SentToRoot(o, base) THEN Verdict("deleted", o.code)
    ELSE IF o.article = "blocked" THEN Verdict("blocked", o.code)
    ELSE IF o.article = "unknown" THEN Verdict("error", o.code)
    ELSE IF ~base.captured
         THEN IF o.del /\ o.article # "live" THEN Verdict("deleted", o.code)
              ELSE [Verdict("live", o.code) EXCEPT !.base = BaseOf(o)]
    ELSE IF o.article = "live" \/ SameText(o, base) THEN Verdict("live", o.code)
    ELSE IF o.del /\ ~base.del THEN Verdict("deleted", o.code)
    ELSE IF o.blk /\ ~base.blk THEN Verdict("blocked", o.code)
    ELSE IF base.long /\ ~o.long THEN Verdict("deleted", o.code)
    ELSE Verdict("live", o.code)

Decide(o, base) ==
    CASE o.net = "none" -> Verdict("error", Null)
      [] o.net = "http" -> IF o.code \in {404, 410} THEN Verdict("deleted", o.code)
                           ELSE Verdict("error", o.code)
      [] o.net = "ok"   -> DecideBody(o, base)

\* What the collector can have seen when it captured a source: its catalogue
\* (COMMUNITY_SOURCES) holds only sites whose article it can find.
Captured == {o \in Page : o.article = "live" /\ Decide(o, NoBase).status = "live"}

\* Variant: a deletion seen through the proxy is recorded like a 404.
ProxyAsHard(c, o, v) ==
    IF ProxyEnabled /\ v.status = "error" /\ (c \in Untrackable \/ o.bot)
    THEN {v, Verdict("deleted", 404), Verdict("live", v.http)} ELSE {v}

\* maybe_observe_via_proxy: a source that cannot be watched directly (by its
\* domain, or because it refuses bots) is looked at through
\* the proxy, which may find nothing.  The http_code stays the direct one.
ViaProxy(c, o, v) ==
    IF /\ ProxyEnabled /\ v.status = "error"
       /\ c \in Untrackable \/ o.bot \/ v.http \in BotBlockCodes
    THEN {v, Verdict("deleted", v.http), Verdict("live", v.http)} ELSE {v}
-----------------------------------------------------------------------------
(* compute_next_check, RECHECK_QUEUE_FILTER and _due_filter *)

CapCount(n) == Smaller(n, CountCap)

ErrorsAfter(status, errors) == IF status = "error" THEN CapCount(errors + 1) ELSE 0

Wait(status, checks, errors) ==
    CASE status \in {"live", "unchecked"} ->
             Smaller(LiveMin * 2^Larger(0, checks - 1), LiveMax)
      [] status = "error" -> Smaller(ErrorBase * 2^(errors - 1), ErrorMax)
      [] status \in {"deleted", "blocked"} -> SoftWait

\* Variant: NOT IN without the IS NULL branch, which SQL makes UNKNOWN.
InQueueNotNull(r) == r.status # "deleted" \/ r.http \notin {404, 410, Null}

InQueue(r) == r.status # "deleted" \/ r.http \notin {404, 410}

\* Variant: NULL <= now is UNKNOWN.
DueNotNull(n) == n # Null /\ n <= 0

Due(n) == n = Null \/ n <= 0

\* ORDER BY next_check_at NULLS FIRST.
Sooner(m, n) == m = Null \/ (n # Null /\ m <= n)

\* Overdue rows keep their order only.
Ranked(f) ==
    [c \in Citation |->
        IF f[c] = Null \/ f[c] > 0 THEN f[c]
        ELSE -Cardinality({f[d] : d \in {e \in Citation :
                                  f[e] # Null /\ f[e] <= 0 /\ f[e] > f[c]}})]
-----------------------------------------------------------------------------
Becomes(p, state) == proc' = [proc EXCEPT ![p] = state]
Fault == faults < MaxFaults /\ faults' = faults + 1
CitationsOf(s) == {c \in Citation : StoryOf[c] = s}

\* _adaptive_supported: cached once it has succeeded; a failed probe means
\* "no" for this call only.
Probe(found) ==
    \/ found /\ adaptive' = TRUE /\ UNCHANGED faults
    \/ ~found /\ ~adaptive /\ Fault /\ UNCHANGED adaptive

Init ==
    /\ published = {} /\ known = {}
    /\ row = [c \in Citation |-> NewRow]
    /\ next = [c \in Citation |-> Null]
    /\ adaptive = FALSE
    /\ proc = [p \in Proc |-> Idle]
    /\ faults = 0
    /\ site \in [Citation -> Page]
    /\ hist = [c \in Citation |-> NoPast]
    /\ untold = {}
-----------------------------------------------------------------------------
(* register_citations and its callers *)

\* The INSERT of a story (create_story, hunt_once, promote_one); the thread
\* goes on to register its sources, with what the collector saw if the story
\* is made from a capture.
Publish(t, s) ==
    /\ proc[t].pc = "idle"
    /\ s \notin published
    /\ published' = published \cup {s}
    /\ \E o \in {Silence} \cup (IF s \in FromCapture THEN Captured ELSE {}) :
         /\ Becomes(t, [Idle EXCEPT !.pc = "register", !.story = s, !.page = o])
         /\ hist' = [c \in Citation |->
                       IF StoryOf[c] = s /\ o.net = "ok"
                       THEN [hist[c] EXCEPT !.alive = TRUE] ELSE hist[c]]
    /\ UNCHANGED <<known, row, next, adaptive, faults, site, untold>>

\* get_story finds no row for the story and goes on to register.
View(t, s) ==
    /\ proc[t].pc = "idle"
    /\ s \in published
    /\ CitationsOf(s) \cap known = {}
    /\ Becomes(t, [Idle EXCEPT !.pc = "register", !.story = s])
    /\ UNCHANGED <<db, adaptive, faults, site, hist, untold>>

\* What the process does after register_citations: manual_recheck reads again.
AfterRegister(p) ==
    IF p \in Checker THEN [Idle EXCEPT !.pc = "again", !.story = proc[p].story]
    ELSE Idle

\* The upsert.  A row that is already there gets status 'unchecked', whatever
\* was found out about it since the caller looked.
Register(p) ==
    LET s == proc[p].story
        o == proc[p].page
        witness == o.net = "ok"
        mine == CitationsOf(s) IN
    /\ proc[p].pc = "register"
    /\ \E found \in BOOLEAN :
         /\ Probe(found)
         /\ known' = known \cup mine
         /\ row' = [c \in Citation |->
                      IF c \notin mine THEN row[c]
                      ELSE [row[c] EXCEPT
                              !.status = "unchecked",
                              !.base = IF ~witness THEN @
                                       ELSE IF found THEN Inherited(@, o)
                                       ELSE [@ EXCEPT !.captured = TRUE]]]
         /\ next' = Ranked([c \in Citation |->
                              IF c \in mine /\ found THEN 0 ELSE next[c]])
    /\ hist' = [c \in Citation |->
                  IF c \in mine
                  THEN [hist[c] EXCEPT !.seen = IF witness THEN o ELSE @]
                  ELSE hist[c]]
    /\ Becomes(p, AfterRegister(p))
    /\ UNCHANGED <<published, site, untold>>

\* The upsert fails; that is logged and forgotten.
RegisterFails(p) ==
    /\ Fault
    /\ proc[p].pc = "register"
    /\ Becomes(p, AfterRegister(p))
    /\ UNCHANGED <<db, adaptive, site, hist, untold>>
-----------------------------------------------------------------------------
(* recheck_batch and recheck_one_story *)

\* A row as read: without the adaptive columns when the probe failed.
Snapshot(c, found) ==
    [cite |-> c,
     read |-> IF found THEN row[c]
              ELSE [row[c] EXCEPT !.base.hash = "fresh", !.errors = 0]]

\* The rows the loop's query may return.
Batch(found) ==
    LET queue == {c \in known : InQueue(row[c]) /\ (found => Due(next[c]))} IN
    {rows \in SUBSET queue :
        /\ Cardinality(rows) = Smaller(BatchSize, Cardinality(queue))
        /\ found => \A c \in rows, d \in queue \ rows : Sooner(next[c], next[d])}

SelectBatch ==
    /\ proc[Loop].pc = "idle"
    /\ \E found \in BOOLEAN :
         /\ Probe(found)
         /\ \E rows \in Batch(found) :
              /\ rows # {}
              /\ Becomes(Loop, [Idle EXCEPT !.pc = "rows",
                                  !.todo = {Snapshot(c, found) : c \in rows}])
    /\ UNCHANGED <<db, site, hist, untold>>

\* All rows of a story, hard ones too.  Without any row the story's sources
\* are registered first, once.
SelectStory(k, s) ==
    LET rows == CitationsOf(s) \cap known IN
    /\ s \in published
    /\ \/ proc[k].pc = "idle"
       \/ proc[k].pc = "again" /\ proc[k].story = s
    /\ \E found \in BOOLEAN :
         /\ Probe(found)
         /\ Becomes(k,
              IF rows # {}
              THEN [Idle EXCEPT !.pc = "rows", !.todo = {Snapshot(c, found) : c \in rows}]
              ELSE IF proc[k].pc = "idle"
              THEN [Idle EXCEPT !.pc = "register", !.story = s]
              ELSE Idle)
    /\ UNCHANGED <<db, site, hist, untold>>

\* The past with p's verdict v: at the first sight of c alive all the others that
\* have a page of c and have not written it are overtaken.
AboutToWrite(p, c) == {w \in Watcher \ {p} : proc[w].pc = "write" /\ proc[w].cite = c}
Sighted(p, c, v) ==
    [hist[c] EXCEPT !.alive = @ \/ v.status = "live",
                    !.overtaken = IF v.status = "live" /\ ~hist[c].alive
                                  THEN AboutToWrite(p, c) ELSE @ \ {p}]

\* fetch_observation, decide_status and the proxy, for one of the rows read.
Fetch(p) ==
    /\ proc[p].pc = "rows"
    /\ \E t \in proc[p].todo :
         LET c == t.cite
             o == site[c]
             direct == Decide(o, t.read.base) IN
         \E v \in ViaProxy(c, o, direct) :
           /\ Becomes(p, [proc[p] EXCEPT
                            !.pc = "write", !.todo = @ \ {t}, !.cite = c,
                            !.read = t.read, !.page = o,
                            !.verdict = [NewRow EXCEPT !.status = v.status,
                                           !.http = v.http, !.base = v.base],
                            !.later = hist[c].alive])
           /\ hist' = [hist EXCEPT ![c] = Sighted(p, c, v)]
    /\ UNCHANGED <<db, adaptive, faults, site, untold>>

\* Variant: only a source that was live until now is told.
NewlyFromLive(prev, status) == status \in {"deleted", "blocked"} /\ prev = "live"

Gone == {"deleted", "blocked"}
NewlyGone(prev, status) == status \in Gone /\ prev \notin Gone

\* Back to the rows that are left, without the one just done.
NextRow(p, newly) ==
    [proc[p] EXCEPT !.pc = "rows", !.newly = @ \cup newly, !.cite = Null,
                    !.read = NewRow, !.verdict = NewRow, !.page = Silence,
                    !.later = FALSE]

\* _build_update and the UPDATE by id.  Counters, and whether the source is
\* newly gone, come from the row as it was read.
Write(p) ==
    LET c == proc[p].cite
        v == proc[p].verdict
        old == proc[p].read
        errors == ErrorsAfter(v.status, old.errors)
        checks == CapCount(old.checks + 1)
        newly == IF NewlyGone(old.status, v.status) THEN {StoryOf[c]} ELSE {} IN
    /\ proc[p].pc = "write"
    /\ \E found \in BOOLEAN :
         /\ Probe(found)
         /\ row' = [row EXCEPT ![c] =
                      [status |-> v.status, http |-> v.http, checks |-> checks,
                       errors |-> IF found THEN errors ELSE @.errors,
                       base |-> IF ~v.base.captured THEN @.base
                                ELSE IF found THEN v.base
                                ELSE [v.base EXCEPT !.hash = row[c].base.hash]]]
         /\ next' = Ranked([next EXCEPT ![c] =
                              IF found THEN Wait(v.status, checks, errors) ELSE @])
    /\ hist' = [hist EXCEPT ![c] =
                  [hist[c] EXCEPT
                     !.answered = proc[p].page.code, !.lost = proc[p].later,
                     !.crossed = p \in hist[c].overtaken, !.overtaken = @ \ {p},
                     !.unchanged = /\ v.status = Decide(proc[p].page, old.base).status
                                   /\ old.base = row[c].base
                                   /\ SameContent(proc[p].page, hist[c].seen),
                     !.gone = v.status \in Gone,
                     !.seen = IF v.base.captured THEN proc[p].page ELSE hist[c].seen]]
    /\ untold' = untold \cup (IF v.status \in Gone /\ ~hist[c].gone
                              THEN {StoryOf[c]} ELSE {})
    /\ Becomes(p, NextRow(p, newly))
    /\ UNCHANGED <<published, known, site>>

\* The UPDATE fails.  recheck_one_story does not look at that.
WriteFails(p) ==
    LET newly == IF p \in Checker /\ NewlyGone(proc[p].read.status, proc[p].verdict.status)
                 THEN {StoryOf[proc[p].cite]} ELSE {} IN
    /\ Fault
    /\ proc[p].pc = "write"
    /\ Becomes(p, NextRow(p, newly))
    /\ UNCHANGED <<db, adaptive, site, hist, untold>>

\* All rows are done: maybe_archive_now for a story that is newly gone
\* (module StoryArchive: CheckStep), or the end.
Tell(p) ==
    /\ proc[p].pc = "rows"
    /\ proc[p].todo = {}
    /\ IF proc[p].newly = {} THEN Becomes(p, Idle) /\ UNCHANGED untold
       ELSE \E s \in proc[p].newly :
              /\ Becomes(p, [proc[p] EXCEPT !.newly = @ \ {s}])
              /\ untold' = untold \ {s}
    /\ UNCHANGED <<db, adaptive, faults, site, hist>>
-----------------------------------------------------------------------------
\* A source changes.
Change(c) ==
    /\ site' \in {[site EXCEPT ![c] = o] : o \in Page \ {site[c]}}
    /\ UNCHANGED <<db, adaptive, proc, faults, hist, untold>>

Tick ==
    /\ next' = Ranked([c \in Citation |-> IF next[c] = Null THEN Null ELSE next[c] - 1])
    /\ UNCHANGED <<published, known, row, adaptive, proc, faults, site, hist, untold>>

Crash ==
    /\ Fault
    /\ proc' = [p \in Proc |-> Idle]
    /\ adaptive' = FALSE
    /\ UNCHANGED <<db, site, hist, untold>>

ThreadStep(t) ==
    \/ \E s \in Story : Publish(t, s) \/ View(t, s)
    \/ Register(t) \/ RegisterFails(t)

LoopStep == SelectBatch \/ Fetch(Loop) \/ Write(Loop) \/ WriteFails(Loop) \/ Tell(Loop)

CheckerStep(k) ==
    \/ \E s \in Story : SelectStory(k, s)
    \/ Register(k) \/ RegisterFails(k)
    \/ Fetch(k) \/ Write(k) \/ WriteFails(k) \/ Tell(k)

Next ==
    \/ \E t \in Thread : ThreadStep(t)
    \/ LoopStep
    \/ \E k \in Checker : CheckerStep(k)
    \/ \E c \in Citation : Change(c)
    \/ Tick \/ Crash

Spec == Init /\ [][Next]_vars

\* background_loop goes on for ever and time passes; requests and threads
\* that have started go on.
Fairness ==
    /\ WF_vars(LoopStep)
    /\ WF_vars(Tick)
    /\ \A k \in Checker : WF_vars(CheckerStep(k) /\ proc[k].pc # "idle")
    /\ \A t \in Thread : WF_vars(Register(t))

FairSpec == Spec /\ Fairness
-----------------------------------------------------------------------------
(* Properties *)

Status == {"unchecked", "live", "error", "deleted", "blocked"}
Code == Nat \cup {Null}
Baseline == [captured : BOOLEAN, at : {"page", "moved", "root"}, long : BOOLEAN,
             hash : Hash, del : BOOLEAN, blk : BOOLEAN]
Row == [status : Status, http : Code, base : Baseline, checks : Nat, errors : Nat]
ProcState == [pc : {"idle", "register", "again", "rows", "write"},
              story : Story \cup {NoStory},
              todo : SUBSET [cite : Citation, read : Row],
              newly : SUBSET Story, cite : Citation \cup {Null}, read : Row,
              verdict : Row, page : Observation, later : BOOLEAN]
Past == [alive : BOOLEAN, answered : Nat \cup {Null}, lost : BOOLEAN, crossed : BOOLEAN,
         unchanged : BOOLEAN, gone : BOOLEAN, seen : Observation,
         overtaken : SUBSET Watcher]

\* Every variable has its type (the columns of citation_checks, the state of a
\* recheck).
TypeOK ==
    /\ published \subseteq Story
    /\ known \subseteq Citation
    /\ row \in [Citation -> Row]
    /\ next \in [Citation -> Int \cup {Null}]
    /\ adaptive \in BOOLEAN
    /\ proc \in [Proc -> ProcState]
    /\ faults \in Nat
    /\ site \in [Citation -> Page]
    /\ hist \in [Citation -> Past]
    /\ untold \subseteq Story

\* The row counts towards a lower threshold (Threshold!HardDeleted).
Hard(c) ==
    HardDeleted({[status |-> row[c].status, http |-> row[c].http,
                  witnessed |-> row[c].base.captured]}) = 1

\* Whatever rechecks overlap: a source counts as lost only if somebody saw it
\* alive and it answered 404 or 410 itself, never on the word of the proxy
\* (proxyfetch.py:144-145).
HardHasEvidence ==
    \A c \in known : Hard(c) => hist[c].alive /\ hist[c].answered \in {404, 410}

\* A deletion notice never becomes the baseline, which would hide the deletion
\* at every later check (tracker.py:575-578).
BaselineIsAlive ==
    \A c \in known : row[c].base.captured =>
        /\ hist[c].alive
        /\ row[c].base.del => hist[c].seen.article = "live"

\* threshold.py:179-180: only a source that was seen alive and AFTER that
\* answered 404/410 lowers the threshold.
HardIsLost == \A c \in known : Hard(c) => hist[c].lost

\* And it is so unless rechecks cross: a 404 from before the source was seen alive
\* counts only if the first to see it alive was another recheck, between that answer
\* and its UPDATE (tracker.py:817 writes by id, whatever was written meanwhile).
LossFollowsLife == \A c \in known : Hard(c) => hist[c].lost \/ hist[c].crossed

\* tracker.py:516-517: a source that still shows what it showed when its
\* baseline was taken is never judged by that baseline to be deleted or blocked,
\* whatever permanent phrases it shows.
UnchangedIsLive ==
    \A c \in known :
        row[c].base.captured /\ hist[c].unchanged
          => row[c].status \notin {"deleted", "blocked"}

\* A baseline hides no deletion and raises no alarm, whatever overlaps.
BaselineIsSound == BaselineIsAlive /\ UnchangedIsLive

\* A source that shows its plain text again for good is judged live in the
\* end, however it was judged before (a deletion seen by pattern or by proxy is
\* not final) and however many rows compete for the batch; only 404/410 is final.
Restored(c) ==
    c \in known /\ site[c].net = "ok" /\ site[c].at = "page" /\ site[c].article = "none"
    /\ site[c].long /\ ~site[c].bot /\ ~site[c].del /\ ~site[c].blk
FalseAlarmIsCorrected ==
    \A c \in Citation :
        <>[]Restored(c) =>
            <>[](\/ row[c].status = "live"
                 \/ row[c].status = "deleted" /\ row[c].http \in {404, 410})

\* A registered source that answers 404 for good is recorded as deleted in the
\* end, through failed probes, failed writes, crashes and overlapping rechecks.
GoneIsNoticed ==
    \A c \in Citation :
        <>[](c \in known /\ site[c].code = 404)
          => <>[](row[c].status = "deleted" /\ row[c].http = 404)

\* While nothing fails, a story whose source is judged gone, and was not at the last
\* judgement, has its threshold looked at again (maybe_archive_now), however often the
\* source is registered again in between.
GoneIsTold ==
    \A s \in Story : (s \in untold) ~> (s \notin untold \/ faults > 0)

\* README.md:202 and TRANSPARENCY.md:12: a source seen alive that answers 403
\* lowers the threshold too.
WallLowersThreshold ==
    \A c \in Citation :
        <>[](c \in known /\ row[c].base.captured /\ site[c].code = 403)
          => <>(HardBlocked({[status |-> row[c].status, http |-> row[c].http,
                              witnessed |-> row[c].base.captured]}) = 1)
=============================================================================
