# Heart Critique: a TLA+ verification development

This directory specifies, model-checks and proves the parts of Heart Critique
whose correctness depends on order, concurrency, failure or time. The modules
are translated from the source; file and line of every definition are in
`PROJECT.json` under `map`.

1. The system · 2. Modules · 3. Runs · 4. Proofs · 5. Plan · 6. Not modelled

## 1. The system

Heart Critique finds community posts that may disappear, publishes anonymous
rewritings ("stories") with their sources, lets people vote, and archives a
story for ever on Arweave once enough people did. It is one FastAPI process
(one event loop, five background loops, worker threads for blocking calls), a
database (Supabase or SQLite through `services/localdb.py`) and a small Node.js
uploader that pays for and stores the archive. Two requests may be in the middle
of the same operation whenever the code awaits or a thread runs.

| Component | State | Operations | Talks to | Module |
|---|---|---|---|---|
| Votes (`routers/votes.py`) | `votes` rows, cached `stories.vote_count` | `vote` | threshold (in a thread), archive (background task) | `StoryArchive` |
| Threshold (`services/threshold.py`) | 5-minute cache of the base | `get_dynamic_base_threshold`, `gather_story_signals`, `maybe_archive_now` | database, archive | `Threshold`, `StoryArchive` |
| Archive (`services/archive.py`) | `arweave_tx_id`, `archive_attempts`, `last_archive_attempt` | `archive_story`, `reconcile_pending_archives` | uploader over HTTP, database | `StoryArchive` |
| Uploader (`uploader/index.js`) | `_inFlight` | `POST /upload` | Irys/Arweave, its index | `StoryArchive` |
| Clean-up (`services/cleanup.py`) | - | `cleanup_old_pending` every 6 h, in a thread | one atomic DELETE | `StoryArchive` |
| Citation tracker (`services/tracker.py`, `proxyfetch.py`) | `citation_checks` rows, schema probes | `register_citations`, `recheck_batch`, `recheck_one_story` | the web, archive, Wayback queue | `CitationTracker` |
| Collector and discovery (`collector.py`, `discovery.py`) | `discovery_queue`, `captured_posts` | `poll_feeds`, `_capture`, `recheck_captured_batch`, `claim`, `finish`, `resolve` | the web, capture store, promoter | `CaptureQueue` |
| Promoter (`promoter.py`) | `promotion_status`, failure counter in memory | `promote_one`, `run_promotion_batch` | language model, tracker | `Promoter` |
| Wayback queue (`wayback.py`) | `wayback_snapshots` rows | `enqueue`, `process_batch` | archive.org | `Wayback` |
| Capture store (`preservation.py`) | files under a quota | `preserve_capture` | file system | `CaptureStore` |
| Hunter, story creation (`hunter.py`, `routers/stories.py`, `dedup.py`, `llm.py`) | stories, known sources | `hunt_once`, `create_story` | language model, tracker | `StoryMaking` |
| Rate limiter (`ratelimit.py`) | sliding windows in memory | `check_*` | - | `RateLimiter` |
| A2A witness agent (`app/`) | tasks, events, memories, links | JSON-RPC `message/send`, `tasks/cancel`, `POST /api/events` | its own database | `Witness` |
| Serverless variant (`api/index.py`) | none but its key | `message/send`, `sources/reveal` | payment facilitator | `SourcesReveal` |
| Dashboard (`routers/stats.py`) | cached counts, a lock | `GET /api/stats` | database, in threads | `Dashboard` |
| Transparency (`services/transparency.py`) | cached verdicts | `verify_story_archive` | Arweave gateway | `Verification` |
| Database access (`localdb.py`) | one connection, one lock | `execute` of a query or a procedure | SQLite | `LocalDb` |
| Text, HTML, cryptography, schema, front end | - | pure functions, wiring | - | - |

### What is hard, and what makes each part correct

* **Archive.** A vote, a second vote, a manual recheck and the sweep may decide
  to archive the same story at once; the HTTP call may fail while the uploader
  goes on and pays; the process may die between the claim and the record; the
  clean-up runs beside all of it. Correct means: one owner at a time, paid once,
  the recorded transaction is one that was paid for this story, nothing sealed
  without the votes that were required, an archived story never changes, and a
  story with enough votes is archived in the end.
* **Tracker.** A row is read, then the page is fetched, then the row is written
  from what was read: two rechecks may overlap. Rows are excluded from the queue
  for ever on a verdict of 404/410, and that verdict lowers the vote threshold.
  Correct means: only a source once seen alive counts as lost, a false alarm is
  corrected, a source that is gone is noticed.
* **Discovery.** Leases that time out, retries, back-off, a crash between two
  writes, and pages that vanish while they are captured. Correct means: the first
  text stays, nothing is given up without a reason or forgotten, and one source's
  trouble does not become another's.
* **Promoter.** An INSERT, a mark on the post and a registration are three calls
  any of which may fail, made by a loop and by administrators at the same time.
  Correct means: nothing is published that may not be, the post knows of it, and
  no hopeless post keeps the others from their turn.
* **Wayback.** The answer of an external service may be lost after it has taken
  the job, and rows are served few at a time. Correct means: one job for a source,
  and every row ends.
* **Story making.** Caps and known sources are looked up minutes before the
  INSERT, through several searches and a fallback. Correct means: those who ask for
  the caps pass them by a known margin only, and a known source is not made a story
  again.
* **A2A agent.** Every call of its repository commits on its own and none is
  rolled back after an error; messages and events are repeated. Correct means:
  what a task says is so, and what was observed once has one memory.
* **Limits and caches.** The capture store's quota, the rate limiter's windows, the
  caches of the dashboard and of verification: all are measured before something
  is added, by requests that overlap. Correct means: the limit holds, and what is
  served from a cache is no older and no less true than it may be.
* **Payment.** Verify, decrypt and settle are three steps, keys change between
  deployments, and the same payment may arrive twice. Correct means: who pays gets
  the sources, and a receipt names one settlement.
* **Local database.** Batches are stored row by row in one transaction of a
  connection that all threads share. Correct means: every call is all or nothing,
  as its caller is told.

## 2. Modules

| Module | Role |
|---|---|
| `Threshold` | The arithmetic of `threshold.py`, shared by the others. |
| `StoryArchive` | Votes, archive, sweep, uploader, clean-up: one specification. |
| `ArchivePromise` | The abstract promise that `StoryArchive` implements. |
| `CitationTracker` | Registering and rechecking sources: one specification. |
| `CaptureQueue` | The discovery queue and the collector: one specification. |
| `CapturePromise` | The abstract promise that `CaptureQueue` implements. |
| `Faults` | The budget of crashes and failed calls, shared by the modules below. |
| `Promoter`, `Wayback` | The two other loops that must get to the end of their work. |
| `StoryMaking`, `RateLimiter`, `Witness`, `Dashboard`, `SourcesReveal`, `Verification`, `CaptureStore`, `LocalDb` | What serves requests or keeps a bounded store. |
| `TableCalls` | The abstract promise that `LocalDb` implements. |
| `VersionStore` | The abstract promise that `CaptureStore` implements. |
| `MCStoryArchive`, `MCCitationTracker`, `MCCaptureQueue` | Sets, pages and symmetry for TLC. |
| `MCLoops` | `CaptureQueue`, `Promoter` and `Wayback` in one run, with their fairness. |
| `MCRequests` | The request-serving modules in one run. |
| `StoryArchiveProofs`, `StoryArchiveOwner` | Theorems and proofs about `StoryArchive`. |
| `CaptureQueueProofs`, `CaptureQueueSafety` | Theorems and proofs about `CaptureQueue`. |
| `TrackerProofs` | Theorems and proofs about `CitationTracker`. |
| `LoopProofs` | Theorems and proofs about `Promoter` and `Wayback`. |
| `RequestProofs` | Theorems and proofs about `SourcesReveal`, `LocalDb`, `StoryMaking` and `RateLimiter`. |
| `StoreProofs` | Theorems and proofs about `Dashboard`, `Verification`, `CaptureStore` and `Witness`. |

Definitions with the comment "Variant" are versions with a plausible bug; nothing
refers to them. They document which mistake each property would reveal.

### `StoryArchive`

Each story's columns are functions (`tx`, `attempts`, `age`, `voteCount`, ...);
`tx[s]` is `NoTx` (NULL), `Pending` (`'__pending__'`) or a transaction. Each
vote request, each manual recheck and the tracker loop's sweep is a process
with a program counter: `gather` and `count` (the two database accesses of
`vote`), `archive`, `claim`, `bundle`, `wait`, `fail`, `failwrite` (the steps of
`archive_story`), `select` and `rows` (the sweep). Between two steps another
process may run only where the code awaits: the program counters in `Midway` are
inside a stretch of Python without await, and `LoopFree` keeps other coroutines
out of it. Threads (`gather_story_signals` of a vote, the clean-up) and the
uploader are not bound by it. `gather_story_signals` makes several reads in a
row; they are one step, like every other run of adjacent reads.

Time is a saturating age per story, ticks since `last_archive_attempt`. It is
compared with `PENDING_TIMEOUT_SEC` and the back-off delays, and saturates above
the largest of them, so no run is cut short by a clock bound. `UploadLimit`
bounds how long an upload may take after its claim; the runs use it on both
sides of the time-out.

A crash resets all processes and nothing else. A database call may fail at any
point; `faults` counts crashes and failed calls, bounded by `MaxFaults`. The
uploader may answer, fail, or pay and lose the answer; Python may give up
waiting at any time.

`Need` passes no blocked sources to the threshold: in this code a row never
counts as blocked (`HardBlocked`, see the run `tracker_wall`), so `hard` is the
only evidence that lowers it; the theorem `LoweredOnlyForALoss` (section 4) says so of
what the tracker writes.

### `CitationTracker`

One record per row of `citation_checks` (`row`: status, HTTP code, baseline,
counters) and one function for its due time (`next`). Three kinds of process:
the loop (`recheck_batch`), requests of `manual_recheck`, and threads that create
a story or answer `get_story`. A recheck reads its rows (`SelectBatch`,
`SelectStory`), fetches and judges a page (`Fetch`: `fetch_observation`,
`decide_status`, the proxy) and writes the row from what it has *read*
(`Write`): everything may change between the three.

A page is a record of what `decide_status` tells apart: whether there was a body
(then, and only then, the HTTP code is below 400), the HTTP code, where a redirect
ended, bot walls, what the site's article selector found, length, text hash (one of
the constant set `Hash`), and the deletion and login phrases. `Decide`
is a pure function of that record and the baseline. The web (`site`) changes at
will. What the proxy answers is a choice among the answers it can give.

The due time is relative: `Tick` counts it down, and rows that are overdue keep
only their order, which is all the query's `ORDER BY` can see. So there is no
clock and no bound on time. `hist` and `untold` remember what no column holds,
for the properties: whether the source was ever seen alive, the pages of the
last verdict and of the baseline, which rechecks held an older page when the source
was first seen alive (`overtaken`), and for which stories nobody has looked at the
threshold since a source was judged gone.

`Tell` stands for the call of `maybe_archive_now`, which is an action of
`StoryArchive` (`Recheck`, `MaybeArchiveNow`), where the verdicts on a story's
sources are a nondeterministic choice: any sequence of verdicts `CitationTracker`
can produce is covered there.

### `CaptureQueue`

`queue[u]` is the row of `discovery_queue` ("absent" if there is none) and
`post[u]` what `captured_posts` holds of the same URL. A worker is an instance of
`background_loop`; its program counter runs through `plan` (`discovery.ready`),
`drain` (the rotation of sources and `claim`), `capture` and `save` (`_capture`),
`finish` and `settle` (`discovery.finish`: its read of the post and its
conditional UPDATE), `recheck`, `rows`, `store` and `resolve`
(`recheck_captured_batch`, `discovery.resolve`). Each database call and each page
is a step; a call may fail and a worker may die at any of them.

`next_attempt_at` is relative, as in `CitationTracker`: a positive `due` is
counted down by `Tick`, and overdue rows keep their order only (`Ranked`).
`since[s]` stands for `last_attempt_at`: how many sources were attempted after
`s`, which is all that `ready` compares. What a page comes to is `Answers`, the
outcome of the same `fetch_observation` and `decide_status` that
`CitationTracker` models in detail, reduced to the four verdicts that the
collector tells apart. `gone` remembers which URLs somebody has seen answer 404
or 410.

`CaptureQueue` implements `CapturePromise`, which knows nothing of workers, leases
and attempts: a post is found once, its text is kept once, and it is concluded once,
as captured when a text is kept or as deleted when somebody has seen it gone. The
mapping (`Collected`) takes the status of the row for the fate of the post, with
every unfinished status as "open".

`src/Dockerfile` and `src/README.md:353` run one worker, yet leases and
conditional writes are made for several, so the safety properties are checked
and proved for several, and what needs fairness for one. With two workers one
weakness remains: a recheck that brings no first text updates by id alone
(`collector.py:728`), so an old 404 may be written over another worker's capture.

### `Promoter`

`hard` are the kept posts with `hard_deleted_at`, which `CaptureQueue` sets
(`GoesHard` is that event seen from here). The loop (`Automatic`) and each
administrator are processes with the posts they have selected and a program
counter: the gates of `promote_one`, the rewriting by a model (any answer: a text,
nothing usable, an error, a limit reached), a look for an existing story, the
INSERT, `_mark`, the registration with the tracker. `origin_captured_url` is
unique, so a story is named by its post and a second INSERT fails. `llmFails` is
the counter that lives in the process and is lost by a crash; at its limit the post
is handed to a reviewer (`pending_review`) and leaves the queue.

### `Wayback`

`snapshot[u]` is a row with its status, attempts and the ticks to its next poll.
`process_batch` is the only consumer: it polls a batch of pending rows and then
submits queued ones within the archive's capacity, or, without keys, only looks
for copies that exist. `jobs[u]` counts what the archive has accepted, which no
column holds: an answer may be lost after that.

### `StoryMaking`

A maker is the hunter's loop or the thread of one request. It counts pending
stories, picks a category and makes up to `Attempts` queries; each goes through the
three searches of `_groq_search` (`OnTopicResults`), the preference for rich posts
and the removal of known sources (`Candidates`), then to a model. When Groq raises
or finds nothing, Gemini is asked; at last the maker inserts and registers.
`known` are the sources of all stories; `before` remembers, for the properties,
which of them were known when the making began, and `blind` that a lookup failed.
Posts are model values; the gates that judge a text are a choice. The promoter is here
with its INSERT and its registration only (`PromoterInserts`, `PromoterRegisters`; the
rest is in `Promoter`): its stories are counted by the makers and their sources become
known, but it asks for no cap (`promoter.py:286`). `promoted` remembers which they are.

### `Witness`

One request is handled at a time, since no handler awaits, but every call of the
repository is a step that may commit, fail, or fail at its commit and leave the
change open in the shared connection. So there are two sets of tables: `seen` by
the connection and on `disk`. A conflict rolls back, which may take away what an
earlier failure left open. A task is named by the message it was made for. What is
stored is an observation: the event as its sender describes it, and what the message
and the clock add to it. `Payload` is `_event_payload`: an event that does not bring its
source gets that of the message, and the conversation likewise; `/api/events` adds
nothing. `Observation` is what `normalize_event` hashes, with the time now for an event
that brings none (`Moments`). So the same event in another message, or later, is
another observation unless it brings all three (`SelfContained`), and the event that
continues a task is hashed with the id of the message that brings it. `EventId` is the
id that a sender may give (`Nothing`: the model makes a fresh one); it is unique in the
table but not hashed, and different events may claim one.

### `SourcesReveal`, `Verification`, `Dashboard`, `RateLimiter`

`SourcesReveal` has the stages of `_handle_sources_reveal` in their order
(`Stages`), any number of handlers, tokens encrypted with a key that may change,
and a facilitator, external, that settles a good payment once. `Verification` and
`Dashboard` are caches filled by requests that overlap (awaits; threads under one
lock), with entries kept by age. `RateLimiter` is sequential; what makes it hard is
that entries age in two windows while buckets are pruned. `accepted` is the past
that the windows are to bound. In `Dashboard`, `since[k][n]` is how long ago count `k`
really was `n`, which no variable of the program holds; counts of `Core` decide whether
an answer is kept, those of `Extra` (optional tables) do not.

### `CaptureStore`, `LocalDb`

`CaptureStore`: writers in several processes, `flock`, a measured store, a staging
directory whose files are written one by one, a rename. A kill frees the lock and
leaves the staging directory. A loss of power is not modelled: `rename` is durable
here. It is shown to implement `VersionStore`, where a capture appears whole, in one
step, and stays as it is: a directory without its final name is nothing there, however
many files it has. `LocalDb` has the one connection of the process, whose open transaction is
the difference between `view` and `stored`, the lock, and batches that are stored
row by row. It is shown to implement `TableCalls`, where a call is one atomic step;
the table of the abstract module is what the lock's owner found while a call runs.

### How the modules are composed

`StoryArchive`, `CitationTracker` and `CaptureQueue` each compose the parts that
share state. What one module hands to another is an action without a cause in the
other, with at least the freedom the first module has: `Recheck` in `StoryArchive`
(any verdicts on a story's sources), `GoesHard` in `Promoter`, `Ask` in `Wayback`.
The modules of `MCLoops` and `MCRequests` share no state, so their product would
only multiply states: a behaviour of these runs is a behaviour of one module (the
variable `focus`, chosen at the start) while the others stay at rest. Every
interleaving inside a module is explored; nothing is lost, because no step of one
of them reads or writes a variable of another.

## 3. Runs

Every bound is a constant: `MaxFaults` (crashes and failed calls), `TxId`
(uploads), `AttemptCap` (claims of a row), the sets of stories, voters, checkers,
workers and URLs, and the time constants in ticks.

| Run | Shows | Bounds |
|---|---|---|
| `archive_prompt` | `TypeOK`, `SingleOwner` when uploads end before the claim goes stale | 1 story, 1 voter, 1 checker, the sweep, base 1 or 2, 1 fault: three processes can reach `archive_story` at once, and two would be enough to break it |
| `archive_slow` | `SealedWithConsent`, `VoteCountCatchesUp`; `RecordedIsPaid`, `PaidOnce`, `ArchivedForEver`, `KeepsPromise` while claims may be taken over | 2 voters and base 2: the requests overlap and only both votes suffice; `UploadLimit` above the time-out, 2 transactions: a second payment is possible and would be seen |
| `archive_settle` | `ClaimIsReleased`, `ReachedIsSettled` | 1 story, no symmetry (liveness), 1 fault, 2 attempts |
| `archive_vote500` | counterexample: a vote accepted just before the clean-up is answered 500 | as `archive_prompt`, base 2 |
| `archive_reached` | counterexample: the clean-up removes a story that reached its lowered threshold | base 2, one source gone |
| `tracker_overlap` | `TypeOK`, `HardHasEvidence`, `LossFollowsLife`, `BaselineIsSound` | the loop, a manual recheck and a registering thread on one row, proxy on, pages: a supported article with "deleted" in a comment, a login phrase, a notice, a bot wall, a 404. Two overlapping rechecks are the least that can go wrong; every delay is one tick, since these invariants do not depend on it |
| `tracker_correct` | `FalseAlarmIsCorrected`, `GoneIsNoticed`, `GoneIsTold` | 2 rows of one story compete for a batch of one, plain text, silence and 404, one row watched through the proxy, 1 fault, 2 registering threads. The second thread may register sources that have rows, over verdicts and between a recheck's SELECT and UPDATE; the action constraint `LateWithoutFaults` leaves out that the first does too, and that something fails before the late one is done (without this bound the run takes too long). Delays are one tick, a soft deletion waits two, so that due times differ |
| `tracker_stale` | counterexample: a recheck that fetched a 404 writes it over a newer "live" | the loop and one manual recheck |
| `tracker_wall` | counterexample: a source seen alive that answers 403 never lowers the threshold | plain text and 403 |
| `loops_workers` | `TypeOK`, `LeaseKept`, `PromotionNotLost`, `BackoffKept`, `KeepsPosts` (`CapturePromise` is implemented) of the queue; `PromotionIsSound`; `SavedOnce` | queue: 2 workers, 1 URL with every answer and 2 texts, leases of one tick (a capture may outlast its lease), back-off of one and two ticks, 2 claims, since these properties are about one URL and two workers are the least that can collide. Promoter: the loop, 1 administrator, 2 posts of which one is critique or has personal data, 2 failures of a model. Wayback: 2 targets, batches of one, 2 tries, with and without keys. 1 fault |
| `loops_drain` | `SourceIsLeftAlone`, `NothingForgotten` of the queue; `CandidatesSettle`; `RequestsSettle` | queue: 1 worker, 3 URLs on 2 sources, a budget of one attempt per cycle, no recheck: a source has a second URL to turn to after a failure, and two sources compete for every cycle. Promoter: the loop alone, a batch of one for 2 posts, so that the worse one waits for the better. Wayback: as above. 1 fault |
| `requests` | `StoriesAreSound`, `PendingBounded`, `LimitsHold`, `TasksAreHonest`, `OneMemoryEach`, `CountsAreHonest`, `PaidIsGiven`, `CacheIsBounded`, `StoreIsSound`; `CallsAreWhole`, `KeepsVersions` (`TableCalls` and `VersionStore` are implemented) | 2 of what may collide everywhere (makers, visitors, handlers, readers, writers, threads), limits that 2 of them reach (caps of one, a cache of one verdict, a store of 7 files, which is two captures and a rest, a batch of 2 rows), 3 clients for 3 slots. Stories: a fault, or 1 story of the promoter, or 1 archived story at a time (`OneEvent`; a story that is older than seven days is out of sight of the count as well, and of these there may be any number); categories have the same topic and are symmetric. Witness: 2 messages, one with a conversation, 2 instants, 4 events: two that claim one id, of which one leaves source, conversation and time to the message, one of only one of their two agents that brings all but its source, an invalid one. 1 fault |

The four counterexamples are the entries of `findings`, each against the comment
or document it contradicts.

Some properties are conjunctions of named parts, each with its own comment in the
module: `BaselineIsSound` is `BaselineIsAlive` and `UnchangedIsLive`;
`PromotionIsSound` is `PublishedWithCare`, `LinkIsTrue`, `WitnessHandedOver`;
`StoriesAreSound` is `NothingTwice` and `StoryIsOnTopic`; `TasksAreHonest`,
`OneMemoryEach`, `LimitsHold`, `CountsAreHonest`, `PaidIsGiven`, `CacheIsBounded` and
`StoreIsSound` likewise.

Statements that hold only within the bounds of their run, and why:

* `SingleOwner` needs that an upload ends before its claim goes stale. With
  `UploadLimit = 2` in `StoryArchive_prompt.cfg` a claim is taken over while its
  first holder still waits (httpx's `timeout=300` bounds each phase of a request,
  not the whole), and two calls hold one story, against `archive.py:11-12`.
* `ReachedIsSettled` is checked with one story. With two stories,
  `ScanLimit = 1` and `MaxAttempts = 1` it fails: the sweep takes the rows with
  the most votes first and only then skips those that used up their retries, so
  enough exhausted stories (sixty in production) starve every other one,
  against `archive.py:219-220`.
* `HardIsLost` is false: the run `tracker_stale` shows a 404 from before the first
  sighting written after it. What holds, with any overlap, is `LossFollowsLife`: that
  crossing is the only way. It asks for two rechecks of one row, of which one has
  fetched the page and not yet written it when the other is the first to see the source
  alive. By the same crossing `deleted_at` of a row that is already deleted would be
  moved (`tracker.py:814-815`); no property speaks of that column.
* `GoneIsTold` is claimed only while nothing fails: a crash between the UPDATE and
  `maybe_archive_now` loses the trigger, and the archive's sweep is what makes up for
  it. It starts from the last judgement of the source, not from the status of its row,
  because a late registration may reset the row (`stories.py:317`); the next recheck
  then finds the source newly gone once more.
* `PendingBounded` is not the cap itself: makers count first and insert minutes
  later, so each maker on its way, and each count that failed, may pass it by one. And
  it bounds only what the hunter and the requests have made: `count_recent_pending`
  counts the promoter's stories too (they may keep the makers from working), but the
  promoter asks for no cap, so nothing bounds the pending stories altogether.
* `RememberedOnce` (in `OneMemoryEach`) promises one memory to an observation, to an id
  that its sender gave, and to an event that brings its source, conversation and time.
  An event that leaves one of these to the message is a new event in another message
  (`handlers.py:108-114`) or at another time (`models.py:37`), with its own memory.
* `CountsAreHonest`: that a failed count is not kept as 0 (`NoFalseZero`) is so of `Core`
  only. A failed count of an optional table is kept as 0 for everybody until the answer
  expires (`stats.py:108-133`), though the comment at `stats.py:207` says that answers
  are kept only when every count succeeded.
* `FirstIsRemembered` (in `OneMemoryEach`) and `WorkingIsWorkedOn` (in
  `TasksAreHonest`) speak of runs without faults. After a crash between an event
  and its memory the resent event is recognised and gets none (`engine.py:62-70`),
  and nobody takes up a task that a crash left WORKING.
* `CandidatesSettle` assumes a promotion loop that runs: one failed probe of the
  columns at its start ends it until the process is restarted (`promoter.py:381`).
* `SavedOnce` allows one more job for each fault: the archive is asked before the
  row is written, so an answer that is lost is asked for again.

**Fairness.** `StoryArchive!Fairness` says that a coroutine or loop that can go on does go on,
and that time passes. It is strong because a coroutine is disabled while another
is inside a stretch without await, and because the sweep's steps alternate with
those of others. Nothing is assumed of voters, of the uploader's success, of the
clean-up or of manual rechecks. In `CitationTracker` the loop goes on and time
passes (`background_loop` catches every exception), and threads and requests
that have started go on, which needs weak fairness only: nothing disables them.
In `MCLoops` every loop goes on, since each of them catches every exception
(`collector.py:775-797`, `promoter.py:391-403`, `tracker.py:952-958` around
`process_batch`) and the process is restarted after a crash, and time passes: weak
fairness. Of archive.org it assumes, strongly, that it has room again and again
(`StartSubmit(SubmitLimit)`) and that a job that is asked about often enough ends:
neither is a property of this code, and without either no row need ever end.
Nothing is assumed of the web, of visitors, of the models or of the order in which
a batch's rows are fetched; the liveness properties speak of a source that has
stopped changing. `requests` states no fairness: all its properties are safety.

## 4. Proofs

All theorems hold for every value of the constants under the named assumptions of
the modules (disjoint names, finite sets, natural numbers, limits of at least one).

About `StoryArchive`:

* `TypeCorrect`: `[]TypeOK`. One lemma per action.
* `Consent`, `Paid`, `Permanent`, `CountCatchesUp`: from the inductive invariant
  `RowInv`. `SealedWithConsent` is not inductive: the number compared with the
  threshold travels from the request through the claim into the uploader, so the
  invariant says at each of these places that the votes of a claimed row still
  reach it (`UploadsConsent`, `Marked`), which in turn needs that a story with a
  claim cannot be cleaned up. `RecordedIsPaid` needs that whatever transaction a
  waiting process knows was paid for its story (`Knows`).
* `OneOwner`: `[]SingleOwner`, assuming `UploadLimit <= PendingTimeout`. The
  invariant links the age of a claim to the time its holder has waited: no stale
  claim has a holder. Without the assumption it is false (section 3).
* `OncePaid`: `[]PaidOnce`, assuming `LookupReliable`: an upload in its paid
  phase has found nothing in the ledger, and the in-flight map admits one per
  story.
* `Refines`: `Spec => KeepsPromise`, every step of `StoryArchive` is a step of
  `ArchivePromise` or leaves its variables unchanged.

About `CaptureQueue`, for any number of workers, URLs and sources, any budget,
lease and delays:

* `TypeCorrect`: `[]TypeOK`, including that a row has a time exactly when it is
  still to be attempted. One lemma per action.
* `BackoffIsKept` is a step property that follows from the types: `BackoffStep`
  shows that no UPDATE of the queue reaches a row that is not due.
* `PromotionIsNotLost` needs that a worker which rechecks knows the promotion
  columns, and that a page which brings a text is live (`KnowsWhatItRechecks`).
* `GivenUpOnlyForAReason`: the verdict travels from the page through `finish`
  to the UPDATE while others write the post; `EvidenceInHand` says that at each
  of these points the reason still holds.
* `EveryPostIsKept`: `Spec => KeepsPosts`, a refinement, from the same invariant:
  every UPDATE that brings a text is conditional on there being none (`TextStep`),
  so a step keeps a text, or concludes on a row with the reason it has in hand, or
  sees a post gone, and does one of these at a time (`PromiseStep`).
* `LeaseIsKept`: `LeaseInHand` says that an attempt is never newer than its row
  and that no two workers on a URL have the same number. That a claim always
  raises the number needs more than one worker, or nobody to confuse it with
  (`ClaimRaises`), because the model caps attempts for a single worker.
* `SourceLeftAlone`: `Spec => SourceIsLeftAlone`, assuming `OneWorker`; two workers may
  have turns of one source. `TurnInHand` says what the one worker holds while it
  works through its plan: at most one turn of each source (`OneTurnEach`), and no
  turn of a source that anything pauses but the attempt it is making.

About `CitationTracker`, for any number of rows, rechecks and registrations:

* `TypeCorrect`: `[]TypeOK`. A process writes only rows that it has read, which is
  why what it writes has a type. The delays of the schedule grow with powers of
  two, and `Powers` shows that a power of two is a number without an induction: it is
  the cardinality of a set of subsets, which the library knows to be one.
* `EvidenceOfLoss` (`[]HardHasEvidence`) and `NoticeIsNoBaseline`
  (`[]BaselineIsAlive`) follow from `EvidenceInv`. Neither property is inductive:
  a verdict travels from the page through a process to the row while others write
  it, and what the collector saw travels through a registration. So the invariant
  says of each row that it agrees with the past of its source (`Founded`), of each
  verdict in flight that it has its reason in the page it is about and in what is
  known of the source (`Reasoned`), and of each registration in flight that its
  article was there (`Holds`). `DecideIsJudged` and `ProxyIsJudged` show of the
  verdict itself that only a live one brings a baseline and that a final code is
  the page's own.
* `LoweredOnlyForALoss`: for every base, a story needs at least one vote and at
  most the base, and fewer than the base only if one of its sources was once seen
  alive and then answered 404 or 410. It joins the tracker to the arithmetic of
  `Threshold`. `EvidenceInv` gives the loss behind each row that counts as deleted;
  `BarredInv` says that no row is ever "blocked" with a 403, because a 403 is an
  error to the site's own fetch and through the proxy alike.
* `LossIsAfterLife` (`[]LossFollowsLife`), for any number of manual rechecks: a
  verdict in flight that saw no life has its page from after the first sighting, or its
  process was overtaken by that sighting (`Carries`); every row that counts is either
  after it or crossed (`Settled`); and no registration brings a sighting to a row that
  exists, since a story is published before its sources have rows (`LifeInv`). A step
  spoils this for others only when it is the first to see a source alive, and that step
  marks exactly those others (`SightedMarks`).
* `BaselineStaysSound` (`[]BaselineIsSound`) assumes that no site shows an article at
  its root. Without that it is false: a page that redirects to the root counts as
  moved away whatever it shows (`tracker.py:562-566`), and `PageAssumption` does not
  exclude that the collector captures one. `FitInv` says that the baseline of a row
  fits the page it was taken from (`FitsIn`), on its way there too (`Ready`), so
  that the same page compared with it again is live (`SameIsLive`).

About the other loops (`LoopProofs`):

* `SavedAtMostOnce` (`[]SavedOnce`): a row that has not been saved has as many jobs
  as there were faults at most (`JobsAccounted`), and the rows that the consumer is
  about to submit are still queued, because nobody else writes them
  (`StillQueued`).
* `PromotionSound` (`[]PromotionIsSound`), for any number of administrators:
  `AtWork` says what each program counter of a promoter stands for: past the gate
  the text has no personal data and may be published by this promoter, and after
  the INSERT the post has its story. That there is a post of most worth among a
  set of posts (`BestExists`) is well-founded induction over finite sets, cited from
  the library.

About what answers requests (`RequestProofs`):

* `PaymentIsGiven` (`[]PaidIsGiven`): no two handlers are about to claim the same
  settlement, and none that has been claimed (`ClaimsInHand`), because the
  facilitator makes a payment once and only who made it claims it.
* `EveryCallIsWhole`: `LocalDbSpec => CallsAreWhole`, a refinement. The mapping is
  the one of the run. The invariant `DbInv` accounts for what the owner of the lock
  has stored so far: the rows of its batch up to `done`, all accepted, on top of
  what it found (`RowsStored`, `RowsAccepted`).
* `StoriesSound` (`[]StoriesAreSound`): whatever a maker holds at any stage is on
  its topic and is not all known to it (`SourcesAreNew`); and sources, once known,
  stay known until the clean-up forgets them, for everybody.
* `PendingStaysBounded` (`[]PendingBounded`): the makers' pending stories plus the
  makers that are on their way do not exceed the cap by more than the faults and the
  makers allow (`PendingInv`); an INSERT of theirs moves one from the second to the
  first, and one of the promoter adds to neither. A maker that begins has counted the
  promoter's stories too, so the others are below its cap all the more.
* `LimitsAlwaysHold` (`[]LimitsHold`): the windows are filtered from the front and
  pruned, the requests they stand for are not. `LimitInv` says that entries stand by
  age (`Sorted`) and that of every age that counts a window has as many entries as
  there were requests (`Tallies`); a filter that stops at the first young entry
  loses none of these because of the order.

About what is kept (`StoreProofs`):

* `CountsStayHonest` (`[]CountsAreHonest`): whatever has been counted was true no
  longer ago than the counting has lasted, or than the age of the cache says
  (`WereTrue` in `CountsInv`); ages grow together, and the age of an answer starts
  before its first query.
* `CacheStaysBounded` (`[]CacheIsBounded`): what an entry has lived and what it has
  left add up to the time it may be kept (`VerdictsInv`), and an insertion into a
  full cache removes one entry at least (`RoomIsMade`).
* `StoreStaysSound` (`[]StoreIsSound`): the manifest is the last file a writer
  writes, no directory has two writers, and the directory of a writer has its final
  name exactly when it is past the rename (`CapturesInv`); what is stored and what
  the writer inside the lock has still to write fit the quota together (`RoomInv`),
  since only the holder of the lock writes and it measured after it took the lock.
* `VersionsAreKept`: `StoreSpec => KeepsVersions`, a refinement. What a writer
  brings is never empty and is what its directory is wanted for (`OfferInv`), so the
  rename, and no other step, publishes a whole capture; `RemoveStaging` takes away
  directories without a final name only.
* `ATaskIsHonest` and `AMemoryEach` (`[]TasksAreHonest`, `[]OneMemoryEach`):
  `WitnessInv` says the same of what a reader sees and of what is on the disk
  (`Sound`: among others that no two events stored claim one id, and none has two
  memories), that what a handler sees only grows on what is on the disk until it
  commits (`Grown`), that a handler has stored what its step says it has
  (`HandlerHolds`), and what more holds while there was no fault (`Quiet`).

Every safety property of the passing runs, the action properties and the four
refinements included, is stated by one of these theorems. Only model-checked are
the liveness properties (`ClaimIsReleased`, `ReachedIsSettled`,
`FalseAlarmIsCorrected`, `GoneIsNoticed`, `GoneIsTold`, `NothingForgotten`,
`CandidatesSettle`, `RequestsSettle`), whose proofs would need fairness and
ENABLED, which are outside the prover; and the four counterexamples.

## 5. Plan

Done: every module of section 2, checked by the runs of section 3; `StoryArchive`,
`CaptureQueue`, `CaptureStore` and `LocalDb` with an abstract specification each and
a proof that they implement it; all safety properties as theorems.

Left, in this order:

1. `PromotionIsSound` for a promoted post whose status the administrator sets again
   (section 6).
2. The five-minute cache of the dynamic base and its retarget (`threshold.py`), which
   is an input of `StoryArchive` now.
3. The tracker on a database without the adaptive columns (its fixed schedule).

## 6. Not modelled

* Text generation and scoring (`llm.py` apart from its control, `value.py`,
  `volatility.py`, `pii.py`), HTML parsing (`community_sources.py`,
  `article_content.py`, `nativetext.py`, the Rust library): functions of strings;
  their results enter as nondeterministic inputs.
* Signing and hashing (`crypto.py`), the wallet's balance, the transparency report,
  feeds, lists and search of stories, guest tokens: no state, or only read.
* `services/recovery.py`: a sequential search started by hand; its writes to the
  capture store are those of a writer of `CaptureStore`.
* The legacy batched clean-up (before the procedure is installed) and the manual
  `/admin` routes, except the promotion of one post. The administrator may set the
  status of a promoted post again; `Promoter` has the status changes of `_mark` only.
* The promoter does not consult `dedup.py`, and its story may have a source that a
  story of the hunter has already; nor does it ask for a cap. Nothing in the code says
  otherwise, so no property does; a story of the promoter is in `StoryMaking` only as
  what the makers see of it.
* A late registration resets a row to "unchecked" (`tracker.py:682`), and until the next
  check the source does not count: votes see the higher threshold. The model has it; no
  property forbids it.
* `app/`: recall, introduce and the chronicle only read. (Recall applies its LIMIT
  before it filters by participants, so it may return fewer memories than there are.)
* `preservation.py`: loss of power, images and redaction. A killed writer's
  `.pending-*` directory counts towards the quota for ever; the model has that, and
  `StoreIsBounded` holds all the same.
* `routers/stats.py`: the time series has the cache of the dashboard with one entry
  for each number of days.
* `api/index.py`: sources are also given when the settlement fails (the reply says
  so in `payment_meta`); that is its design and is modelled. Page, agent card and
  wording are not.
* `ratelimit.py`: the limits on rechecks and tokens are the same class with one
  window; only the limit on stories, with its two windows, is instantiated.
* The connection to Supabase and its retries (`db.py`), the translation of filters
  (`localdb.py`), the start of the application, the schema, the front end, scripts.
