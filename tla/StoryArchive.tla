----------------------------- MODULE StoryArchive -----------------------------
(***************************************************************************)
(* Votes, the permanent archive and the clean-up of stories.               *)
(*                                                                         *)
(*   routers/votes.py      vote                                            *)
(*   services/archive.py   archive_story, reconcile_pending_archives       *)
(*   services/threshold.py gather_story_signals, maybe_archive_now         *)
(*   services/cleanup.py   cleanup_old_pending (the atomic RPC)            *)
(*   uploader/index.js     POST /upload                                    *)
(*                                                                         *)
(* Every write to the database is a step of its own; reads that follow     *)
(* each other directly (gather_story_signals) are one step.  Between two   *)
(* steps the uploader, the clean-up thread, the threads of                 *)
(* asyncio.to_thread and a crash may act; other coroutines of the event    *)
(* loop only where the code awaits (LoopFree).  Time is kept as saturating *)
(* ages (ticks since an event), so it is unbounded and the state space is  *)
(* still finite.  A definition marked "Variant" is a version with a bug    *)
(* that the properties must tell from the code; nothing uses it.           *)
(***************************************************************************)
EXTENDS Threshold

CONSTANTS
    Story,            \* ids of stories
    Voter,            \* users; a voter's request is the process that runs
    Checker,          \* requests of the manual recheck (tracker.recheck_one_story)
    Sweeper,          \* the background loop that calls reconcile
    TxId,             \* Arweave transaction ids (bounds the uploads of a run)
    NoTx, Pending,    \* arweave_tx_id IS NULL and '__pending__'
    NoStory,          \* a process that works on nothing
    CaptureStory,     \* stories with from_capture = true
    BaseThreshold,    \* values get_dynamic_base_threshold may return
    CleanupMaxVotes,  \* CLEANUP_MAX_VOTES
    PendingTimeout,   \* PENDING_TIMEOUT_SEC, in ticks
    UploadLimit,      \* longest time between claim and the end of an upload
    MaxAttempts,      \* RECONCILE_MAX_ATTEMPTS
    RetryBase,        \* RECONCILE_BASE_SEC, in ticks
    RetryMax,         \* RECONCILE_MAX_SEC, in ticks
    ScanLimit,        \* .limit(60) of the reconcile query
    RetryLimit,       \* limit=5: retries of one sweep
    LookupReliable,   \* findExistingTx always sees an earlier upload
    MaxFaults         \* bounds the crashes and the failed database calls

Proc == Voter \cup Checker \cup {Sweeper}

ASSUME SetAssumption ==
    /\ IsFiniteSet(Voter)
    /\ Voter \cap Checker = {} /\ Sweeper \notin Voter \cup Checker
    /\ NoStory \notin Story
    /\ NoTx \notin TxId /\ Pending \notin TxId /\ NoTx # Pending
    /\ CaptureStory \subseteq Story

ASSUME NumberAssumption ==
    /\ BaseThreshold \subseteq Nat \ {0}
    /\ BaseThreshold # {}
    /\ {CleanupMaxVotes, PendingTimeout, UploadLimit, MaxAttempts, RetryBase,
        RetryMax, ScanLimit, RetryLimit, MaxFaults} \subseteq Nat
    /\ LookupReliable \in BOOLEAN

VARIABLES
    \* the stories, votes and citation_checks tables
    exists,      \* rows of stories not deleted
    tx,          \* arweave_tx_id
    attempts,    \* archive_attempts
    age,         \* ticks since last_archive_attempt (saturates at AgeCap)
    votes,       \* rows of votes, per story
    voteCount,   \* stories.vote_count, the cached count
    hard,        \* some citation of the story counts as hard_deleted
    old,         \* created_at is older than the clean-up cutoff
    base,        \* get_dynamic_base_threshold()
    \* the Python process
    proc,        \* what each request or loop is doing
    cand,        \* rows the sweep has read and not yet looked at
    budget,      \* retries the sweep has left
    failed,      \* voters whose accepted vote was answered with a 500
    faults,
    \* the uploader and Arweave
    up,          \* the upload in flight for a story
    ledger       \* every upload ever paid for

tables == <<exists, tx, attempts, age, votes, voteCount, hard, old>>
sweep == <<cand, budget>>
vars == <<tables, base, proc, sweep, failed, faults, up, ledger>>

AgeCap == Larger(PendingTimeout + 1, Larger(RetryMax, UploadLimit + 1))
Older(n) == Smaller(n + 1, AgeCap)

\* Steps of archive_story after the claim: the process believes it owns the row.
Holding == {"bundle", "wait", "fail", "failwrite"}
PC == {"idle", "gather", "count", "archive", "claim",
       "select", "rows"} \cup Holding

Idle == [pc |-> "idle", story |-> NoStory, saw |-> NoTx, count |-> 0,
         need |-> 1, att |-> 0, tx |-> NoTx, held |-> 0]
NoUpload == [pc |-> "idle", votes |-> {}, need |-> 1]

\* Inside a stretch of code that does not await: no other coroutine runs.
Midway == {"claim", "bundle", "failwrite", "select"}
LoopFree(p) == \A q \in Proc \ {p} : proc[q].pc \notin Midway

Holds(p, s) == proc[p].pc \in Holding /\ proc[p].story = s
Waiting(p, s) == proc[p].pc = "wait" /\ proc[p].story = s
Archived(s) == tx[s] \in TxId
Need(s) == EffectiveThreshold("none", base, IF hard[s] THEN 1 ELSE 0, 0)
Votes(s) == Cardinality(votes[s])

\* Variant: one vote too few is enough.
ReachedEarly(count, need) == count + 1 >= need

\* vote_count >= effective_threshold, in all three places that compare them.
Reached(count, need) == count >= need

\* The delay after n attempts, in _backoff_ready.
RetryDelay(n) == Smaller(RetryBase * 2^Larger(0, n - 1), RetryMax)

\* Variant: a story that was never attempted is never ready.
BackoffNeverFirst(s) == attempts[s] > 0 /\ age[s] >= RetryDelay(attempts[s])

\* _backoff_ready, on the row of s.
BackoffReady(s) == age[s] >= RetryDelay(attempts[s])

Becomes(p, state) == proc' = [proc EXCEPT ![p] = state]

\* What a process goes back to when archive_story returns.
AfterArchive(p) ==
    IF p = Sweeper THEN [Idle EXCEPT !.pc = "rows"] ELSE Idle

\* One more crash or failed database call.
Fault == faults < MaxFaults /\ faults' = faults + 1

Init ==
    /\ exists = Story
    /\ tx = [s \in Story |-> NoTx]
    /\ attempts = [s \in Story |-> 0]
    /\ age = [s \in Story |-> AgeCap]
    /\ votes = [s \in Story |-> {}]
    /\ voteCount = [s \in Story |-> 0]
    /\ hard = [s \in Story |-> FALSE]
    /\ old = [s \in Story |-> FALSE]
    /\ base \in BaseThreshold
    /\ proc = [p \in Proc |-> Idle]
    /\ cand = {}
    /\ budget = 0
    /\ failed = {}
    /\ faults = 0
    /\ up = [s \in Story |-> NoUpload]
    /\ ledger = {}
-----------------------------------------------------------------------------
(* POST /api/vote/{story_id} *)

\* The INSERT into votes.  A duplicate (23505) is answered 409 and a missing
\* story (23503) 404: neither changes anything, so neither is a step.
VoteInsert(u, s) ==
    /\ proc[u].pc = "idle"
    /\ s \in exists
    /\ u \notin votes[s]
    /\ votes' = [votes EXCEPT ![s] = @ \cup {u}]
    /\ Becomes(u, [Idle EXCEPT !.pc = "gather", !.story = s])
    /\ UNCHANGED <<exists, tx, attempts, age, voteCount, hard, old, base,
                   sweep, failed, faults, up, ledger>>

\* gather_story_signals in a worker thread.  For a story that is gone it
\* returns {}; every .get has a default, and then sig["urgency"] raises.
VoteGather(u) ==
    LET s == proc[u].story IN
    /\ proc[u].pc = "gather"
    /\ \/ /\ s \in exists
          /\ Becomes(u, [proc[u] EXCEPT !.pc = "count", !.count = Votes(s),
                                         !.need = Need(s), !.saw = tx[s]])
          /\ UNCHANGED failed
       \/ /\ s \notin exists
          /\ Becomes(u, Idle)
          /\ failed' = failed \cup {u}
    /\ UNCHANGED <<tables, base, sweep, faults, up, ledger>>

\* Variant: no .lt guard.
LastWriterWins(cached, n) == n

\* .lt("vote_count", n): the cached count only ever rises.
RaisedCount(cached, n) == Larger(cached, n)

\* The cached count is written; then the answer goes out and, when the
\* votes suffice, archive_story runs as a background task of the request.
VoteCount(u) ==
    LET s == proc[u].story
        n == proc[u].count IN
    /\ proc[u].pc = "count"
    /\ voteCount' = IF s \in exists
                    THEN [voteCount EXCEPT ![s] = RaisedCount(@, n)] ELSE voteCount
    /\ IF Reached(n, proc[u].need) /\ proc[u].saw \notin TxId
       THEN Becomes(u, [proc[u] EXCEPT !.pc = "archive", !.saw = NoTx, !.count = 0])
       ELSE Becomes(u, Idle)
    /\ UNCHANGED <<exists, tx, attempts, age, votes, hard, old, base, sweep,
                   failed, faults, up, ledger>>
\* A database call of the request fails after the vote is in.
VoteAbort(u) ==
    /\ Fault
    /\ proc[u].pc \in {"gather", "count"}
    /\ Becomes(u, Idle)
    /\ UNCHANGED <<tables, base, sweep, failed, up, ledger>>
-----------------------------------------------------------------------------
(* recheck_one_story: a new verdict on a citation, then maybe_archive_now.   *)

\* The verdict is written; when a source is newly gone (hard or soft) the
\* threshold is looked at again.
Recheck(c, s, isHard, newlyGone) ==
    /\ proc[c].pc = "idle"
    /\ s \in exists
    /\ hard' = [hard EXCEPT ![s] = isHard]
    /\ IF newlyGone THEN Becomes(c, [Idle EXCEPT !.pc = "gather", !.story = s])
       ELSE UNCHANGED proc
    /\ UNCHANGED <<exists, tx, attempts, age, votes, voteCount, old, base,
                   sweep, failed, faults, up, ledger>>

MaybeArchiveNow(c) ==
    LET s == proc[c].story IN
    /\ proc[c].pc = "gather"
    /\ IF s \in exists /\ ~Archived(s) /\ Reached(Votes(s), Need(s))
       THEN Becomes(c, [proc[c] EXCEPT !.pc = "archive", !.need = Need(s)])
       ELSE Becomes(c, Idle)
    /\ UNCHANGED <<tables, base, sweep, failed, faults, up, ledger>>
-----------------------------------------------------------------------------
(* archive_story *)

ArchiveRead(p) ==
    LET s == proc[p].story IN
    /\ proc[p].pc = "archive"
    /\ IF s \in exists /\ ~Archived(s)
       THEN Becomes(p, [proc[p] EXCEPT !.pc = "claim", !.saw = tx[s]])
       ELSE Becomes(p, AfterArchive(p))
    /\ UNCHANGED <<tables, base, sweep, failed, faults, up, ledger>>

\* Variant: a pending row is taken over without looking at its age.
ClaimableFresh(s, saw) == s \in exists /\ tx[s] = saw

\* The condition of the UPDATE that sets the marker: a row read as NULL must
\* still be NULL; a row read as pending must be pending and stale.
Claimable(s, saw) ==
    /\ s \in exists
    /\ tx[s] = saw
    /\ saw = Pending => age[s] > PendingTimeout

\* The claim.  The loser reads the row again and returns.
ArchiveClaim(p) ==
    LET s == proc[p].story IN
    /\ proc[p].pc = "claim"
    /\ IF Claimable(s, proc[p].saw)
       THEN /\ tx' = [tx EXCEPT ![s] = Pending]
            /\ age' = [age EXCEPT ![s] = 0]
            /\ Becomes(p, [proc[p] EXCEPT !.pc = "bundle", !.saw = NoTx])
       ELSE /\ Becomes(p, AfterArchive(p))
            /\ UNCHANGED <<tx, age>>
    /\ UNCHANGED <<exists, attempts, votes, voteCount, hard, old, base, sweep,
                   failed, faults, up, ledger>>

\* The votes are read, the bundle signed and posted.  The uploader shares an
\* upload of the same Story-Id that is already in flight (_inFlight).
ArchivePost(p) ==
    LET s == proc[p].story IN
    /\ proc[p].pc = "bundle"
    /\ Becomes(p, [proc[p] EXCEPT !.pc = "wait", !.need = 1])
    /\ up' = IF up[s].pc = "idle"
             THEN [up EXCEPT ![s] = [pc |-> "lookup", votes |-> votes[s],
                                     need |-> proc[p].need]]
             ELSE up
    /\ UNCHANGED <<tables, base, sweep, failed, faults, ledger>>

\* httpx raises: a timeout, a lost connection or an error answer, whatever
\* the uploader is still doing.
ArchiveError(p) ==
    /\ proc[p].pc = "wait"
    /\ Becomes(p, [proc[p] EXCEPT !.pc = "fail", !.tx = NoTx])
    /\ UNCHANGED <<tables, base, sweep, failed, faults, up, ledger>>

\* The UPDATE that records the transaction, if the marker is still there.
ArchiveRecord(p) ==
    LET s == proc[p].story IN
    /\ proc[p].pc = "wait"
    /\ proc[p].tx # NoTx
    /\ tx' = IF s \in exists /\ tx[s] = Pending
             THEN [tx EXCEPT ![s] = proc[p].tx] ELSE tx
    /\ Becomes(p, AfterArchive(p))
    /\ UNCHANGED <<exists, attempts, age, votes, voteCount, hard, old, base,
                   sweep, failed, faults, up, ledger>>

\* _record_archive_failure: first the attempts are read ...
FailureRead(p) ==
    LET s == proc[p].story IN
    /\ proc[p].pc = "fail"
    /\ Becomes(p, [proc[p] EXCEPT !.pc = "failwrite",
                                   !.att = IF s \in exists THEN attempts[s] ELSE 0])
    /\ UNCHANGED <<tables, base, sweep, failed, faults, up, ledger>>

\* Variant: whatever the row holds is taken off.
FailureWriteBlind(p) ==
    LET s == proc[p].story IN
    /\ proc[p].pc = "failwrite"
    /\ tx' = IF s \in exists THEN [tx EXCEPT ![s] = NoTx] ELSE tx
    /\ Becomes(p, AfterArchive(p))
    /\ UNCHANGED <<exists, attempts, age, votes, voteCount, hard, old, base, sweep,
                   failed, faults, up, ledger>>

\* ... then the marker is taken off, whoever put it there.
FailureWrite(p) ==
    LET s == proc[p].story IN
    /\ proc[p].pc = "failwrite"
    /\ IF s \in exists /\ tx[s] = Pending
       THEN /\ tx' = [tx EXCEPT ![s] = NoTx]
            /\ attempts' = [attempts EXCEPT ![s] =
                              Smaller(proc[p].att + 1, MaxAttempts)]
            /\ age' = [age EXCEPT ![s] = 0]
       ELSE UNCHANGED <<tx, attempts, age>>
    /\ Becomes(p, AfterArchive(p))
    /\ UNCHANGED <<exists, votes, voteCount, hard, old, base, sweep, failed,
                   faults, up, ledger>>

\* A database call of archive_story fails.  In _record_archive_failure it is
\* swallowed; elsewhere it ends the request, or the whole sweep, and a marker
\* already set stays.
ArchiveAbort(p) ==
    /\ Fault
    /\ \/ /\ proc[p].pc \in {"fail", "failwrite"}
          /\ Becomes(p, AfterArchive(p))
          /\ UNCHANGED sweep
       \/ /\ \/ proc[p].pc \in {"archive", "claim", "bundle"}
             \/ proc[p].pc = "wait" /\ proc[p].tx # NoTx
          /\ Becomes(p, Idle)
          /\ IF p = Sweeper THEN cand' = {} /\ budget' = 0 ELSE UNCHANGED sweep
    /\ UNCHANGED <<tables, base, failed, up, ledger>>
-----------------------------------------------------------------------------
(* The uploader *)

\* The task for s ends with transaction t: everyone waiting gets it.
Answer(s, t) ==
    /\ up' = [up EXCEPT ![s] = NoUpload]
    /\ proc' = [p \in Proc |->
                  IF Waiting(p, s) /\ proc[p].tx = NoTx
                  THEN [proc[p] EXCEPT !.tx = t] ELSE proc[p]]

\* The task for s throws: everyone waiting gets an error.
AnswerError(s) ==
    /\ up' = [up EXCEPT ![s] = NoUpload]
    /\ proc' = [p \in Proc |->
                  IF Waiting(p, s) /\ proc[p].tx = NoTx
                  THEN [proc[p] EXCEPT !.pc = "fail"] ELSE proc[p]]

Uploads(s) == {e \in ledger : e.story = s}
Unused == {t \in TxId : \A e \in ledger : e.tx # t}

\* Variant: no lookup before an upload.
UploadBlind(s) ==
    /\ up[s].pc = "lookup"
    /\ up' = [up EXCEPT ![s].pc = "upload"]
    /\ UNCHANGED <<tables, base, proc, sweep, failed, faults, ledger>>

\* findExistingTx.  Unless the index is reliable it may miss an upload, and
\* any failure of the query counts as "none" (fail-open).
UploadLookup(s) ==
    /\ up[s].pc = "lookup"
    /\ \/ \E e \in Uploads(s) : Answer(s, e.tx)
       \/ /\ Uploads(s) = {} \/ ~LookupReliable
          /\ up' = [up EXCEPT ![s].pc = "upload"]
          /\ UNCHANGED proc
    /\ UNCHANGED <<tables, base, sweep, failed, faults, ledger>>

Pay(s, t) ==
    ledger' = ledger \cup {[tx |-> t, story |-> s, votes |-> up[s].votes,
                            need |-> up[s].need]}

\* irys.upload: paid, stored and answered.
UploadDone(s) ==
    /\ up[s].pc = "upload"
    /\ \E t \in Unused : Pay(s, t) /\ Answer(s, t)
    /\ UNCHANGED <<tables, base, sweep, failed, faults>>

\* irys.upload: paid and stored, but the receipt is lost (or the uploader
\* dies right after).
UploadLost(s) ==
    /\ up[s].pc = "upload"
    /\ \E t \in Unused : Pay(s, t)
    /\ AnswerError(s)
    /\ UNCHANGED <<tables, base, sweep, failed, faults>>

\* Variant: the id computed before the upload is answered although it failed.
UploadFailAnswers(s) ==
    /\ up[s].pc # "idle"
    /\ \E t \in Unused : Answer(s, t)
    /\ UNCHANGED <<tables, base, sweep, failed, faults, ledger>>

\* Nothing was stored: no key, no balance, no network, or a dead uploader.
UploadFail(s) ==
    /\ up[s].pc # "idle"
    /\ AnswerError(s)
    /\ UNCHANGED <<tables, base, sweep, failed, faults, ledger>>
-----------------------------------------------------------------------------
(* reconcile_pending_archives *)

\* Variant: stale markers are left where they are.
SweepResetNothing ==
    /\ proc[Sweeper].pc = "idle"
    /\ Becomes(Sweeper, [Idle EXCEPT !.pc = "select"])
    /\ UNCHANGED <<tables, base, sweep, failed, faults, up, ledger>>

\* Stale markers are taken off; if that UPDATE fails the sweep goes on.
SweepReset ==
    /\ proc[Sweeper].pc = "idle"
    /\ tx' = [s \in Story |->
                IF s \in exists /\ tx[s] = Pending /\ age[s] > PendingTimeout
                THEN NoTx ELSE tx[s]]
    /\ Becomes(Sweeper, [Idle EXCEPT !.pc = "select"])
    /\ UNCHANGED <<exists, attempts, age, votes, voteCount, hard, old, base,
                   sweep, failed, faults, up, ledger>>

SweepResetError ==
    /\ Fault
    /\ proc[Sweeper].pc = "idle"
    /\ Becomes(Sweeper, [Idle EXCEPT !.pc = "select"])
    /\ UNCHANGED <<tables, base, sweep, failed, up, ledger>>

Unarchived == {s \in exists : tx[s] = NoTx}

\* What ORDER BY vote_count DESC LIMIT ScanLimit may return.
IsTop(rows) ==
    /\ rows \subseteq Unarchived
    /\ Cardinality(rows) = Smaller(ScanLimit, Cardinality(Unarchived))
    /\ \A s \in rows, r \in Unarchived \ rows : voteCount[s] >= voteCount[r]

\* The query, and the filters that look only at the rows it read.
SweepSelect ==
    /\ proc[Sweeper].pc = "select"
    /\ \E rows \in SUBSET Unarchived :
         /\ IsTop(rows)
         /\ cand' = {[story |-> s, votes |-> voteCount[s]] :
                       s \in {r \in rows : attempts[r] < MaxAttempts
                                           /\ BackoffReady(r)}}
    /\ budget' = RetryLimit
    /\ Becomes(Sweeper, [Idle EXCEPT !.pc = "rows"])
    /\ UNCHANGED <<tables, base, failed, faults, up, ledger>>

\* The next row: fresh signals, and archive_story when the votes suffice.
SweepRow ==
    /\ proc[Sweeper].pc = "rows"
    /\ budget > 0
    /\ \E row \in cand :
         LET s == row.story
             due == s \in exists /\ ~Archived(s) /\ Reached(Votes(s), Need(s)) IN
         /\ \A other \in cand : row.votes >= other.votes
         /\ cand' = cand \ {row}
         /\ IF due
            THEN /\ budget' = budget - 1
                 /\ Becomes(Sweeper, [Idle EXCEPT !.pc = "archive", !.story = s,
                                                   !.need = Need(s)])
            ELSE UNCHANGED <<budget, proc>>
    /\ UNCHANGED <<tables, base, failed, faults, up, ledger>>

\* The rows or the retries are used up, or the query failed.
SweepEnd ==
    /\ \/ /\ proc[Sweeper].pc = "rows" /\ (cand = {} \/ budget = 0)
          /\ UNCHANGED faults
       \/ proc[Sweeper].pc = "select" /\ Fault
    /\ cand' = {} /\ budget' = 0
    /\ Becomes(Sweeper, Idle)
    /\ UNCHANGED <<tables, base, failed, up, ledger>>
-----------------------------------------------------------------------------
(* delete_orphan_pending_stories, and the world around the process *)

\* Variant: archived stories expire too.
ExpiredArchived(s) ==
    /\ s \in exists
    /\ old[s]
    /\ s \notin CaptureStory
    /\ Votes(s) <= CleanupMaxVotes

\* The WHERE of the DELETE.
Expired(s) ==
    /\ s \in exists
    /\ tx[s] = NoTx
    /\ old[s]
    /\ s \notin CaptureStory
    /\ Votes(s) <= CleanupMaxVotes

\* One DELETE; votes and citation_checks go with their story (cascade).
Cleanup ==
    LET gone == {s \in Story : Expired(s)}
        clear(f, v) == [s \in Story |-> IF s \in gone THEN v ELSE f[s]] IN
    /\ gone # {}
    /\ exists' = exists \ gone
    /\ votes' = clear(votes, {})
    /\ voteCount' = clear(voteCount, 0)
    /\ hard' = clear(hard, FALSE)
    /\ attempts' = clear(attempts, 0)
    /\ age' = clear(age, AgeCap)
    /\ UNCHANGED <<tx, old, base, proc, sweep, failed, faults, up, ledger>>

\* CLEANUP_AGE_DAYS have passed since the story was created.
AgeOut(s) ==
    /\ s \in exists /\ ~old[s]
    /\ old' = [old EXCEPT ![s] = TRUE]
    /\ UNCHANGED <<exists, tx, attempts, age, votes, voteCount, hard, base,
                   proc, sweep, failed, faults, up, ledger>>

\* The dynamic base threshold is computed anew (threshold.py, every five minutes).
Retarget ==
    /\ base' \in BaseThreshold \ {base}
    /\ UNCHANGED <<tables, proc, sweep, failed, faults, up, ledger>>

\* One tick.  Only code that awaits lets time pass, and a process that holds
\* a claim awaits nothing but the uploader, for UploadLimit at most.
Tick ==
    /\ \A p \in Proc : /\ proc[p].pc \notin Midway \cup {"fail"}
                       /\ proc[p].pc = "wait" => proc[p].held < UploadLimit
    /\ age' = [s \in Story |-> Older(age[s])]
    /\ proc' = [p \in Proc |-> IF proc[p].pc = "wait"
                               THEN [proc[p] EXCEPT !.held = @ + 1] ELSE proc[p]]
    /\ UNCHANGED <<exists, tx, attempts, votes, voteCount, hard, old, base,
                   sweep, failed, faults, up, ledger>>

\* The Python process dies and starts again; the uploader does not notice.
Crash ==
    /\ Fault
    /\ proc' = [p \in Proc |-> Idle]
    /\ cand' = {} /\ budget' = 0
    /\ UNCHANGED <<tables, base, failed, up, ledger>>
-----------------------------------------------------------------------------
VoteStep(u) ==
    \/ LoopFree(u) /\ ((\E s \in Story : VoteInsert(u, s)) \/ VoteCount(u))
    \/ VoteGather(u)
    \/ VoteAbort(u)

CheckStep(c) ==
    /\ LoopFree(c)
    /\ \/ \E s \in Story, isHard, newlyGone \in BOOLEAN :
            Recheck(c, s, isHard, newlyGone)
       \/ MaybeArchiveNow(c)

ArchiveStep(p) ==
    /\ LoopFree(p)
    /\ \/ ArchiveRead(p) \/ ArchiveClaim(p) \/ ArchivePost(p) \/ ArchiveRecord(p)
       \/ ArchiveError(p) \/ FailureRead(p) \/ FailureWrite(p) \/ ArchiveAbort(p)

UploaderStep(s) ==
    UploadLookup(s) \/ UploadDone(s) \/ UploadLost(s) \/ UploadFail(s)

SweepStep ==
    /\ LoopFree(Sweeper)
    /\ SweepReset \/ SweepResetError \/ SweepSelect \/ SweepRow \/ SweepEnd

Next ==
    \/ \E u \in Voter : VoteStep(u)
    \/ \E c \in Checker : CheckStep(c)
    \/ \E p \in Proc : ArchiveStep(p)
    \/ \E s \in Story : UploaderStep(s)
    \/ SweepStep
    \/ Cleanup \/ (\E s \in Story : AgeOut(s)) \/ Retarget \/ Tick \/ Crash

Spec == Init /\ [][Next]_vars

\* What the event loop and the sleep of the tracker loop justify: requests
\* and loops that can go on do go on, and time passes.  Strong fairness,
\* because a coroutine is disabled whenever another one is in a stretch
\* without await.  Nothing is assumed of voters, checks, the uploader's
\* success or the clean-up.
Fairness ==
    /\ SF_vars(Tick)
    /\ \A u \in Voter : SF_vars(VoteStep(u) /\ proc[u].pc # "idle")
    /\ \A c \in Checker : SF_vars(LoopFree(c) /\ MaybeArchiveNow(c))
    /\ \A p \in Proc : SF_vars(ArchiveStep(p))
    /\ SF_vars(SweepStep)

FairSpec == Spec /\ Fairness
-----------------------------------------------------------------------------
(* Properties *)

ProcState == [pc : PC, story : Story \cup {NoStory}, saw : TxId \cup {NoTx, Pending},
              count : Nat, need : Nat \ {0}, att : Nat, tx : TxId \cup {NoTx},
              held : Nat]
Upload == [pc : {"idle", "lookup", "upload"}, votes : SUBSET Voter, need : Nat \ {0}]
Receipt == [tx : TxId, story : Story, votes : SUBSET Voter, need : Nat \ {0}]

\* Every variable has its type (the columns of the tables, the fields of a process).
TypeOK ==
    /\ exists \subseteq Story
    /\ tx \in [Story -> TxId \cup {NoTx, Pending}]
    /\ attempts \in [Story -> Nat]
    /\ age \in [Story -> Nat]
    /\ votes \in [Story -> SUBSET Voter]
    /\ voteCount \in [Story -> Nat]
    /\ hard \in [Story -> BOOLEAN]
    /\ old \in [Story -> BOOLEAN]
    /\ base \in BaseThreshold
    /\ proc \in [Proc -> ProcState]
    /\ cand \subseteq [story : Story, votes : Nat]
    /\ budget \in Nat
    /\ failed \subseteq Voter
    /\ faults \in Nat
    /\ up \in [Story -> Upload]
    /\ ledger \subseteq Receipt

\* A process past its first step works on a story.
WorksOnStory ==
    \A p \in Proc : proc[p].pc \notin {"idle", "select", "rows"}
                     => proc[p].story \in Story

\* The conditional claim, the stale-claim recovery and the failure record
\* together let at most one archive_story run between its claim and its end,
\* and while it runs the row keeps the marker (archive.py:11 promises one
\* uploading coroutine at a time).
SingleOwner ==
    \A p, q \in Proc, s \in Story :
        /\ Holds(p, s) => s \in exists /\ tx[s] = Pending
        /\ Holds(p, s) /\ Holds(q, s) => p = q

\* A story recorded as archived names a transaction paid for that same story,
\* through failures, shared uploads, stolen claims and restarts.
RecordedIsPaid ==
    \A s \in Story : Archived(s) => \E e \in ledger : e.tx = tx[s] /\ e.story = s

\* What was sealed for ever holds at least as many votes as the threshold
\* that triggered it: no clean-up, retry or shared upload gets in between
\* (threshold.py:24: never an archive without human consent).
SealedWithConsent ==
    \A e \in ledger : e.need >= 1 /\ Cardinality(e.votes) >= e.need

\* When the uploader finds its earlier uploads again, a story is paid for at
\* most once, whatever the Python side times out on, retries or forgets.
PaidOnce == \A e, f \in ledger : e.story = f.story => e = f

\* The cached count never overtakes the votes, and when no vote request is
\* between its INSERT and its UPDATE (and none died there) it has caught up,
\* however concurrent requests overlap (the .lt guard in votes.py).
VoteCountCatchesUp ==
    \A s \in exists :
        /\ voteCount[s] <= Votes(s)
        /\ faults = 0 /\ (\A u \in Voter : proc[u].pc \notin {"gather", "count"})
             => voteCount[s] = Votes(s)

\* An archived story keeps its transaction and its row for ever: no late
\* failure record, second upload, sweep or clean-up undoes it.
ArchivedForEver ==
    [][\A s \in Story : Archived(s) => tx'[s] = tx[s] /\ s \in exists']_vars

\* A claim left behind by a crash or a failed call does not block its story
\* for ever: the marker is replaced by a transaction or taken off.
ClaimIsReleased ==
    \A s \in Story : tx[s] = Pending ~> tx[s] # Pending

\* archive.py:219-220: a story that has the votes it needs is archived in
\* the end, unless its retries are used up, it is cleaned up, or it stops
\* having the votes it needs.
ReachedIsSettled ==
    \A s \in Story :
        (s \in exists /\ Votes(s) >= Need(s))
          ~> (Archived(s) \/ attempts[s] = MaxAttempts \/ s \notin exists
              \/ Votes(s) < Need(s))

\* A vote that was accepted never answers 500: votes.py:69-70 says the
\* story's disappearance is defended against with .get.
VoteNeverFails == failed = {}

\* cleanup.py:33-34: a story that reached its threshold and is not archived
\* (the archive failed, say) is kept.
ReachedIsKept ==
    [][\A s \in exists : Votes(s) >= Need(s) => s \in exists']_vars

\* The detailed system keeps the abstract promise.
Promise == INSTANCE ArchivePromise WITH
    status <- [s \in Story |-> IF s \notin exists THEN "removed"
                               ELSE IF Archived(s) THEN tx[s] ELSE "open"],
    paid <- {[tx |-> e.tx, story |-> e.story, votes |-> e.votes] : e \in ledger}
KeepsPromise == Promise!Spec
=============================================================================
