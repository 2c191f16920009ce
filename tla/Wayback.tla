------------------------------- MODULE Wayback -------------------------------
(***************************************************************************)
(* Having the sources kept by the Internet Archive (services/wayback.py).  *)
(*                                                                         *)
(* Producers (the collector after it has kept a text, the tracker after it *)
(* has registered sources) add rows; process_batch, called by the          *)
(* tracker's loop, is the only consumer: it polls the jobs that run and    *)
(* then submits what is queued, or, without keys, only looks for copies    *)
(* that exist.  Nobody but the consumer changes a row, so the call of the  *)
(* archive for a row and its UPDATE are one step.  A crash between them    *)
(* is the step in which the archive has taken the job and the row does not *)
(* know of it.  Time is relative; overdue rows keep their order.           *)
(***************************************************************************)
EXTENDS Faults

CONSTANTS
    Target,         \* URLs
    SubmitLimit, PollLimit,   \* WAYBACK_SUBMIT_PER_CYCLE, WAYBACK_POLL_PER_CYCLE
    MaxTries,       \* WAYBACK_MAX_ATTEMPTS
    PollWait        \* WAYBACK_POLL_BACKOFF_SEC, in ticks

ASSUME WaybackAssumption ==
    /\ IsFiniteSet(Target)
    /\ {SubmitLimit, PollLimit, MaxTries, PollWait} \subseteq Nat \ {0}

VARIABLES
    keys,       \* whether the archive's keys are set (_can_save)
    asking,     \* sources somebody is about to request
    snapshot,   \* the rows: status, attempts, ticks until next_poll_at
    consumer,   \* what process_batch is doing, and the rows it has read
    jobs        \* how many jobs the archive has accepted for each source

waybackVars == <<keys, asking, snapshot, consumer, jobs, faults>>

NoSnapshot == [status |-> "none", tries |-> 0, due |-> 0]
Queued == [NoSnapshot EXCEPT !.status = "queued"]

WaybackInit ==
    /\ keys \in BOOLEAN
    /\ asking = {}
    /\ snapshot = [u \in Target |-> NoSnapshot]
    /\ consumer = [pc |-> "idle", rows |-> {}]
    /\ jobs = [u \in Target |-> 0]
    /\ faults = 0

Rows(status) == {u \in Target : snapshot[u].status = status}
DueSnapshots(status) == {u \in Rows(status) : snapshot[u].due <= 0}

\* What is overdue keeps only its order.
Overdue(f) ==
    [u \in Target |-> IF f[u].due > 0 THEN f[u]
       ELSE [f[u] EXCEPT !.due = -Cardinality({f[v].due : v \in {w \in Target :
                                     f[w].due <= 0 /\ f[w].due > f[u].due}})]]
Writes(u, state) == snapshot' = Overdue([snapshot EXCEPT ![u] = state])
-----------------------------------------------------------------------------
(* enqueue *)

\* A text has been kept or sources registered, for the first time or again: the
\* request follows.
Ask(u) ==
    /\ u \notin asking
    /\ asking' = asking \cup {u}
    /\ UNCHANGED <<keys, snapshot, consumer, jobs, faults>>

\* ignore_duplicates: a row that is there stays as it is.
Enqueued(u) == IF snapshot[u].status = "none" THEN Queued ELSE snapshot[u]

EnqueueSnapshot(u) ==
    /\ u \in asking
    /\ asking' = asking \ {u}
    /\ \/ Writes(u, Enqueued(u)) /\ UNCHANGED faults
       \/ Fault /\ UNCHANGED snapshot
    /\ UNCHANGED <<keys, consumer, jobs>>
-----------------------------------------------------------------------------
(* process_batch *)

At(pc, rows) == consumer' = [pc |-> pc, rows |-> rows]
Limited(rows, n) == {r \in SUBSET rows : Cardinality(r) = IF Cardinality(rows) < n
                                                         THEN Cardinality(rows) ELSE n}

\* _poll_pending reads the jobs that are due, the longest overdue first.
StartBatch ==
    /\ consumer.pc = "idle"
    /\ \E rows \in Limited(DueSnapshots("pending"), PollLimit) :
         /\ \A u \in rows, v \in DueSnapshots("pending") \ rows : snapshot[u].due <= snapshot[v].due
         /\ At("poll", rows)
    /\ UNCHANGED <<keys, asking, snapshot, jobs, faults>>

\* Variant: a failed job is queued again.
AfterJobAgain(u, answer) ==
    IF answer = "error" THEN [snapshot[u] EXCEPT !.status = "queued"]
    ELSE [snapshot[u] EXCEPT !.status = "success"]

\* A finished job, with the snapshot of that very URL, or failed.
AfterJob(u, answer) == [snapshot[u] EXCEPT !.status = answer, !.due = 0]

\* No answer, or the job still runs: later.
PolledLater(u) == [snapshot[u] EXCEPT !.due = PollWait]

JobEnds(u) ==
    /\ consumer.pc = "poll" /\ u \in consumer.rows
    /\ \E answer \in {"success", "error"} : Writes(u, AfterJob(u, answer))
    /\ At("poll", consumer.rows \ {u})
    /\ UNCHANGED <<keys, asking, jobs, faults>>

JobRuns(u) ==
    /\ consumer.pc = "poll" /\ u \in consumer.rows
    /\ Writes(u, PolledLater(u))
    /\ At("poll", consumer.rows \ {u})
    /\ UNCHANGED <<keys, asking, jobs, faults>>

\* check_capacity: what is free at the archive, at most SubmitLimit; an answer
\* that is lost or makes no sense leaves SubmitLimit.
Room == 0..SubmitLimit

\* Without keys nothing is asked and no limit but SubmitLimit holds.
StartSubmit(budget) ==
    /\ consumer.pc = "poll" /\ consumer.rows = {}
    /\ ~keys => budget = SubmitLimit
    /\ \E rows \in Limited(DueSnapshots("queued"), budget) :
         At(IF rows = {} THEN "idle" ELSE "submit", rows)
    /\ UNCHANGED <<keys, asking, snapshot, jobs, faults>>

NextSnapshot(u) ==
    At(IF consumer.rows = {u} THEN "idle" ELSE "submit", consumer.rows \ {u})

Tried(u) == [snapshot[u] EXCEPT !.tries = @ + 1]

\* The archive accepts the job; the UPDATE makes the row pending, or fails.
Submitted(u) ==
    /\ keys /\ consumer.pc = "submit" /\ u \in consumer.rows
    /\ jobs' = [jobs EXCEPT ![u] = @ + 1]
    /\ \/ /\ Writes(u, [Tried(u) EXCEPT !.status = "pending", !.due = PollWait])
          /\ UNCHANGED faults
       \/ Fault /\ UNCHANGED snapshot
    /\ NextSnapshot(u)
    /\ UNCHANGED <<keys, asking>>

\* Variant: the refusal is not counted.
AfterRefusalUncounted(u) == [snapshot[u] EXCEPT !.due = PollWait]

\* No job and no copy of others: later, longer and longer, or never.
AfterRefusal(u) ==
    IF snapshot[u].tries + 1 >= MaxTries THEN [Tried(u) EXCEPT !.status = "error", !.due = 0]
    ELSE [Tried(u) EXCEPT !.due = PollWait * 2^(snapshot[u].tries + 1)]

\* A copy somebody else had made, of this very URL.
CopyFound(u) == [Tried(u) EXCEPT !.status = "success", !.due = 0]

\* save_now tells of no job: the archive has refused, or its answer is lost.
NoJobKnown(u) ==
    \/ UNCHANGED <<jobs, faults>>
    \/ keys /\ Fault /\ jobs' = [jobs EXCEPT ![u] = @ + 1]

\* A copy that exists will do, else AfterRefusal.  The same without keys, where
\* nothing is submitted (_lookup_queued).
NotSubmitted(u) ==
    /\ consumer.pc = "submit" /\ u \in consumer.rows
    /\ NoJobKnown(u)
    /\ Writes(u, AfterRefusal(u)) \/ Writes(u, CopyFound(u))
    /\ NextSnapshot(u)
    /\ UNCHANGED <<keys, asking>>

\* A SELECT fails: nothing to poll, or nothing to submit.
SelectFails ==
    /\ Fault
    /\ \/ consumer.pc = "idle" /\ At("poll", {})
       \/ consumer.pc = "poll" /\ consumer.rows = {} /\ At("idle", {})
    /\ UNCHANGED <<keys, asking, snapshot, jobs>>

\* An UPDATE fails.  That is logged, but without keys it ends the batch.
UpdateFails(u) ==
    /\ Fault
    /\ u \in consumer.rows
    /\ CASE consumer.pc = "poll" -> At("poll", consumer.rows \ {u})
         [] consumer.pc = "submit" /\ keys -> NextSnapshot(u)
         [] OTHER -> At("idle", {})
    /\ UNCHANGED <<keys, asking, snapshot, jobs>>

WaybackTick ==
    /\ snapshot' = Overdue([u \in Target |-> [snapshot[u] EXCEPT !.due = @ - 1]])
    /\ UNCHANGED <<keys, asking, consumer, jobs, faults>>

\* The process dies, perhaps after the archive has accepted a job.
WaybackCrash ==
    /\ Fault
    /\ \/ UNCHANGED jobs
       \/ \E u \in consumer.rows : /\ keys /\ consumer.pc = "submit"
                                   /\ jobs' = [jobs EXCEPT ![u] = @ + 1]
    /\ asking' = {}
    /\ At("idle", {})
    /\ UNCHANGED <<keys, snapshot>>

Consumes ==
    \/ StartBatch
    \/ \E u \in Target : JobEnds(u) \/ JobRuns(u) \/ Submitted(u) \/ NotSubmitted(u)
    \/ \E budget \in Room : StartSubmit(budget)

WaybackNext ==
    \/ Consumes
    \/ \E u \in Target : Ask(u) \/ EnqueueSnapshot(u) \/ UpdateFails(u)
    \/ SelectFails \/ WaybackTick \/ WaybackCrash

WaybackSpec == WaybackInit /\ [][WaybackNext]_waybackVars
-----------------------------------------------------------------------------
(* Properties *)

\* The archive saves a source once, whatever is polled and asked for again: only a
\* job whose number was lost (no answer, failed UPDATE, crash) may have a twin.
SavedOnce == \A u \in Target : jobs[u] <= 1 + faults

\* Every request ends with a snapshot or an error, as long as the archive has
\* capacity again and again and ends its jobs, whatever other rows do: no row is
\* starved by newer ones, none waits for ever (wayback.py:316-321, 402-410).
RequestsSettle == []<>(Rows("queued") \cup Rows("pending") = {})
=============================================================================
