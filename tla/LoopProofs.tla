------------------------------ MODULE LoopProofs ------------------------------
(***************************************************************************)
(* Theorems about two of the background loops: the Internet Archive's      *)
(* queue (Wayback) and the promotion of posts that are gone (Promoter).    *)
(***************************************************************************)
EXTENDS Promoter, Wayback, FiniteSetTheorems, WellFoundedInduction, TLAPS

-----------------------------------------------------------------------------
(* The queue of the Internet Archive *)

SnapshotStatus == {"none", "queued", "pending", "success", "error"}

\* A row, as far as this proof looks at it.
IsSnapshot(r) == DOMAIN r = {"status", "tries", "due"} /\ r.status \in SnapshotStatus

\* A row the archive may know nothing of, as its status says.
Unsaved(r) == r.status \in {"none", "queued"}

\* Only a row that has left the queue accounts for a job; the others are faults.
JobsAccounted ==
    \A u \in Target : jobs[u] <= (IF Unsaved(snapshot[u]) THEN 0 ELSE 1) + faults

\* Nobody but the consumer takes a row out of the queue, so those it is about to
\* submit are still in it.
StillQueued == consumer.pc = "submit" => \A u \in consumer.rows : snapshot[u].status = "queued"

WaybackInv ==
    /\ DOMAIN snapshot = Target /\ snapshot = [u \in Target |-> snapshot[u]]
    /\ \A u \in Target : IsSnapshot(snapshot[u])
    /\ jobs \in [Target -> Nat] /\ faults \in Nat
    /\ consumer.rows \subseteq Target
    /\ JobsAccounted /\ StillQueued

\* An edit of a row that leaves its status alone.
LEMMA SnapshotEdit ==
    ASSUME NEW r, IsSnapshot(r), NEW n, NEW t, NEW s \in SnapshotStatus
    PROVE  /\ IsSnapshot([r EXCEPT !.due = n]) /\ [r EXCEPT !.due = n].status = r.status
           /\ IsSnapshot([r EXCEPT !.tries = t]) /\ [r EXCEPT !.tries = t].status = r.status
           /\ IsSnapshot([r EXCEPT !.status = s]) /\ [r EXCEPT !.status = s].status = s
BY DEF IsSnapshot

\* Ordering what is overdue leaves every row's status alone.
LEMMA OverdueStatus ==
    ASSUME NEW f, DOMAIN f = Target, \A u \in Target : IsSnapshot(f[u])
    PROVE  /\ DOMAIN Overdue(f) = Target
           /\ Overdue(f) = [u \in Target |-> Overdue(f)[u]]
           /\ \A u \in Target : IsSnapshot(Overdue(f)[u]) /\ Overdue(f)[u].status = f[u].status
<1> DEFINE place(u) == -Cardinality({f[v].due : v \in {w \in Target :
                                      f[w].due <= 0 /\ f[w].due > f[u].due}})
<1>1. Overdue(f) = [u \in Target |-> IF f[u].due > 0 THEN f[u] ELSE [f[u] EXCEPT !.due = place(u)]]
  BY DEF Overdue
<1>2. ASSUME NEW u \in Target
      PROVE  IsSnapshot(Overdue(f)[u]) /\ Overdue(f)[u].status = f[u].status
  <2> DEFINE n == place(u)
  <2>1. Overdue(f)[u] = IF f[u].due > 0 THEN f[u] ELSE [f[u] EXCEPT !.due = n]
    BY <1>1
  <2> HIDE DEF n
  <2>2. IsSnapshot(f[u])
    OBVIOUS
  <2>3. IsSnapshot([f[u] EXCEPT !.due = n]) /\ [f[u] EXCEPT !.due = n].status = f[u].status
    BY <2>2 DEF IsSnapshot
  <2> QED BY <2>1, <2>2, <2>3
<1> HIDE DEF place
<1> QED BY <1>1, <1>2

\* Writing one row.
LEMMA WritesStatus ==
    ASSUME WaybackInv, NEW u \in Target, NEW r, IsSnapshot(r), Writes(u, r)
    PROVE  /\ DOMAIN snapshot' = Target /\ snapshot' = [v \in Target |-> snapshot'[v]]
           /\ \A v \in Target : IsSnapshot(snapshot'[v])
           /\ \A v \in Target : snapshot'[v].status = IF v = u THEN r.status ELSE snapshot[v].status
<1> DEFINE f == [snapshot EXCEPT ![u] = r]
<1>1. DOMAIN f = Target /\ \A v \in Target : f[v] = IF v = u THEN r ELSE snapshot[v]
  BY DEF WaybackInv
<1>2. \A v \in Target : IsSnapshot(f[v])
  BY <1>1 DEF WaybackInv
<1>3. snapshot' = Overdue(f)
  BY DEF Writes
<1> HIDE DEF f
<1> QED BY <1>1, <1>2, <1>3, OverdueStatus

LEMMA WaybackInitially == WaybackInit => WaybackInv
BY DEF WaybackInit, WaybackInv, IsSnapshot, SnapshotStatus, NoSnapshot, JobsAccounted,
       StillQueued, Unsaved

\* A step that leaves jobs and rows alone and hands the consumer rows of the queue,
\* or fewer rows than it had.
LEMMA ConsumerMoves ==
    ASSUME WaybackInv, UNCHANGED <<snapshot, jobs>>,
           faults' \in {faults, faults + 1},
           consumer'.rows \subseteq Target,
           consumer'.pc = "submit" =>
               \/ consumer'.rows \subseteq Rows("queued")
               \/ consumer.pc = "submit" /\ consumer'.rows \subseteq consumer.rows
    PROVE  WaybackInv'
<1>1. StillQueued'
  BY DEF StillQueued, Rows, WaybackInv
<1>2. JobsAccounted'
  BY DEF WaybackInv, JobsAccounted
<1> QED BY <1>1, <1>2 DEF WaybackInv

\* A step that writes one row u and takes it from the consumer.
LEMMA RowMoves ==
    ASSUME WaybackInv, NEW u \in consumer.rows, NEW r, IsSnapshot(r), Writes(u, r),
           consumer'.rows = consumer.rows \ {u},
           consumer'.pc = "submit" => consumer.pc = "submit",
           jobs' \in [Target -> Nat],
           \A v \in Target \ {u} : jobs'[v] = jobs[v],
           faults' \in {faults, faults + 1},
           jobs'[u] <= (IF Unsaved(r) THEN 0 ELSE 1) + faults'
    PROVE  WaybackInv'
<1> USE DEF WaybackInv
<1>1. u \in Target
  OBVIOUS
<1>2. /\ DOMAIN snapshot' = Target /\ snapshot' = [v \in Target |-> snapshot'[v]]
      /\ \A v \in Target : IsSnapshot(snapshot'[v])
      /\ \A v \in Target : snapshot'[v].status = IF v = u THEN r.status ELSE snapshot[v].status
  BY <1>1, WritesStatus
<1>3. StillQueued'
  BY <1>2 DEF StillQueued
<1>4. JobsAccounted'
  <2> SUFFICES ASSUME NEW v \in Target
      PROVE  jobs'[v] <= (IF Unsaved(snapshot'[v]) THEN 0 ELSE 1) + faults'
    BY DEF JobsAccounted
  <2>1. CASE v = u
    BY <1>2, <2>1 DEF Unsaved
  <2>2. CASE v # u
    BY <1>2, <2>2 DEF Unsaved, JobsAccounted
  <2> QED BY <2>1, <2>2
<1> QED BY <1>2, <1>3, <1>4

LEMMA EnqueueSnapshotStep ==
    ASSUME WaybackInv, NEW u \in Target, EnqueueSnapshot(u)
    PROVE  WaybackInv'
<1> USE DEF WaybackInv
<1>1. UNCHANGED <<consumer, jobs>> /\ faults' \in {faults, faults + 1}
  BY DEF EnqueueSnapshot, Fault
<1>2. CASE Writes(u, Enqueued(u)) /\ UNCHANGED faults
  <2>1. IsSnapshot(Enqueued(u))
    BY DEF Enqueued, Queued, NoSnapshot, IsSnapshot, SnapshotStatus
  <2>2. Enqueued(u).status = IF snapshot[u].status = "none" THEN "queued" ELSE snapshot[u].status
    BY DEF Enqueued, Queued, NoSnapshot
  <2>3. /\ DOMAIN snapshot' = Target /\ snapshot' = [v \in Target |-> snapshot'[v]]
        /\ \A v \in Target : IsSnapshot(snapshot'[v])
        /\ \A v \in Target : snapshot'[v].status =
                               IF v = u THEN Enqueued(u).status ELSE snapshot[v].status
    BY <1>2, <2>1, WritesStatus
  <2>4. StillQueued' /\ JobsAccounted'
    BY <1>1, <1>2, <2>2, <2>3 DEF StillQueued, JobsAccounted, Unsaved
  <2> QED BY <1>1, <1>2, <2>3, <2>4
<1>3. CASE UNCHANGED snapshot
  BY <1>1, <1>3, ConsumerMoves DEF StillQueued
<1> QED BY <1>2, <1>3 DEF EnqueueSnapshot

LEMMA StartStep ==
    ASSUME WaybackInv, StartBatch \/ \E budget \in Room : StartSubmit(budget)
    PROVE  WaybackInv'
<1>1. CASE StartBatch
  <2>1. consumer'.pc = "poll" /\ consumer'.rows \subseteq Target
        /\ UNCHANGED <<snapshot, jobs, faults>>
    BY <1>1 DEF StartBatch, At, Limited, DueSnapshots, Rows
  <2> QED BY <2>1, ConsumerMoves
<1>2. CASE \E budget \in Room : StartSubmit(budget)
  <2>1. consumer'.rows \subseteq Rows("queued") /\ UNCHANGED <<snapshot, jobs, faults>>
    BY <1>2 DEF StartSubmit, At, Limited, DueSnapshots
  <2>2. Rows("queued") \subseteq Target
    BY DEF Rows
  <2> QED BY <2>1, <2>2, ConsumerMoves
<1> QED BY <1>1, <1>2

LEMMA JobStep ==
    ASSUME WaybackInv, NEW u \in Target, JobEnds(u) \/ JobRuns(u)
    PROVE  WaybackInv'
<1> USE DEF WaybackInv
<1>1. /\ u \in consumer.rows /\ consumer'.rows = consumer.rows \ {u} /\ consumer'.pc = "poll"
      /\ UNCHANGED <<jobs, faults>>
  BY DEF JobEnds, JobRuns, At
<1>2. ASSUME NEW r, IsSnapshot(r), Writes(u, r), ~Unsaved(r) \/ r.status = snapshot[u].status
      PROVE  WaybackInv'
  <2>1. jobs[u] <= (IF Unsaved(r) THEN 0 ELSE 1) + faults
    BY <1>2 DEF JobsAccounted, Unsaved
  <2> QED BY <1>1, <1>2, <2>1, RowMoves
<1>3. ASSUME NEW answer \in {"success", "error"}, Writes(u, AfterJob(u, answer))
      PROVE  WaybackInv'
  <2>1. IsSnapshot(AfterJob(u, answer)) /\ AfterJob(u, answer).status = answer
    BY DEF AfterJob, IsSnapshot, SnapshotStatus
  <2> QED BY <1>2, <1>3, <2>1 DEF Unsaved
<1>4. CASE Writes(u, PolledLater(u))
  <2>1. IsSnapshot(PolledLater(u)) /\ PolledLater(u).status = snapshot[u].status
    BY DEF PolledLater, IsSnapshot
  <2> QED BY <1>2, <1>4, <2>1
<1> QED BY <1>3, <1>4 DEF JobEnds, JobRuns

LEMMA SubmittedStep ==
    ASSUME WaybackInv, NEW u \in Target, Submitted(u)
    PROVE  WaybackInv'
<1> USE DEF WaybackInv
<1>1. /\ u \in consumer.rows /\ consumer.pc = "submit"
      /\ consumer'.rows = consumer.rows \ {u}
      /\ jobs' = [jobs EXCEPT ![u] = @ + 1]
  BY DEF Submitted, NextSnapshot, At
<1>2. /\ jobs' \in [Target -> Nat] /\ jobs'[u] = jobs[u] + 1
      /\ \A v \in Target \ {u} : jobs'[v] = jobs[v]
      /\ jobs[u] <= faults
  <2>1. Unsaved(snapshot[u])
    BY <1>1 DEF StillQueued, Unsaved
  <2>2. jobs[u] <= 0 + faults /\ jobs[u] \in Nat
    BY <2>1 DEF JobsAccounted
  <2> QED BY <1>1, <2>2
<1>3. CASE Writes(u, [Tried(u) EXCEPT !.status = "pending", !.due = PollWait]) /\ UNCHANGED faults
  <2> DEFINE r == [Tried(u) EXCEPT !.status = "pending", !.due = PollWait]
  <2>1. IsSnapshot(r) /\ r.status = "pending"
    BY DEF Tried, IsSnapshot, SnapshotStatus
  <2> HIDE DEF r
  <2>2. jobs'[u] <= (IF Unsaved(r) THEN 0 ELSE 1) + faults'
    BY <1>2, <1>3, <2>1 DEF Unsaved
  <2> QED BY <1>1, <1>2, <1>3, <2>1, <2>2, RowMoves DEF r
<1>4. CASE faults' = faults + 1 /\ UNCHANGED snapshot
  <2>1. StillQueued'
    BY <1>1, <1>4 DEF StillQueued
  <2>2. JobsAccounted'
    BY <1>2, <1>4 DEF JobsAccounted, Unsaved
  <2> QED BY <1>1, <1>2, <1>4, <2>1, <2>2
<1> QED BY <1>3, <1>4 DEF Submitted, Fault

LEMMA NotSubmittedStep ==
    ASSUME WaybackInv, NEW u \in Target, NotSubmitted(u)
    PROVE  WaybackInv'
<1> USE DEF WaybackInv
<1>1. /\ u \in consumer.rows /\ consumer.pc = "submit"
      /\ consumer'.rows = consumer.rows \ {u}
      /\ NoJobKnown(u)
  BY DEF NotSubmitted, NextSnapshot, At
<1>2. jobs[u] <= faults
  BY <1>1 DEF StillQueued, JobsAccounted, Unsaved
<1>3. /\ jobs' \in [Target -> Nat] /\ jobs'[u] <= faults'
      /\ \A v \in Target \ {u} : jobs'[v] = jobs[v]
      /\ faults' \in {faults, faults + 1}
  BY <1>1, <1>2 DEF NoJobKnown, Fault
<1>4. PICK r : IsSnapshot(r) /\ Writes(u, r)
  <2>1. IsSnapshot(AfterRefusal(u))
    <3> DEFINE n == 0
               wait == PollWait * 2^(snapshot[u].tries + 1)
               t == snapshot[u].tries + 1
    <3>1. IsSnapshot(snapshot[u])
      OBVIOUS
    <3>2. AfterRefusal(u) = IF snapshot[u].tries + 1 >= MaxTries
                            THEN [[snapshot[u] EXCEPT !.tries = t] EXCEPT !.status = "error", !.due = n]
                            ELSE [[snapshot[u] EXCEPT !.tries = t] EXCEPT !.due = wait]
      BY DEF AfterRefusal, Tried
    <3> HIDE DEF n, wait, t
    <3> QED BY <3>1, <3>2 DEF IsSnapshot, SnapshotStatus
  <2>2. IsSnapshot(CopyFound(u))
    BY DEF CopyFound, Tried, IsSnapshot, SnapshotStatus
  <2> QED BY <2>1, <2>2 DEF NotSubmitted
<1>5. jobs'[u] <= (IF Unsaved(r) THEN 0 ELSE 1) + faults'
  BY <1>3
<1> QED BY <1>1, <1>3, <1>4, <1>5, RowMoves

\* Faults of the database and of the process, and the passing of time.
LEMMA WaybackFaults ==
    ASSUME WaybackInv, SelectFails \/ \E u \in Target : UpdateFails(u) \/ Ask(u)
    PROVE  WaybackInv'
<1>1. ASSUME NEW u \in Target, UpdateFails(u)
      PROVE  WaybackInv'
  <2>1. /\ UNCHANGED <<snapshot, jobs>> /\ faults' \in {faults, faults + 1}
        /\ consumer'.rows \subseteq consumer.rows
        /\ consumer'.pc = "submit" => consumer.pc = "submit"
    BY <1>1 DEF UpdateFails, Fault, At, NextSnapshot
  <2> QED BY <2>1, ConsumerMoves DEF WaybackInv
<1>2. CASE SelectFails
  <2>1. /\ UNCHANGED <<snapshot, jobs>> /\ faults' \in {faults, faults + 1}
        /\ consumer'.rows = {} /\ consumer'.pc # "submit"
    BY <1>2 DEF SelectFails, Fault, At
  <2> QED BY <2>1, ConsumerMoves
<1>3. ASSUME NEW u \in Target, Ask(u)
      PROVE  WaybackInv'
  BY <1>3 DEF Ask, WaybackInv, JobsAccounted, StillQueued
<1> QED BY <1>1, <1>2, <1>3

LEMMA WaybackCrashStep ==
    ASSUME WaybackInv, WaybackCrash
    PROVE  WaybackInv'
<1> USE DEF WaybackInv
<1>1. /\ consumer'.rows = {} /\ consumer'.pc = "idle"
      /\ UNCHANGED snapshot /\ faults' = faults + 1
  BY DEF WaybackCrash, Fault, At
<1>2. \/ UNCHANGED jobs
      \/ \E u \in consumer.rows : /\ consumer.pc = "submit"
                                  /\ jobs' = [jobs EXCEPT ![u] = @ + 1]
  BY DEF WaybackCrash
<1>3. jobs' \in [Target -> Nat] /\ \A v \in Target : jobs'[v] <= jobs[v] + 1
  BY <1>2
<1>4. JobsAccounted'
  BY <1>1, <1>3 DEF JobsAccounted
<1> QED BY <1>1, <1>3, <1>4 DEF StillQueued

LEMMA WaybackTickStep ==
    ASSUME WaybackInv, WaybackTick
    PROVE  WaybackInv'
<1> USE DEF WaybackInv
<1> DEFINE f == [u \in Target |-> [snapshot[u] EXCEPT !.due = @ - 1]]
<1>1. ASSUME NEW u \in Target
      PROVE  IsSnapshot(f[u]) /\ f[u].status = snapshot[u].status
  <2> DEFINE n == snapshot[u].due - 1
  <2>1. f[u] = [snapshot[u] EXCEPT !.due = n]
    OBVIOUS
  <2> HIDE DEF n, f
  <2> QED BY <2>1, SnapshotEdit DEF IsSnapshot
<1>2. DOMAIN f = Target /\ snapshot' = Overdue(f) /\ UNCHANGED <<consumer, jobs, faults>>
  BY DEF WaybackTick
<1> HIDE DEF f
<1>3. /\ DOMAIN snapshot' = Target /\ snapshot' = [u \in Target |-> snapshot'[u]]
      /\ \A u \in Target : IsSnapshot(snapshot'[u]) /\ snapshot'[u].status = snapshot[u].status
  BY <1>1, <1>2, OverdueStatus
<1>4. JobsAccounted' /\ StillQueued'
  BY <1>2, <1>3 DEF JobsAccounted, StillQueued, Unsaved
<1> QED BY <1>2, <1>3, <1>4

LEMMA WaybackPreserved == WaybackInv /\ [WaybackNext]_waybackVars => WaybackInv'
<1> SUFFICES ASSUME WaybackInv, [WaybackNext]_waybackVars PROVE WaybackInv'
  OBVIOUS
<1>1. CASE UNCHANGED waybackVars
  BY <1>1 DEF waybackVars, WaybackInv, JobsAccounted, StillQueued
<1>2. CASE Consumes
  BY <1>2, StartStep, JobStep, SubmittedStep, NotSubmittedStep DEF Consumes
<1> QED BY <1>1, <1>2, EnqueueSnapshotStep, WaybackFaults, WaybackCrashStep, WaybackTickStep
        DEF WaybackNext

\* Any number of sources, any limits and back-off, any number of faults: one job
\* for a source, and one more for each fault at most (wayback.py:290-330).
THEOREM SavedAtMostOnce == WaybackSpec => []SavedOnce
<1>1. WaybackInv => SavedOnce
  BY DEF WaybackInv, JobsAccounted, SavedOnce
<1> QED BY WaybackInitially, WaybackPreserved, <1>1, PTL DEF WaybackSpec

-----------------------------------------------------------------------------
(* The promoter *)

\* A batch is done in an order: there is a best post in every set of posts.
LEMMA BestExists ==
    ASSUME NEW rows \in SUBSET Kept, rows # {}
    PROVE  \E c \in rows : \A d \in rows : Worth[c] >= Worth[d]
<1> DEFINE Best(S, c) == c \in S /\ \A d \in S : Worth[c] >= Worth[d]
           without == {S \in SUBSET Kept : S # {} /\ ~\E c \in Kept : Best(S, c)}
<1>1. SUFFICES ASSUME without # {} PROVE FALSE
  <2>1. rows \notin without
    BY <1>1
  <2> QED BY <2>1
<1>2. IsWellFoundedOn(StrictSubsetOrdering(Kept), SUBSET Kept)
  BY PromoterAssumption, FS_FiniteSubsetsOfFinite, FS_StrictSubsetOrderingWellFounded
<1>3. PICK S \in without : \A T \in without : <<T, S>> \notin StrictSubsetOrdering(Kept)
  <2>1. without \subseteq SUBSET Kept
    OBVIOUS
  <2> HIDE DEF without
  <2> QED BY <1>1, <1>2, <2>1, WFMin
<1>4. PICK c \in S : c \in Kept
  BY <1>3
<1> DEFINE rest == S \ {c}
<1>5. rest \in SUBSET Kept /\ <<rest, S>> \in StrictSubsetOrdering(Kept)
  BY <1>3, <1>4 DEF StrictSubsetOrdering
<1>6. rest \notin without
  BY <1>3, <1>5
<1>7. \A d \in Kept : Worth[d] \in Nat
  BY PromoterAssumption
<1>8. CASE rest = {}
  <2>1. Best(S, c)
    BY <1>4, <1>7, <1>8
  <2> QED BY <1>3, <1>4, <2>1
<1>9. CASE rest # {}
  <2>1. PICK b \in Kept : Best(rest, b)
    BY <1>5, <1>6, <1>9
  <2>2. Best(S, b) \/ Best(S, c)
    BY <1>3, <1>4, <1>7, <2>1
  <2> QED BY <1>3, <1>4, <2>1, <2>2
<1> QED BY <1>8, <1>9

Stage == {"idle", "gate", "rewrite", "link", "insert", "mark", "register"}
PastTheGate == {"rewrite", "link", "insert", "mark", "register"}
Origin == [by : {"nobody", "loop", "admin"}, hard : BOOLEAN, clean : BOOLEAN]

PromoterType ==
    /\ text \in [Kept -> Kind]
    /\ hard \subseteq Kept
    /\ DOMAIN promotion = Kept
    /\ linked \subseteq Kept
    /\ public \in [Kept -> Origin]
    /\ promoter \in [Promoters -> [pc : Stage, todo : SUBSET Kept]]
    /\ faults \in Nat

\* Who is past the gate works on a text that may be published, by him; the loop
\* only on posts that are gone; and who marks a post has published it.
AtWork ==
    \A w \in Promoters : promoter[w].pc # "idle" =>
        /\ promoter[w].todo # {}
        /\ w = Automatic => promoter[w].todo \subseteq hard
        /\ promoter[w].pc \in PastTheGate =>
             text[Current(w)] # "private" /\ ~Manual(w, Current(w))
        /\ promoter[w].pc \in {"mark", "register"} => Published(Current(w))

PromoterInv == PromoterType /\ AtWork /\ PromotionIsSound

LEMMA CurrentType ==
    ASSUME PromoterInv, NEW w \in Promoters, promoter[w].pc # "idle"
    PROVE  Current(w) \in promoter[w].todo /\ Current(w) \in Kept
<1>1. promoter[w].todo \in SUBSET Kept /\ promoter[w].todo # {}
  BY DEF PromoterInv, PromoterType, AtWork
<1> QED BY <1>1, BestExists DEF Current

LEMMA PromoterInitially == PromoterInit => PromoterInv
<1> SUFFICES ASSUME PromoterInit PROVE PromoterInv
  OBVIOUS
<1>1. None \in Origin /\ None.by = "nobody" /\ None.clean
  BY DEF None, Origin
<1>2. Waiting \in [pc : Stage, todo : SUBSET Kept] /\ Waiting.pc = "idle"
  BY DEF Waiting, Stage
<1>3. PromoterType
  BY <1>1, <1>2, PromoterAssumption DEF PromoterInit, PromoterType
<1>4. AtWork
  BY <1>2 DEF PromoterInit, AtWork
<1>5. PromotionIsSound
  BY <1>1 DEF PromoterInit, PromotionIsSound, PublishedWithCare, LinkIsTrue, WitnessHandedOver,
              Published
<1> QED BY <1>3, <1>4, <1>5 DEF PromoterInv

\* The others stay where they are.
LEMMA WorksStep ==
    ASSUME PromoterInv, NEW w \in Promoters, NEW pc \in Stage, NEW todo \in SUBSET Kept,
           Works(w, pc, todo)
    PROVE  /\ promoter' \in [Promoters -> [pc : Stage, todo : SUBSET Kept]]
           /\ promoter'[w].pc = pc /\ promoter'[w].todo = todo
           /\ todo = promoter[w].todo => Current(w)' = Current(w)
           /\ \A v \in Promoters \ {w} : promoter'[v] = promoter[v] /\ Current(v)' = Current(v)
<1>1. /\ promoter' \in [Promoters -> [pc : Stage, todo : SUBSET Kept]]
      /\ promoter'[w].pc = pc /\ promoter'[w].todo = todo
      /\ \A v \in Promoters \ {w} : promoter'[v] = promoter[v]
  BY DEF Works, PromoterInv, PromoterType
<1>2. ASSUME NEW v \in Promoters, promoter'[v].todo = promoter[v].todo
      PROVE  Current(v)' = Current(v)
  BY <1>2 DEF Current
<1> QED BY <1>1, <1>2

\* Marking a post: as promoted only when it has a story.
LEMMA MarkStep ==
    ASSUME PromoterInv, NEW c \in Kept, NEW status, Mark(c, status),
           status = "promoted" => public'[c].by # "nobody",
           \A d \in Kept : Published(d) => public'[d].by # "nobody"
    PROVE  /\ DOMAIN promotion' = Kept /\ linked' \subseteq Kept
           /\ LinkIsTrue'
           /\ faults' \in {faults, faults + 1}
<1>1. /\ DOMAIN promotion' = Kept /\ linked' \subseteq Kept
      /\ faults' \in {faults, faults + 1}
  BY DEF Mark, Fault, PromoterInv, PromoterType
<1>2. ASSUME NEW d \in Kept, d \in linked' \/ promotion'[d] = "promoted"
      PROVE  d \in linked \/ promotion[d] = "promoted" \/ (d = c /\ status = "promoted")
  BY <1>2 DEF Mark, PromoterInv, PromoterType
<1>3. LinkIsTrue'
  BY <1>2 DEF LinkIsTrue, Published, PromoterInv, PromotionIsSound
<1> QED BY <1>1, <1>3

\* Worker w goes on with the same post, or is done with it.
LEMMA AtWorkStep ==
    ASSUME PromoterInv, NEW w \in Promoters, promoter[w].pc # "idle",
           NEW pc \in Stage, NEW todo \in SUBSET Kept, Works(w, pc, todo),
           todo \subseteq promoter[w].todo,
           pc # "idle" => todo # {},
           pc \in PastTheGate =>
               /\ todo = promoter[w].todo
               /\ text[Current(w)] # "private" /\ ~Manual(w, Current(w)),
           pc \in {"mark", "register"} => public'[Current(w)].by # "nobody",
           \A d \in Kept : Published(d) => public'[d].by # "nobody",
           UNCHANGED <<text, hard>>
    PROVE  AtWork'
<1>1. /\ promoter'[w].pc = pc /\ promoter'[w].todo = todo
      /\ todo = promoter[w].todo => Current(w)' = Current(w)
      /\ \A v \in Promoters \ {w} : promoter'[v] = promoter[v] /\ Current(v)' = Current(v)
  BY WorksStep
<1> SUFFICES ASSUME NEW v \in Promoters, promoter'[v].pc # "idle"
    PROVE  /\ promoter'[v].todo # {}
           /\ v = Automatic => promoter'[v].todo \subseteq hard
           /\ promoter'[v].pc \in PastTheGate =>
                text[Current(v)'] # "private" /\ ~Manual(v, Current(v)')
           /\ promoter'[v].pc \in {"mark", "register"} => public'[Current(v)'].by # "nobody"
  BY DEF AtWork, Published, Manual
<1>2. CASE v = w
  <2>1. v = Automatic => promoter[v].todo \subseteq hard
    BY <1>2 DEF PromoterInv, AtWork
  <2>2. {"mark", "register"} \subseteq PastTheGate
    BY DEF PastTheGate
  <2> QED BY <1>1, <1>2, <2>1, <2>2
<1>3. CASE v # w
  <2>1. promoter'[v] = promoter[v] /\ Current(v)' = Current(v) /\ Current(v) \in Kept
    BY <1>1, <1>3, CurrentType
  <2> QED BY <2>1 DEF PromoterInv, AtWork
<1> QED BY <1>2, <1>3

\* The sighting is handed over, or will be: worker w keeps its post, has handed it
\* over, never had to, or a fault is to blame.
LEMMA WitnessStep ==
    ASSUME PromoterInv, NEW w \in Promoters, promoter[w].pc # "idle",
           NEW pc \in Stage, NEW todo \in SUBSET Kept, Works(w, pc, todo),
           faults' \in {faults, faults + 1},
           witnessed \subseteq witnessed',
           promoter[w].pc \in {"mark", "register"} =>
               \/ pc \in {"mark", "register"} /\ todo = promoter[w].todo
               \/ Current(w) \in witnessed'
               \/ faults' = faults + 1,
           \A d \in Kept : public'[d].by # "nobody" =>
               \/ Published(d)
               \/ d = Current(w) /\ pc = "mark" /\ todo = promoter[w].todo
    PROVE  WitnessHandedOver'
<1>1. /\ promoter'[w].pc = pc /\ promoter'[w].todo = todo
      /\ todo = promoter[w].todo => Current(w)' = Current(w)
      /\ \A v \in Promoters \ {w} : promoter'[v] = promoter[v] /\ Current(v)' = Current(v)
  BY WorksStep
<1> SUFFICES ASSUME faults' = 0, NEW c \in Kept, public'[c].by # "nobody"
    PROVE  c \in witnessed' \/ \E v \in Promoters :
               promoter'[v].pc \in {"mark", "register"} /\ Current(v)' = c
  BY DEF WitnessHandedOver, Published
<1>2. faults = 0 /\ faults' = faults
  BY DEF PromoterInv, PromoterType
<1>3. CASE c = Current(w) /\ pc = "mark" /\ todo = promoter[w].todo
  BY <1>1, <1>3
<1>4. CASE Published(c)
  <2>1. CASE c \in witnessed
    BY <2>1
  <2>2. CASE \E v \in Promoters : promoter[v].pc \in {"mark", "register"} /\ Current(v) = c
    <3>1. PICK v \in Promoters : promoter[v].pc \in {"mark", "register"} /\ Current(v) = c
      BY <2>2
    <3>2. CASE v # w
      BY <1>1, <3>1, <3>2
    <3>3. CASE v = w
      BY <1>1, <1>2, <3>1, <3>3 DEF PromoterInv, PromoterType
    <3> QED BY <3>2, <3>3
  <2> QED BY <1>2, <1>4, <2>1, <2>2 DEF PromoterInv, PromotionIsSound, WitnessHandedOver
<1> QED BY <1>3, <1>4

\* A step of worker w that publishes nothing.
LEMMA QuietStep ==
    ASSUME PromoterInv, NEW w \in Promoters, promoter[w].pc # "idle",
           NEW pc \in Stage, NEW todo \in SUBSET Kept, Works(w, pc, todo),
           todo \subseteq promoter[w].todo,
           pc # "idle" => todo # {},
           pc \in PastTheGate =>
               /\ todo = promoter[w].todo
               /\ text[Current(w)] # "private" /\ ~Manual(w, Current(w)),
           pc \in {"mark", "register"} => Published(Current(w)),
           promoter[w].pc \in {"mark", "register"} =>
               \/ pc \in {"mark", "register"} /\ todo = promoter[w].todo
               \/ Current(w) \in witnessed'
               \/ faults' = faults + 1,
           \/ UNCHANGED <<promotion, linked>> /\ faults' \in {faults, faults + 1}
           \/ \E status : /\ Mark(Current(w), status)
                          /\ status = "promoted" => Published(Current(w)),
           witnessed \subseteq witnessed',
           UNCHANGED <<text, hard, public>>
    PROVE  PromoterInv'
<1>1. Current(w) \in Kept
  BY CurrentType
<1>2. promoter' \in [Promoters -> [pc : Stage, todo : SUBSET Kept]]
  BY WorksStep
<1>3. DOMAIN promotion' = Kept /\ linked' \subseteq Kept /\ LinkIsTrue'
      /\ faults' \in {faults, faults + 1}
  <2>1. CASE UNCHANGED <<promotion, linked>> /\ faults' \in {faults, faults + 1}
    BY <2>1 DEF PromoterInv, PromoterType, PromotionIsSound, LinkIsTrue, Published
  <2>2. CASE \E status : /\ Mark(Current(w), status)
                         /\ status = "promoted" => Published(Current(w))
    BY <1>1, <2>2, MarkStep DEF Published
  <2> QED BY <2>1, <2>2
<1>4. PromoterType'
  BY <1>2, <1>3 DEF PromoterInv, PromoterType
<1>5. AtWork'
  BY AtWorkStep DEF Published
<1>6. WitnessHandedOver'
  BY <1>3, WitnessStep DEF Published
<1>7. PublishedWithCare'
  BY DEF PromoterInv, PromotionIsSound, PublishedWithCare
<1> QED BY <1>3, <1>4, <1>5, <1>6, <1>7 DEF PromoterInv, PromotionIsSound

\* Done with a post: with the next one to the gate, or to rest.
LEMMA DoneStep ==
    ASSUME PromoterInv, NEW w \in Promoters, promoter[w].pc # "idle", DoneWith(w),
           promoter[w].pc \in {"mark", "register"} =>
               Current(w) \in witnessed' \/ faults' = faults + 1,
           \/ UNCHANGED <<promotion, linked>> /\ faults' \in {faults, faults + 1}
           \/ \E status : /\ Mark(Current(w), status)
                          /\ status = "promoted" => Published(Current(w)),
           witnessed \subseteq witnessed',
           UNCHANGED <<text, hard, public>>
    PROVE  PromoterInv'
<1> DEFINE pc == IF RestOf(w) = {} THEN "idle" ELSE "gate"
<1>1. pc \in Stage /\ pc \notin PastTheGate /\ pc \notin {"mark", "register"}
      /\ (pc # "idle" => RestOf(w) # {})
  BY DEF Stage, PastTheGate
<1>2. RestOf(w) \in SUBSET Kept /\ RestOf(w) \subseteq promoter[w].todo
  BY DEF RestOf, PromoterInv, PromoterType
<1>3. Works(w, pc, RestOf(w))
  BY DEF DoneWith
<1> HIDE DEF pc
<1> QED BY <1>1, <1>2, <1>3, QuietStep

\* On with the same post, unpublished so far.
LEMMA OnStep ==
    ASSUME PromoterInv, NEW w \in Promoters, promoter[w].pc # "idle",
           promoter[w].pc \notin {"mark", "register"},
           NEW pc \in {"rewrite", "link", "insert"}, Works(w, pc, promoter[w].todo),
           promoter[w].pc = "gate" => text[Current(w)] # "private" /\ ~Manual(w, Current(w)),
           UNCHANGED <<text, hard, promotion, linked, public, witnessed>>,
           faults' \in {faults, faults + 1}
    PROVE  PromoterInv'
<1>1. promoter[w].todo \in SUBSET Kept /\ promoter[w].todo # {} /\ promoter[w].pc \in Stage
  BY DEF PromoterInv, PromoterType, AtWork
<1>2. text[Current(w)] # "private" /\ ~Manual(w, Current(w))
  BY <1>1 DEF PromoterInv, AtWork, Stage, PastTheGate
<1>3. pc \in Stage /\ pc \notin {"mark", "register"}
  BY DEF Stage
<1> QED BY <1>1, <1>2, <1>3, QuietStep

LEMMA GateStep ==
    ASSUME PromoterInv, NEW w \in Promoters, Gate(w)
    PROVE  PromoterInv'
<1>1. promoter[w].pc = "gate" /\ promoter[w].pc # "idle"
      /\ promoter[w].pc \notin {"mark", "register"}
      /\ UNCHANGED <<text, hard, public, witnessed>>
  BY DEF Gate
<1>2. CASE text[Current(w)] = "private" \/ Manual(w, Current(w))
  <2>1. DoneWith(w) /\ \E status : Mark(Current(w), status) /\ status # "promoted"
    BY <1>2 DEF Gate
  <2> QED BY <1>1, <2>1, DoneStep
<1>3. CASE text[Current(w)] # "private" /\ ~Manual(w, Current(w))
  <2>1. Works(w, "rewrite", promoter[w].todo) /\ UNCHANGED <<promotion, linked, faults>>
    BY <1>3 DEF Gate
  <2> QED BY <1>1, <1>3, <2>1, OnStep
<1> QED BY <1>2, <1>3

LEMMA RewriteStep ==
    ASSUME PromoterInv, NEW w \in Promoters, Rewrite(w) \/ RewriteFails(w)
    PROVE  PromoterInv'
<1>1. promoter[w].pc = "rewrite" /\ promoter[w].pc # "idle"
      /\ promoter[w].pc \notin {"mark", "register"}
      /\ UNCHANGED <<text, hard, public, witnessed>>
  BY DEF Rewrite, RewriteFails
<1>2. CASE RewriteFails(w)
  <2>1. /\ DoneWith(w)
        /\ \/ Mark(Current(w), "pending_review")
           \/ UNCHANGED <<promotion, linked, faults>>
    BY <1>2 DEF RewriteFails
  <2> QED BY <1>1, <2>1, DoneStep
<1>3. CASE Rewrite(w) /\ DoneWith(w) /\ \E status \in Unfit : Mark(Current(w), status)
  <2>1. \E status : Mark(Current(w), status) /\ status # "promoted"
    BY <1>3 DEF Unfit
  <2> QED BY <1>1, <1>3, <2>1, DoneStep
<1>4. CASE Works(w, "link", promoter[w].todo) /\ UNCHANGED <<promotion, linked, faults>>
  BY <1>1, <1>4, OnStep
<1> QED BY <1>2, <1>3, <1>4 DEF Rewrite

LEMMA LinkStep ==
    ASSUME PromoterInv, NEW w \in Promoters, Link(w)
    PROVE  PromoterInv'
<1>1. promoter[w].pc = "link" /\ promoter[w].pc # "idle"
      /\ promoter[w].pc \notin {"mark", "register"}
      /\ UNCHANGED <<text, hard, public, witnessed>>
  BY DEF Link
<1>2. CASE Published(Current(w)) /\ Mark(Current(w), "promoted") /\ DoneWith(w)
  BY <1>1, <1>2, DoneStep
<1>3. CASE /\ Works(w, "insert", promoter[w].todo)
           /\ UNCHANGED <<promotion, linked>> /\ faults' \in {faults, faults + 1}
  BY <1>1, <1>3, OnStep
<1> QED BY <1>2, <1>3 DEF Link, Fault

\* The only step that publishes: the gate was passed, and the loop takes only what
\* is gone.
LEMMA InsertStoryStep ==
    ASSUME PromoterInv, NEW w \in Promoters, InsertStory(w)
    PROVE  PromoterInv'
<1> DEFINE c == Current(w)
           gone == c \in hard
           fit == text[c] # "private"
           new == [by |-> IF w = Automatic THEN "loop" ELSE "admin", hard |-> gone, clean |-> fit]
<1>1. promoter[w].pc = "insert" /\ promoter[w].pc # "idle"
      /\ promoter[w].pc \notin {"mark", "register"}
      /\ UNCHANGED <<text, hard, witnessed>>
  BY DEF InsertStory
<1>2. c \in Kept /\ c \in promoter[w].todo /\ promoter[w].todo \in SUBSET Kept
      /\ promoter[w].todo # {}
  BY <1>1, CurrentType DEF PromoterInv, PromoterType, AtWork
<1>3. CASE Published(c)
  <2>1. Mark(c, "promoted") /\ DoneWith(w) /\ UNCHANGED public
    BY <1>3 DEF InsertStory
  <2> QED BY <1>1, <1>3, <2>1, DoneStep
<1>4. CASE ~Published(c)
  <2>1. /\ public' = [public EXCEPT ![c] = new]
        /\ Works(w, "mark", promoter[w].todo)
        /\ UNCHANGED <<promotion, linked, faults>>
    BY <1>4 DEF InsertStory
  <2>2. fit /\ ~Manual(w, c) /\ (w = Automatic => gone)
    BY <1>1, <1>2 DEF PromoterInv, AtWork, PastTheGate
  <2>3. new \in Origin /\ new.by # "nobody" /\ (new.by = "loop" <=> w = Automatic)
    <3>1. gone \in BOOLEAN /\ fit \in BOOLEAN
      OBVIOUS
    <3> HIDE DEF gone, fit
    <3> QED BY <3>1 DEF Origin
  <2>4. new.clean /\ (w = Automatic => new.hard)
    <3> HIDE DEF gone, fit
    <3> QED BY <2>2
  <2> HIDE DEF new, c
  <2>5. /\ public' \in [Kept -> Origin]
        /\ \A d \in Kept : public'[d] = IF d = c THEN new ELSE public[d]
    BY <1>2, <2>1, <2>3 DEF PromoterInv, PromoterType
  <2>6. \A d \in Kept : Published(d) => public'[d].by # "nobody"
    BY <2>3, <2>5 DEF Published
  <2>7. PromoterType'
    <3>1. promoter' \in [Promoters -> [pc : Stage, todo : SUBSET Kept]]
      BY <1>2, <2>1, WorksStep DEF Stage
    <3> QED BY <1>1, <2>1, <2>5, <3>1 DEF PromoterInv, PromoterType
  <2>8. AtWork'
    <3>1. "mark" \in Stage /\ public'[c].by # "nobody"
      BY <1>2, <2>3, <2>5 DEF Stage
    <3>2. text[c] # "private" /\ ~Manual(w, c)
      BY <2>2
    <3> QED BY <1>1, <1>2, <2>1, <2>6, <3>1, <3>2, AtWorkStep DEF c
  <2>9. PublishedWithCare'
    <3>1. text[c] = "critique" /\ w = Automatic => AutoCritique
      BY <2>2 DEF Manual
    <3> QED BY <1>1, <2>3, <2>4, <2>5, <3>1 DEF PromoterInv, PromotionIsSound, PublishedWithCare
  <2>10. LinkIsTrue'
    BY <2>1, <2>6 DEF PromoterInv, PromotionIsSound, LinkIsTrue, Published
  <2>11. WitnessHandedOver'
    <3>1. \A d \in Kept : public'[d].by # "nobody" => Published(d) \/ d = c
      BY <2>5 DEF Published
    <3>2. "mark" \in Stage
      BY DEF Stage
    <3> QED BY <1>1, <1>2, <2>1, <3>1, <3>2, WitnessStep DEF c, PromoterInv, PromoterType
  <2> QED BY <2>7, <2>8, <2>9, <2>10, <2>11 DEF PromoterInv, PromotionIsSound
<1> QED BY <1>3, <1>4

LEMMA InsertFailsStep ==
    ASSUME PromoterInv, NEW w \in Promoters, InsertFails(w)
    PROVE  PromoterInv'
<1>1. promoter[w].pc = "insert" /\ promoter[w].pc # "idle"
      /\ promoter[w].pc \notin {"mark", "register"}
      /\ UNCHANGED <<text, hard, promotion, linked, public, witnessed>>
      /\ DoneWith(w) /\ faults' = faults + 1
  BY DEF InsertFails, Fault
<1> QED BY <1>1, DoneStep

LEMMA MarkPromotedStep ==
    ASSUME PromoterInv, NEW w \in Promoters, MarkPromoted(w)
    PROVE  PromoterInv'
<1>1. promoter[w].pc = "mark" /\ promoter[w].pc # "idle"
      /\ Works(w, "register", promoter[w].todo) /\ Mark(Current(w), "promoted")
      /\ UNCHANGED <<text, hard, public, witnessed>>
  BY DEF MarkPromoted
<1>2. /\ promoter[w].todo \in SUBSET Kept /\ promoter[w].todo # {}
      /\ text[Current(w)] # "private" /\ ~Manual(w, Current(w))
      /\ Published(Current(w))
  BY <1>1 DEF PromoterInv, PromoterType, AtWork, PastTheGate
<1>3. "register" \in Stage
  BY DEF Stage
<1> QED BY <1>1, <1>2, <1>3, QuietStep

LEMMA RegisterWitnessStep ==
    ASSUME PromoterInv, NEW w \in Promoters, RegisterWitness(w)
    PROVE  PromoterInv'
<1>1. promoter[w].pc = "register" /\ promoter[w].pc # "idle" /\ DoneWith(w)
      /\ UNCHANGED <<text, hard, promotion, linked, public>>
  BY DEF RegisterWitness
<1>2. \/ witnessed' = witnessed \cup {Current(w)} /\ UNCHANGED faults
      \/ faults' = faults + 1 /\ UNCHANGED witnessed
  BY DEF RegisterWitness, Fault
<1> QED BY <1>1, <1>2, DoneStep

\* A batch, or a request, begins.
LEMMA BeginPromotionStep ==
    ASSUME PromoterInv, NEW w \in Promoters, NEW rows \in SUBSET Kept, rows # {},
           promoter[w].pc = "idle", Works(w, "gate", rows),
           w = Automatic => rows \subseteq hard,
           UNCHANGED <<text, hard, promotion, linked, public, witnessed, faults>>
    PROVE  PromoterInv'
<1>1. "gate" \in Stage /\ "gate" \notin PastTheGate
  BY DEF Stage, PastTheGate
<1>2. /\ promoter' \in [Promoters -> [pc : Stage, todo : SUBSET Kept]]
      /\ promoter'[w].pc = "gate" /\ promoter'[w].todo = rows
      /\ \A v \in Promoters \ {w} : promoter'[v] = promoter[v] /\ Current(v)' = Current(v)
  BY <1>1, WorksStep
<1>3. PromoterType'
  BY <1>2 DEF PromoterInv, PromoterType
<1>4. AtWork'
  <2> SUFFICES ASSUME NEW v \in Promoters, promoter'[v].pc # "idle"
      PROVE  /\ promoter'[v].todo # {}
             /\ v = Automatic => promoter'[v].todo \subseteq hard
             /\ promoter'[v].pc \in PastTheGate =>
                  text[Current(v)'] # "private" /\ ~Manual(v, Current(v)')
             /\ promoter'[v].pc \in {"mark", "register"} => public'[Current(v)'].by # "nobody"
    BY DEF AtWork, Published, Manual
  <2>1. CASE v = w
    BY <1>1, <1>2, <2>1
  <2>2. CASE v # w
    BY <1>2, <2>2 DEF PromoterInv, AtWork, Published
  <2> QED BY <2>1, <2>2
<1>5. WitnessHandedOver'
  <2>1. ASSUME NEW v \in Promoters, promoter[v].pc \in {"mark", "register"}
        PROVE  promoter'[v] = promoter[v] /\ Current(v)' = Current(v)
    BY <1>2, <2>1
  <2> QED BY <2>1 DEF PromoterInv, PromotionIsSound, WitnessHandedOver, Published
<1>6. PublishedWithCare' /\ LinkIsTrue'
  BY DEF PromoterInv, PromotionIsSound, PublishedWithCare, LinkIsTrue, Published
<1> QED BY <1>3, <1>4, <1>5, <1>6 DEF PromoterInv, PromotionIsSound

LEMMA PromoterCrashStep ==
    ASSUME PromoterInv, PromoterCrash
    PROVE  PromoterInv'
<1>1. Waiting \in [pc : Stage, todo : SUBSET Kept] /\ Waiting.pc = "idle"
  BY DEF Waiting, Stage
<1>2. /\ \A w \in Promoters : promoter'[w].pc = "idle"
      /\ promoter' \in [Promoters -> [pc : Stage, todo : SUBSET Kept]]
      /\ UNCHANGED <<text, hard, promotion, linked, public, witnessed>>
      /\ faults' = faults + 1 /\ faults \in Nat
  BY <1>1 DEF PromoterCrash, Fault, PromoterInv, PromoterType
<1>3. faults' # 0
  BY <1>2
<1> QED BY <1>2, <1>3 DEF PromoterInv, PromoterType, AtWork, PromotionIsSound,
        PublishedWithCare, LinkIsTrue, WitnessHandedOver, Published

LEMMA GoesHardStep ==
    ASSUME PromoterInv, (\E c \in Kept : GoesHard(c)) \/ UNCHANGED promoterVars
    PROVE  PromoterInv'
<1>1. /\ hard \subseteq hard' /\ hard' \subseteq Kept
      /\ UNCHANGED <<text, promotion, linked, public, witnessed, promoter, faults>>
  BY DEF GoesHard, promoterVars, PromoterInv, PromoterType
<1>2. \A w \in Promoters : Current(w)' = Current(w)
  BY <1>1 DEF Current
<1> QED BY <1>1, <1>2 DEF PromoterInv, PromoterType, AtWork, PromotionIsSound,
        PublishedWithCare, LinkIsTrue, WitnessHandedOver, Published, Manual

LEMMA PromoterPreserved == PromoterInv /\ [PromoterNext]_promoterVars => PromoterInv'
<1> SUFFICES ASSUME PromoterInv, [PromoterNext]_promoterVars PROVE PromoterInv'
  OBVIOUS
<1>1. CASE SelectPromotable
  <2>1. PICK rows \in SUBSET Promotable : rows # {} /\ Works(Automatic, "gate", rows)
    BY <1>1 DEF SelectPromotable
  <2>2. rows \subseteq hard /\ rows \in SUBSET Kept /\ Automatic \in Promoters
    BY <2>1 DEF Promotable, PromoterInv, PromoterType, Promoters
  <2> QED BY <1>1, <2>1, <2>2, BeginPromotionStep DEF SelectPromotable
<1>2. ASSUME NEW a \in Admin, NEW c \in Kept, AskPromotion(a, c)
      PROVE  PromoterInv'
  <2>1. a \in Promoters /\ a # Automatic
    BY PromoterAssumption DEF Promoters
  <2> QED BY <1>2, <2>1, BeginPromotionStep DEF AskPromotion
<1>3. ASSUME NEW w \in Promoters, PromoterStep(w)
      PROVE  PromoterInv'
  BY <1>3, GateStep, RewriteStep, LinkStep, InsertStoryStep, InsertFailsStep, MarkPromotedStep,
     RegisterWitnessStep DEF PromoterStep
<1> QED BY <1>1, <1>2, <1>3, GoesHardStep, PromoterCrashStep DEF PromoterNext

\* Any number of posts and administrators, any batch and any order of worth: what
\* is published may be, its post knows of it only when it is, and the collector's
\* sighting is handed over (promoter.py:156-158, 224-229, 293-297, 335-336).
THEOREM PromotionSound == PromoterSpec => []PromotionIsSound
<1>1. PromoterInv => PromotionIsSound
  BY DEF PromoterInv
<1> QED BY PromoterInitially, PromoterPreserved, <1>1, PTL DEF PromoterSpec
=============================================================================
