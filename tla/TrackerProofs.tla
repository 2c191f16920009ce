----------------------------- MODULE TrackerProofs -----------------------------
(***************************************************************************)
(* Theorems about the citation tracker (CitationTracker): what a row may   *)
(* say of its source, for any number of rows, rechecks and registrations,  *)
(* and in which one way a loss may precede the life it is counted after.   *)
(***************************************************************************)
EXTENDS CitationTracker, FiniteSetTheorems, TLAPS

-----------------------------------------------------------------------------
(* The shape of the records *)

RowFields == {"status", "http", "base", "checks", "errors"}
BaseFields == {"captured", "at", "long", "hash", "del", "blk"}
PastFields == {"alive", "answered", "lost", "crossed", "unchanged", "gone", "seen", "overtaken"}
ProcFields == {"pc", "story", "todo", "newly", "cite", "read", "verdict", "page", "later"}

IsBase(b) == DOMAIN b = BaseFields
IsRow(r) == DOMAIN r = RowFields /\ IsBase(r.base)
IsPast(h) == DOMAIN h = PastFields
IsProc(q) == DOMAIN q = ProcFields

\* The codes that are final.
HardCode == {404, 410}

\* A row agrees with what is known of its source: a baseline was taken from a
\* source seen alive, a phrase of deletion is part of it only if the article was
\* there, and a final code was answered by the source itself.
Founded(r, h) ==
    /\ r.base.captured => h.alive
    /\ r.base.captured /\ r.base.del => h.seen.article = "live"
    /\ r.status = "deleted" /\ r.http \in HardCode => h.answered \in HardCode

\* A verdict v on page o, not written yet, agrees with what is known of c.
Reasoned(v, o, h) ==
    /\ v.http \in HardCode => o.code \in HardCode
    /\ v.base.captured => v.status = "live" /\ h.alive
    /\ v.base.captured /\ v.base.del => o.article = "live"

\* The same of all that a process holds: what it is about to register, the rows
\* it has read, the verdict it is about to write.
Holds(q, past) ==
    /\ q.pc = "register" /\ q.page.net = "ok" =>
         /\ q.page.article = "live"
         /\ \A c \in Citation : StoryOf[c] = q.story => past[c].alive
    /\ \A t \in q.todo : t.cite \in Citation
    /\ q.pc = "write" =>
         /\ q.cite \in Citation
         /\ IsRow(q.verdict)
         /\ Reasoned(q.verdict, q.page, past[q.cite])

RowsFounded(rows, past) ==
    /\ DOMAIN rows = Citation /\ DOMAIN past = Citation
    /\ \A c \in Citation : IsRow(rows[c]) /\ IsPast(past[c]) /\ Founded(rows[c], past[c])

ProcsHold(ps, past) ==
    /\ DOMAIN ps = Proc
    /\ \A p \in Proc : IsProc(ps[p]) /\ Holds(ps[p], past)

EvidenceInv ==
    /\ site \in [Citation -> Page] /\ known \subseteq Citation
    /\ RowsFounded(row, hist)
    /\ ProcsHold(proc, hist)

LEMMA IdleHolds ==
    /\ IsProc(Idle) /\ Idle.pc = "idle" /\ Idle.todo = {} /\ Idle.page = Silence
    /\ Silence.net = "none"
    /\ \A past : Holds(Idle, past)
<1>1. IsProc(Idle) /\ Idle.pc = "idle" /\ Idle.todo = {} /\ Idle.page = Silence
  BY DEF Idle, IsProc, ProcFields
<1>2. Silence.net = "none"
  BY DEF Silence
<1> QED BY <1>1, <1>2 DEF Holds

LEMMA NewRowIsRow ==
    /\ IsRow(NewRow) /\ NewRow.base = NoBase /\ ~NoBase.captured /\ IsBase(NoBase)
    /\ NewRow.status = "unchecked"
BY DEF NewRow, NoBase, IsRow, IsBase, RowFields, BaseFields

LEMMA EvidenceInitially == Init => EvidenceInv
<1> SUFFICES ASSUME Init PROVE EvidenceInv
  OBVIOUS
<1>1. IsPast(NoPast)
  BY DEF NoPast, IsPast, PastFields
<1>2. ASSUME NEW h PROVE Founded(NewRow, h)
  <2>1. ~NewRow.base.captured /\ NewRow.status # "deleted"
    BY NewRowIsRow
  <2> QED BY <2>1 DEF Founded
<1>3. RowsFounded(row, hist)
  BY <1>1, <1>2, NewRowIsRow DEF Init, RowsFounded
<1>4. ProcsHold(proc, hist)
  BY IdleHolds DEF Init, ProcsHold
<1> QED BY <1>3, <1>4 DEF Init, EvidenceInv

-----------------------------------------------------------------------------
(* Steps that move one process, or none *)

\* What a process holds stays well founded: sources seen alive stay so.
LEMMA HoldsOn ==
    ASSUME NEW q, NEW past, NEW after, Holds(q, past),
           \A c \in Citation : past[c].alive => after[c].alive
    PROVE  Holds(q, after)
BY DEF Holds, Reasoned

\* One process moves; rows and the past stay.
LEMMA ProcMoves ==
    ASSUME EvidenceInv, UNCHANGED <<known, row, site, hist>>, NEW p \in Proc, NEW q,
           Becomes(p, q), IsProc(q), Holds(q, hist)
    PROVE  EvidenceInv'
<1>1. DOMAIN proc' = Proc /\ \A r \in Proc : proc'[r] = IF r = p THEN q ELSE proc[r]
  BY DEF EvidenceInv, ProcsHold, Becomes
<1>2. ProcsHold(proc', hist')
  BY <1>1 DEF EvidenceInv, ProcsHold
<1> QED BY <1>2 DEF EvidenceInv

\* Going on to register with nothing seen, to read again, or to be idle.
LEMMA Asking ==
    ASSUME NEW s, NEW past, NEW pc \in {"register", "again"}
    PROVE  LET q == [Idle EXCEPT !.pc = pc, !.story = s]
           IN  IsProc(q) /\ Holds(q, past)
<1> DEFINE q == [Idle EXCEPT !.pc = pc, !.story = s]
<1>1. IsProc(q) /\ q.todo = {} /\ q.page = Silence /\ q.pc = pc
  BY IdleHolds DEF IsProc, ProcFields
<1> HIDE DEF q
<1>2. Holds(q, past)
  BY <1>1, IdleHolds DEF Holds
<1> QED BY <1>1, <1>2 DEF q

\* Going on to fetch some rows.
LEMMA Reading ==
    ASSUME NEW past, NEW todo, \A t \in todo : t.cite \in Citation
    PROVE  LET q == [Idle EXCEPT !.pc = "rows", !.todo = todo]
           IN  IsProc(q) /\ Holds(q, past)
<1> DEFINE q == [Idle EXCEPT !.pc = "rows", !.todo = todo]
<1>1. IsProc(q) /\ q.todo = todo /\ q.pc = "rows"
  BY IdleHolds DEF IsProc, ProcFields
<1> HIDE DEF q
<1>2. Holds(q, past)
  BY <1>1 DEF Holds
<1> QED BY <1>1, <1>2 DEF q

LEMMA ViewStep ==
    ASSUME EvidenceInv, NEW t \in Proc, NEW s \in Story, View(t, s)
    PROVE  EvidenceInv'
BY ProcMoves, Asking DEF View, db

LEMMA AfterRegisterHolds ==
    ASSUME NEW p \in Proc, NEW past
    PROVE  IsProc(AfterRegister(p)) /\ Holds(AfterRegister(p), past)
BY Asking, IdleHolds DEF AfterRegister

LEMMA RegisterFailsStep ==
    ASSUME EvidenceInv, NEW p \in Proc, RegisterFails(p)
    PROVE  EvidenceInv'
BY ProcMoves, AfterRegisterHolds DEF RegisterFails, db

LEMMA SnapshotCite ==
    ASSUME NEW rows \in SUBSET Citation, NEW found
    PROVE  \A t \in {Snapshot(c, found) : c \in rows} : t.cite \in Citation
<1>1. \A c \in rows : Snapshot(c, found).cite = c
  BY DEF Snapshot
<1> QED BY <1>1

LEMMA SelectBatchStep ==
    ASSUME EvidenceInv, SelectBatch
    PROVE  EvidenceInv'
<1>1. PICK found \in BOOLEAN, rows \in SUBSET known :
         Becomes(Loop, [Idle EXCEPT !.pc = "rows", !.todo = {Snapshot(c, found) : c \in rows}])
  BY DEF SelectBatch, Batch
<1> DEFINE todo == {Snapshot(c, found) : c \in rows}
<1>2. \A t \in todo : t.cite \in Citation
  BY SnapshotCite DEF EvidenceInv
<1>3. Becomes(Loop, [Idle EXCEPT !.pc = "rows", !.todo = todo])
  BY <1>1
<1> HIDE DEF todo
<1>4. Loop \in Proc
  BY DEF Proc, Watcher
<1> QED BY <1>2, <1>3, <1>4, ProcMoves, Reading DEF SelectBatch, db

LEMMA SelectStoryStep ==
    ASSUME EvidenceInv, NEW k \in Proc, NEW s \in Story, SelectStory(k, s)
    PROVE  EvidenceInv'
<1>1. PICK found \in BOOLEAN :
         Becomes(k,
              IF CitationsOf(s) \cap known # {}
              THEN [Idle EXCEPT !.pc = "rows",
                                !.todo = {Snapshot(c, found) : c \in CitationsOf(s) \cap known}]
              ELSE IF proc[k].pc = "idle"
              THEN [Idle EXCEPT !.pc = "register", !.story = s]
              ELSE Idle)
  BY DEF SelectStory
<1> DEFINE todo == {Snapshot(c, found) : c \in CitationsOf(s) \cap known}
<1>2. \A t \in todo : t.cite \in Citation
  BY SnapshotCite DEF EvidenceInv
<1>3. \/ Becomes(k, [Idle EXCEPT !.pc = "rows", !.todo = todo])
      \/ Becomes(k, [Idle EXCEPT !.pc = "register", !.story = s])
      \/ Becomes(k, Idle)
  BY <1>1
<1> HIDE DEF todo
<1>4. UNCHANGED <<known, row, site, hist>>
  BY DEF SelectStory, db
<1>5. CASE Becomes(k, [Idle EXCEPT !.pc = "rows", !.todo = todo])
  BY <1>2, <1>4, <1>5, ProcMoves, Reading
<1>6. CASE Becomes(k, [Idle EXCEPT !.pc = "register", !.story = s])
  BY <1>4, <1>6, ProcMoves, Asking
<1>7. CASE Becomes(k, Idle)
  BY <1>4, <1>7, ProcMoves, IdleHolds
<1> QED BY <1>3, <1>5, <1>6, <1>7

\* Done with a row.
LEMMA NextRowHolds ==
    ASSUME EvidenceInv, NEW p \in Proc, NEW newly, NEW past
    PROVE  IsProc(NextRow(p, newly)) /\ Holds(NextRow(p, newly), past)
<1> DEFINE q == NextRow(p, newly)
<1>1. IsProc(proc[p]) /\ \A t \in proc[p].todo : t.cite \in Citation
  BY DEF EvidenceInv, ProcsHold, Holds
<1>2. IsProc(q) /\ q.pc = "rows" /\ q.todo = proc[p].todo
  BY <1>1 DEF NextRow, IsProc, ProcFields
<1> HIDE DEF q
<1>3. Holds(q, past)
  BY <1>1, <1>2 DEF Holds
<1> QED BY <1>2, <1>3 DEF q

LEMMA WriteFailsStep ==
    ASSUME EvidenceInv, NEW p \in Proc, WriteFails(p)
    PROVE  EvidenceInv'
BY ProcMoves, NextRowHolds DEF WriteFails, db

LEMMA TellStep ==
    ASSUME EvidenceInv, NEW p \in Proc, Tell(p)
    PROVE  EvidenceInv'
<1>1. UNCHANGED <<known, row, site, hist>>
  BY DEF Tell, db
<1>2. CASE Becomes(p, Idle)
  BY <1>1, <1>2, ProcMoves, IdleHolds
<1>3. ASSUME NEW s, Becomes(p, [proc[p] EXCEPT !.newly = @ \ {s}])
      PROVE  EvidenceInv'
  <2> DEFINE newly == proc[p].newly \ {s}
             q == [proc[p] EXCEPT !.newly = newly]
  <2>1. IsProc(proc[p]) /\ Holds(proc[p], hist)
    BY DEF EvidenceInv, ProcsHold
  <2>2. Becomes(p, q)
    BY <1>3
  <2> HIDE DEF newly
  <2>3. /\ IsProc(q) /\ q.pc = proc[p].pc /\ q.todo = proc[p].todo /\ q.page = proc[p].page
        /\ q.story = proc[p].story /\ q.cite = proc[p].cite /\ q.verdict = proc[p].verdict
    BY <2>1 DEF IsProc, ProcFields
  <2> HIDE DEF q
  <2>4. Holds(q, hist)
    BY <2>1, <2>3 DEF Holds
  <2> QED BY <1>1, <2>2, <2>3, <2>4, ProcMoves
<1> QED BY <1>2, <1>3 DEF Tell

\* The web, the clock and a crash.
LEMMA OtherSteps ==
    ASSUME EvidenceInv, (\E c \in Citation : Change(c)) \/ Tick \/ Crash \/ UNCHANGED vars
    PROVE  EvidenceInv'
<1>1. CASE \E c \in Citation : Change(c)
  <2>1. PICK c \in Citation, o \in Page : site' = [site EXCEPT ![c] = o]
    BY <1>1 DEF Change
  <2>2. site' \in [Citation -> Page]
    BY <2>1 DEF EvidenceInv
  <2> QED BY <1>1, <2>2 DEF EvidenceInv, Change, db
<1>2. CASE Tick
  BY <1>2 DEF Tick, EvidenceInv
<1>3. CASE Crash
  <2>1. ProcsHold(proc', hist)
    BY <1>3, IdleHolds DEF Crash, ProcsHold
  <2> QED BY <1>3, <2>1 DEF Crash, db, EvidenceInv
<1>4. CASE UNCHANGED vars
  BY <1>4 DEF vars, db, EvidenceInv
<1> QED BY <1>1, <1>2, <1>3, <1>4
-----------------------------------------------------------------------------
(* Publishing, registering *)

\* What the collector has seen is an article that is there.
LEMMA CapturedIsLive ==
    ASSUME NEW o \in Captured
    PROVE  o.article = "live"
BY DEF Captured

LEMMA PublishStep ==
    ASSUME EvidenceInv, NEW t \in Proc, NEW s \in Story, Publish(t, s)
    PROVE  EvidenceInv'
<1>1. PICK o \in {Silence} \cup Captured :
         /\ Becomes(t, [Idle EXCEPT !.pc = "register", !.story = s, !.page = o])
         /\ hist' = [c \in Citation |->
                       IF StoryOf[c] = s /\ o.net = "ok"
                       THEN [hist[c] EXCEPT !.alive = TRUE] ELSE hist[c]]
  BY DEF Publish
<1> DEFINE q == [Idle EXCEPT !.pc = "register", !.story = s, !.page = o]
<1>2. IsProc(q) /\ q.pc = "register" /\ q.story = s /\ q.page = o /\ q.todo = {}
  BY IdleHolds DEF IsProc, ProcFields
<1>3. Becomes(t, q)
  BY <1>1
<1> HIDE DEF q
<1>4. \A c \in Citation : IsPast(hist[c]) /\ Founded(row[c], hist[c])
  BY DEF EvidenceInv, RowsFounded
<1>5. ASSUME NEW c \in Citation
      PROVE  /\ IsPast(hist'[c])
             /\ hist[c].alive => hist'[c].alive
             /\ StoryOf[c] = s /\ o.net = "ok" => hist'[c].alive
             /\ hist'[c].seen = hist[c].seen /\ hist'[c].answered = hist[c].answered
  BY <1>1, <1>4 DEF IsPast, PastFields
<1>6. \A c \in Citation : Founded(row[c], hist'[c])
  BY <1>4, <1>5 DEF Founded
<1>7. RowsFounded(row', hist')
  BY <1>1, <1>5, <1>6 DEF RowsFounded, EvidenceInv, Publish
<1>8. Holds(q, hist')
  <2>1. o.net = "ok" => o.article = "live"
    BY CapturedIsLive, IdleHolds
  <2> QED BY <1>2, <1>5, <2>1 DEF Holds
<1>9. ProcsHold(proc', hist')
  <2>1. \A r \in Proc : proc'[r] = IF r = t THEN q ELSE proc[r]
    BY <1>3 DEF Becomes, EvidenceInv, ProcsHold
  <2>2. DOMAIN proc' = Proc
    BY <1>3 DEF Becomes, EvidenceInv, ProcsHold
  <2> QED BY <1>2, <1>5, <1>8, <2>1, <2>2, HoldsOn DEF EvidenceInv, ProcsHold
<1> QED BY <1>7, <1>9 DEF EvidenceInv, Publish

\* The upsert: the status is "unchecked"; a baseline that is handed on, or only
\* its time, comes with a sighting.
LEMMA RegisterStep ==
    ASSUME EvidenceInv, NEW p \in Proc, Register(p)
    PROVE  EvidenceInv'
<1> DEFINE s == proc[p].story
           o == proc[p].page
           mine == CitationsOf(s)
<1>1. PICK found \in BOOLEAN :
         /\ row' = [c \in Citation |->
                      IF c \notin mine THEN row[c]
                      ELSE [row[c] EXCEPT
                              !.status = "unchecked",
                              !.base = IF ~(o.net = "ok") THEN @
                                       ELSE IF found THEN Inherited(@, o)
                                       ELSE [@ EXCEPT !.captured = TRUE]]]
         /\ hist' = [c \in Citation |->
                      IF c \in mine
                      THEN [hist[c] EXCEPT !.seen = IF o.net = "ok" THEN o ELSE @]
                      ELSE hist[c]]
         /\ known' = known \cup mine
         /\ Becomes(p, AfterRegister(p))
         /\ UNCHANGED site
  BY DEF Register
<1>2. /\ \A c \in Citation : IsRow(row[c]) /\ IsPast(hist[c]) /\ Founded(row[c], hist[c])
      /\ o.net = "ok" => o.article = "live" /\ \A c \in mine : hist[c].alive
  BY DEF EvidenceInv, RowsFounded, ProcsHold, Holds, Register, CitationsOf
<1>3. ASSUME NEW c \in mine
      PROVE  /\ IsRow(row'[c]) /\ IsPast(hist'[c]) /\ Founded(row'[c], hist'[c])
             /\ hist'[c].alive = hist[c].alive
  <2> DEFINE old == row[c].base
             b == IF ~(o.net = "ok") THEN old
                  ELSE IF found THEN Inherited(old, o) ELSE [old EXCEPT !.captured = TRUE]
             seen == IF o.net = "ok" THEN o ELSE hist[c].seen
  <2>1. c \in Citation
    BY DEF CitationsOf
  <2>2. IsBase(old)
    BY <1>2, <2>1 DEF IsRow
  <2>3. IsBase(b) /\ b.del = old.del /\ (o.net # "ok" => b = old)
    BY <2>2 DEF Inherited, IsBase, BaseFields
  <2>4. /\ row'[c] = [row[c] EXCEPT !.status = "unchecked", !.base = b]
        /\ hist'[c] = [hist[c] EXCEPT !.seen = seen]
    BY <1>1, <2>1
  <2>5. b.captured => hist[c].alive
    BY <1>2, <2>1, <2>3 DEF Founded
  <2>6. seen.article = "live" \/ (seen = hist[c].seen /\ b.captured = old.captured)
    BY <1>2, <2>3
  <2> HIDE DEF old, b, seen
  <2>7. old = row[c].base
    BY DEF old
  <2>8. IsRow(row'[c]) /\ row'[c].status = "unchecked" /\ row'[c].base = b
    BY <1>2, <2>1, <2>3, <2>4 DEF IsRow, RowFields
  <2>9. IsPast(hist'[c]) /\ hist'[c].seen = seen /\ hist'[c].alive = hist[c].alive
    BY <1>2, <2>1, <2>4 DEF IsPast, PastFields
  <2>10. Founded(row'[c], hist'[c])
    BY <1>2, <2>1, <2>3, <2>5, <2>6, <2>7, <2>8, <2>9 DEF Founded
  <2> QED BY <2>8, <2>9, <2>10
<1>4. \A c \in Citation \ mine : row'[c] = row[c] /\ hist'[c] = hist[c]
  BY <1>1
<1> HIDE DEF mine
<1>5. RowsFounded(row', hist')
  BY <1>1, <1>2, <1>3, <1>4 DEF RowsFounded
<1>6. ProcsHold(proc', hist')
  <2>1. /\ DOMAIN proc' = Proc
        /\ \A r \in Proc : proc'[r] = IF r = p THEN AfterRegister(p) ELSE proc[r]
    BY <1>1 DEF Becomes, EvidenceInv, ProcsHold
  <2>2. \A c \in Citation : hist[c].alive => hist'[c].alive
    BY <1>3, <1>4
  <2> QED BY <2>1, <2>2, HoldsOn, AfterRegisterHolds DEF EvidenceInv, ProcsHold
<1>7. known' \subseteq Citation
  BY <1>1 DEF EvidenceInv, mine, CitationsOf
<1> QED BY <1>1, <1>5, <1>6, <1>7 DEF EvidenceInv
-----------------------------------------------------------------------------
(* Fetching and writing *)

IsVerdict(v) == DOMAIN v = {"status", "http", "base"} /\ IsBase(v.base)

LEMMA VerdictFields ==
    ASSUME NEW status, NEW http
    PROVE  LET v == Verdict(status, http)
           IN  IsVerdict(v) /\ v.status = status /\ v.http = http /\ v.base = NoBase
<1>1. IsBase(NoBase)
  BY NewRowIsRow
<1> QED BY <1>1 DEF Verdict, IsVerdict

\* The only verdict with a baseline is a live one, of that very page, and the page
\* has a phrase of deletion only if its article is there.
LEMMA FirstVerdict ==
    ASSUME NEW o
    PROVE  LET v == [Verdict("live", o.code) EXCEPT !.base = BaseOf(o)]
           IN  /\ IsVerdict(v) /\ v.status = "live" /\ v.http = o.code
               /\ v.base.del = o.del
<1> DEFINE b == BaseOf(o)
           v == [Verdict("live", o.code) EXCEPT !.base = b]
<1>1. IsBase(b) /\ b.del = o.del
  BY DEF BaseOf, IsBase, BaseFields
<1> HIDE DEF b
<1>2. IsVerdict(v) /\ v.status = "live" /\ v.http = o.code /\ v.base = b
  BY <1>1, VerdictFields DEF IsVerdict
<1> QED BY <1>1, <1>2 DEF b

\* A verdict v on page o has its reason in that page.
Judged(v, o) ==
    /\ IsVerdict(v)
    /\ v.http \in {o.code, Null}
    /\ v.base.captured => v.status = "live"
    /\ v.base.captured /\ v.base.del => o.article = "live"

LEMMA PlainVerdict ==
    ASSUME NEW o, NEW status, NEW http \in {o.code, Null}
    PROVE  Judged(Verdict(status, http), o)
BY VerdictFields, NewRowIsRow DEF Judged

LEMMA BodyIsJudged ==
    ASSUME NEW o, NEW base
    PROVE  Judged(DecideBody(o, base), o)
<1> DEFINE first == [Verdict("live", o.code) EXCEPT !.base = BaseOf(o)]
<1>1. /\ IsVerdict(first) /\ first.status = "live" /\ first.http = o.code
      /\ first.base.del = o.del
  BY FirstVerdict
<1>2. \/ \E status : DecideBody(o, base) = Verdict(status, o.code)
      \/ DecideBody(o, base) = first /\ ~(o.del /\ o.article # "live")
  BY DEF DecideBody
<1> HIDE DEF first
<1>3. ~(o.del /\ o.article # "live") => Judged(first, o)
  BY <1>1 DEF Judged
<1> QED BY <1>2, <1>3, PlainVerdict

LEMMA DecideIsJudged ==
    ASSUME NEW o \in Observation, NEW base
    PROVE  Judged(Decide(o, base), o)
<1>1. o.net \in {"ok", "http", "none"}
  BY DEF Observation
<1>2. CASE o.net = "none"
  BY <1>2, PlainVerdict DEF Decide
<1>3. CASE o.net = "http"
  BY <1>3, PlainVerdict DEF Decide
<1>4. CASE o.net = "ok"
  BY <1>4, BodyIsJudged DEF Decide
<1> QED BY <1>1, <1>2, <1>3, <1>4

LEMMA ProxyIsJudged ==
    ASSUME NEW c, NEW o, NEW d, Judged(d, o), NEW v \in ViaProxy(c, o, d)
    PROVE  Judged(v, o)
<1>1. v \in {d, Verdict("deleted", d.http), Verdict("live", d.http)}
  BY DEF ViaProxy
<1>2. d.http \in {o.code, Null}
  BY DEF Judged
<1> QED BY <1>1, <1>2, PlainVerdict

\* What Fetch does to the past of its source, and what it leaves.
LEMMA SightedKeeps ==
    ASSUME NEW p, NEW c, NEW v, IsPast(hist[c])
    PROVE  /\ IsPast(Sighted(p, c, v))
           /\ Sighted(p, c, v).seen = hist[c].seen
           /\ Sighted(p, c, v).unchanged = hist[c].unchanged
           /\ Sighted(p, c, v).answered = hist[c].answered
           /\ Sighted(p, c, v).lost = hist[c].lost
           /\ Sighted(p, c, v).crossed = hist[c].crossed
BY DEF Sighted, IsPast, PastFields

LEMMA SightedMarks ==
    ASSUME NEW p, NEW c, NEW v, IsPast(hist[c])
    PROVE  /\ Sighted(p, c, v).alive <=> hist[c].alive \/ v.status = "live"
           /\ v.status = "live" /\ ~hist[c].alive => Sighted(p, c, v).overtaken = AboutToWrite(p, c)
           /\ v.status # "live" \/ hist[c].alive
                => Sighted(p, c, v).overtaken = hist[c].overtaken \ {p}
BY DEF Sighted, IsPast, PastFields

LEMMA FetchStep ==
    ASSUME EvidenceInv, NEW p \in Proc, Fetch(p)
    PROVE  EvidenceInv'
<1>0. PICK t \in proc[p].todo :
        LET c == t.cite
            o == site[c] IN
        \E v \in ViaProxy(c, o, Decide(o, t.read.base)) :
          /\ Becomes(p, [proc[p] EXCEPT
                           !.pc = "write", !.todo = @ \ {t}, !.cite = c,
                           !.read = t.read, !.page = o,
                           !.verdict = [NewRow EXCEPT !.status = v.status,
                                          !.http = v.http, !.base = v.base],
                           !.later = hist[c].alive])
          /\ hist' = [hist EXCEPT ![c] = Sighted(p, c, v)]
  BY DEF Fetch
<1>1. PICK v \in ViaProxy(t.cite, site[t.cite], Decide(site[t.cite], t.read.base)) :
        /\ Becomes(p, [proc[p] EXCEPT
                         !.pc = "write", !.todo = @ \ {t}, !.cite = t.cite,
                         !.read = t.read, !.page = site[t.cite],
                         !.verdict = [NewRow EXCEPT !.status = v.status,
                                        !.http = v.http, !.base = v.base],
                         !.later = hist[t.cite].alive])
        /\ hist' = [hist EXCEPT ![t.cite] = Sighted(p, t.cite, v)]
  BY <1>0
<1> DEFINE c == t.cite
           o == site[c]
           verdict == [NewRow EXCEPT !.status = v.status, !.http = v.http, !.base = v.base]
           later == hist[c].alive
           todo == proc[p].todo \ {t}
           q == [proc[p] EXCEPT !.pc = "write", !.todo = todo, !.cite = c,
                    !.read = t.read, !.page = o, !.verdict = verdict, !.later = later]
           past == Sighted(p, c, v)
<1>2. c \in Citation /\ IsProc(proc[p]) /\ \A u \in proc[p].todo : u.cite \in Citation
  BY DEF EvidenceInv, ProcsHold, Holds
<1>3. o \in Observation
  BY <1>2, PageAssumption DEF EvidenceInv
<1>4. Judged(v, o)
  BY <1>1, <1>3, DecideIsJudged, ProxyIsJudged
<1>5. /\ IsRow(verdict) /\ verdict.status = v.status /\ verdict.http = v.http
      /\ verdict.base = v.base
  BY <1>4, NewRowIsRow DEF Judged, IsVerdict, IsRow, RowFields
<1>6. Becomes(p, q) /\ hist' = [hist EXCEPT ![c] = past]
  BY <1>1
<1> HIDE DEF verdict, later, todo
<1>7. /\ IsProc(q) /\ q.pc = "write" /\ q.todo = todo /\ q.cite = c /\ q.page = o
      /\ q.verdict = verdict
  BY <1>2 DEF IsProc, ProcFields
<1> HIDE DEF q
<1>8. \A d \in Citation : IsRow(row[d]) /\ IsPast(hist[d]) /\ Founded(row[d], hist[d])
  BY DEF EvidenceInv, RowsFounded
<1>9. ASSUME NEW d \in Citation
      PROVE  /\ IsPast(hist'[d])
             /\ hist[d].alive => hist'[d].alive
             /\ d = c /\ v.status = "live" => hist'[d].alive
             /\ hist'[d].seen = hist[d].seen /\ hist'[d].answered = hist[d].answered
  <2>1. CASE d # c
    BY <1>6, <1>8, <2>1 DEF EvidenceInv, RowsFounded
  <2>2. CASE d = c
    <3>1. hist'[d] = past
      BY <1>2, <1>6, <2>2 DEF EvidenceInv, RowsFounded
    <3> QED BY <1>2, <1>8, <2>2, <3>1, SightedKeeps, SightedMarks
  <2> QED BY <2>1, <2>2
<1>10. \A d \in Citation : Founded(row[d], hist'[d])
  BY <1>8, <1>9 DEF Founded
<1>11. DOMAIN hist' = Citation
  BY <1>6 DEF EvidenceInv, RowsFounded
<1>12. RowsFounded(row', hist')
  BY <1>8, <1>9, <1>10, <1>11 DEF RowsFounded, EvidenceInv, Fetch, db
<1>13. Holds(q, hist')
  <2>1. Null \notin HardCode
    BY NumberAssumption DEF HardCode
  <2>2. Reasoned(verdict, o, hist'[c])
    BY <1>2, <1>4, <1>5, <1>9, <2>1 DEF Judged, Reasoned
  <2>3. \A u \in todo : u.cite \in Citation
    BY <1>2 DEF todo
  <2> QED BY <1>2, <1>5, <1>7, <2>2, <2>3 DEF Holds
<1>14. ProcsHold(proc', hist')
  <2>1. DOMAIN proc' = Proc /\ \A r \in Proc : proc'[r] = IF r = p THEN q ELSE proc[r]
    BY <1>6 DEF Becomes, EvidenceInv, ProcsHold
  <2> QED BY <1>7, <1>9, <1>13, <2>1, HoldsOn DEF EvidenceInv, ProcsHold
<1> QED BY <1>12, <1>14 DEF EvidenceInv, Fetch, db

\* Two baselines that differ in their hash only.
LooksLike(b, d) == b.at = d.at /\ b.long = d.long /\ b.del = d.del /\ b.blk = d.blk

\* What Write does to its row and to the past of its source.
LEMMA WriteEffect ==
    ASSUME EvidenceInv, NEW p \in Proc, Write(p)
    PROVE  LET c == proc[p].cite
               v == proc[p].verdict IN
           /\ c \in Citation /\ proc[p].pc = "write"
           /\ DOMAIN row' = Citation /\ DOMAIN hist' = Citation
           /\ \A d \in Citation \ {c} : row'[d] = row[d] /\ hist'[d] = hist[d]
           /\ IsRow(row'[c]) /\ row'[c].status = v.status /\ row'[c].http = v.http
           /\ IF v.base.captured
              THEN row'[c].base.captured /\ LooksLike(row'[c].base, v.base)
              ELSE row'[c].base = row[c].base
           /\ hist'[c].unchanged = (/\ v.status = Decide(proc[p].page, proc[p].read.base).status
                                    /\ proc[p].read.base = row[c].base
                                    /\ SameContent(proc[p].page, hist[c].seen))
           /\ IsPast(hist'[c])
           /\ hist'[c].alive = hist[c].alive
           /\ hist'[c].answered = proc[p].page.code
           /\ hist'[c].lost = proc[p].later
           /\ hist'[c].seen = IF v.base.captured THEN proc[p].page ELSE hist[c].seen
           /\ hist'[c].crossed = (p \in hist[c].overtaken)
           /\ hist'[c].overtaken = hist[c].overtaken \ {p}
<1> DEFINE c == proc[p].cite
           v == proc[p].verdict
           checks == CapCount(proc[p].read.checks + 1)
<1>1. PICK found \in BOOLEAN :
        row' = [row EXCEPT ![c] =
                  [status |-> v.status, http |-> v.http, checks |-> checks,
                   errors |-> IF found THEN ErrorsAfter(v.status, proc[p].read.errors)
                              ELSE @.errors,
                   base |-> IF ~v.base.captured THEN @.base
                            ELSE IF found THEN v.base
                            ELSE [v.base EXCEPT !.hash = row[c].base.hash]]]
  BY DEF Write
<1> DEFINE errors == IF found THEN ErrorsAfter(v.status, proc[p].read.errors)
                     ELSE row[c].errors
           base == IF ~v.base.captured THEN row[c].base
                   ELSE IF found THEN v.base
                   ELSE [v.base EXCEPT !.hash = row[c].base.hash]
           unchanged == /\ v.status = Decide(proc[p].page, proc[p].read.base).status
                        /\ proc[p].read.base = row[c].base
                        /\ SameContent(proc[p].page, hist[c].seen)
           seen == IF v.base.captured THEN proc[p].page ELSE hist[c].seen
           crossed == p \in hist[c].overtaken
           gone == v.status \in Gone
           overtaken == hist[c].overtaken \ {p}
           new == [status |-> v.status, http |-> v.http, checks |-> checks,
                   errors |-> errors, base |-> base]
           past == [hist[c] EXCEPT !.answered = proc[p].page.code, !.lost = proc[p].later,
                                   !.crossed = crossed, !.overtaken = overtaken,
                                   !.unchanged = unchanged, !.gone = gone, !.seen = seen]
<1>2. c \in Citation /\ IsRow(v) /\ proc[p].pc = "write"
  BY DEF EvidenceInv, ProcsHold, Holds, Write
<1>3. DOMAIN row = Citation /\ DOMAIN hist = Citation /\ IsRow(row[c]) /\ IsPast(hist[c])
  BY <1>2 DEF EvidenceInv, RowsFounded
<1>4. row' = [row EXCEPT ![c] = new]
  BY <1>1
<1>5. hist' = [hist EXCEPT ![c] = past]
  BY DEF Write
<1>6. /\ IsBase(base)
      /\ IF v.base.captured THEN base.captured /\ LooksLike(base, v.base)
         ELSE base = row[c].base
  BY <1>2, <1>3 DEF IsRow, IsBase, BaseFields, LooksLike
<1> HIDE DEF errors, base, unchanged, seen, crossed, gone, overtaken
<1>7. IsRow(new) /\ new.status = v.status /\ new.http = v.http /\ new.base = base
  BY <1>6 DEF IsRow, RowFields
<1>8. /\ IsPast(past) /\ past.alive = hist[c].alive /\ past.answered = proc[p].page.code
      /\ past.lost = proc[p].later /\ past.seen = seen /\ past.crossed = crossed
      /\ past.overtaken = overtaken /\ past.unchanged = unchanged
  BY <1>3 DEF IsPast, PastFields
<1> HIDE DEF new, past
<1>9. /\ DOMAIN row' = Citation /\ DOMAIN hist' = Citation
      /\ row'[c] = new /\ hist'[c] = past
      /\ \A d \in Citation \ {c} : row'[d] = row[d] /\ hist'[d] = hist[d]
  BY <1>2, <1>3, <1>4, <1>5
<1> QED BY <1>2, <1>6, <1>7, <1>8, <1>9 DEF seen, crossed, overtaken, unchanged

LEMMA WriteStep ==
    ASSUME EvidenceInv, NEW p \in Proc, Write(p)
    PROVE  EvidenceInv'
<1> DEFINE c == proc[p].cite
           v == proc[p].verdict
           o == proc[p].page
<1>1. /\ c \in Citation
      /\ DOMAIN row' = Citation /\ DOMAIN hist' = Citation
      /\ \A d \in Citation \ {c} : row'[d] = row[d] /\ hist'[d] = hist[d]
      /\ IsRow(row'[c]) /\ row'[c].status = v.status /\ row'[c].http = v.http
      /\ IF v.base.captured
         THEN row'[c].base.captured /\ row'[c].base.del = v.base.del
         ELSE row'[c].base = row[c].base
      /\ IsPast(hist'[c])
      /\ hist'[c].alive = hist[c].alive
      /\ hist'[c].answered = o.code
      /\ hist'[c].seen = IF v.base.captured THEN o ELSE hist[c].seen
  BY WriteEffect DEF LooksLike
<1>2. Reasoned(v, o, hist[c])
  BY DEF EvidenceInv, ProcsHold, Holds, Write
<1>3. \A d \in Citation : IsRow(row[d]) /\ IsPast(hist[d]) /\ Founded(row[d], hist[d])
  BY DEF EvidenceInv, RowsFounded
<1>4. PICK newly : Becomes(p, NextRow(p, newly))
  BY DEF Write
<1> HIDE DEF c, v, o
<1>5. Founded(row'[c], hist'[c])
  BY <1>1, <1>2, <1>3 DEF Founded, Reasoned
<1>6. RowsFounded(row', hist')
  BY <1>1, <1>3, <1>5 DEF RowsFounded
<1>7. ProcsHold(proc', hist')
  <2>1. /\ DOMAIN proc' = Proc
        /\ \A r \in Proc : proc'[r] = IF r = p THEN NextRow(p, newly) ELSE proc[r]
    BY <1>4 DEF Becomes, EvidenceInv, ProcsHold
  <2>2. \A d \in Citation : hist[d].alive => hist'[d].alive
    BY <1>1
  <2> QED BY <2>1, <2>2, HoldsOn, NextRowHolds DEF EvidenceInv, ProcsHold
<1> QED BY <1>6, <1>7 DEF EvidenceInv, Write

-----------------------------------------------------------------------------
(* What a row may say of its source *)

LEMMA EvidencePreserved == EvidenceInv /\ [Next]_vars => EvidenceInv'
<1> SUFFICES ASSUME EvidenceInv, [Next]_vars PROVE EvidenceInv'
  OBVIOUS
<1>1. Thread \subseteq Proc /\ Checker \subseteq Proc /\ Loop \in Proc
  BY DEF Proc, Watcher
<1>2. CASE \E t \in Thread : ThreadStep(t)
  BY <1>1, <1>2, PublishStep, ViewStep, RegisterStep, RegisterFailsStep DEF ThreadStep
<1>3. CASE LoopStep
  BY <1>1, <1>3, SelectBatchStep, FetchStep, WriteStep, WriteFailsStep, TellStep DEF LoopStep
<1>4. CASE \E k \in Checker : CheckerStep(k)
  BY <1>1, <1>4, SelectStoryStep, RegisterStep, RegisterFailsStep, FetchStep, WriteStep,
     WriteFailsStep, TellStep DEF CheckerStep
<1> QED BY <1>2, <1>3, <1>4, OtherSteps DEF Next

\* What makes a row count (threshold.py:185-198).
LEMMA WhatIsHard ==
    ASSUME NEW c, Hard(c)
    PROVE  row[c].status = "deleted" /\ row[c].http \in HardCode /\ row[c].base.captured
<1> DEFINE r == [status |-> row[c].status, http |-> row[c].http,
                 witnessed |-> row[c].base.captured]
           counted == {x \in {r} : x.status = "deleted" /\ x.http \in {404, 410} /\ x.witnessed}
<1>1. Cardinality(counted) = 1
  BY DEF Hard, HardDeleted
<1>2. counted # {}
  BY <1>1, FS_EmptySet
<1>3. PICK x \in {r} : x.status = "deleted" /\ x.http \in {404, 410} /\ x.witnessed
  BY <1>2
<1> QED BY <1>3 DEF HardCode

\* Any number of rows, rechecks of the loop and of visitors, registrations and
\* faults: a source counts as lost only if it was seen alive and has itself
\* answered 404 or 410, whatever the proxy said (proxyfetch.py:144-145).
THEOREM EvidenceOfLoss == Spec => []HardHasEvidence
<1>1. EvidenceInv => HardHasEvidence
  BY WhatIsHard DEF EvidenceInv, RowsFounded, Founded, HardHasEvidence, HardCode
<1> QED BY EvidenceInitially, EvidencePreserved, <1>1, PTL DEF Spec

\* The first half of BaselineIsSound: a deletion notice never becomes the baseline
\* (tracker.py:575-578).
THEOREM NoticeIsNoBaseline == Spec => []BaselineIsAlive
<1>1. EvidenceInv => BaselineIsAlive
  BY DEF EvidenceInv, RowsFounded, Founded, BaselineIsAlive
<1> QED BY EvidenceInitially, EvidencePreserved, <1>1, PTL DEF Spec
-----------------------------------------------------------------------------
(* A loss follows a life, unless rechecks cross *)

\* A row that counts was lost after it was seen alive, or written by a recheck that
\* was overtaken.
Settled(r, h) ==
    r.status = "deleted" /\ r.http \in HardCode /\ r.base.captured => h.lost \/ h.crossed

\* A process p registers the sources of a story that exists, reads and writes rows
\* that exist, and has seen what it is about to write after the source was seen alive,
\* unless it saw it alive itself or was overtaken.
Carries(q, p, past, kn, stories) ==
    /\ q.pc = "register" => q.story \in stories
    /\ \A t \in q.todo : t.cite \in kn
    /\ q.pc = "write" =>
         /\ q.cite \in kn /\ p \in Watcher
         /\ q.verdict.status # "live" /\ past[q.cite].alive
              => q.later \/ p \in past[q.cite].overtaken

LifeInv ==
    /\ EvidenceInv
    /\ \A c \in known : StoryOf[c] \in published
    /\ \A p \in Proc : Carries(proc[p], p, hist, known, published)
    /\ \A c \in Citation : Settled(row[c], hist[c])

LEMMA LifeInitially == Init => LifeInv
<1> SUFFICES ASSUME Init PROVE LifeInv
  OBVIOUS
<1>1. \A p \in Proc : Carries(proc[p], p, hist, known, published)
  BY IdleHolds DEF Init, Carries
<1>2. \A c \in Citation : Settled(row[c], hist[c])
  BY NewRowIsRow DEF Init, Settled
<1> QED BY <1>1, <1>2, EvidenceInitially DEF LifeInv, Init

\* Nothing that the others do spoils what a process carries, if they see no source
\* alive first and leave it overtaken.
LEMMA CarriesOn ==
    ASSUME NEW q, NEW p, NEW past, NEW kn, NEW stories, Carries(q, p, past, kn, stories),
           NEW past2, NEW kn2, NEW stories2, kn \subseteq kn2, stories \subseteq stories2,
           \A c \in kn : /\ past2[c].alive => past[c].alive
                         /\ p \in past[c].overtaken => p \in past2[c].overtaken
    PROVE  Carries(q, p, past2, kn2, stories2)
BY DEF Carries

\* One process moves, and no source is seen alive that has a row.
LEMMA LifeGoesOn ==
    ASSUME LifeInv, EvidenceInv', NEW p \in Proc, NEW q, Becomes(p, q),
           published \subseteq published', known \subseteq known',
           \A c \in known' : StoryOf[c] \in published',
           Carries(q, p, hist', known', published'),
           \A c \in known : /\ hist'[c].alive => hist[c].alive
                            /\ hist[c].overtaken \ {p} \subseteq hist'[c].overtaken,
           \A c \in Citation : Settled(row'[c], hist'[c])
    PROVE  LifeInv'
<1>1. \A r \in Proc : proc'[r] = IF r = p THEN q ELSE proc[r]
  BY DEF Becomes, LifeInv, EvidenceInv, ProcsHold
<1>2. ASSUME NEW r \in Proc \ {p} PROVE Carries(proc[r], r, hist', known', published')
  <2>1. Carries(proc[r], r, hist, known, published)
    BY DEF LifeInv
  <2> QED BY <2>1, CarriesOn
<1>3. \A r \in Proc : Carries(proc'[r], r, hist', known', published')
  BY <1>1, <1>2
<1> QED BY <1>3 DEF LifeInv

\* One process moves and nothing else that matters.
LEMMA LifeStays ==
    ASSUME LifeInv, EvidenceInv', NEW p \in Proc, NEW q, Becomes(p, q),
           UNCHANGED <<published, known, row, hist>>,
           Carries(q, p, hist, known, published)
    PROVE  LifeInv'
BY LifeGoesOn DEF LifeInv

\* Processes that are about to read or to write nothing carry nothing.
LEMMA IdleCarries ==
    ASSUME NEW p, NEW past, NEW kn, NEW stories
    PROVE  /\ Carries(Idle, p, past, kn, stories)
           /\ \A s : Carries([Idle EXCEPT !.pc = "again", !.story = s], p, past, kn, stories)
           /\ \A s \in stories :
                Carries([Idle EXCEPT !.pc = "register", !.story = s], p, past, kn, stories)
<1>1. Carries(Idle, p, past, kn, stories)
  BY IdleHolds DEF Carries
<1>2. ASSUME NEW s, NEW pc \in {"register", "again"}, pc = "register" => s \in stories
      PROVE  Carries([Idle EXCEPT !.pc = pc, !.story = s], p, past, kn, stories)
  <2> DEFINE q == [Idle EXCEPT !.pc = pc, !.story = s]
  <2>1. q.pc = pc /\ q.story = s /\ q.todo = {}
    BY IdleHolds DEF IsProc, ProcFields
  <2> HIDE DEF q
  <2>2. Carries(q, p, past, kn, stories)
    BY <1>2, <2>1 DEF Carries
  <2> QED BY <2>2 DEF q
<1> QED BY <1>1, <1>2

LEMMA AfterRegisterCarries ==
    ASSUME NEW p, NEW past, NEW kn, NEW stories
    PROVE  Carries(AfterRegister(p), p, past, kn, stories)
BY IdleCarries DEF AfterRegister

LEMMA PublishLives ==
    ASSUME LifeInv, EvidenceInv', NEW t \in Proc, NEW s \in Story, Publish(t, s)
    PROVE  LifeInv'
<1>1. PICK o :
         /\ Becomes(t, [Idle EXCEPT !.pc = "register", !.story = s, !.page = o])
         /\ hist' = [c \in Citation |->
                       IF StoryOf[c] = s /\ o.net = "ok"
                       THEN [hist[c] EXCEPT !.alive = TRUE] ELSE hist[c]]
  BY DEF Publish
<1> DEFINE q == [Idle EXCEPT !.pc = "register", !.story = s, !.page = o]
<1>2. q.pc = "register" /\ q.story = s /\ q.todo = {}
  BY IdleHolds DEF IsProc, ProcFields
<1>3. Becomes(t, q)
  BY <1>1
<1> HIDE DEF q
<1>4. \A c \in Citation : IsPast(hist[c]) /\ Settled(row[c], hist[c])
  BY DEF LifeInv, EvidenceInv, RowsFounded
<1>5. ASSUME NEW c \in Citation
      PROVE  /\ StoryOf[c] # s => hist'[c] = hist[c]
             /\ hist'[c].lost = hist[c].lost /\ hist'[c].crossed = hist[c].crossed
  BY <1>1, <1>4 DEF IsPast, PastFields
<1>6. \A c \in Citation : Settled(row'[c], hist'[c])
  BY <1>4, <1>5 DEF Settled, Publish
<1>7. \A c \in known : c \in Citation /\ StoryOf[c] # s
  BY DEF LifeInv, EvidenceInv, Publish
<1>8. published' = published \cup {s} /\ UNCHANGED <<known, row>>
  BY DEF Publish
<1>9. Carries(q, t, hist', known', published')
  BY <1>2, <1>8 DEF Carries
<1>10. \A c \in known' : StoryOf[c] \in published'
  BY <1>8 DEF LifeInv
<1> QED BY <1>3, <1>5, <1>6, <1>7, <1>8, <1>9, <1>10, LifeGoesOn

LEMMA ViewLives ==
    ASSUME LifeInv, EvidenceInv', NEW t \in Proc, NEW s \in Story, View(t, s)
    PROVE  LifeInv'
BY LifeStays, IdleCarries DEF View, db

LEMMA RegisterLives ==
    ASSUME LifeInv, EvidenceInv', NEW p \in Proc, Register(p)
    PROVE  LifeInv'
<1> DEFINE s == proc[p].story
           mine == CitationsOf(s)
<1>1. Becomes(p, AfterRegister(p)) /\ UNCHANGED published /\ known' = known \cup mine
  BY DEF Register
<1>2. s \in published
  BY DEF LifeInv, Carries, Register
<1>3. \A c \in mine : c \in Citation /\ StoryOf[c] = s
  BY DEF CitationsOf
<1>4. \A c \in Citation : IsRow(row[c]) /\ IsPast(hist[c]) /\ Settled(row[c], hist[c])
  BY DEF LifeInv, EvidenceInv, RowsFounded
<1>5. ASSUME NEW c \in mine
      PROVE  /\ row'[c].status = "unchecked" /\ hist'[c].alive = hist[c].alive
             /\ hist'[c].overtaken = hist[c].overtaken
  <2>1. PICK b : row'[c] = [row[c] EXCEPT !.status = "unchecked", !.base = b]
    BY <1>3 DEF Register
  <2>2. PICK seen : hist'[c] = [hist[c] EXCEPT !.seen = seen]
    BY <1>3 DEF Register
  <2> QED BY <1>3, <1>4, <2>1, <2>2 DEF IsRow, IsPast, RowFields, PastFields
<1>6. \A c \in Citation \ mine : row'[c] = row[c] /\ hist'[c] = hist[c]
  BY DEF Register
<1> HIDE DEF mine, s
<1>7. \A c \in Citation : Settled(row'[c], hist'[c])
  BY <1>4, <1>5, <1>6 DEF Settled
<1>8. \A c \in known' : StoryOf[c] \in published'
  BY <1>1, <1>2, <1>3 DEF LifeInv
<1>9. \A c \in known : /\ hist'[c].alive => hist[c].alive
                       /\ hist[c].overtaken \ {p} \subseteq hist'[c].overtaken
  BY <1>5, <1>6 DEF LifeInv, EvidenceInv
<1> QED BY <1>1, <1>7, <1>8, <1>9, AfterRegisterCarries, LifeGoesOn

LEMMA RegisterFailsLives ==
    ASSUME LifeInv, EvidenceInv', NEW p \in Proc, RegisterFails(p)
    PROVE  LifeInv'
BY LifeStays, AfterRegisterCarries DEF RegisterFails, db

\* Going on to fetch rows that exist.
LEMMA ReadingCarries ==
    ASSUME NEW p, NEW past, NEW kn, NEW stories, NEW todo, \A t \in todo : t.cite \in kn
    PROVE  Carries([Idle EXCEPT !.pc = "rows", !.todo = todo], p, past, kn, stories)
<1> DEFINE q == [Idle EXCEPT !.pc = "rows", !.todo = todo]
<1>1. q.pc = "rows" /\ q.todo = todo
  BY IdleHolds DEF IsProc, ProcFields
<1> HIDE DEF q
<1>2. Carries(q, p, past, kn, stories)
  BY <1>1 DEF Carries
<1> QED BY <1>2 DEF q

LEMMA SnapshotKnown ==
    ASSUME NEW rows \in SUBSET known, NEW found
    PROVE  \A t \in {Snapshot(c, found) : c \in rows} : t.cite \in known
<1>1. \A c \in rows : Snapshot(c, found).cite = c
  BY DEF Snapshot
<1> QED BY <1>1

LEMMA SelectBatchLives ==
    ASSUME LifeInv, EvidenceInv', SelectBatch
    PROVE  LifeInv'
<1>1. PICK found \in BOOLEAN, rows \in SUBSET known :
         Becomes(Loop, [Idle EXCEPT !.pc = "rows", !.todo = {Snapshot(c, found) : c \in rows}])
  BY DEF SelectBatch, Batch
<1> DEFINE todo == {Snapshot(c, found) : c \in rows}
<1>2. Loop \in Proc
  BY DEF Proc, Watcher
<1>3. UNCHANGED <<published, known, row, hist>>
  BY DEF SelectBatch, db
<1>4. Becomes(Loop, [Idle EXCEPT !.pc = "rows", !.todo = todo]) /\ \A t \in todo : t.cite \in known
  BY <1>1, SnapshotKnown
<1> HIDE DEF todo
<1> QED BY <1>2, <1>3, <1>4, ReadingCarries, LifeStays

LEMMA SelectStoryLives ==
    ASSUME LifeInv, EvidenceInv', NEW k \in Proc, NEW s \in Story, SelectStory(k, s)
    PROVE  LifeInv'
<1>1. PICK found \in BOOLEAN :
         Becomes(k,
              IF CitationsOf(s) \cap known # {}
              THEN [Idle EXCEPT !.pc = "rows",
                                !.todo = {Snapshot(c, found) : c \in CitationsOf(s) \cap known}]
              ELSE IF proc[k].pc = "idle"
              THEN [Idle EXCEPT !.pc = "register", !.story = s]
              ELSE Idle)
  BY DEF SelectStory
<1> DEFINE todo == {Snapshot(c, found) : c \in CitationsOf(s) \cap known}
<1>2. UNCHANGED <<published, known, row, hist>> /\ s \in published
  BY DEF SelectStory, db
<1>3. \/ Becomes(k, [Idle EXCEPT !.pc = "rows", !.todo = todo])
      \/ Becomes(k, [Idle EXCEPT !.pc = "register", !.story = s])
      \/ Becomes(k, Idle)
  BY <1>1
<1>4. \A t \in todo : t.cite \in known
  BY SnapshotKnown
<1> HIDE DEF todo
<1>5. CASE Becomes(k, [Idle EXCEPT !.pc = "rows", !.todo = todo])
  BY <1>2, <1>4, <1>5, ReadingCarries, LifeStays
<1>6. CASE Becomes(k, [Idle EXCEPT !.pc = "register", !.story = s])
  BY <1>2, <1>6, IdleCarries, LifeStays
<1>7. CASE Becomes(k, Idle)
  BY <1>2, <1>7, IdleCarries, LifeStays
<1> QED BY <1>3, <1>5, <1>6, <1>7

LEMMA FetchLives ==
    ASSUME LifeInv, EvidenceInv', NEW p \in Watcher, Fetch(p)
    PROVE  LifeInv'
<1>0. PICK t \in proc[p].todo :
        LET c == t.cite
            o == site[c] IN
        \E v \in ViaProxy(c, o, Decide(o, t.read.base)) :
          /\ Becomes(p, [proc[p] EXCEPT
                           !.pc = "write", !.todo = @ \ {t}, !.cite = c,
                           !.read = t.read, !.page = o,
                           !.verdict = [NewRow EXCEPT !.status = v.status,
                                          !.http = v.http, !.base = v.base],
                           !.later = hist[c].alive])
          /\ hist' = [hist EXCEPT ![c] = Sighted(p, c, v)]
  BY DEF Fetch
<1>1. PICK v :
        /\ Becomes(p, [proc[p] EXCEPT
                         !.pc = "write", !.todo = @ \ {t}, !.cite = t.cite,
                         !.read = t.read, !.page = site[t.cite],
                         !.verdict = [NewRow EXCEPT !.status = v.status,
                                        !.http = v.http, !.base = v.base],
                         !.later = hist[t.cite].alive])
        /\ hist' = [hist EXCEPT ![t.cite] = Sighted(p, t.cite, v)]
  BY <1>0
<1> DEFINE c == t.cite
           o == site[c]
           verdict == [NewRow EXCEPT !.status = v.status, !.http = v.http, !.base = v.base]
           later == hist[c].alive
           todo == proc[p].todo \ {t}
           q == [proc[p] EXCEPT !.pc = "write", !.todo = todo, !.cite = c,
                    !.read = t.read, !.page = o, !.verdict = verdict, !.later = later]
           past == Sighted(p, c, v)
<1>2. Becomes(p, q) /\ hist' = [hist EXCEPT ![c] = past]
  BY <1>1
<1>3. verdict.status = v.status
  BY NewRowIsRow DEF IsRow, RowFields
<1>4. UNCHANGED <<published, known, row>>
  BY DEF Fetch, db
<1>5. p \in Proc /\ IsProc(proc[p])
  BY DEF LifeInv, EvidenceInv, ProcsHold, Proc
<1>6. c \in known /\ \A u \in todo : u.cite \in known
  BY <1>5 DEF LifeInv, Carries
<1>7. c \in Citation /\ DOMAIN hist = Citation /\ IsPast(hist[c])
  BY <1>6 DEF LifeInv, EvidenceInv, RowsFounded
<1> HIDE DEF verdict, todo
<1>8. /\ q.pc = "write" /\ q.todo = todo /\ q.cite = c /\ q.verdict = verdict
      /\ (q.later = later)
  BY <1>5 DEF IsProc, ProcFields
<1> HIDE DEF q
<1>9. /\ hist'[c].alive <=> hist[c].alive \/ v.status = "live"
      /\ v.status = "live" /\ ~hist[c].alive => hist'[c].overtaken = AboutToWrite(p, c)
      /\ v.status # "live" \/ hist[c].alive => hist'[c].overtaken = hist[c].overtaken \ {p}
      /\ hist'[c].lost = hist[c].lost /\ hist'[c].crossed = hist[c].crossed
  <2>1. hist'[c] = past
    BY <1>2, <1>7
  <2> HIDE DEF past, c
  <2> QED BY <1>7, <2>1, SightedKeeps, SightedMarks DEF past
<1>10. \A d \in Citation \ {c} : hist'[d] = hist[d]
  BY <1>2, <1>7
<1>11. \A d \in Citation : Settled(row'[d], hist'[d])
  BY <1>4, <1>9, <1>10 DEF LifeInv, Settled
<1>12. Carries(q, p, hist', known', published')
  BY <1>3, <1>4, <1>6, <1>8, <1>9 DEF Carries
<1> HIDE DEF later, c
<1>13. ASSUME NEW w \in Proc \ {p} PROVE Carries(proc[w], w, hist', known', published')
  <2>1. Carries(proc[w], w, hist, known, published)
    BY DEF LifeInv
  <2>2. CASE proc[w].pc = "write" /\ proc[w].cite = c
    <3>1. w \in Watcher \ {p} /\ w \in AboutToWrite(p, c)
      BY <2>1, <2>2 DEF Carries, AboutToWrite
    <3> QED BY <1>4, <1>9, <2>1, <2>2, <3>1 DEF Carries
  <2>3. CASE ~(proc[w].pc = "write" /\ proc[w].cite = c)
    <3>1. proc[w].pc = "write" => hist'[proc[w].cite] = hist[proc[w].cite]
      BY <1>10, <2>1, <2>3 DEF Carries, LifeInv, EvidenceInv
    <3> QED BY <1>4, <2>1, <3>1 DEF Carries
  <2> QED BY <2>2, <2>3
<1>14. \A r \in Proc : proc'[r] = IF r = p THEN q ELSE proc[r]
  BY <1>2, <1>5 DEF Becomes, LifeInv, EvidenceInv, ProcsHold
<1>15. \A r \in Proc : Carries(proc'[r], r, hist', known', published')
  BY <1>12, <1>13, <1>14
<1> QED BY <1>4, <1>11, <1>15 DEF LifeInv

\* Done with a row, written or not.
LEMMA NextRowCarries ==
    ASSUME LifeInv, NEW p \in Proc, NEW newly, NEW past
    PROVE  Carries(NextRow(p, newly), p, past, known, published)
<1> DEFINE q == NextRow(p, newly)
<1>1. IsProc(proc[p])
  BY DEF LifeInv, EvidenceInv, ProcsHold
<1>2. q.pc = "rows" /\ q.todo = proc[p].todo
  BY <1>1 DEF NextRow, IsProc, ProcFields
<1> HIDE DEF q
<1>3. Carries(q, p, past, known, published)
  BY <1>2 DEF LifeInv, Carries
<1> QED BY <1>3 DEF q

LEMMA WriteLives ==
    ASSUME LifeInv, EvidenceInv', NEW p \in Proc, Write(p)
    PROVE  LifeInv'
<1> DEFINE c == proc[p].cite
           v == proc[p].verdict
           h == hist[c]
<1>1. EvidenceInv
  BY DEF LifeInv
<1>2. /\ c \in Citation /\ proc[p].pc = "write"
      /\ \A d \in Citation \ {c} : row'[d] = row[d] /\ hist'[d] = hist[d]
      /\ row'[c].status = v.status /\ row'[c].http = v.http
      /\ IF v.base.captured THEN row'[c].base.captured ELSE row'[c].base = row[c].base
      /\ hist'[c].alive = h.alive
      /\ hist'[c].lost = proc[p].later
      /\ hist'[c].crossed = (p \in h.overtaken)
      /\ hist'[c].overtaken = h.overtaken \ {p}
  BY <1>1, WriteEffect
<1>3. PICK newly : Becomes(p, NextRow(p, newly))
  BY DEF Write
<1>4. v.status # "live" /\ h.alive => proc[p].later \/ p \in h.overtaken
  BY <1>2 DEF LifeInv, Carries
<1>5. Founded(row[c], h)
  BY <1>1, <1>2 DEF EvidenceInv, RowsFounded
<1>6. v.base.captured => v.status = "live"
  BY <1>1, <1>2 DEF EvidenceInv, ProcsHold, Holds, Reasoned
<1>7. v.status = "deleted" /\ row'[c].base.captured => proc[p].later \/ p \in h.overtaken
  BY <1>2, <1>4, <1>5, <1>6 DEF Founded
<1>8. Settled(row'[c], hist'[c])
  BY <1>2, <1>7 DEF Settled
<1>9. \A d \in Citation : Settled(row'[d], hist'[d])
  BY <1>2, <1>8 DEF LifeInv
<1> HIDE DEF c, v, h
<1>10. \A d \in known : /\ hist'[d].alive => hist[d].alive
                        /\ hist[d].overtaken \ {p} \subseteq hist'[d].overtaken
  BY <1>1, <1>2 DEF EvidenceInv, h
<1>11. UNCHANGED <<published, known>>
  BY DEF Write
<1>12. Carries(NextRow(p, newly), p, hist', known', published')
  BY <1>11, NextRowCarries
<1> QED BY <1>3, <1>9, <1>10, <1>11, <1>12, LifeGoesOn DEF LifeInv

LEMMA WriteFailsLives ==
    ASSUME LifeInv, EvidenceInv', NEW p \in Proc, WriteFails(p)
    PROVE  LifeInv'
BY LifeStays, NextRowCarries DEF WriteFails, db

LEMMA TellLives ==
    ASSUME LifeInv, EvidenceInv', NEW p \in Proc, Tell(p)
    PROVE  LifeInv'
<1>1. UNCHANGED <<published, known, row, hist>> /\ proc[p].pc = "rows"
  BY DEF Tell, db
<1>2. CASE Becomes(p, Idle)
  BY <1>1, <1>2, IdleCarries, LifeStays
<1>3. ASSUME NEW s, Becomes(p, [proc[p] EXCEPT !.newly = @ \ {s}])
      PROVE  LifeInv'
  <2> DEFINE newly == proc[p].newly \ {s}
             q == [proc[p] EXCEPT !.newly = newly]
  <2>1. IsProc(proc[p])
    BY DEF LifeInv, EvidenceInv, ProcsHold
  <2>2. Becomes(p, q)
    BY <1>3
  <2> HIDE DEF newly
  <2>3. q.pc = proc[p].pc /\ q.todo = proc[p].todo
    BY <2>1 DEF IsProc, ProcFields
  <2> HIDE DEF q
  <2>4. Carries(q, p, hist, known, published)
    BY <1>1, <2>3 DEF LifeInv, Carries
  <2> QED BY <1>1, <2>2, <2>4, LifeStays
<1> QED BY <1>2, <1>3 DEF Tell

LEMMA OthersLive ==
    ASSUME LifeInv, EvidenceInv',
           (\E c \in Citation : Change(c)) \/ Tick \/ Crash \/ UNCHANGED vars
    PROVE  LifeInv'
<1>1. CASE UNCHANGED <<published, known, row, hist, proc>>
  BY <1>1 DEF LifeInv
<1>2. CASE Crash
  <2>1. \A p \in Proc : proc'[p] = Idle
    BY <1>2 DEF Crash
  <2>2. \A p \in Proc : Carries(proc'[p], p, hist', known', published')
    BY <2>1, IdleCarries
  <2> QED BY <1>2, <2>2 DEF LifeInv, Crash, db
<1> QED BY <1>1, <1>2 DEF Change, Tick, vars, db

LEMMA LifePreserved == LifeInv /\ [Next]_vars => LifeInv'
<1> SUFFICES ASSUME LifeInv, [Next]_vars PROVE LifeInv'
  OBVIOUS
<1>1. EvidenceInv'
  BY EvidencePreserved DEF LifeInv
<1>2. Thread \subseteq Proc /\ Watcher \subseteq Proc /\ Checker \subseteq Watcher /\ Loop \in Watcher
  BY DEF Proc, Watcher
<1>3. CASE \E t \in Thread : ThreadStep(t)
  BY <1>1, <1>2, <1>3, PublishLives, ViewLives, RegisterLives, RegisterFailsLives DEF ThreadStep
<1>4. CASE LoopStep
  BY <1>1, <1>2, <1>4, SelectBatchLives, FetchLives, WriteLives, WriteFailsLives, TellLives
     DEF LoopStep
<1>5. CASE \E k \in Checker : CheckerStep(k)
  BY <1>1, <1>2, <1>5, SelectStoryLives, RegisterLives, RegisterFailsLives, FetchLives,
     WriteLives, WriteFailsLives, TellLives DEF CheckerStep
<1> QED BY <1>1, <1>3, <1>4, <1>5, OthersLive DEF Next

\* Any number of rows, batches, manual rechecks, registrations and faults: a row that
\* lowers the threshold was lost after its source was seen alive (threshold.py:179-180),
\* or the recheck that wrote it fetched its page before another one was the first to
\* see the source alive, and wrote it later (tracker.py:817).  That it then lowers the
\* threshold shows run tracker_stale; there is no other way.
THEOREM LossIsAfterLife == Spec => []LossFollowsLife
<1>1. LifeInv => LossFollowsLife
  BY WhatIsHard DEF LifeInv, EvidenceInv, Settled, LossFollowsLife
<1> QED BY LifeInitially, LifePreserved, <1>1, PTL DEF Spec

-----------------------------------------------------------------------------
(* What does not change is not gone *)

\* A page that shows what o shows is live by this baseline.
FitsIn(base, o) ==
    /\ o \in Observation /\ o.net = "ok" /\ ~o.bot
    /\ o.at = "root" => base.at = "root"
    /\ \/ o.article = "live"
       \/ /\ o.article = "none"
          /\ o.del => base.del
          /\ o.blk => base.blk
          /\ base.long => o.long

\* The baseline is of the page that it was taken from, and the last verdict, if
\* the page was still the same, is not that it is gone.
Fitting(r, h) ==
    r.base.captured => /\ FitsIn(r.base, h.seen)
                       /\ h.unchanged => r.status \notin Gone

\* The same of the baseline that a process hands on or is about to write.
Ready(q) ==
    /\ q.pc = "register" /\ q.page.net = "ok" =>
         q.page \in Observation /\ ~q.page.bot /\ q.page.article = "live" /\ q.page.at # "root"
    /\ q.pc = "write" =>
         /\ q.page \in Observation
         /\ q.verdict.base.captured => FitsIn(q.verdict.base, q.page)

FitInv ==
    /\ EvidenceInv
    /\ \A c \in Citation : Fitting(row[c], hist[c])
    /\ \A p \in Proc : Ready(proc[p])

LEMMA SameFields ==
    ASSUME NEW q \in Observation, NEW o \in Observation, SameContent(q, o)
    PROVE  /\ q.net = o.net /\ q.bot = o.bot /\ q.at = o.at /\ q.article = o.article
           /\ q.del = o.del /\ q.blk = o.blk /\ q.long = o.long
<1> DEFINE x == [q EXCEPT !.hash = "fresh"]
           y == [o EXCEPT !.hash = "fresh"]
<1>1. x = y
  BY DEF SameContent
<1>2. /\ x.net = q.net /\ x.bot = q.bot /\ x.at = q.at /\ x.article = q.article
      /\ x.del = q.del /\ x.blk = q.blk /\ x.long = q.long
  BY DEF Observation
<1>3. /\ y.net = o.net /\ y.bot = o.bot /\ y.at = o.at /\ y.article = o.article
      /\ y.del = o.del /\ y.blk = o.blk /\ y.long = o.long
  BY DEF Observation
<1> HIDE DEF x, y
<1> QED BY <1>1, <1>2, <1>3

\* What shows the same as the baseline's page is live.
LEMMA SameIsLive ==
    ASSUME NEW base, base.captured, NEW o, FitsIn(base, o),
           NEW q \in Observation, SameContent(q, o)
    PROVE  Decide(q, base).status = "live"
<1>1. o \in Observation
  BY DEF FitsIn
<1>2. /\ q.net = o.net /\ q.bot = o.bot /\ q.at = o.at /\ q.article = o.article
      /\ q.del = o.del /\ q.blk = o.blk /\ q.long = o.long
  BY <1>1, SameFields
<1>3. q.net = "ok" /\ ~q.bot /\ q.article \in {"live", "none"} /\ ~SentToRoot(q, base)
  BY <1>2 DEF FitsIn, SentToRoot
<1>4. Verdict("live", q.code).status = "live"
  BY VerdictFields
<1>5. CASE q.article = "live"
  BY <1>3, <1>4, <1>5 DEF Decide, DecideBody
<1>6. CASE q.article = "none"
  <2>1. ~(q.del /\ ~base.del) /\ ~(q.blk /\ ~base.blk) /\ ~(base.long /\ ~q.long)
    BY <1>2, <1>6 DEF FitsIn
  <2> QED BY <1>3, <1>4, <1>6, <2>1 DEF Decide, DecideBody
<1> QED BY <1>3, <1>5, <1>6

\* The first page that is live fits the baseline taken from it; what the collector
\* has captured is an article.
LEMMA FirstFits ==
    ASSUME NEW o \in Observation, NEW base, Decide(o, base).base.captured
    PROVE  FitsIn(Decide(o, base).base, o)
<1> DEFINE first == [Verdict("live", o.code) EXCEPT !.base = BaseOf(o)]
           b == BaseOf(o)
<1>1. \A status, http : ~Verdict(status, http).base.captured
  BY VerdictFields, NewRowIsRow
<1>2. o.net = "ok" /\ Decide(o, base) = DecideBody(o, base)
  BY <1>1 DEF Decide, Observation
<1>3. /\ DecideBody(o, base) = first /\ ~o.bot
      /\ o.article \notin {"deleted", "blocked", "unknown"}
  BY <1>1, <1>2 DEF DecideBody
<1>4. b.at = o.at /\ b.long = o.long /\ b.del = o.del /\ b.blk = o.blk
  BY DEF BaseOf
<1> HIDE DEF b
<1>5. first.base = b
  BY VerdictFields DEF IsVerdict, b
<1>6. o.article \in {"live", "none"}
  BY <1>3 DEF Observation
<1>7. FitsIn(b, o)
  BY <1>2, <1>3, <1>4, <1>6 DEF FitsIn
<1> QED BY <1>2, <1>3, <1>5, <1>7

LEMMA CapturedFits ==
    ASSUME NEW o \in Captured, \A q \in Page : q.article = "live" => q.at # "root"
    PROVE  o \in Observation /\ ~o.bot /\ o.article = "live" /\ o.at # "root"
<1>1. o \in Observation /\ o.article = "live" /\ o.at # "root" /\ Decide(o, NoBase).status = "live"
  BY PageAssumption DEF Captured
<1>2. \A http : Verdict("error", http).status = "error"
  BY VerdictFields
<1>3. CASE o.net = "ok"
  BY <1>1, <1>2, <1>3 DEF Decide, DecideBody
<1>4. CASE o.net = "http"
  <2>1. Verdict("deleted", o.code).status = "deleted"
    BY VerdictFields
  <2> QED BY <1>1, <1>2, <1>4, <2>1 DEF Decide
<1>5. CASE o.net = "none"
  BY <1>1, <1>2, <1>5 DEF Decide
<1> QED BY <1>1, <1>3, <1>4, <1>5 DEF Observation

LEMMA FitInitially == Init => FitInv
<1> SUFFICES ASSUME Init PROVE FitInv
  OBVIOUS
<1>1. \A c \in Citation : ~row[c].base.captured
  BY NewRowIsRow DEF Init
<1>2. \A p \in Proc : proc[p].pc = "idle"
  BY IdleHolds DEF Init
<1> QED BY <1>1, <1>2, EvidenceInitially DEF FitInv, Fitting, Ready

\* A process moves on that neither registers a page nor writes.
LEMMA ReadyAlone ==
    ASSUME FitInv, EvidenceInv', UNCHANGED <<row, hist>>, NEW p \in Proc, NEW q, Becomes(p, q), Ready(q)
    PROVE  FitInv'
<1>1. \A r \in Proc : proc'[r] = IF r = p THEN q ELSE proc[r]
  BY DEF Becomes, FitInv, EvidenceInv, ProcsHold
<1> QED BY <1>1 DEF FitInv

LEMMA QuietIsReady ==
    /\ Ready(Idle)
    /\ \A pc \in {"register", "again"} : \A s : Ready([Idle EXCEPT !.pc = pc, !.story = s])
    /\ \A todo : Ready([Idle EXCEPT !.pc = "rows", !.todo = todo])
<1>1. ASSUME NEW q, q.pc \notin {"register", "write"} PROVE Ready(q)
  BY <1>1 DEF Ready
<1>2. ASSUME NEW pc \in {"register", "again"}, NEW s
      PROVE  Ready([Idle EXCEPT !.pc = pc, !.story = s])
  <2> DEFINE q == [Idle EXCEPT !.pc = pc, !.story = s]
  <2>1. q.pc = pc /\ q.page = Silence
    BY IdleHolds DEF IsProc, ProcFields
  <2> HIDE DEF q
  <2> QED BY <2>1, IdleHolds DEF Ready, q
<1>3. ASSUME NEW todo PROVE [Idle EXCEPT !.pc = "rows", !.todo = todo].pc = "rows"
  BY IdleHolds DEF IsProc, ProcFields
<1> QED BY <1>1, <1>2, <1>3, IdleHolds

LEMMA AfterRegisterReady ==
    ASSUME NEW p
    PROVE  Ready(AfterRegister(p))
BY QuietIsReady DEF AfterRegister

LEMMA NextRowReady ==
    ASSUME EvidenceInv, NEW p \in Proc, NEW newly
    PROVE  Ready(NextRow(p, newly))
<1>1. IsProc(proc[p])
  BY DEF EvidenceInv, ProcsHold
<1>2. NextRow(p, newly).pc = "rows"
  BY <1>1 DEF NextRow, IsProc, ProcFields
<1> QED BY <1>2 DEF Ready

\* Reading, giving up, telling: no row is touched.
LEMMA ReadsFit ==
    ASSUME FitInv, EvidenceInv', NEW p \in Proc,
           \/ \E s \in Story : View(p, s) \/ SelectStory(p, s)
           \/ RegisterFails(p) \/ WriteFails(p) \/ Tell(p)
           \/ p = Loop /\ SelectBatch
    PROVE  FitInv'
<1>1. UNCHANGED <<row, hist>>
  BY DEF View, SelectStory, RegisterFails, WriteFails, Tell, SelectBatch, db
<1>2. EvidenceInv
  BY DEF FitInv
<1>3. ASSUME NEW s \in Story, View(p, s) PROVE FitInv'
  BY <1>1, <1>3, QuietIsReady, ReadyAlone DEF View
<1>4. ASSUME NEW s \in Story, SelectStory(p, s) PROVE FitInv'
  <2>1. PICK todo : \/ Becomes(p, [Idle EXCEPT !.pc = "rows", !.todo = todo])
                    \/ Becomes(p, [Idle EXCEPT !.pc = "register", !.story = s])
                    \/ Becomes(p, Idle)
    BY <1>4 DEF SelectStory
  <2>2. CASE Becomes(p, [Idle EXCEPT !.pc = "rows", !.todo = todo])
    BY <1>1, <2>2, QuietIsReady, ReadyAlone
  <2>3. CASE Becomes(p, [Idle EXCEPT !.pc = "register", !.story = s])
    BY <1>1, <2>3, QuietIsReady, ReadyAlone
  <2>4. CASE Becomes(p, Idle)
    BY <1>1, <2>4, QuietIsReady, ReadyAlone
  <2> QED BY <2>1, <2>2, <2>3, <2>4
<1>5. CASE RegisterFails(p)
  BY <1>1, <1>5, AfterRegisterReady, ReadyAlone DEF RegisterFails
<1>6. CASE WriteFails(p)
  BY <1>1, <1>2, <1>6, NextRowReady, ReadyAlone DEF WriteFails
<1>7. CASE Tell(p)
  <2>1. PICK q : Becomes(p, q) /\ (q = Idle \/ \E s : q = [proc[p] EXCEPT !.newly = @ \ {s}])
    BY <1>7 DEF Tell
  <2>2. IsProc(proc[p]) /\ proc[p].pc = "rows"
    BY <1>2, <1>7 DEF EvidenceInv, ProcsHold, Tell
  <2>3. q = Idle \/ q.pc = "rows"
    BY <2>1, <2>2 DEF IsProc, ProcFields
  <2>4. Ready(q)
    BY <2>3, QuietIsReady DEF Ready
  <2> QED BY <1>1, <2>1, <2>4, ReadyAlone
<1>8. CASE p = Loop /\ SelectBatch
  <2>1. PICK todo : Becomes(p, [Idle EXCEPT !.pc = "rows", !.todo = todo])
    BY <1>8 DEF SelectBatch
  <2> QED BY <1>1, <2>1, QuietIsReady, ReadyAlone
<1> QED BY <1>3, <1>4, <1>5, <1>6, <1>7, <1>8

\* Sources are seen alive, the rest of their past stays.
LEMMA SeenAlive ==
    ASSUME FitInv, EvidenceInv', UNCHANGED row, NEW p \in Proc, NEW q, Becomes(p, q), Ready(q),
           \A c \in Citation : hist'[c].seen = hist[c].seen /\ hist'[c].unchanged = hist[c].unchanged
    PROVE  FitInv'
<1>1. \A r \in Proc : proc'[r] = IF r = p THEN q ELSE proc[r]
  BY DEF Becomes, FitInv, EvidenceInv, ProcsHold
<1>2. \A c \in Citation : Fitting(row'[c], hist'[c])
  BY DEF FitInv, Fitting
<1> QED BY <1>1, <1>2 DEF FitInv

LEMMA PublishFits ==
    ASSUME FitInv, EvidenceInv', NEW t \in Proc, NEW s \in Story, Publish(t, s),
           \A o \in Page : o.article = "live" => o.at # "root"
    PROVE  FitInv'
<1>1. PICK o \in {Silence} \cup Captured :
         /\ Becomes(t, [Idle EXCEPT !.pc = "register", !.story = s, !.page = o])
         /\ hist' = [c \in Citation |->
                       IF StoryOf[c] = s /\ o.net = "ok"
                       THEN [hist[c] EXCEPT !.alive = TRUE] ELSE hist[c]]
  BY DEF Publish
<1> DEFINE q == [Idle EXCEPT !.pc = "register", !.story = s, !.page = o]
<1>2. q.pc = "register" /\ q.page = o
  BY IdleHolds DEF IsProc, ProcFields
<1>3. Becomes(t, q) /\ UNCHANGED row
  BY <1>1 DEF Publish
<1> HIDE DEF q
<1>4. Ready(q)
  BY <1>2, CapturedFits, IdleHolds DEF Ready
<1>5. \A c \in Citation : IsPast(hist[c])
  BY DEF FitInv, EvidenceInv, RowsFounded
<1>6. \A c \in Citation : hist'[c].seen = hist[c].seen /\ hist'[c].unchanged = hist[c].unchanged
  BY <1>1, <1>5 DEF IsPast, PastFields
<1> QED BY <1>3, <1>4, <1>6, SeenAlive

LEMMA FetchFits ==
    ASSUME FitInv, EvidenceInv', NEW p \in Proc, Fetch(p)
    PROVE  FitInv'
<1>0. PICK t \in proc[p].todo :
        LET c == t.cite
            o == site[c] IN
        \E v \in ViaProxy(c, o, Decide(o, t.read.base)) :
          /\ Becomes(p, [proc[p] EXCEPT
                           !.pc = "write", !.todo = @ \ {t}, !.cite = c,
                           !.read = t.read, !.page = o,
                           !.verdict = [NewRow EXCEPT !.status = v.status,
                                          !.http = v.http, !.base = v.base],
                           !.later = hist[c].alive])
          /\ hist' = [hist EXCEPT ![c] = Sighted(p, c, v)]
  BY DEF Fetch
<1> DEFINE c == t.cite
           o == site[c]
           direct == Decide(o, t.read.base)
<1>1. PICK v \in ViaProxy(c, o, direct) :
        /\ Becomes(p, [proc[p] EXCEPT
                         !.pc = "write", !.todo = @ \ {t}, !.cite = t.cite,
                         !.read = t.read, !.page = site[t.cite],
                         !.verdict = [NewRow EXCEPT !.status = v.status,
                                        !.http = v.http, !.base = v.base],
                         !.later = hist[t.cite].alive])
        /\ hist' = [hist EXCEPT ![t.cite] = Sighted(p, t.cite, v)]
  BY <1>0
<1> DEFINE verdict == [NewRow EXCEPT !.status = v.status, !.http = v.http, !.base = v.base]
           later == hist[c].alive
           todo == proc[p].todo \ {t}
           q == [proc[p] EXCEPT !.pc = "write", !.todo = todo, !.cite = c,
                    !.read = t.read, !.page = o, !.verdict = verdict, !.later = later]
           past == Sighted(p, c, v)
<1>2. EvidenceInv /\ c \in Citation /\ IsProc(proc[p])
  BY DEF FitInv, EvidenceInv, ProcsHold, Holds
<1>3. o \in Observation
  BY <1>2, PageAssumption DEF EvidenceInv
<1>4. v.base.captured => FitsIn(v.base, o)
  <2>1. v = direct \/ v.base = NoBase
    <3>1. v \in {direct, Verdict("deleted", direct.http), Verdict("live", direct.http)}
      BY <1>1 DEF ViaProxy
    <3> QED BY <3>1, VerdictFields
  <2> QED BY <1>3, <2>1, FirstFits, NewRowIsRow
<1>5. verdict.base = v.base
  BY NewRowIsRow DEF IsRow, RowFields
<1>6. Becomes(p, q) /\ hist' = [hist EXCEPT ![c] = past] /\ UNCHANGED row
  BY <1>1 DEF Fetch, db
<1> HIDE DEF verdict, later, todo, o
<1>7. q.pc = "write" /\ q.page = o /\ q.verdict = verdict
  BY <1>2 DEF IsProc, ProcFields
<1> HIDE DEF q
<1>8. Ready(q)
  BY <1>3, <1>4, <1>5, <1>7 DEF Ready
<1>9. ASSUME NEW d \in Citation
      PROVE  hist'[d].seen = hist[d].seen /\ hist'[d].unchanged = hist[d].unchanged
  <2>1. CASE d # c
    BY <1>2, <1>6, <2>1 DEF EvidenceInv, RowsFounded
  <2>2. CASE d = c
    <3>1. hist'[d] = past /\ IsPast(hist[d])
      BY <1>2, <1>6, <2>2 DEF EvidenceInv, RowsFounded
    <3> QED BY <2>2, <3>1, SightedKeeps
  <2> QED BY <2>1, <2>2
<1> QED BY <1>6, <1>8, <1>9, SeenAlive

LEMMA RegisterFits ==
    ASSUME FitInv, EvidenceInv', NEW p \in Proc, Register(p)
    PROVE  FitInv'
<1> DEFINE s == proc[p].story
           o == proc[p].page
           mine == CitationsOf(s)
<1>1. PICK found \in BOOLEAN :
         /\ row' = [c \in Citation |->
                      IF c \notin mine THEN row[c]
                      ELSE [row[c] EXCEPT
                              !.status = "unchecked",
                              !.base = IF ~(o.net = "ok") THEN @
                                       ELSE IF found THEN Inherited(@, o)
                                       ELSE [@ EXCEPT !.captured = TRUE]]]
         /\ hist' = [c \in Citation |->
                      IF c \in mine
                      THEN [hist[c] EXCEPT !.seen = IF o.net = "ok" THEN o ELSE @]
                      ELSE hist[c]]
         /\ Becomes(p, AfterRegister(p))
  BY DEF Register
<1>2. \A c \in Citation : IsRow(row[c]) /\ IsPast(hist[c]) /\ Fitting(row[c], hist[c])
  BY DEF FitInv, EvidenceInv, RowsFounded
<1>3. o.net = "ok" =>
        o \in Observation /\ ~o.bot /\ o.article = "live" /\ o.at # "root"
  BY DEF FitInv, Ready, Register
<1>4. ASSUME NEW c \in mine PROVE Fitting(row'[c], hist'[c])
  <2> DEFINE old == row[c].base
             b == IF ~(o.net = "ok") THEN old
                  ELSE IF found THEN Inherited(old, o) ELSE [old EXCEPT !.captured = TRUE]
             seen == IF o.net = "ok" THEN o ELSE hist[c].seen
  <2>1. c \in Citation
    BY DEF CitationsOf
  <2>2. /\ row'[c] = [row[c] EXCEPT !.status = "unchecked", !.base = b]
        /\ hist'[c] = [hist[c] EXCEPT !.seen = seen]
    BY <1>1, <2>1
  <2>3. b.captured => FitsIn(b, seen)
    BY <1>2, <1>3, <2>1 DEF FitsIn, Fitting
  <2> HIDE DEF b, seen
  <2>4. row'[c].status = "unchecked" /\ row'[c].base = b /\ hist'[c].seen = seen
    BY <1>2, <2>1, <2>2 DEF IsRow, IsPast, RowFields, PastFields
  <2> QED BY <2>3, <2>4 DEF Fitting, Gone
<1>5. \A c \in Citation \ mine : row'[c] = row[c] /\ hist'[c] = hist[c]
  BY <1>1
<1> HIDE DEF mine
<1>6. \A c \in Citation : Fitting(row'[c], hist'[c])
  BY <1>2, <1>4, <1>5
<1>7. \A r \in Proc : proc'[r] = IF r = p THEN AfterRegister(p) ELSE proc[r]
  BY <1>1 DEF Becomes, FitInv, EvidenceInv, ProcsHold
<1> QED BY <1>6, <1>7, AfterRegisterReady DEF FitInv

LEMMA WriteFits ==
    ASSUME FitInv, EvidenceInv', NEW p \in Proc, Write(p)
    PROVE  FitInv'
<1> DEFINE c == proc[p].cite
           v == proc[p].verdict
           o == proc[p].page
<1>1. /\ c \in Citation /\ proc[p].pc = "write"
      /\ \A d \in Citation \ {c} : row'[d] = row[d] /\ hist'[d] = hist[d]
      /\ row'[c].status = v.status
      /\ IF v.base.captured
         THEN row'[c].base.captured /\ LooksLike(row'[c].base, v.base)
         ELSE row'[c].base = row[c].base
      /\ hist'[c].unchanged = (/\ v.status = Decide(o, proc[p].read.base).status
                               /\ proc[p].read.base = row[c].base
                               /\ SameContent(o, hist[c].seen))
      /\ hist'[c].seen = IF v.base.captured THEN o ELSE hist[c].seen
  BY WriteEffect DEF FitInv
<1>2. o \in Observation /\ (v.base.captured => v.status = "live" /\ FitsIn(v.base, o))
  BY <1>1 DEF FitInv, Ready, EvidenceInv, ProcsHold, Holds, Reasoned
<1>3. Fitting(row[c], hist[c])
  BY <1>1 DEF FitInv
<1>4. PICK newly : Becomes(p, NextRow(p, newly))
  BY DEF Write
<1> HIDE DEF c, v, o
<1>5. ASSUME v.base.captured PROVE Fitting(row'[c], hist'[c])
  <2>1. FitsIn(row'[c].base, hist'[c].seen)
    BY <1>1, <1>2, <1>5 DEF FitsIn, LooksLike
  <2> QED BY <1>1, <1>2, <1>5, <2>1 DEF Fitting, Gone
<1>6. ASSUME ~v.base.captured PROVE Fitting(row'[c], hist'[c])
  <2> SUFFICES ASSUME row'[c].base.captured
               PROVE  /\ FitsIn(row'[c].base, hist'[c].seen)
                      /\ hist'[c].unchanged => row'[c].status \notin Gone
    BY DEF Fitting
  <2>1. row[c].base.captured /\ FitsIn(row[c].base, hist[c].seen)
    BY <1>1, <1>3, <1>6 DEF Fitting
  <2>2. ASSUME hist'[c].unchanged PROVE row'[c].status = "live"
    <3>1. SameContent(o, hist[c].seen) /\ v.status = Decide(o, row[c].base).status
      BY <1>1, <2>2
    <3>2. Decide(o, row[c].base).status = "live"
      BY <1>2, <2>1, <3>1, SameIsLive
    <3> QED BY <1>1, <3>1, <3>2
  <2> QED BY <1>1, <1>6, <2>1, <2>2 DEF Gone
<1>7. \A d \in Citation : Fitting(row'[d], hist'[d])
  BY <1>1, <1>5, <1>6 DEF FitInv
<1>8. \A r \in Proc : proc'[r] = IF r = p THEN NextRow(p, newly) ELSE proc[r]
  BY <1>4 DEF Becomes, FitInv, EvidenceInv, ProcsHold
<1> QED BY <1>7, <1>8, NextRowReady DEF FitInv

LEMMA OthersFit ==
    ASSUME FitInv, EvidenceInv',
           (\E c \in Citation : Change(c)) \/ Tick \/ Crash \/ UNCHANGED vars
    PROVE  FitInv'
<1>1. CASE UNCHANGED <<row, hist, proc>>
  BY <1>1 DEF FitInv
<1>2. CASE Crash
  BY <1>2, QuietIsReady DEF Crash, db, FitInv
<1> QED BY <1>1, <1>2 DEF Change, Tick, vars, db

LEMMA FitPreserved ==
    ASSUME \A o \in Page : o.article = "live" => o.at # "root", FitInv, [Next]_vars
    PROVE  FitInv'
<1>1. EvidenceInv'
  BY EvidencePreserved DEF FitInv
<1>2. Thread \subseteq Proc /\ Checker \subseteq Proc /\ Loop \in Proc
  BY DEF Proc, Watcher
<1>3. CASE \E t \in Thread : ThreadStep(t)
  BY <1>1, <1>2, <1>3, PublishFits, ReadsFit, RegisterFits DEF ThreadStep
<1>4. CASE LoopStep
  BY <1>1, <1>2, <1>4, ReadsFit, FetchFits, WriteFits DEF LoopStep
<1>5. CASE \E k \in Checker : CheckerStep(k)
  BY <1>1, <1>2, <1>5, ReadsFit, RegisterFits, FetchFits, WriteFits DEF CheckerStep
<1> QED BY <1>1, <1>3, <1>4, <1>5, OthersFit DEF Next

\* No site shows an article at its root (such a page counts as moved away,
\* tracker.py:562-566): then a source that still shows what its baseline shows is
\* never judged by it to be gone (tracker.py:516-517), and the baseline hides no
\* deletion, whatever rechecks, registrations and captures overlap.
THEOREM BaselineStaysSound ==
    ASSUME \A o \in Page : o.article = "live" => o.at # "root"
    PROVE  Spec => []BaselineIsSound
<1>1. FitInv => BaselineIsSound
  <2>1. EvidenceInv => BaselineIsAlive
    BY DEF EvidenceInv, RowsFounded, Founded, BaselineIsAlive
  <2>2. FitInv => UnchangedIsLive
    BY DEF FitInv, EvidenceInv, Fitting, Gone, UnchangedIsLive
  <2> QED BY <2>1, <2>2 DEF FitInv, BaselineIsSound
<1>2. FitInv /\ [Next]_vars => FitInv'
  BY FitPreserved
<1> QED BY FitInitially, <1>1, <1>2, PTL DEF Spec
-----------------------------------------------------------------------------
(* Types *)

LEMMA Powers == \A n \in Nat : 2^n \in Nat
<1> TAKE n \in Nat
<1>1. IsFiniteSet(1..n) /\ Cardinality(1..n) = n
  BY FS_Interval
<1>2. IsFiniteSet(SUBSET (1..n)) /\ Cardinality(SUBSET (1..n)) = 2^n
  BY <1>1, FS_SUBSET
<1> QED BY <1>2, FS_CardinalityType

LEMMA Limits ==
    /\ LiveMin \in Nat /\ LiveMax \in Nat /\ SoftWait \in Nat
    /\ ErrorBase \in Nat /\ ErrorMax \in Nat
    /\ CountCap \in Nat /\ CountCap > 0 /\ MaxFaults \in Nat
    /\ \A n \in Int : n # Null
BY NumberAssumption

\* However long rows are overdue, what is kept of it is a number.
LEMMA RankedType ==
    ASSUME NEW f \in [Citation -> Int \cup {Null}]
    PROVE  Ranked(f) \in [Citation -> Int \cup {Null}]
<1> DEFINE above(c) == {e \in Citation : f[e] # Null /\ f[e] <= 0 /\ f[e] > f[c]}
           times(c) == {f[d] : d \in above(c)}
<1>1. ASSUME NEW c \in Citation PROVE -Cardinality(times(c)) \in Int
  <2> DEFINE S == above(c)
             T == times(c)
             timeOf == [d \in S |-> f[d]]
  <2>1. IsFiniteSet(S)
    BY SetAssumption, FS_Subset
  <2>2. timeOf \in Surjection(S, T)
    BY DEF Surjection
  <2> HIDE DEF S, T, timeOf
  <2>3. Cardinality(T) \in Nat
    BY <2>1, <2>2, FS_Surjection, FS_CardinalityType
  <2> QED BY <2>3 DEF T
<1>2. Ranked(f) = [c \in Citation |-> IF f[c] = Null \/ f[c] > 0 THEN f[c]
                                      ELSE -Cardinality(times(c))]
  BY DEF Ranked
<1> HIDE DEF times, above
<1> QED BY <1>1, <1>2

LEMMA WaitType ==
    ASSUME NEW status \in Status, NEW checks \in Nat, NEW errors \in Nat,
           status = "error" => errors > 0
    PROVE  Wait(status, checks, errors) \in Int
<1>1. CASE status \in {"live", "unchecked"}
  <2>1. Larger(0, checks - 1) \in Nat
    BY DEF Larger
  <2>2. 2^Larger(0, checks - 1) \in Nat
    BY <2>1, Powers
  <2>3. LiveMin * 2^Larger(0, checks - 1) \in Nat
    BY <2>2, Limits
  <2>4. Wait(status, checks, errors) \in {LiveMin * 2^Larger(0, checks - 1), LiveMax}
    BY <1>1 DEF Wait, Smaller
  <2> QED BY <2>3, <2>4, Limits
<1>2. CASE status = "error"
  <2>1. errors - 1 \in Nat
    BY <1>2
  <2>2. 2^(errors - 1) \in Nat
    BY <2>1, Powers
  <2>3. ErrorBase * 2^(errors - 1) \in Nat
    BY <2>2, Limits
  <2>4. Wait(status, checks, errors) \in {ErrorBase * 2^(errors - 1), ErrorMax}
    BY <1>2 DEF Wait, Smaller
  <2> QED BY <2>3, <2>4, Limits
<1>3. CASE status \in {"deleted", "blocked"}
  BY <1>3, Limits DEF Wait
<1> QED BY <1>1, <1>2, <1>3 DEF Status

LEMMA CountType ==
    ASSUME NEW n \in Nat, NEW status
    PROVE  /\ CapCount(n + 1) \in Nat
           /\ ErrorsAfter(status, n) \in Nat
           /\ status = "error" => ErrorsAfter(status, n) > 0
BY Limits DEF CapCount, ErrorsAfter, Smaller

Judgement == [status : Status, http : Code, base : Baseline]

LEMMA PlainType ==
    /\ NoBase \in Baseline /\ NewRow \in Row /\ Silence \in Observation /\ Idle \in ProcState
    /\ \A status \in Status, http \in Code : Verdict(status, http) \in Judgement
<1>1. NoBase \in Baseline
  BY PageAssumption DEF NoBase, Baseline
<1>2. NewRow \in Row
  BY <1>1 DEF NewRow, Row, Status, Code
<1>3. Silence \in Observation
  BY PageAssumption DEF Silence, Observation
<1>4. Idle \in ProcState
  BY <1>2, <1>3 DEF Idle, ProcState
<1>5. \A status \in Status, http \in Code : Verdict(status, http) \in Judgement
  BY <1>1 DEF Verdict, Judgement
<1> QED BY <1>1, <1>2, <1>3, <1>4, <1>5

LEMMA VerdictType ==
    ASSUME NEW o \in Observation, NEW base
    PROVE  Decide(o, base) \in Judgement
<1> DEFINE b == BaseOf(o)
           first == [Verdict("live", o.code) EXCEPT !.base = b]
<1>1. o.code \in Code
  BY DEF Observation, Code
<1>2. b \in Baseline
  BY DEF Observation, Baseline, BaseOf
<1> HIDE DEF b
<1>3. \A status \in {"live", "error", "deleted", "blocked"}, http \in Code :
         Verdict(status, http) \in Judgement
  BY PlainType DEF Status
<1>4. first \in Judgement
  BY <1>1, <1>2, <1>3 DEF Judgement
<1>5. DecideBody(o, base) \in {first} \cup {Verdict(status, o.code) :
                                  status \in {"live", "error", "deleted", "blocked"}}
  BY DEF DecideBody, b
<1> HIDE DEF first
<1>6. Decide(o, base) \in {DecideBody(o, base), Verdict("error", Null), Verdict("deleted", o.code),
                           Verdict("error", o.code)}
  BY DEF Decide, Observation
<1>7. Null \in Code
  BY DEF Code
<1> QED BY <1>1, <1>3, <1>4, <1>5, <1>6, <1>7

LEMMA ProxyType ==
    ASSUME NEW c, NEW o, NEW d \in Judgement, NEW v \in ViaProxy(c, o, d)
    PROVE  v \in Judgement
<1>1. v \in {d, Verdict("deleted", d.http), Verdict("live", d.http)}
  BY DEF ViaProxy
<1>2. d.http \in Code
  BY DEF Judgement
<1> QED BY <1>1, <1>2, PlainType DEF Status

-----------------------------------------------------------------------------
(* Types: the steps *)

LEMMA Becoming ==
    ASSUME TypeOK, NEW p \in Proc, NEW q \in ProcState, Becomes(p, q)
    PROVE  proc' \in [Proc -> ProcState]
BY DEF TypeOK, Becomes

LEMMA Counting ==
    ASSUME TypeOK
    PROVE  /\ Fault => faults' \in Nat
           /\ \A found \in BOOLEAN : Probe(found) => faults' \in Nat /\ adaptive' \in BOOLEAN
<1>1. Fault => faults' \in Nat
  BY DEF TypeOK, Fault
<1>2. ASSUME NEW found \in BOOLEAN, Probe(found) PROVE faults' \in Nat
  BY <1>1, <1>2 DEF TypeOK, Probe
<1>3. ASSUME NEW found \in BOOLEAN, Probe(found) PROVE adaptive' \in BOOLEAN
  <2>1. adaptive \in BOOLEAN
    BY DEF TypeOK
  <2>2. adaptive' = TRUE \/ adaptive' = adaptive
    BY <1>3 DEF Probe
  <2> QED BY <2>1, <2>2
<1> QED BY <1>1, <1>2, <1>3

LEMMA AskingType ==
    ASSUME NEW s \in Story, NEW pc \in {"register", "again"}
    PROVE  [Idle EXCEPT !.pc = pc, !.story = s] \in ProcState
BY PlainType DEF ProcState

LEMMA AfterRegisterType ==
    ASSUME TypeOK, NEW p \in Proc
    PROVE  AfterRegister(p) \in ProcState
<1>1. proc[p].story \in Story \cup {NoStory}
  BY DEF TypeOK, ProcState
<1>2. \A s \in Story \cup {NoStory} : [Idle EXCEPT !.pc = "again", !.story = s] \in ProcState
  BY PlainType DEF ProcState
<1> QED BY <1>1, <1>2, PlainType DEF AfterRegister

LEMMA NextRowType ==
    ASSUME TypeOK, NEW p \in Proc, NEW newly \in SUBSET Story
    PROVE  NextRow(p, newly) \in ProcState
<1> DEFINE all == proc[p].newly \cup newly
           later == FALSE
<1>1. proc[p] \in ProcState /\ all \subseteq Story /\ later \in BOOLEAN
  BY DEF TypeOK, ProcState
<1>2. NextRow(p, newly) = [proc[p] EXCEPT !.pc = "rows", !.newly = all, !.cite = Null,
                    !.read = NewRow, !.verdict = NewRow, !.page = Silence, !.later = later]
  BY DEF NextRow
<1> HIDE DEF all, later
<1> QED BY <1>1, <1>2, PlainType DEF ProcState

LEMMA SnapshotType ==
    ASSUME TypeOK, NEW rows \in SUBSET Citation, NEW found \in BOOLEAN
    PROVE  /\ {Snapshot(c, found) : c \in rows} \subseteq [cite : Citation, read : Row]
           /\ [Idle EXCEPT !.pc = "rows", !.todo = {Snapshot(c, found) : c \in rows}] \in ProcState
<1> DEFINE todo == {Snapshot(c, found) : c \in rows}
<1>1. ASSUME NEW c \in rows PROVE Snapshot(c, found) \in [cite : Citation, read : Row]
  <2> DEFINE base == [row[c].base EXCEPT !.hash = "fresh"]
             none == 0
             blind == [row[c] EXCEPT !.base = base, !.errors = none]
  <2>1. row[c] \in Row /\ none \in Nat
    BY DEF TypeOK
  <2>2. base \in Baseline
    BY <2>1, PageAssumption DEF Row, Baseline
  <2>3. row[c].base.hash \in Hash /\ DOMAIN row[c].base = {"captured", "at", "long", "hash", "del", "blk"}
    BY <2>1 DEF Row, Baseline
  <2>4. [row[c] EXCEPT !.base.hash = "fresh", !.errors = 0] = blind
    BY <2>1 DEF Row
  <2> HIDE DEF base, none
  <2>5. blind \in Row
    BY <2>1, <2>2 DEF Row
  <2> QED BY <2>1, <2>4, <2>5 DEF Snapshot
<1>2. todo \subseteq [cite : Citation, read : Row]
  BY <1>1
<1> HIDE DEF todo
<1>3. [Idle EXCEPT !.pc = "rows", !.todo = todo] \in ProcState
  BY <1>2, PlainType DEF ProcState
<1> QED BY <1>2, <1>3 DEF todo

LEMMA PublishType ==
    ASSUME TypeOK, NEW t \in Proc, NEW s \in Story, Publish(t, s)
    PROVE  TypeOK'
<1>0. {Silence} \cup Captured \subseteq Observation
  BY PlainType, PageAssumption DEF Captured
<1>1. PICK o \in Observation :
         /\ Becomes(t, [Idle EXCEPT !.pc = "register", !.story = s, !.page = o])
         /\ hist' = [c \in Citation |->
                       IF StoryOf[c] = s /\ o.net = "ok"
                       THEN [hist[c] EXCEPT !.alive = TRUE] ELSE hist[c]]
  BY <1>0 DEF Publish
<1>2. [Idle EXCEPT !.pc = "register", !.story = s, !.page = o] \in ProcState
  BY PlainType DEF ProcState
<1> DEFINE yes == TRUE
<1>3. yes \in BOOLEAN
  OBVIOUS
<1>4. \A c \in Citation : hist'[c] = hist[c] \/ hist'[c] = [hist[c] EXCEPT !.alive = yes]
  BY <1>1
<1> HIDE DEF yes
<1>5. ASSUME NEW c \in Citation PROVE hist'[c] \in Past
  <2>1. hist[c] \in Past
    BY DEF TypeOK
  <2> QED BY <1>3, <1>4, <2>1 DEF Past
<1>6. hist' \in [Citation -> Past]
  BY <1>1, <1>5
<1>7. published' \subseteq Story /\ UNCHANGED <<known, row, next, adaptive, faults, site, untold>>
  BY DEF Publish, TypeOK
<1> QED BY <1>1, <1>2, <1>6, <1>7, Becoming DEF TypeOK

LEMMA ViewType ==
    ASSUME TypeOK, NEW t \in Proc, NEW s \in Story, View(t, s)
    PROVE  TypeOK'
<1>1. proc' \in [Proc -> ProcState]
  BY AskingType, Becoming DEF View
<1> QED BY <1>1 DEF View, TypeOK, db

LEMMA RegisterFailsType ==
    ASSUME TypeOK, NEW p \in Proc, RegisterFails(p)
    PROVE  TypeOK'
<1>1. proc' \in [Proc -> ProcState] /\ faults' \in Nat
  BY AfterRegisterType, Becoming, Counting DEF RegisterFails
<1> QED BY <1>1 DEF RegisterFails, TypeOK, db

LEMMA RegisterType ==
    ASSUME TypeOK, NEW p \in Proc, Register(p)
    PROVE  TypeOK'
<1> DEFINE s == proc[p].story
           o == proc[p].page
           mine == CitationsOf(s)
<1>1. PICK found \in BOOLEAN :
         /\ Probe(found)
         /\ row' = [c \in Citation |->
                      IF c \notin mine THEN row[c]
                      ELSE [row[c] EXCEPT
                              !.status = "unchecked",
                              !.base = IF ~(o.net = "ok") THEN @
                                       ELSE IF found THEN Inherited(@, o)
                                       ELSE [@ EXCEPT !.captured = TRUE]]]
         /\ next' = Ranked([c \in Citation |->
                              IF c \in mine /\ found THEN 0 ELSE next[c]])
  BY DEF Register
<1>2. /\ known' = known \cup mine
      /\ hist' = [c \in Citation |->
                      IF c \in mine
                      THEN [hist[c] EXCEPT !.seen = IF o.net = "ok" THEN o ELSE @]
                      ELSE hist[c]]
      /\ Becomes(p, AfterRegister(p))
      /\ UNCHANGED <<published, site, untold>>
  BY DEF Register
<1>3. mine \subseteq Citation /\ o \in Observation
  BY DEF CitationsOf, TypeOK, ProcState
<1>4. ASSUME NEW c \in Citation PROVE row'[c] \in Row
  <2> DEFINE old == row[c].base
             status == "unchecked"
             yes == TRUE
             b == IF ~(o.net = "ok") THEN old
                  ELSE IF found THEN Inherited(old, o) ELSE [old EXCEPT !.captured = yes]
  <2>1. row[c] \in Row /\ old \in Baseline /\ status \in Status /\ yes \in BOOLEAN
    BY DEF TypeOK, Row, Status
  <2>2. row'[c] = row[c] \/ row'[c] = [row[c] EXCEPT !.status = status, !.base = b]
    BY <1>1
  <2>3. Inherited(old, o) = [old EXCEPT !.captured = yes, !.hash = o.hash]
    BY DEF Inherited
  <2> HIDE DEF yes, old, status
  <2>4. b \in Baseline
    BY <1>3, <2>1, <2>3 DEF Baseline, Observation
  <2> HIDE DEF b
  <2> QED BY <2>1, <2>2, <2>4 DEF Row
<1>5. ASSUME NEW c \in Citation PROVE hist'[c] \in Past
  <2> DEFINE seen == IF o.net = "ok" THEN o ELSE hist[c].seen
  <2>1. hist[c] \in Past
    BY DEF TypeOK
  <2>2. seen \in Observation
    BY <1>3, <2>1 DEF Past
  <2>3. hist'[c] = hist[c] \/ hist'[c] = [hist[c] EXCEPT !.seen = seen]
    BY <1>2
  <2> HIDE DEF seen
  <2> QED BY <2>1, <2>2, <2>3 DEF Past
<1>6. next' \in [Citation -> Int \cup {Null}]
  <2>1. [c \in Citation |-> IF c \in mine /\ found THEN 0 ELSE next[c]]
          \in [Citation -> Int \cup {Null}]
    BY DEF TypeOK
  <2> QED BY <1>1, <2>1, RankedType
<1>7. row' \in [Citation -> Row] /\ hist' \in [Citation -> Past]
  BY <1>1, <1>2, <1>4, <1>5
<1>8. proc' \in [Proc -> ProcState] /\ faults' \in Nat /\ adaptive' \in BOOLEAN
  BY <1>1, <1>2, AfterRegisterType, Becoming, Counting
<1> QED BY <1>2, <1>3, <1>6, <1>7, <1>8 DEF TypeOK

LEMMA SelectBatchType ==
    ASSUME TypeOK, SelectBatch
    PROVE  TypeOK'
<1>1. PICK found \in BOOLEAN, rows \in SUBSET known :
         /\ Probe(found)
         /\ Becomes(Loop, [Idle EXCEPT !.pc = "rows", !.todo = {Snapshot(c, found) : c \in rows}])
  BY DEF SelectBatch, Batch
<1>2. Loop \in Proc /\ rows \subseteq Citation
  BY DEF Proc, Watcher, TypeOK
<1>3. proc' \in [Proc -> ProcState] /\ faults' \in Nat /\ adaptive' \in BOOLEAN
  BY <1>1, <1>2, SnapshotType, Becoming, Counting
<1> QED BY <1>3 DEF SelectBatch, TypeOK, db

LEMMA SelectStoryType ==
    ASSUME TypeOK, NEW k \in Proc, NEW s \in Story, SelectStory(k, s)
    PROVE  TypeOK'
<1>1. PICK found \in BOOLEAN :
         /\ Probe(found)
         /\ Becomes(k,
              IF CitationsOf(s) \cap known # {}
              THEN [Idle EXCEPT !.pc = "rows",
                                !.todo = {Snapshot(c, found) : c \in CitationsOf(s) \cap known}]
              ELSE IF proc[k].pc = "idle"
              THEN [Idle EXCEPT !.pc = "register", !.story = s]
              ELSE Idle)
  BY DEF SelectStory
<1>2. CitationsOf(s) \cap known \subseteq Citation
  BY DEF CitationsOf
<1>3. proc' \in [Proc -> ProcState]
  BY <1>1, <1>2, SnapshotType, AskingType, PlainType, Becoming
<1>4. faults' \in Nat /\ adaptive' \in BOOLEAN
  BY <1>1, Counting
<1> QED BY <1>3, <1>4 DEF SelectStory, TypeOK, db

LEMMA SightedType ==
    ASSUME NEW p, NEW c, NEW v, hist[c] \in Past
    PROVE  Sighted(p, c, v) \in Past
<1> DEFINE alive == hist[c].alive \/ v.status = "live"
           overtaken == IF v.status = "live" /\ ~hist[c].alive THEN AboutToWrite(p, c)
                        ELSE hist[c].overtaken \ {p}
<1>1. Sighted(p, c, v) = [hist[c] EXCEPT !.alive = alive, !.overtaken = overtaken]
  BY DEF Sighted
<1>2. alive \in BOOLEAN
  OBVIOUS
<1>3. overtaken \in SUBSET Watcher
  BY DEF Past, AboutToWrite
<1> HIDE DEF alive, overtaken
<1> QED BY <1>1, <1>2, <1>3 DEF Past

LEMMA FetchType ==
    ASSUME TypeOK, NEW p \in Proc, Fetch(p)
    PROVE  TypeOK'
<1>0. PICK t \in proc[p].todo :
        \E v \in ViaProxy(t.cite, site[t.cite], Decide(site[t.cite], t.read.base)) :
        /\ Becomes(p, [proc[p] EXCEPT
                         !.pc = "write", !.todo = @ \ {t}, !.cite = t.cite,
                         !.read = t.read, !.page = site[t.cite],
                         !.verdict = [NewRow EXCEPT !.status = v.status,
                                        !.http = v.http, !.base = v.base],
                         !.later = hist[t.cite].alive])
        /\ hist' = [hist EXCEPT ![t.cite] = Sighted(p, t.cite, v)]
  BY DEF Fetch
<1>1. PICK v \in ViaProxy(t.cite, site[t.cite], Decide(site[t.cite], t.read.base)) :
        /\ Becomes(p, [proc[p] EXCEPT
                         !.pc = "write", !.todo = @ \ {t}, !.cite = t.cite,
                         !.read = t.read, !.page = site[t.cite],
                         !.verdict = [NewRow EXCEPT !.status = v.status,
                                        !.http = v.http, !.base = v.base],
                         !.later = hist[t.cite].alive])
        /\ hist' = [hist EXCEPT ![t.cite] = Sighted(p, t.cite, v)]
  BY <1>0
<1> DEFINE c == t.cite
           o == site[c]
           verdict == [NewRow EXCEPT !.status = v.status, !.http = v.http, !.base = v.base]
           later == hist[c].alive
           todo == proc[p].todo \ {t}
           q == [proc[p] EXCEPT !.pc = "write", !.todo = todo, !.cite = c,
                    !.read = t.read, !.page = o, !.verdict = verdict, !.later = later]
           past == Sighted(p, c, v)
<1>2. proc[p] \in ProcState
  BY DEF TypeOK
<1>3. c \in Citation /\ t.read \in Row /\ todo \in SUBSET [cite : Citation, read : Row]
  BY <1>2 DEF ProcState
<1>4. o \in Observation
  BY <1>3, PageAssumption DEF TypeOK
<1>5. v \in Judgement
  BY <1>4, VerdictType, ProxyType
<1>6. verdict \in Row
  BY <1>5, PlainType DEF Judgement, Row
<1>7. hist[c] \in Past /\ later \in BOOLEAN
  BY <1>3 DEF TypeOK, Past
<1>8. Sighted(p, c, v) \in Past
  BY <1>7, SightedType
<1>9. Becomes(p, q) /\ hist' = [hist EXCEPT ![c] = past]
  BY <1>1
<1>10. UNCHANGED <<published, known, row, next, adaptive, faults, site, untold>>
  BY DEF Fetch, db
<1> HIDE DEF c, o, verdict, later, todo
<1>11. q \in ProcState
  BY <1>2, <1>3, <1>4, <1>6, <1>7 DEF ProcState
<1> HIDE DEF q
<1>12. proc' \in [Proc -> ProcState]
  BY <1>9, <1>11, Becoming
<1>13. hist' \in [Citation -> Past]
  BY <1>8, <1>9 DEF TypeOK
<1> QED BY <1>10, <1>12, <1>13 DEF TypeOK

\* Where a recheck writes is a row.
LEMMA WriteAt ==
    ASSUME TypeOK, EvidenceInv, NEW p \in Proc, proc[p].pc = "write"
    PROVE  /\ proc[p].cite \in Citation /\ proc[p] \in ProcState
           /\ proc[p].verdict \in Row /\ proc[p].read \in Row /\ proc[p].page \in Observation
           /\ {StoryOf[proc[p].cite]} \subseteq Story
<1>1. proc[p].cite \in Citation
  BY DEF EvidenceInv, ProcsHold, Holds
<1>2. proc[p] \in ProcState
  BY DEF TypeOK
<1> QED BY <1>1, <1>2, SetAssumption DEF ProcState

LEMMA WriteType ==
    ASSUME TypeOK, EvidenceInv, NEW p \in Proc, Write(p)
    PROVE  TypeOK'
<1> DEFINE c == proc[p].cite
           v == proc[p].verdict
           old == proc[p].read
           o == proc[p].page
           errors == ErrorsAfter(v.status, old.errors)
           checks == CapCount(old.checks + 1)
<1>1. PICK found \in BOOLEAN :
         /\ Probe(found)
         /\ row' = [row EXCEPT ![c] =
                      [status |-> v.status, http |-> v.http, checks |-> checks,
                       errors |-> IF found THEN errors ELSE @.errors,
                       base |-> IF ~v.base.captured THEN @.base
                                ELSE IF found THEN v.base
                                ELSE [v.base EXCEPT !.hash = row[c].base.hash]]]
         /\ next' = Ranked([next EXCEPT ![c] =
                              IF found THEN Wait(v.status, checks, errors) ELSE @])
  BY DEF Write
<1> DEFINE b == IF ~v.base.captured THEN row[c].base
                ELSE IF found THEN v.base
                ELSE [v.base EXCEPT !.hash = row[c].base.hash]
           errs == IF found THEN errors ELSE row[c].errors
           wait == IF found THEN Wait(v.status, checks, errors) ELSE next[c]
           unchanged == /\ v.status = Decide(o, old.base).status
                        /\ old.base = row[c].base
                        /\ SameContent(o, hist[c].seen)
           seen == IF v.base.captured THEN o ELSE hist[c].seen
           crossed == p \in hist[c].overtaken
           gone == v.status \in Gone
           overtaken == hist[c].overtaken \ {p}
           later == proc[p].later
           newly == IF NewlyGone(old.status, v.status) THEN {StoryOf[c]} ELSE {}
<1>2. /\ hist' = [hist EXCEPT ![c] =
                    [hist[c] EXCEPT !.answered = o.code, !.lost = later,
                       !.crossed = crossed, !.overtaken = overtaken,
                       !.unchanged = unchanged, !.gone = gone, !.seen = seen]]
      /\ Becomes(p, NextRow(p, newly))
      /\ UNCHANGED <<published, known, site>>
      /\ untold' = untold \cup (IF v.status \in Gone /\ ~hist[c].gone
                              THEN {StoryOf[c]} ELSE {})
      /\ proc[p].pc = "write"
  BY DEF Write
<1>3. /\ c \in Citation /\ v \in Row /\ old \in Row /\ o \in Observation
      /\ proc[p] \in ProcState /\ {StoryOf[c]} \subseteq Story
  BY <1>2, WriteAt
<1>4. row[c] \in Row /\ hist[c] \in Past /\ next[c] \in Int \cup {Null}
  BY <1>3 DEF TypeOK
<1>5. newly \in SUBSET Story /\ untold' \subseteq Story
  BY <1>2, <1>3 DEF TypeOK
<1>6. /\ errors \in Nat /\ checks \in Nat /\ (v.status = "error" => errors > 0)
      /\ v.status \in Status /\ v.http \in Code
  BY <1>3, CountType DEF Row
<1>7. errs \in Nat
  BY <1>4, <1>6 DEF Row
<1>8. wait \in Int \cup {Null}
  BY <1>4, <1>6, WaitType
<1>9. b \in Baseline
  BY <1>3, <1>4 DEF Row, Baseline
<1>10. seen \in Observation
  BY <1>3, <1>4 DEF Past
<1>11. overtaken \in SUBSET Watcher
  BY <1>4 DEF Past
<1>12. later \in BOOLEAN /\ o.code \in Nat \cup {Null}
  BY <1>3 DEF ProcState, Observation
<1>13. unchanged \in BOOLEAN /\ crossed \in BOOLEAN /\ gone \in BOOLEAN
  OBVIOUS
<1>14. /\ row' = [row EXCEPT ![c] = [status |-> v.status, http |-> v.http, checks |-> checks,
                                     errors |-> errs, base |-> b]]
       /\ next' = Ranked([next EXCEPT ![c] = wait])
       /\ Probe(found)
  BY <1>1
<1> HIDE DEF c, v, old, o, errors, checks, b, errs, wait, unchanged, seen, crossed, gone,
         overtaken, later, newly
<1>15. row' \in [Citation -> Row]
  <2>1. [status |-> v.status, http |-> v.http, checks |-> checks, errors |-> errs, base |-> b] \in Row
    BY <1>6, <1>7, <1>9 DEF Row
  <2> QED BY <1>14, <2>1 DEF TypeOK
<1>16. next' \in [Citation -> Int \cup {Null}]
  <2>1. [next EXCEPT ![c] = wait] \in [Citation -> Int \cup {Null}]
    BY <1>8 DEF TypeOK
  <2> QED BY <1>14, <2>1, RankedType
<1>17. hist' \in [Citation -> Past]
  <2>1. [hist[c] EXCEPT !.answered = o.code, !.lost = later,
                        !.crossed = crossed, !.overtaken = overtaken,
                        !.unchanged = unchanged, !.gone = gone, !.seen = seen] \in Past
    BY <1>4, <1>10, <1>11, <1>12, <1>13 DEF Past
  <2> QED BY <1>2, <2>1 DEF TypeOK
<1>18. proc' \in [Proc -> ProcState]
  BY <1>2, <1>5, NextRowType, Becoming
<1>19. faults' \in Nat /\ adaptive' \in BOOLEAN
  BY <1>14, Counting
<1> QED BY <1>2, <1>5, <1>15, <1>16, <1>17, <1>18, <1>19 DEF TypeOK

LEMMA WriteFailsType ==
    ASSUME TypeOK, EvidenceInv, NEW p \in Proc, WriteFails(p)
    PROVE  TypeOK'
<1>1. {StoryOf[proc[p].cite]} \subseteq Story
  BY WriteAt DEF WriteFails
<1>2. PICK newly \in SUBSET Story : Becomes(p, NextRow(p, newly))
  BY <1>1 DEF WriteFails
<1>3. proc' \in [Proc -> ProcState] /\ faults' \in Nat
  BY <1>2, NextRowType, Becoming, Counting DEF WriteFails
<1> QED BY <1>3 DEF WriteFails, TypeOK, db

LEMMA TellType ==
    ASSUME TypeOK, NEW p \in Proc, Tell(p)
    PROVE  TypeOK'
<1>1. ASSUME NEW s \in proc[p].newly
      PROVE  [proc[p] EXCEPT !.newly = @ \ {s}] \in ProcState
  <2> DEFINE newly == proc[p].newly \ {s}
  <2>1. proc[p] \in ProcState
    BY DEF TypeOK
  <2>2. newly \subseteq Story
    BY <2>1 DEF ProcState
  <2> HIDE DEF newly
  <2>3. [proc[p] EXCEPT !.newly = newly] \in ProcState
    BY <2>1, <2>2 DEF ProcState
  <2> QED BY <2>3 DEF newly
<1>2. proc' \in [Proc -> ProcState]
  BY <1>1, PlainType, Becoming DEF Tell
<1>3. untold' \subseteq Story
  BY DEF Tell, TypeOK
<1> QED BY <1>2, <1>3 DEF Tell, TypeOK, db

LEMMA OthersType ==
    ASSUME TypeOK, (\E c \in Citation : Change(c)) \/ Tick \/ Crash \/ UNCHANGED vars
    PROVE  TypeOK'
<1>1. CASE \E c \in Citation : Change(c)
  <2>1. PICK c \in Citation, o \in Page : site' = [site EXCEPT ![c] = o]
    BY <1>1 DEF Change
  <2> QED BY <1>1, <2>1 DEF Change, TypeOK, db
<1>2. CASE Tick
  <2>1. [c \in Citation |-> IF next[c] = Null THEN Null ELSE next[c] - 1]
          \in [Citation -> Int \cup {Null}]
    BY DEF TypeOK
  <2>2. next' \in [Citation -> Int \cup {Null}]
    BY <1>2, <2>1, RankedType DEF Tick
  <2> QED BY <1>2, <2>2 DEF Tick, TypeOK
<1>3. CASE Crash
  <2>1. proc' \in [Proc -> ProcState] /\ faults' \in Nat
    BY <1>3, PlainType, Counting DEF Crash
  <2> QED BY <1>3, <2>1 DEF Crash, TypeOK, db
<1>4. CASE UNCHANGED vars
  BY <1>4 DEF vars, db, TypeOK
<1> QED BY <1>1, <1>2, <1>3, <1>4

LEMMA TypesInitially == Init => TypeOK
<1> SUFFICES ASSUME Init PROVE TypeOK
  OBVIOUS
<1>1. NoPast \in Past
  BY PlainType DEF NoPast, Past
<1>2. hist \in [Citation -> Past] /\ row \in [Citation -> Row] /\ proc \in [Proc -> ProcState]
  BY <1>1, PlainType DEF Init
<1> QED BY <1>2 DEF Init, TypeOK

LEMMA TypesPreserved == TypeOK /\ EvidenceInv /\ [Next]_vars => TypeOK'
<1> SUFFICES ASSUME TypeOK, EvidenceInv, [Next]_vars PROVE TypeOK'
  OBVIOUS
<1>1. Thread \subseteq Proc /\ Checker \subseteq Proc /\ Loop \in Proc
  BY DEF Proc, Watcher
<1>2. CASE \E t \in Thread : ThreadStep(t)
  BY <1>1, <1>2, PublishType, ViewType, RegisterType, RegisterFailsType DEF ThreadStep
<1>3. CASE LoopStep
  BY <1>1, <1>3, SelectBatchType, FetchType, WriteType, WriteFailsType, TellType DEF LoopStep
<1>4. CASE \E k \in Checker : CheckerStep(k)
  BY <1>1, <1>4, SelectStoryType, RegisterType, RegisterFailsType, FetchType, WriteType,
     WriteFailsType, TellType DEF CheckerStep
<1> QED BY <1>2, <1>3, <1>4, OthersType DEF Next

\* Every column of citation_checks and all that a recheck carries keep their
\* types; a wait is a number however many checks or errors there were
\* (tracker.py: compute_next_check).  A recheck writes only where it has read
\* a row, which is part of EvidenceInv.
THEOREM TypeCorrect == Spec => []TypeOK
<1>1. Init => TypeOK /\ EvidenceInv
  BY TypesInitially, EvidenceInitially
<1>2. TypeOK /\ EvidenceInv /\ [Next]_vars => TypeOK' /\ EvidenceInv'
  BY TypesPreserved, EvidencePreserved
<1> QED BY <1>1, <1>2, PTL DEF Spec

-----------------------------------------------------------------------------
(* What the rows do to the threshold *)

\* The rows of some sources as count_citation_signals gets them, and the votes that
\* a story with them needs (threshold.py: compute_effective_threshold).
Signals(cites) ==
    {[of |-> c, status |-> row[c].status, http |-> row[c].http,
      witnessed |-> row[c].base.captured] : c \in cites}
Needs(base, cites) ==
    EffectiveThreshold("none", base, HardDeleted(Signals(cites)), HardBlocked(Signals(cites)))

\* Votes are taken off the base, and never the last, for one reason only: a source
\* that was seen alive has itself answered 404 or 410.
LoweredForALoss(base) ==
    \A s \in Story :
        LET need == Needs(base, CitationsOf(s) \cap known) IN
        /\ need \in 1..base
        /\ need < base => \E c \in CitationsOf(s) \cap known :
                             hist[c].alive /\ hist[c].answered \in {404, 410}

\* A 403 is an error, at the source and through the proxy.
NotBarred(r) == ~(r.status = "blocked" /\ r.http = 403)
BarredInv ==
    /\ \A c \in Citation : NotBarred(row[c])
    /\ \A p \in Proc : proc[p].pc = "write" => NotBarred(proc[p].verdict)

LEMMA BodyIsNotBarred ==
    ASSUME NEW o \in Page, NEW base, o.net = "ok"
    PROVE  NotBarred(DecideBody(o, base))
<1> DEFINE first == [Verdict("live", o.code) EXCEPT !.base = BaseOf(o)]
<1>1. o.code # 403
  BY PageAssumption
<1>2. first.status = "live"
  BY FirstVerdict
<1>3. \/ \E status : DecideBody(o, base) = Verdict(status, o.code)
      \/ DecideBody(o, base) = first
  BY DEF DecideBody
<1> HIDE DEF first
<1> QED BY <1>1, <1>2, <1>3, VerdictFields DEF NotBarred

LEMMA VerdictIsNotBarred ==
    ASSUME NEW o \in Page, NEW base, NEW c, NEW v \in ViaProxy(c, o, Decide(o, base))
    PROVE  NotBarred(v)
<1>1. o.net \in {"ok", "http", "none"}
  BY PageAssumption DEF Observation
<1>2. CASE o.net = "ok"
  <2>1. NotBarred(Decide(o, base))
    BY <1>2, BodyIsNotBarred DEF Decide
  <2> QED BY <2>1, VerdictFields DEF ViaProxy, NotBarred
<1>3. CASE o.net \in {"http", "none"}
  <2>1. \E status \in {"error", "deleted"} : \E http : Decide(o, base) = Verdict(status, http)
    BY <1>3 DEF Decide
  <2>2. NotBarred(Decide(o, base))
    BY <2>1, VerdictFields DEF NotBarred
  <2> QED BY <2>2, VerdictFields DEF ViaProxy, NotBarred
<1> QED BY <1>1, <1>2, <1>3

\* One process moves.
LEMMA BarredMoves ==
    ASSUME EvidenceInv, BarredInv, NEW p \in Proc, NEW q, Becomes(p, q),
           q.pc = "write" => NotBarred(q.verdict),
           \A c \in Citation : NotBarred(row'[c])
    PROVE  BarredInv'
<1>1. \A r \in Proc : proc'[r] = IF r = p THEN q ELSE proc[r]
  BY DEF Becomes, EvidenceInv, ProcsHold
<1> QED BY <1>1 DEF BarredInv, NotBarred

LEMMA RegisterIsNotBarred ==
    ASSUME EvidenceInv, BarredInv, NEW p \in Proc, Register(p)
    PROVE  BarredInv'
<1> DEFINE mine == CitationsOf(proc[p].story)
<1>1. PICK found \in BOOLEAN :
         row' = [c \in Citation |->
                    IF c \notin mine THEN row[c]
                    ELSE [row[c] EXCEPT
                            !.status = "unchecked",
                            !.base = IF ~(proc[p].page.net = "ok") THEN @
                                     ELSE IF found THEN Inherited(@, proc[p].page)
                                     ELSE [@ EXCEPT !.captured = TRUE]]]
  BY DEF Register
<1>2. \A c \in Citation : IsRow(row[c])
  BY DEF EvidenceInv, RowsFounded
<1>3. ASSUME NEW c \in Citation PROVE NotBarred(row'[c])
  <2>1. CASE c \notin mine
    BY <1>1, <2>1 DEF BarredInv
  <2>2. CASE c \in mine
    <3>1. PICK b : row'[c] = [row[c] EXCEPT !.status = "unchecked", !.base = b]
      BY <1>1, <2>2
    <3>2. row'[c].status = "unchecked"
      BY <1>2, <3>1 DEF IsRow, RowFields
    <3> QED BY <3>2 DEF NotBarred
  <2> QED BY <2>1, <2>2
<1>4. Becomes(p, AfterRegister(p))
  BY DEF Register
<1>5. AfterRegister(p).pc # "write"
  BY IdleHolds DEF AfterRegister, IsProc, ProcFields
<1> QED BY <1>3, <1>4, <1>5, BarredMoves

LEMMA FetchIsNotBarred ==
    ASSUME EvidenceInv, BarredInv, NEW p \in Proc, Fetch(p)
    PROVE  BarredInv'
<1>1. PICK t \in proc[p].todo :
        \E v \in ViaProxy(t.cite, site[t.cite], Decide(site[t.cite], t.read.base)) :
          Becomes(p, [proc[p] EXCEPT
                        !.pc = "write", !.todo = @ \ {t}, !.cite = t.cite,
                        !.read = t.read, !.page = site[t.cite],
                        !.verdict = [NewRow EXCEPT !.status = v.status,
                                       !.http = v.http, !.base = v.base],
                        !.later = hist[t.cite].alive])
  BY DEF Fetch
<1>2. PICK v \in ViaProxy(t.cite, site[t.cite], Decide(site[t.cite], t.read.base)) :
          Becomes(p, [proc[p] EXCEPT
                        !.pc = "write", !.todo = @ \ {t}, !.cite = t.cite,
                        !.read = t.read, !.page = site[t.cite],
                        !.verdict = [NewRow EXCEPT !.status = v.status,
                                       !.http = v.http, !.base = v.base],
                        !.later = hist[t.cite].alive])
  BY <1>1
<1> DEFINE verdict == [NewRow EXCEPT !.status = v.status, !.http = v.http, !.base = v.base]
           later == hist[t.cite].alive
           todo == proc[p].todo \ {t}
           q == [proc[p] EXCEPT !.pc = "write", !.todo = todo, !.cite = t.cite,
                    !.read = t.read, !.page = site[t.cite], !.verdict = verdict,
                    !.later = later]
<1>3. IsProc(proc[p]) /\ t.cite \in Citation
  BY DEF EvidenceInv, ProcsHold, Holds
<1>4. NotBarred(v)
  BY <1>3, VerdictIsNotBarred DEF EvidenceInv
<1>5. verdict.status = v.status /\ verdict.http = v.http
  BY NewRowIsRow DEF IsRow, RowFields
<1>6. Becomes(p, q)
  BY <1>2
<1> HIDE DEF verdict, later, todo
<1>7. q.verdict = verdict
  BY <1>3 DEF IsProc, ProcFields
<1> HIDE DEF q
<1>8. NotBarred(q.verdict)
  BY <1>4, <1>5, <1>7 DEF NotBarred
<1>9. UNCHANGED row
  BY DEF Fetch, db
<1> QED BY <1>6, <1>8, <1>9, BarredMoves DEF BarredInv

LEMMA WriteIsNotBarred ==
    ASSUME EvidenceInv, BarredInv, NEW p \in Proc, Write(p)
    PROVE  BarredInv'
<1> DEFINE c == proc[p].cite
           v == proc[p].verdict
<1>1. /\ c \in Citation /\ proc[p].pc = "write"
      /\ \A d \in Citation \ {c} : row'[d] = row[d]
      /\ row'[c].status = v.status /\ row'[c].http = v.http
  BY WriteEffect
<1>2. \A d \in Citation : NotBarred(row'[d])
  BY <1>1 DEF BarredInv, NotBarred
<1>3. PICK newly : Becomes(p, NextRow(p, newly))
  BY DEF Write
<1>4. NextRow(p, newly).pc = "rows"
  BY DEF NextRow, EvidenceInv, ProcsHold, IsProc, ProcFields
<1> QED BY <1>2, <1>3, <1>4, BarredMoves

\* The steps that neither judge a page nor write a row.
LEMMA OthersAreNotBarred ==
    ASSUME EvidenceInv, BarredInv, NEW p \in Proc,
           \/ \E s \in Story : Publish(p, s) \/ View(p, s) \/ SelectStory(p, s)
           \/ RegisterFails(p) \/ WriteFails(p) \/ Tell(p) \/ (p = Loop /\ SelectBatch)
    PROVE  BarredInv'
<1>1. /\ IsProc(proc[p]) /\ IsProc(Idle) /\ Idle.pc = "idle"
      /\ UNCHANGED row
  BY IdleHolds DEF EvidenceInv, ProcsHold, Publish, View, RegisterFails, SelectStory, WriteFails,
     Tell, SelectBatch, db
<1>2. \A c \in Citation : NotBarred(row'[c])
  BY <1>1 DEF BarredInv
<1>3. \E q : Becomes(p, q) /\ q.pc # "write"
  <2>1. ASSUME NEW s \in Story, Publish(p, s) PROVE \E q : Becomes(p, q) /\ q.pc # "write"
    <3>1. PICK o : Becomes(p, [Idle EXCEPT !.pc = "register", !.story = s, !.page = o])
      BY <2>1 DEF Publish
    <3>2. [Idle EXCEPT !.pc = "register", !.story = s, !.page = o].pc = "register"
      BY <1>1 DEF IsProc, ProcFields
    <3> QED BY <3>1, <3>2
  <2>2. ASSUME NEW s \in Story, View(p, s) PROVE \E q : Becomes(p, q) /\ q.pc # "write"
    <3>1. [Idle EXCEPT !.pc = "register", !.story = s].pc = "register"
      BY <1>1 DEF IsProc, ProcFields
    <3> QED BY <2>2, <3>1 DEF View
  <2>3. CASE RegisterFails(p)
    <3>1. AfterRegister(p).pc # "write"
      BY <1>1 DEF AfterRegister, IsProc, ProcFields
    <3> QED BY <2>3, <3>1 DEF RegisterFails
  <2>4. ASSUME NEW s \in Story, SelectStory(p, s) PROVE \E q : Becomes(p, q) /\ q.pc # "write"
    <3>1. PICK todo : \/ Becomes(p, [Idle EXCEPT !.pc = "rows", !.todo = todo])
                      \/ Becomes(p, [Idle EXCEPT !.pc = "register", !.story = s])
                      \/ Becomes(p, Idle)
      BY <2>4 DEF SelectStory
    <3>2. /\ [Idle EXCEPT !.pc = "rows", !.todo = todo].pc = "rows"
          /\ [Idle EXCEPT !.pc = "register", !.story = s].pc = "register"
      BY <1>1 DEF IsProc, ProcFields
    <3> QED BY <1>1, <3>1, <3>2
  <2>5. CASE WriteFails(p)
    <3>1. PICK newly : Becomes(p, NextRow(p, newly))
      BY <2>5 DEF WriteFails
    <3>2. NextRow(p, newly).pc = "rows"
      BY <1>1 DEF NextRow, IsProc, ProcFields
    <3> QED BY <3>1, <3>2
  <2>6. CASE Tell(p)
    <3>1. Becomes(p, Idle) \/ \E e : Becomes(p, [proc[p] EXCEPT !.newly = @ \ {e}])
      BY <2>6 DEF Tell
    <3>2. ASSUME NEW e PROVE [proc[p] EXCEPT !.newly = @ \ {e}].pc = "rows"
      BY <1>1, <2>6 DEF Tell, IsProc, ProcFields
    <3> QED BY <1>1, <3>1, <3>2
  <2>7. CASE p = Loop /\ SelectBatch
    <3>1. PICK todo : Becomes(Loop, [Idle EXCEPT !.pc = "rows", !.todo = todo])
      BY <2>7 DEF SelectBatch
    <3>2. [Idle EXCEPT !.pc = "rows", !.todo = todo].pc = "rows"
      BY <1>1 DEF IsProc, ProcFields
    <3> QED BY <2>7, <3>1, <3>2
  <2> QED BY <2>1, <2>2, <2>3, <2>4, <2>5, <2>6, <2>7
<1> QED BY <1>2, <1>3, BarredMoves

LEMMA BarredPreserved == EvidenceInv /\ BarredInv /\ [Next]_vars => BarredInv'
<1> SUFFICES ASSUME EvidenceInv, BarredInv, [Next]_vars PROVE BarredInv'
  OBVIOUS
<1>1. Thread \subseteq Proc /\ Checker \subseteq Proc /\ Loop \in Proc
  BY DEF Proc, Watcher
<1>2. CASE \E t \in Thread : ThreadStep(t)
  BY <1>1, <1>2, OthersAreNotBarred, RegisterIsNotBarred DEF ThreadStep
<1>3. CASE LoopStep
  BY <1>1, <1>3, OthersAreNotBarred, FetchIsNotBarred, WriteIsNotBarred DEF LoopStep
<1>4. CASE \E k \in Checker : CheckerStep(k)
  BY <1>1, <1>4, OthersAreNotBarred, RegisterIsNotBarred, FetchIsNotBarred, WriteIsNotBarred
     DEF CheckerStep
<1>5. CASE (\E c \in Citation : Change(c)) \/ Tick \/ UNCHANGED vars
  <2>1. UNCHANGED <<row, proc>>
    BY <1>5 DEF Change, Tick, vars, db
  <2> QED BY <2>1 DEF BarredInv
<1>6. CASE Crash
  <2>1. UNCHANGED row /\ \A p \in Proc : proc'[p].pc = "idle"
    BY <1>6, IdleHolds DEF Crash, db
  <2> QED BY <2>1 DEF BarredInv
<1> QED BY <1>2, <1>3, <1>4, <1>5, <1>6 DEF Next

LEMMA BarredInitially == Init => BarredInv
BY IdleHolds, NewRowIsRow DEF Init, BarredInv, NotBarred

\* What count_citation_signals counts.
LEMMA SomethingIsLost ==
    ASSUME NEW cites \in SUBSET Citation, HardDeleted(Signals(cites)) >= 1
    PROVE  \E c \in cites : row[c].status = "deleted" /\ row[c].http \in HardCode
                            /\ row[c].base.captured
<1> DEFINE counted == {r \in Signals(cites) : r.status = "deleted" /\ r.http \in {404, 410}
                                              /\ r.witnessed}
<1>1. Cardinality(counted) >= 1
  BY DEF HardDeleted
<1>2. counted # {}
  BY <1>1, FS_EmptySet
<1>3. PICK r \in Signals(cites) : r.status = "deleted" /\ r.http \in {404, 410} /\ r.witnessed
  BY <1>2
<1>4. PICK c \in cites : r = [of |-> c, status |-> row[c].status, http |-> row[c].http,
                              witnessed |-> row[c].base.captured]
  BY <1>3 DEF Signals
<1> QED BY <1>3, <1>4 DEF HardCode

LEMMA NothingIsBarred ==
    ASSUME BarredInv, NEW cites \in SUBSET Citation
    PROVE  HardBlocked(Signals(cites)) = 0
<1> DEFINE counted == {r \in Signals(cites) : r.status = "blocked" /\ r.http = 403
                                              /\ r.witnessed}
<1>1. counted = {}
  BY DEF BarredInv, NotBarred, Signals
<1> QED BY <1>1, FS_EmptySet DEF HardBlocked

\* Whatever overlaps and fails, as little as it takes to raise or lower the votes a
\* story needs: at least one vote stays, and one is waived only after a loss
\* (threshold.py: compute_effective_threshold, count_citation_signals).
THEOREM LoweredOnlyForALoss ==
    ASSUME NEW CONSTANT base \in Nat \ {0}
    PROVE  Spec => []LoweredForALoss(base)
<1>1. ASSUME EvidenceInv, BarredInv, NEW s \in Story
      PROVE  LET need == Needs(base, CitationsOf(s) \cap known) IN
             /\ need \in 1..base
             /\ need < base => \E c \in CitationsOf(s) \cap known :
                                  hist[c].alive /\ hist[c].answered \in {404, 410}
  <2> DEFINE cites == CitationsOf(s) \cap known
             hard == HardDeleted(Signals(cites))
  <2>1. cites \in SUBSET Citation
    BY DEF CitationsOf
  <2>2. HardBlocked(Signals(cites)) = 0
    BY <1>1, <2>1, NothingIsBarred
  <2>3. Needs(base, cites) = IF hard >= 1 THEN Larger(1, base - 2) ELSE base
    BY <2>2 DEF Needs, EffectiveThreshold
  <2>4. Needs(base, cites) \in 1..base
    BY <2>3 DEF Larger
  <2>5. ASSUME Needs(base, cites) < base
        PROVE  \E c \in cites : hist[c].alive /\ hist[c].answered \in {404, 410}
    <3>1. hard >= 1
      BY <2>3, <2>5
    <3>2. PICK c \in cites : row[c].status = "deleted" /\ row[c].http \in HardCode
                             /\ row[c].base.captured
      BY <2>1, <3>1, SomethingIsLost
    <3>3. Founded(row[c], hist[c])
      BY <1>1, <2>1 DEF EvidenceInv, RowsFounded
    <3> QED BY <3>2, <3>3 DEF Founded, HardCode
  <2> QED BY <2>4, <2>5
<1>2. EvidenceInv /\ BarredInv => LoweredForALoss(base)
  BY <1>1 DEF LoweredForALoss
<1>3. Init => EvidenceInv /\ BarredInv
  BY EvidenceInitially, BarredInitially
<1>4. EvidenceInv /\ BarredInv /\ [Next]_vars => EvidenceInv' /\ BarredInv'
  BY EvidencePreserved, BarredPreserved
<1> QED BY <1>2, <1>3, <1>4, PTL DEF Spec
=============================================================================
