-------------------------- MODULE StoryArchiveOwner --------------------------
(***************************************************************************)
(* Who owns a claim, when a story is paid for only once, and that          *)
(* StoryArchive keeps the promise of ArchivePromise.                       *)
(***************************************************************************)
EXTENDS StoryArchiveProofs

\* While an upload cannot outlast a claim, the owner's clock and the row's
\* agree: the claim is as old as the upload.
ClaimAge ==
    \A p \in Proc, s \in Story :
        Holds(p, s) => /\ tx[s] = Pending
                       /\ age[s] = proc[p].held
                       /\ proc[p].held <= UploadLimit

OneHolder == \A p, q \in Proc, s \in Story : Holds(p, s) /\ Holds(q, s) => p = q

OwnerInv == RowInv /\ ClaimAge /\ OneHolder
-----------------------------------------------------------------------------
\* What p does with a story it holds after a step, other than let time pass.
LEMMA HolderSteps ==
    ASSUME TypeInv, [Next]_vars, NEW p \in Proc, NEW s \in Story, Holds(p, s)'
    PROVE  \/ Tick
           \/ Holds(p, s) /\ proc'[p].held = proc[p].held
           \/ /\ ArchiveClaim(p) /\ proc[p].story = s /\ proc[p].pc = "claim"
              /\ Becomes(p, [proc[p] EXCEPT !.pc = "bundle", !.saw = NoTx])
              /\ proc'[p].held = proc[p].held
<1>0. proc[p] \in ProcState /\ proc'[p].pc \in Holding /\ proc'[p].story = s
    BY DEF TypeInv, TypeOK, Holds
<1>1. CASE proc'[p] = proc[p]
    BY <1>1 DEF Holds
<1>2. ASSUME NEW q \in Proc, NEW state, Becomes(q, state), state.pc \notin Holding
      PROVE  proc'[p] = proc[p]
    BY <1>0, <1>2 DEF Becomes, TypeInv, TypeOK
<1>3. \A q \in Proc : Idle.pc \notin Holding /\ AfterArchive(q).pc \notin Holding
    BY DEF Idle, AfterArchive, Holding
<1>4. ASSUME NEW u \in Voter, VoteStep(u)
      PROVE  proc'[p] = proc[p]
    <2>0. u \in Proc /\ proc[u] \in ProcState
        BY DEF Proc, TypeInv, TypeOK
    <2>1. ASSUME NEW r \in Story, VoteInsert(u, r)
          PROVE  proc'[p] = proc[p]
        <3>1. [Idle EXCEPT !.pc = "gather", !.story = r].pc \notin Holding
            BY DEF Idle, Holding
        <3> QED BY <1>2, <2>0, <2>1, <3>1 DEF VoteInsert
    <2>2. CASE VoteGather(u)
        <3> DEFINE state == [proc[u] EXCEPT !.pc = "count",
                                !.count = Votes(proc[u].story),
                                !.need = Need(proc[u].story), !.saw = tx[proc[u].story]]
        <3>1. state.pc \notin Holding
            BY <2>0 DEF ProcState, Holding
        <3>2. Becomes(u, state) \/ Becomes(u, Idle)
            BY <2>2 DEF VoteGather
        <3> QED BY <1>2, <1>3, <2>0, <3>1, <3>2
    <2>3. CASE VoteCount(u)
        <3> DEFINE state == [proc[u] EXCEPT !.pc = "archive", !.saw = NoTx, !.count = 0]
        <3>1. state.pc \notin Holding
            BY <2>0 DEF ProcState, Holding
        <3>2. Becomes(u, state) \/ Becomes(u, Idle)
            BY <2>3 DEF VoteCount
        <3> QED BY <1>2, <1>3, <2>0, <3>1, <3>2
    <2>4. CASE VoteAbort(u)
        BY <1>2, <1>3, <2>0, <2>4 DEF VoteAbort
    <2> QED BY <1>4, <2>1, <2>2, <2>3, <2>4 DEF VoteStep
<1>5. ASSUME NEW c \in Checker, CheckStep(c)
      PROVE  proc'[p] = proc[p]
    <2>0. c \in Proc /\ proc[c] \in ProcState
        BY DEF Proc, TypeInv, TypeOK
    <2>1. ASSUME NEW r \in Story, NEW h \in BOOLEAN, NEW n \in BOOLEAN,
                 Recheck(c, r, h, n)
          PROVE  proc'[p] = proc[p]
        <3>1. [Idle EXCEPT !.pc = "gather", !.story = r].pc \notin Holding
            BY DEF Idle, Holding
        <3> QED BY <1>2, <2>0, <2>1, <3>1 DEF Recheck
    <2>2. CASE MaybeArchiveNow(c)
        <3> DEFINE state == [proc[c] EXCEPT !.pc = "archive",
                                            !.need = Need(proc[c].story)]
        <3>1. state.pc \notin Holding
            BY <2>0 DEF ProcState, Holding
        <3>2. Becomes(c, state) \/ Becomes(c, Idle)
            BY <2>2 DEF MaybeArchiveNow
        <3> QED BY <1>2, <1>3, <2>0, <3>1, <3>2
    <2> QED BY <1>5, <2>1, <2>2 DEF CheckStep
<1>6. ASSUME NEW q \in Proc, ArchiveStep(q), q # p
      PROVE  proc'[p] = proc[p]
    BY <1>6 DEF ArchiveStep, ArchiveRead, ArchiveClaim, ArchivePost, ArchiveError,
       ArchiveRecord, FailureRead, FailureWrite, ArchiveAbort, Becomes, TypeInv, TypeOK
<1>7. CASE ArchiveStep(p)
    <2>1. CASE ArchiveRead(p)
        <3>1. [proc[p] EXCEPT !.pc = "claim", !.saw = tx[proc[p].story]].pc \notin Holding
            BY <1>0 DEF ProcState, Holding
        <3> QED BY <1>1, <1>2, <1>3, <2>1, <3>1 DEF ArchiveRead
    <2>2. CASE ArchiveClaim(p)
        <3> DEFINE state == [proc[p] EXCEPT !.pc = "bundle", !.saw = NoTx]
        <3>1. CASE Becomes(p, state)
            <4>1. proc'[p] = state /\ state.story = proc[p].story
                  /\ state.held = proc[p].held
                BY <1>0, <3>1 DEF Becomes, ProcState, TypeInv, TypeOK
            <4> QED BY <1>0, <2>2, <3>1, <4>1 DEF ArchiveClaim
        <3> QED BY <1>1, <1>2, <1>3, <2>2, <3>1 DEF ArchiveClaim
    <2>3. CASE ArchivePost(p) \/ ArchiveError(p) \/ FailureRead(p)
        <3>1. proc[p].pc \in Holding
            BY <2>3 DEF ArchivePost, ArchiveError, FailureRead, Holding
        <3>2. ASSUME NEW state, Becomes(p, state),
                     state.story = proc[p].story, state.held = proc[p].held
              PROVE  Holds(p, s) /\ proc'[p].held = proc[p].held
            BY <1>0, <3>1, <3>2 DEF Becomes, Holds, TypeInv, TypeOK
        <3>3. /\ [proc[p] EXCEPT !.pc = "wait", !.need = 1].story = proc[p].story
              /\ [proc[p] EXCEPT !.pc = "wait", !.need = 1].held = proc[p].held
              /\ [proc[p] EXCEPT !.pc = "fail", !.tx = NoTx].story = proc[p].story
              /\ [proc[p] EXCEPT !.pc = "fail", !.tx = NoTx].held = proc[p].held
            BY <1>0 DEF ProcState
        <3>4. \A n : LET state == [proc[p] EXCEPT !.pc = "failwrite", !.att = n] IN
                     state.story = proc[p].story /\ state.held = proc[p].held
            BY <1>0 DEF ProcState
        <3> QED BY <2>3, <3>2, <3>3, <3>4 DEF ArchivePost, ArchiveError, FailureRead
    <2>4. CASE ArchiveRecord(p) \/ FailureWrite(p) \/ ArchiveAbort(p)
        BY <1>1, <1>2, <1>3, <2>4 DEF ArchiveRecord, FailureWrite, ArchiveAbort
    <2> QED BY <1>7, <2>1, <2>2, <2>3, <2>4 DEF ArchiveStep
<1>8. ASSUME NEW r \in Story, UploaderStep(r)
      PROVE  proc[p].pc \in Holding /\ proc'[p].story = proc[p].story
             /\ proc'[p].held = proc[p].held
    BY <1>0, <1>8 DEF UploaderStep, UploadLookup, UploadDone, UploadLost, UploadFail,
       Answer, AnswerError, Waiting, ProcState, Holding
<1>9. CASE SweepStep
    <2>0. Sweeper \in Proc
        BY DEF Proc
    <2>1. \A pc \in {"select", "rows"} : [Idle EXCEPT !.pc = pc].pc \notin Holding
        BY DEF Idle, Holding
    <2>2. \A row : [Idle EXCEPT !.pc = "archive", !.story = row.story,
                                !.need = Need(row.story)].pc \notin Holding
        BY DEF Idle, Holding
    <2> QED BY <1>1, <1>2, <1>3, <1>9, <2>0, <2>1, <2>2 DEF SweepStep, SweepReset,
            SweepResetError, SweepSelect, SweepRow, SweepEnd
<1>10. CASE Crash
    BY <1>0, <1>3, <1>10 DEF Crash
<1>11. CASE Cleanup \/ (\E r \in Story : AgeOut(r)) \/ Retarget \/ UNCHANGED vars
    BY <1>1, <1>11 DEF Cleanup, AgeOut, Retarget, vars
<1> QED BY <1>0, <1>1, <1>4, <1>5, <1>6, <1>7, <1>8, <1>9, <1>10, <1>11 DEF Next, Holds

\* The only steps that write last_archive_attempt, or let it grow older.
LEMMA AgeSteps ==
    ASSUME [Next]_vars
    PROVE  \/ UNCHANGED age
           \/ Tick
           \/ Cleanup
           \/ \E p \in Proc : ArchiveClaim(p) \/ FailureWrite(p)
<1>1. ASSUME NEW u \in Voter, VoteStep(u)
      PROVE  UNCHANGED age
    BY <1>1 DEF VoteStep, VoteInsert, VoteGather, VoteCount, VoteAbort, tables
<1>2. ASSUME NEW c \in Checker, CheckStep(c)
      PROVE  UNCHANGED age
    BY <1>2 DEF CheckStep, Recheck, MaybeArchiveNow, tables
<1>3. ASSUME NEW p \in Proc, ArchiveStep(p)
      PROVE  UNCHANGED age \/ ArchiveClaim(p) \/ FailureWrite(p)
    BY <1>3 DEF ArchiveStep, ArchiveRead, ArchivePost, ArchiveError, ArchiveRecord,
                FailureRead, ArchiveAbort, tables
<1>4. ASSUME NEW s \in Story, UploaderStep(s)
      PROVE  UNCHANGED age
    BY <1>4 DEF UploaderStep, UploadLookup, UploadDone, UploadLost, UploadFail, tables
<1>5. CASE SweepStep \/ (\E s \in Story : AgeOut(s)) \/ Retarget \/ Crash
           \/ UNCHANGED vars
    BY <1>5 DEF SweepStep, SweepReset, SweepResetError, SweepSelect, SweepRow,
                SweepEnd, AgeOut, Retarget, Crash, tables, vars
<1> QED BY <1>1, <1>2, <1>3, <1>4, <1>5 DEF Next

\* A claim that is held is not stale, so nobody else takes it over or off.
LEMMA HeldIsSafe ==
    ASSUME UploadLimit <= PendingTimeout, OwnerInv, [Next]_vars,
           NEW p \in Proc, NEW s \in Story, Holds(p, s), Holds(p, s)'
    PROVE  /\ tx'[s] = Pending
           /\ \A q \in Proc \ {p} :
                ArchiveClaim(q) => age'[s] = age[s] /\ ~Holds(q, s)'
           /\ \A q \in Proc : FailureWrite(q) => age'[s] = age[s]
<1> USE DEF OwnerInv, RowInv
<1>1. tx[s] = Pending /\ age[s] <= PendingTimeout /\ s \in exists
    <2>1. /\ tx[s] = Pending /\ age[s] = proc[p].held /\ proc[p].held <= UploadLimit
          /\ proc[p].held \in Nat
        BY DEF ClaimAge, TypeInv, TypeOK, ProcState
    <2>2. s \in exists
        BY <2>1, SetAssumption DEF Marked
    <2> QED BY <2>1, <2>2, NumberAssumption
<1>2. age[s] \in Nat
    BY DEF TypeInv, TypeOK
<1>3. ASSUME NEW q \in Proc, ArchiveClaim(q)
      PROVE  tx'[s] = Pending /\ (proc[q].story = s => UNCHANGED <<tx, age>>
                                      /\ Becomes(q, AfterArchive(q)))
    <2>1. CASE proc[q].story = s
        <3>1. ~Claimable(s, proc[q].saw)
            BY <1>1, <1>2, NumberAssumption DEF Claimable
        <3> QED BY <1>1, <1>3, <2>1, <3>1 DEF ArchiveClaim
    <2>2. CASE proc[q].story # s
        BY <1>1, <1>3, <2>2 DEF ArchiveClaim, TypeInv, TypeOK
    <2> QED BY <2>1, <2>2
<1>4. ASSUME NEW q \in Proc \ {p}, ArchiveClaim(q)
      PROVE  age'[s] = age[s] /\ ~Holds(q, s)'
    <2>1. CASE proc[q].story = s
        <3>1. Becomes(q, AfterArchive(q)) /\ age' = age
            BY <1>3, <1>4, <2>1
        <3>2. proc'[q].pc \notin Holding
            BY <3>1 DEF Becomes, AfterArchive, Idle, Holding, TypeInv, TypeOK
        <3> QED BY <3>1, <3>2 DEF Holds
    <2>2. CASE proc[q].story # s
        <3>1. proc[q] \in ProcState
            BY DEF TypeInv, TypeOK
        <3>2. age'[s] = age[s]
            BY <1>4, <2>2 DEF ArchiveClaim, TypeInv, TypeOK
        <3>3. CASE Becomes(q, [proc[q] EXCEPT !.pc = "bundle", !.saw = NoTx])
            BY <2>2, <3>1, <3>2, <3>3 DEF Becomes, Holds, ProcState, TypeInv, TypeOK
        <3>4. CASE Becomes(q, AfterArchive(q))
            BY <3>2, <3>4 DEF Becomes, AfterArchive, Idle, Holding, Holds, TypeInv, TypeOK
        <3> QED BY <1>4, <3>3, <3>4 DEF ArchiveClaim
    <2> QED BY <2>1, <2>2
<1>5. ASSUME NEW q \in Proc, ArchiveRecord(q) \/ FailureWrite(q)
      PROVE  proc[q].story # s
    <2>1. proc[q].pc \in Holding
        BY <1>5 DEF ArchiveRecord, FailureWrite, Holding
    <2>2. proc'[q].pc \notin Holding
        BY <1>5 DEF ArchiveRecord, FailureWrite, Becomes, AfterArchive, Idle, Holding,
                    TypeInv, TypeOK
    <2>3. q # p
        BY <2>2 DEF Holds
    <2> QED BY <2>1, <2>3 DEF OneHolder, Holds
<1>6. \A q \in Proc : FailureWrite(q) => age'[s] = age[s]
    BY <1>5 DEF FailureWrite, TypeInv, TypeOK
<1>7. tx'[s] = Pending
    <2>1. CASE UNCHANGED <<tx, exists>> \/ Cleanup
        BY <1>1, <2>1 DEF Cleanup
    <2>2. CASE SweepReset
        BY <1>1, <1>2, <2>2, NumberAssumption DEF SweepReset
    <2>3. ASSUME NEW q \in Proc, ArchiveRecord(q) \/ FailureWrite(q)
          PROVE  tx'[s] = Pending
        BY <1>1, <1>5, <2>3 DEF ArchiveRecord, FailureWrite, TypeInv, TypeOK
    <2> QED BY <1>3, <2>1, <2>2, <2>3, RowSteps
<1> QED BY <1>4, <1>6, <1>7

LEMMA ClaimAgeStep ==
    ASSUME UploadLimit <= PendingTimeout, OwnerInv, [Next]_vars
    PROVE  ClaimAge'
<1> USE DEF OwnerInv, RowInv
<1> SUFFICES ASSUME NEW p \in Proc, NEW s \in Story, Holds(p, s)'
             PROVE  /\ tx'[s] = Pending
                    /\ age'[s] = proc'[p].held
                    /\ proc'[p].held <= UploadLimit
    BY DEF ClaimAge
<1>0. proc[p] \in ProcState /\ age[s] \in Nat
    BY DEF TypeInv, TypeOK
<1>1. CASE Tick
    <2>1. Holds(p, s)
        BY <1>0, <1>1 DEF Tick, Holds, ProcState
    <2>2. proc[p].pc = "wait"
        BY <1>1, <2>1 DEF Tick, Holds, Holding, Midway
    <2>3. proc'[p].held = proc[p].held + 1 /\ proc[p].held < UploadLimit
        BY <1>0, <1>1, <2>2 DEF Tick, ProcState
    <2>4. age[s] = proc[p].held /\ proc[p].held \in Nat
        BY <1>0, <2>1 DEF ClaimAge, ProcState
    <2>5. age'[s] = age[s] + 1
        <3>1. AgeCap \in Nat /\ AgeCap >= UploadLimit + 1
            BY NumberAssumption DEF AgeCap, Larger
        <3>2. age[s] + 1 <= AgeCap
            BY <2>3, <2>4, <3>1, NumberAssumption
        <3>3. Older(age[s]) = age[s] + 1
            BY <1>0, <3>1, <3>2 DEF Older, Smaller
        <3> QED BY <1>1, <3>3 DEF Tick
    <2>6. tx'[s] = Pending
        BY <1>1, <2>1 DEF Tick, ClaimAge
    <2> QED BY <2>3, <2>4, <2>5, <2>6, NumberAssumption
<1>2. CASE ~Tick /\ Holds(p, s) /\ proc'[p].held = proc[p].held
    <2>1. tx[s] = Pending /\ age[s] = proc[p].held /\ proc[p].held <= UploadLimit
        BY <1>2 DEF ClaimAge
    <2>2. tx'[s] = Pending
        BY <1>2, HeldIsSafe
    <2>3. ~ArchiveClaim(p)
        BY <1>2 DEF ArchiveClaim, Holds, Holding
    <2>4. age'[s] = age[s]
        <3>1. CASE Cleanup
            BY <2>1, <3>1, SetAssumption DEF Cleanup, Expired
        <3>2. CASE \E q \in Proc : ArchiveClaim(q) \/ FailureWrite(q)
            BY <1>2, <2>3, <3>2, HeldIsSafe
        <3> QED BY <1>2, <3>1, <3>2, AgeSteps
    <2> QED BY <1>2, <2>1, <2>2, <2>4
<1>3. CASE /\ ArchiveClaim(p) /\ proc[p].story = s /\ proc[p].pc = "claim"
           /\ Becomes(p, [proc[p] EXCEPT !.pc = "bundle", !.saw = NoTx])
           /\ proc'[p].held = proc[p].held
    <2>1. proc[p].held = 0
        BY <1>3 DEF Knows, Holding
    <2>2. tx'[s] = Pending /\ age'[s] = 0
        <3>1. ~Becomes(p, AfterArchive(p))
            <4>1. proc'[p].pc \in Holding
                BY DEF Holds
            <4>2. AfterArchive(p).pc \notin Holding
                BY DEF AfterArchive, Idle, Holding
            <4> QED BY <4>1, <4>2 DEF Becomes, TypeInv, TypeOK
        <3> QED BY <1>3, <3>1 DEF ArchiveClaim, TypeInv, TypeOK
    <2> QED BY <1>3, <2>1, <2>2, NumberAssumption
<1> QED BY <1>1, <1>2, <1>3, HolderSteps

LEMMA OneHolderStep ==
    ASSUME UploadLimit <= PendingTimeout, OwnerInv, [Next]_vars
    PROVE  OneHolder'
<1> USE DEF OwnerInv, RowInv
<1>1. ASSUME NEW p \in Proc, NEW s \in Story, Holds(p, s)'
      PROVE  \/ Holds(p, s)
             \/ /\ ArchiveClaim(p)
                /\ Becomes(p, [proc[p] EXCEPT !.pc = "bundle", !.saw = NoTx])
    <2>1. CASE Tick
        <3>1. proc[p] \in ProcState
            BY DEF TypeInv, TypeOK
        <3> QED BY <1>1, <2>1, <3>1 DEF Tick, Holds, ProcState
    <2> QED BY <1>1, <2>1, HolderSteps
<1>2. ASSUME NEW p \in Proc, NEW q \in Proc, NEW s \in Story, p # q,
             Holds(p, s)', Holds(q, s)', Holds(p, s)
      PROVE  FALSE
    <2>1. CASE Holds(q, s)
        BY <1>2, <2>1 DEF OneHolder
    <2>2. CASE ArchiveClaim(q)
        BY <1>2, <2>2, HeldIsSafe
    <2> QED BY <1>1, <1>2, <2>1, <2>2
<1>3. ASSUME NEW p \in Proc, NEW q \in Proc, NEW s \in Story, p # q, Holds(q, s)',
             Becomes(p, [proc[p] EXCEPT !.pc = "bundle", !.saw = NoTx])
      PROVE  Holds(q, s)
    <2>1. proc'[q] = proc[q]
        BY <1>3 DEF Becomes, TypeInv, TypeOK
    <2> QED BY <1>3, <2>1 DEF Holds
<1> QED BY <1>1, <1>2, <1>3 DEF OneHolder

\* The claim protocol of archive.py: if an upload cannot take longer than
\* PENDING_TIMEOUT_SEC, no two archive_story calls work on one story between
\* claim and end, and the row keeps the marker as long as one of them does.
THEOREM OneOwner ==
    ASSUME UploadLimit <= PendingTimeout
    PROVE  Spec => []SingleOwner
<1>1. Init => OwnerInv
    BY RowInit DEF Init, OwnerInv, ClaimAge, OneHolder, Holds, Idle, Holding
<1>2. OwnerInv /\ [Next]_vars => OwnerInv'
    BY RowStep, ClaimAgeStep, OneHolderStep DEF OwnerInv
<1>3. OwnerInv => SingleOwner
    BY SetAssumption DEF OwnerInv, RowInv, Marked, ClaimAge, OneHolder, SingleOwner
<1> QED BY <1>1, <1>2, <1>3, PTL DEF Spec

-----------------------------------------------------------------------------
(* Paying once *)

OnceInv ==
    /\ TypeInv
    /\ PaidOnce
    /\ \A s \in Story : up[s].pc = "upload" => Uploads(s) = {}

\* How the upload of one story may move.
LEMMA UpSteps ==
    ASSUME TypeInv, [Next]_vars, NEW s \in Story, up'[s].pc = "upload"
    PROVE  \/ up[s].pc = "upload"
           \/ Uploads(s) = {} \/ ~LookupReliable
<1>0. \A p \in Proc : proc[p].pc = "bundle" => proc[p].story \in Story
    BY DEF TypeInv, WorksOnStory
<1>1. CASE UNCHANGED up
    BY <1>1
<1>2. ASSUME NEW p \in Proc, ArchiveStep(p)
      PROVE  up[s].pc = "upload"
    BY <1>0, <1>2 DEF ArchiveStep, ArchiveRead, ArchiveClaim, ArchivePost, ArchiveError,
       ArchiveRecord, FailureRead, FailureWrite, ArchiveAbort, TypeInv, TypeOK
<1>3. ASSUME NEW r \in Story, UploaderStep(r)
      PROVE  up[s].pc = "upload" \/ Uploads(s) = {} \/ ~LookupReliable
    <2>1. CASE up' = [up EXCEPT ![r] = NoUpload]
        BY <2>1 DEF NoUpload, TypeInv, TypeOK
    <2>2. CASE /\ up' = [up EXCEPT ![r].pc = "upload"]
               /\ Uploads(r) = {} \/ ~LookupReliable
        BY <2>2 DEF TypeInv, TypeOK
    <2> QED BY <1>3, <2>1, <2>2 DEF UploaderStep, UploadLookup, UploadDone, UploadLost,
                                    UploadFail, Answer, AnswerError
<1>4. ASSUME NEW u \in Voter, VoteStep(u)
      PROVE  UNCHANGED up
    BY <1>4 DEF VoteStep, VoteInsert, VoteGather, VoteCount, VoteAbort
<1>5. ASSUME NEW c \in Checker, CheckStep(c)
      PROVE  UNCHANGED up
    BY <1>5 DEF CheckStep, Recheck, MaybeArchiveNow
<1>6. CASE SweepStep \/ Cleanup \/ (\E r \in Story : AgeOut(r)) \/ Retarget
           \/ Tick \/ Crash \/ UNCHANGED vars
    BY <1>1, <1>6 DEF SweepStep, SweepReset, SweepResetError, SweepSelect, SweepRow,
                      SweepEnd, Cleanup, AgeOut, Retarget, Tick, Crash, vars
<1> QED BY <1>1, <1>2, <1>3, <1>4, <1>5, <1>6 DEF Next

LEMMA OnceStep ==
    ASSUME LookupReliable, OnceInv, [Next]_vars
    PROVE  OnceInv'
<1> USE DEF OnceInv
<1>1. TypeInv'
    BY TypeStep
<1>2. CASE UNCHANGED ledger
    <2>1. PaidOnce'
        BY <1>2 DEF PaidOnce
    <2>2. ASSUME NEW s \in Story, up'[s].pc = "upload"
          PROVE  Uploads(s)' = {}
        BY <1>2, <2>2, UpSteps DEF Uploads
    <2> QED BY <1>1, <2>1, <2>2
<1>3. ASSUME NEW s \in Story, NEW t \in Unused, up[s].pc = "upload", Pay(s, t),
             up' = [up EXCEPT ![s] = NoUpload]
      PROVE  OnceInv'
    <2>1. \A e \in ledger : e.story # s
        BY <1>3 DEF Uploads
    <2> DEFINE receipt == [tx |-> t, story |-> s, votes |-> up[s].votes,
                           need |-> up[s].need]
    <2>2. ledger' = ledger \cup {receipt} /\ receipt.story = s
        BY <1>3 DEF Pay
    <2>3. PaidOnce'
        BY <2>1, <2>2 DEF PaidOnce
    <2>4. ASSUME NEW r \in Story, up'[r].pc = "upload"
          PROVE  Uploads(r)' = {}
        <3>1. r # s /\ up[r].pc = "upload"
            BY <1>3, <2>4 DEF NoUpload, TypeInv, TypeOK
        <3>2. Uploads(r) = {}
            BY <3>1
        <3> QED BY <2>2, <3>1, <3>2 DEF Uploads
    <2> QED BY <1>1, <2>3, <2>4
<1> QED BY <1>2, <1>3, LedgerSteps

\* uploader/index.js: where findExistingTx sees every earlier upload, no
\* story is paid for twice, whatever happens on the Python side.
THEOREM OncePaid ==
    ASSUME LookupReliable
    PROVE  Spec => []PaidOnce
<1>1. Init => OnceInv
    BY TypeInit DEF Init, OnceInv, PaidOnce, NoUpload
<1>2. OnceInv /\ [Next]_vars => OnceInv'
    BY OnceStep
<1>3. OnceInv => PaidOnce
    BY DEF OnceInv
<1> QED BY <1>1, <1>2, <1>3, PTL DEF Spec
-----------------------------------------------------------------------------
(* The promise *)

LEMMA PromiseInit == Init => Promise!Init
BY SetAssumption DEF Init, Promise!Init, Archived

LEMMA PromisePay ==
    ASSUME NEW s \in Story, NEW t \in TxId, NEW v \in SUBSET Voter, Promise!Pay(s, t, v)
    PROVE  Promise!Next
BY DEF Promise!Next

LEMMA PromiseRecord ==
    ASSUME NEW s \in Story, NEW t \in TxId, Promise!Record(s, t)
    PROVE  Promise!Next
BY DEF Promise!Next

LEMMA PromiseRemove ==
    ASSUME NEW gone \in SUBSET Story, Promise!Remove(gone)
    PROVE  Promise!Next
BY DEF Promise!Next

\* A row that is there and not archived stands for "open".
LEMMA PromiseStep ==
    ASSUME RowInv, RowInv', [Next]_vars
    PROVE  [Promise!Next]_Promise!promised
<1> USE DEF RowInv
<1> DEFINE status == [s \in Story |-> IF s \notin exists THEN "removed"
                                      ELSE IF Archived(s) THEN tx[s] ELSE "open"]
           seen(e) == [tx |-> e.tx, story |-> e.story, votes |-> e.votes]
           paid == {seen(e) : e \in ledger}
<1>1. UNCHANGED ledger => paid' = paid
    OBVIOUS
<1>2. ASSUME UNCHANGED ledger,
             \A s \in Story : /\ s \in exists' <=> s \in exists
                              /\ Archived(s)' <=> Archived(s)
                              /\ Archived(s) => tx'[s] = tx[s]
      PROVE  UNCHANGED Promise!promised
    <2>1. status' = status
        BY <1>2
    <2> QED BY <1>1, <1>2, <2>1 DEF Promise!promised
<1>3. CASE UNCHANGED <<tx, exists>> /\ UNCHANGED ledger
    BY <1>2, <1>3 DEF Archived
<1>4. ASSUME NEW s \in Story, NEW t \in Unused, up[s].pc = "upload", Pay(s, t),
             UNCHANGED tables
      PROVE  Promise!Next
    <2>1. status' = status
        BY <1>4 DEF tables, Archived
    <2>2. up[s] \in Upload /\ Cardinality(up[s].votes) >= up[s].need
        BY <1>4 DEF UploadsConsent, TypeInv, TypeOK
    <2>3. up[s].votes # {} /\ up[s].votes \in SUBSET Voter
        BY <2>2, FS_EmptySet DEF Upload
    <2>4. \A e \in paid : e.tx # t
        BY DEF Unused
    <2>5. paid' = paid \cup {[tx |-> t, story |-> s, votes |-> up[s].votes]}
        <3> DEFINE receipt == [tx |-> t, story |-> s, votes |-> up[s].votes,
                               need |-> up[s].need]
        <3>1. ledger' = ledger \cup {receipt}
            BY <1>4 DEF Pay
        <3>2. seen(receipt) = [tx |-> t, story |-> s, votes |-> up[s].votes]
            OBVIOUS
        <3>3. {seen(e) : e \in ledger'} = {seen(e) : e \in ledger} \cup {seen(receipt)}
            <4> HIDE DEF seen, receipt
            <4> QED BY <3>1
        <3> QED BY <3>2, <3>3
    <2>6. PICK v \in SUBSET Voter : v = up[s].votes
        BY <2>3
    <2>7. Promise!Pay(s, t, v)
        BY <2>1, <2>3, <2>4, <2>5, <2>6 DEF Promise!Pay
    <2>8. t \in TxId
        BY DEF Unused
    <2> QED BY <2>7, <2>8, PromisePay
<1>5. CASE Cleanup
    <2> DEFINE gone == {s \in Story : Expired(s)}
    <2>1. /\ exists' = exists \ gone /\ tx' = tx /\ ledger' = ledger
          /\ \A s \in gone : s \in exists /\ tx[s] = NoTx
        BY <1>5 DEF Cleanup, Expired
    <2>2. \A s \in gone : status[s] = "open"
        BY <2>1, SetAssumption DEF Archived
    <2>3. status' = [s \in Story |-> IF s \in gone THEN "removed" ELSE status[s]]
        BY <2>1 DEF Archived
    <2>4. PICK removed \in SUBSET Story : removed = gone
        OBVIOUS
    <2> HIDE DEF gone
    <2>5. Promise!Remove(removed)
        BY <1>1, <2>1, <2>2, <2>3, <2>4 DEF Promise!Remove
    <2> QED BY <2>5, PromiseRemove
<1>6. CASE SweepReset
    BY <1>2, <1>6, SetAssumption DEF SweepReset, Archived, TypeInv, TypeOK
<1>7. ASSUME NEW p \in Proc, ArchiveClaim(p)
      PROVE  UNCHANGED Promise!promised
    <2>1. proc[p].pc = "claim" /\ proc[p].saw \in {NoTx, Pending}
        BY <1>7 DEF ArchiveClaim, Knows
    <2> QED BY <1>2, <1>7, <2>1, SetAssumption
            DEF ArchiveClaim, Claimable, Archived, TypeInv, TypeOK
<1>8. ASSUME NEW p \in Proc, FailureWrite(p)
      PROVE  UNCHANGED Promise!promised
    BY <1>2, <1>8, SetAssumption DEF FailureWrite, Archived, TypeInv, TypeOK
<1>9. ASSUME NEW p \in Proc, ArchiveRecord(p)
      PROVE  [Promise!Next]_Promise!promised
    <2> DEFINE s == proc[p].story
               t == proc[p].tx
    <2>1. /\ s \in Story /\ t \in TxId /\ ledger' = ledger /\ exists' = exists
          /\ \E e \in ledger : e.tx = t /\ e.story = s
        BY <1>9 DEF ArchiveRecord, Knows, TypeInv, TypeOK, ProcState, WorksOnStory
    <2>2. CASE s \in exists /\ tx[s] = Pending
        <3>1. tx' = [tx EXCEPT ![s] = t]
            BY <1>9, <2>2 DEF ArchiveRecord
        <3>2. status[s] = "open"
            BY <2>1, <2>2, SetAssumption DEF Archived
        <3>3. status' = [status EXCEPT ![s] = t]
            BY <2>1, <2>2, <3>1 DEF Archived, TypeInv, TypeOK
        <3>4. \E e \in paid : e.tx = t /\ e.story = s
            <4>1. PICK e \in ledger : e.tx = t /\ e.story = s
                BY <2>1
            <4>2. seen(e).tx = t /\ seen(e).story = s
                BY <4>1
            <4> HIDE DEF seen
            <4> QED BY <4>2
        <3>5. PICK story \in Story, id \in TxId : story = s /\ id = t
            BY <2>1
        <3>6. Promise!Record(story, id)
            BY <1>1, <2>1, <3>2, <3>3, <3>4, <3>5 DEF Promise!Record
        <3> QED BY <3>6, PromiseRecord
    <2>3. CASE ~(s \in exists /\ tx[s] = Pending)
        BY <1>3, <1>9, <2>1, <2>3 DEF ArchiveRecord
    <2> QED BY <2>2, <2>3
<1>10. ASSUME NEW p \in Proc, ArchiveClaim(p) \/ ArchiveRecord(p) \/ FailureWrite(p)
       PROVE  UNCHANGED ledger
    BY <1>10 DEF ArchiveClaim, ArchiveRecord, FailureWrite
<1> QED BY <1>3, <1>4, <1>5, <1>6, <1>7, <1>8, <1>9, RowSteps, LedgerSteps

\* The whole machinery of votes, claims, retries, shared uploads, crashes
\* and clean-ups implements ArchivePromise: pay with at least one vote,
\* record only what was paid for that story, never take it back.
THEOREM Refines == Spec => KeepsPromise
<1>1. RowInv /\ RowInv' /\ [Next]_vars => [Promise!Next]_Promise!promised
    BY PromiseStep
<1> QED BY <1>1, PromiseInit, RowInvariant, PTL DEF Spec, KeepsPromise, Promise!Spec
=============================================================================
