-------------------------- MODULE StoryArchiveProofs --------------------------
(***************************************************************************)
(* Proofs about StoryArchive, for any number of stories, voters, manual    *)
(* rechecks and transactions and any value of the time-outs.               *)
(***************************************************************************)
EXTENDS StoryArchive, FiniteSetTheorems, TLAPS

-----------------------------------------------------------------------------
(* Types *)

LEMMA VotesType ==
    ASSUME TypeOK, NEW s \in Story
    PROVE  Votes(s) \in Nat
<1>1. IsFiniteSet(votes[s])
    BY SetAssumption, FS_Subset DEF TypeOK
<1> QED BY <1>1, FS_CardinalityType DEF Votes

LEMMA NeedType ==
    ASSUME TypeOK, NEW s \in Story
    PROVE  Need(s) \in Nat \ {0}
BY NumberAssumption DEF TypeOK, Need, EffectiveThreshold, Larger

LEMMA AgeType ==
    /\ AgeCap \in Nat
    /\ \A n \in Nat : Older(n) \in Nat
BY NumberAssumption DEF AgeCap, Older, Larger, Smaller

LEMMA IdleType ==
    /\ Idle \in ProcState
    /\ \A p \in Proc : AfterArchive(p) \in ProcState
    /\ NoUpload \in Upload
BY DEF Idle, AfterArchive, NoUpload, ProcState, Upload, PC, Holding

\* What every state satisfies before anything is said about behaviour.
TypeInv == TypeOK /\ WorksOnStory

LEMMA TypeInit == Init => TypeInv
BY AgeType, IdleType, NumberAssumption
   DEF Init, TypeInv, TypeOK, WorksOnStory, Idle

\* One process changes, to a state of the right type that knows its story.
LEMMA BecomesType ==
    ASSUME TypeInv, NEW p \in Proc, NEW state \in ProcState, Becomes(p, state),
           state.pc \notin {"idle", "select", "rows"} => state.story \in Story
    PROVE  proc' \in [Proc -> ProcState] /\ WorksOnStory'
BY DEF TypeInv, TypeOK, WorksOnStory, Becomes

LEMMA TypeVote ==
    ASSUME TypeInv, NEW u \in Voter, VoteStep(u)
    PROVE  TypeInv'
<1>0. u \in Proc /\ proc[u] \in ProcState
    BY DEF Proc, TypeInv, TypeOK
<1>1. ASSUME NEW s \in Story, VoteInsert(u, s)
      PROVE  TypeInv'
    <2>1. proc' \in [Proc -> ProcState] /\ WorksOnStory'
        <3> DEFINE state == [Idle EXCEPT !.pc = "gather", !.story = s]
        <3>1. "gather" \in PC
            BY DEF PC
        <3>2. state \in ProcState
            BY <3>1, IdleType DEF ProcState
        <3>3. state.story \in Story
            BY IdleType DEF ProcState
        <3>4. Becomes(u, state)
            BY <1>1 DEF VoteInsert
        <3> QED BY <1>0, <3>2, <3>3, <3>4, BecomesType
    <2>2. votes' \in [Story -> SUBSET Voter]
        BY <1>1 DEF VoteInsert, TypeInv, TypeOK
    <2> QED BY <1>1, <2>1, <2>2 DEF VoteInsert, TypeInv, TypeOK, sweep
<1>2. CASE VoteGather(u)
    <2> DEFINE s == proc[u].story
               state == [proc[u] EXCEPT !.pc = "count", !.count = Votes(s),
                                        !.need = Need(s), !.saw = tx[s]]
    <2>1. proc[u].pc = "gather" /\ s \in Story
        BY <1>0, <1>2 DEF VoteGather, TypeInv, WorksOnStory
    <2>2. CASE Becomes(u, state)
        <3>1. tx[s] \in TxId \cup {NoTx, Pending}
            BY <2>1 DEF TypeInv, TypeOK
        <3>2. Votes(s) \in Nat /\ Need(s) \in Nat \ {0}
            BY <2>1, VotesType, NeedType DEF TypeInv
        <3>3. state \in ProcState
            BY <1>0, <3>1, <3>2 DEF ProcState, PC
        <3>4. state.story \in Story
            BY <1>0, <2>1 DEF ProcState
        <3>5. proc' \in [Proc -> ProcState] /\ WorksOnStory'
            BY <1>0, <2>2, <3>3, <3>4, BecomesType
        <3> QED BY <1>2, <3>5 DEF VoteGather, TypeInv, TypeOK, tables, sweep
    <2>3. CASE Becomes(u, Idle)
        <3>1. proc' \in [Proc -> ProcState] /\ WorksOnStory'
            BY <1>0, <2>3, IdleType, BecomesType DEF Idle
        <3> QED BY <1>2, <3>1 DEF VoteGather, TypeInv, TypeOK, tables, sweep
    <2> QED BY <1>2, <2>2, <2>3 DEF VoteGather
<1>3. CASE VoteCount(u)
    <2> DEFINE s == proc[u].story
               state == [proc[u] EXCEPT !.pc = "archive", !.saw = NoTx, !.count = 0]
    <2>1. proc[u].pc = "count" /\ s \in Story /\ proc[u].count \in Nat
        BY <1>0, <1>3 DEF VoteCount, TypeInv, WorksOnStory, ProcState
    <2>2. voteCount' \in [Story -> Nat]
        BY <1>3, <2>1 DEF VoteCount, RaisedCount, Larger, TypeInv, TypeOK
    <2>3. state \in ProcState /\ state.story \in Story
        BY <1>0, <2>1 DEF ProcState, PC
    <2>4. proc' \in [Proc -> ProcState] /\ WorksOnStory'
        <3>1. CASE Becomes(u, state)
            BY <1>0, <2>3, <3>1, BecomesType
        <3>2. CASE Becomes(u, Idle)
            BY <1>0, <3>2, IdleType, BecomesType DEF Idle
        <3> QED BY <1>3, <3>1, <3>2 DEF VoteCount
    <2> QED BY <1>3, <2>2, <2>4 DEF VoteCount, TypeInv, TypeOK, sweep
<1>4. CASE VoteAbort(u)
    <2>1. proc' \in [Proc -> ProcState] /\ WorksOnStory'
        BY <1>0, <1>4, IdleType, BecomesType DEF VoteAbort, Idle
    <2> QED BY <1>4, <2>1 DEF VoteAbort, Fault, TypeInv, TypeOK, tables, sweep
<1> QED BY <1>1, <1>2, <1>3, <1>4 DEF VoteStep

LEMMA TypeCheck ==
    ASSUME TypeInv, NEW c \in Checker, CheckStep(c)
    PROVE  TypeInv'
<1>0. c \in Proc /\ proc[c] \in ProcState
    BY DEF Proc, TypeInv, TypeOK
<1>1. ASSUME NEW s \in Story, NEW isHard \in BOOLEAN, NEW newlyGone \in BOOLEAN,
             Recheck(c, s, isHard, newlyGone)
      PROVE  TypeInv'
    <2> DEFINE state == [Idle EXCEPT !.pc = "gather", !.story = s]
    <2>1. hard' \in [Story -> BOOLEAN]
        BY <1>1 DEF Recheck, TypeInv, TypeOK
    <2>2. "gather" \in PC
        BY DEF PC
    <2>3. state \in ProcState /\ state.story \in Story
        BY <2>2, IdleType DEF ProcState
    <2>4. proc' \in [Proc -> ProcState] /\ WorksOnStory'
        <3>1. CASE Becomes(c, state)
            BY <1>0, <2>3, <3>1, BecomesType
        <3>2. CASE UNCHANGED proc
            BY <3>2 DEF TypeInv, TypeOK, WorksOnStory
        <3> QED BY <1>1, <3>1, <3>2 DEF Recheck
    <2> QED BY <1>1, <2>1, <2>4 DEF Recheck, TypeInv, TypeOK, sweep
<1>2. CASE MaybeArchiveNow(c)
    <2> DEFINE s == proc[c].story
               state == [proc[c] EXCEPT !.pc = "archive", !.need = Need(s)]
    <2>1. s \in Story
        BY <1>0, <1>2 DEF MaybeArchiveNow, TypeInv, WorksOnStory
    <2>2. Need(s) \in Nat \ {0}
        BY <2>1, NeedType DEF TypeInv
    <2>3. state \in ProcState /\ state.story \in Story
        BY <1>0, <2>1, <2>2 DEF ProcState, PC
    <2>4. proc' \in [Proc -> ProcState] /\ WorksOnStory'
        <3>1. CASE Becomes(c, state)
            BY <1>0, <2>3, <3>1, BecomesType
        <3>2. CASE Becomes(c, Idle)
            BY <1>0, <3>2, IdleType, BecomesType DEF Idle
        <3> QED BY <1>2, <3>1, <3>2 DEF MaybeArchiveNow
    <2> QED BY <1>2, <2>4 DEF MaybeArchiveNow, TypeInv, TypeOK, tables, sweep
<1> QED BY <1>1, <1>2 DEF CheckStep

\* A process that returns from archive_story, or gives up.
LEMMA ReturnType ==
    ASSUME TypeInv, NEW p \in Proc, Becomes(p, AfterArchive(p)) \/ Becomes(p, Idle)
    PROVE  proc' \in [Proc -> ProcState] /\ WorksOnStory'
<1>1. /\ AfterArchive(p).pc \in {"idle", "rows"}
      /\ Idle.pc = "idle"
    BY DEF AfterArchive, Idle
<1>2. AfterArchive(p) \in ProcState /\ Idle \in ProcState
    BY IdleType
<1> QED BY <1>1, <1>2, BecomesType

LEMMA TypeArchive ==
    ASSUME TypeInv, NEW p \in Proc, ArchiveStep(p)
    PROVE  TypeInv'
<1> DEFINE s == proc[p].story
<1>0. proc[p] \in ProcState
    BY DEF TypeInv, TypeOK
<1>1. proc[p].pc \notin {"idle", "select", "rows"} => s \in Story
    BY DEF TypeInv, WorksOnStory
<1>2. CASE ArchiveRead(p)
    <2> DEFINE state == [proc[p] EXCEPT !.pc = "claim", !.saw = tx[s]]
    <2>1. s \in Story
        BY <1>1, <1>2 DEF ArchiveRead
    <2>2. state \in ProcState /\ state.story \in Story
        BY <1>0, <2>1 DEF ProcState, PC, TypeInv, TypeOK
    <2>3. proc' \in [Proc -> ProcState] /\ WorksOnStory'
        <3>1. CASE Becomes(p, state)
            BY <2>2, <3>1, BecomesType
        <3> QED BY <1>2, <3>1, ReturnType DEF ArchiveRead
    <2> QED BY <1>2, <2>3 DEF ArchiveRead, TypeInv, TypeOK, tables, sweep
<1>3. CASE ArchiveClaim(p)
    <2> DEFINE state == [proc[p] EXCEPT !.pc = "bundle", !.saw = NoTx]
    <2>1. s \in Story
        BY <1>1, <1>3 DEF ArchiveClaim
    <2>2. state \in ProcState /\ state.story \in Story
        BY <1>0, <2>1 DEF ProcState, PC, Holding
    <2>3. proc' \in [Proc -> ProcState] /\ WorksOnStory'
        <3>1. CASE Becomes(p, state)
            BY <2>2, <3>1, BecomesType
        <3> QED BY <1>3, <3>1, ReturnType DEF ArchiveClaim
    <2>4. /\ tx' \in [Story -> TxId \cup {NoTx, Pending}]
          /\ age' \in [Story -> Nat]
        BY <1>3, <2>1 DEF ArchiveClaim, TypeInv, TypeOK
    <2> QED BY <1>3, <2>3, <2>4 DEF ArchiveClaim, TypeInv, TypeOK, sweep
<1>4. CASE ArchivePost(p)
    <2> DEFINE state == [proc[p] EXCEPT !.pc = "wait", !.need = 1]
    <2>1. s \in Story
        BY <1>1, <1>4 DEF ArchivePost
    <2>2. state \in ProcState /\ state.story \in Story
        <3>1. "wait" \in PC /\ 1 \in Nat \ {0}
            BY DEF PC, Holding
        <3> QED BY <1>0, <2>1, <3>1 DEF ProcState
    <2>3. proc' \in [Proc -> ProcState] /\ WorksOnStory'
        <3>1. Becomes(p, state)
            BY <1>4 DEF ArchivePost
        <3> QED BY <2>2, <3>1, BecomesType
    <2>4. [pc |-> "lookup", votes |-> votes[s], need |-> proc[p].need] \in Upload
        BY <1>0, <2>1 DEF Upload, ProcState, TypeInv, TypeOK
    <2>5. up' \in [Story -> Upload]
        BY <1>4, <2>1, <2>4 DEF ArchivePost, TypeInv, TypeOK
    <2> QED BY <1>4, <2>3, <2>5 DEF ArchivePost, TypeInv, TypeOK, tables, sweep
<1>5. CASE ArchiveRecord(p)
    <2>1. s \in Story /\ proc[p].tx \in TxId
        BY <1>0, <1>1, <1>5 DEF ArchiveRecord, ProcState
    <2>2. tx' \in [Story -> TxId \cup {NoTx, Pending}]
        BY <1>5, <2>1 DEF ArchiveRecord, TypeInv, TypeOK
    <2>3. proc' \in [Proc -> ProcState] /\ WorksOnStory'
        BY <1>5, ReturnType DEF ArchiveRecord
    <2> QED BY <1>5, <2>2, <2>3 DEF ArchiveRecord, TypeInv, TypeOK, sweep
<1>6. CASE ArchiveError(p)
    <2> DEFINE state == [proc[p] EXCEPT !.pc = "fail", !.tx = NoTx]
    <2>1. s \in Story
        BY <1>1, <1>6 DEF ArchiveError
    <2>2. state \in ProcState /\ state.story \in Story
        BY <1>0, <2>1 DEF ProcState, PC, Holding
    <2>3. Becomes(p, state)
        BY <1>6 DEF ArchiveError
    <2>4. proc' \in [Proc -> ProcState] /\ WorksOnStory'
        BY <2>2, <2>3, BecomesType
    <2> QED BY <1>6, <2>4 DEF ArchiveError, TypeInv, TypeOK, tables, sweep
<1>7. CASE FailureRead(p)
    <2> DEFINE seen == IF s \in exists THEN attempts[s] ELSE 0
               state == [proc[p] EXCEPT !.pc = "failwrite", !.att = seen]
    <2>1. s \in Story
        BY <1>1, <1>7 DEF FailureRead
    <2>2. seen \in Nat
        BY <2>1 DEF TypeInv, TypeOK
    <2>3. state \in ProcState /\ state.story \in Story
        BY <1>0, <2>1, <2>2 DEF ProcState, PC, Holding
    <2>4. Becomes(p, state)
        BY <1>7 DEF FailureRead
    <2>5. proc' \in [Proc -> ProcState] /\ WorksOnStory'
        BY <2>3, <2>4, BecomesType
    <2> QED BY <1>7, <2>5 DEF FailureRead, TypeInv, TypeOK, tables, sweep
<1>8. CASE FailureWrite(p)
    <2>1. s \in Story /\ proc[p].att \in Nat
        BY <1>0, <1>1, <1>8 DEF FailureWrite, ProcState
    <2>2. Smaller(proc[p].att + 1, MaxAttempts) \in Nat
        BY <2>1, NumberAssumption DEF Smaller
    <2>3. /\ tx' \in [Story -> TxId \cup {NoTx, Pending}]
          /\ attempts' \in [Story -> Nat]
          /\ age' \in [Story -> Nat]
        BY <1>8, <2>1, <2>2 DEF FailureWrite, TypeInv, TypeOK
    <2>4. proc' \in [Proc -> ProcState] /\ WorksOnStory'
        BY <1>8, ReturnType DEF FailureWrite
    <2> QED BY <1>8, <2>3, <2>4 DEF FailureWrite, TypeInv, TypeOK, sweep
<1>9. CASE ArchiveAbort(p)
    <2>1. proc' \in [Proc -> ProcState] /\ WorksOnStory'
        BY <1>9, ReturnType DEF ArchiveAbort
    <2>2. cand' \subseteq [story : Story, votes : Nat] /\ budget' \in Nat
        BY <1>9 DEF ArchiveAbort, sweep, TypeInv, TypeOK
    <2> QED BY <1>9, <2>1, <2>2 DEF ArchiveAbort, Fault, TypeInv, TypeOK, tables
<1> QED BY <1>2, <1>3, <1>4, <1>5, <1>6, <1>7, <1>8, <1>9 DEF ArchiveStep

LEMMA TypeAnswer ==
    ASSUME TypeInv, NEW s \in Story, NEW t \in TxId, Answer(s, t)
    PROVE  up' \in [Story -> Upload] /\ proc' \in [Proc -> ProcState] /\ WorksOnStory'
<1>1. up' \in [Story -> Upload]
    BY IdleType DEF Answer, TypeInv, TypeOK
<1>2. ASSUME NEW p \in Proc
      PROVE  /\ proc'[p] \in ProcState
             /\ proc'[p].pc = proc[p].pc /\ proc'[p].story = proc[p].story
    <2>1. proc[p] \in ProcState
        BY DEF TypeInv, TypeOK
    <2> QED BY <2>1 DEF Answer, ProcState
<1>3. proc' \in [Proc -> ProcState]
    BY <1>2 DEF Answer
<1> QED BY <1>1, <1>2, <1>3 DEF TypeInv, WorksOnStory

LEMMA TypeAnswerError ==
    ASSUME TypeInv, NEW s \in Story, AnswerError(s)
    PROVE  up' \in [Story -> Upload] /\ proc' \in [Proc -> ProcState] /\ WorksOnStory'
<1>1. up' \in [Story -> Upload]
    BY IdleType DEF AnswerError, TypeInv, TypeOK
<1>2. ASSUME NEW p \in Proc
      PROVE  /\ proc'[p] \in ProcState
             /\ proc'[p].story = proc[p].story
             /\ proc'[p].pc = proc[p].pc \/ proc[p].pc = "wait"
    <2>1. proc[p] \in ProcState
        BY DEF TypeInv, TypeOK
    <2> QED BY <2>1 DEF AnswerError, ProcState, PC, Holding, Waiting
<1>3. proc' \in [Proc -> ProcState]
    BY <1>2 DEF AnswerError
<1> QED BY <1>1, <1>2, <1>3 DEF TypeInv, WorksOnStory

LEMMA TypeUploader ==
    ASSUME TypeInv, NEW s \in Story, UploaderStep(s)
    PROVE  TypeInv'
<1>1. CASE UploadLookup(s)
    <2>1. ledger \subseteq Receipt
        BY DEF TypeInv, TypeOK
    <2>2. ASSUME NEW e \in Uploads(s), Answer(s, e.tx)
          PROVE  up' \in [Story -> Upload] /\ proc' \in [Proc -> ProcState]
                 /\ WorksOnStory'
        <3>1. e.tx \in TxId
            BY <2>1 DEF Uploads, Receipt
        <3> QED BY <2>2, <3>1, TypeAnswer
    <2>3. ASSUME up' = [up EXCEPT ![s].pc = "upload"], UNCHANGED proc
          PROVE  up' \in [Story -> Upload] /\ proc' \in [Proc -> ProcState]
                 /\ WorksOnStory'
        BY <2>3 DEF TypeInv, TypeOK, WorksOnStory, Upload
    <2> QED BY <1>1, <2>2, <2>3 DEF UploadLookup, TypeInv, TypeOK, tables, sweep
<1>2. ASSUME NEW t \in Unused, Pay(s, t)
      PROVE  t \in TxId /\ ledger' \subseteq Receipt
    <2>1. t \in TxId /\ up[s] \in Upload
        BY DEF Unused, TypeInv, TypeOK
    <2>2. [tx |-> t, story |-> s, votes |-> up[s].votes, need |-> up[s].need]
            \in Receipt
        BY <2>1 DEF Upload, Receipt
    <2> QED BY <1>2, <2>1, <2>2 DEF Pay, TypeInv, TypeOK
<1>3. CASE UploadDone(s)
    <2>1. PICK t \in Unused : Pay(s, t) /\ Answer(s, t)
        BY <1>3 DEF UploadDone
    <2>2. ledger' \subseteq Receipt /\ up' \in [Story -> Upload]
          /\ proc' \in [Proc -> ProcState] /\ WorksOnStory'
        BY <1>2, <2>1, TypeAnswer
    <2> QED BY <1>3, <2>2 DEF UploadDone, TypeInv, TypeOK, tables, sweep
<1>4. CASE UploadLost(s)
    <2>1. PICK t \in Unused : Pay(s, t)
        BY <1>4 DEF UploadLost
    <2>2. AnswerError(s)
        BY <1>4 DEF UploadLost
    <2>3. ledger' \subseteq Receipt /\ up' \in [Story -> Upload]
          /\ proc' \in [Proc -> ProcState] /\ WorksOnStory'
        BY <1>2, <2>1, <2>2, TypeAnswerError
    <2> QED BY <1>4, <2>3 DEF UploadLost, TypeInv, TypeOK, tables, sweep
<1>5. CASE UploadFail(s)
    <2>1. up' \in [Story -> Upload] /\ proc' \in [Proc -> ProcState] /\ WorksOnStory'
        BY <1>5, TypeAnswerError DEF UploadFail
    <2> QED BY <1>5, <2>1 DEF UploadFail, TypeInv, TypeOK, tables, sweep
<1> QED BY <1>1, <1>3, <1>4, <1>5 DEF UploaderStep

LEMMA TypeSweep ==
    ASSUME TypeInv, SweepStep
    PROVE  TypeInv'
<1>0. Sweeper \in Proc
    BY DEF Proc
<1>1. \A pc \in {"select", "rows"} : [Idle EXCEPT !.pc = pc] \in ProcState
    BY IdleType DEF ProcState, PC
<1>2. ASSUME NEW pc \in {"select", "rows"}, Becomes(Sweeper, [Idle EXCEPT !.pc = pc])
      PROVE  proc' \in [Proc -> ProcState] /\ WorksOnStory'
    <2>1. [Idle EXCEPT !.pc = pc].pc = pc
        BY DEF Idle
    <2> QED BY <1>0, <1>1, <1>2, <2>1, BecomesType
<1>3. CASE SweepReset
    <2>1. tx' \in [Story -> TxId \cup {NoTx, Pending}]
        BY <1>3 DEF SweepReset, TypeInv, TypeOK
    <2>2. proc' \in [Proc -> ProcState] /\ WorksOnStory'
        BY <1>2, <1>3 DEF SweepReset
    <2> QED BY <1>3, <2>1, <2>2 DEF SweepReset, TypeInv, TypeOK, sweep
<1>4. CASE SweepResetError
    <2>1. proc' \in [Proc -> ProcState] /\ WorksOnStory'
        BY <1>2, <1>4 DEF SweepResetError
    <2> QED BY <1>4, <2>1 DEF SweepResetError, Fault, TypeInv, TypeOK, tables, sweep
<1>5. CASE SweepSelect
    <2>1. proc' \in [Proc -> ProcState] /\ WorksOnStory'
        BY <1>2, <1>5 DEF SweepSelect
    <2>2. \A s \in Unarchived : s \in Story /\ voteCount[s] \in Nat
        BY DEF Unarchived, TypeInv, TypeOK
    <2>3. cand' \subseteq [story : Story, votes : Nat]
        BY <1>5, <2>2 DEF SweepSelect
    <2>4. budget' \in Nat
        BY <1>5, NumberAssumption DEF SweepSelect
    <2> QED BY <1>5, <2>1, <2>3, <2>4 DEF SweepSelect, TypeInv, TypeOK, tables
<1>6. CASE SweepRow
    <2>1. PICK row \in cand :
             /\ cand' = cand \ {row}
             /\ \/ /\ budget' = budget - 1
                   /\ Becomes(Sweeper, [Idle EXCEPT !.pc = "archive",
                                                    !.story = row.story,
                                                    !.need = Need(row.story)])
                \/ UNCHANGED <<budget, proc>>
        BY <1>6 DEF SweepRow
    <2>2. row.story \in Story
        BY DEF TypeInv, TypeOK
    <2>3. Need(row.story) \in Nat \ {0}
        BY <2>2, NeedType DEF TypeInv
    <2> DEFINE state == [Idle EXCEPT !.pc = "archive", !.story = row.story,
                                     !.need = Need(row.story)]
    <2>4. state \in ProcState /\ state.story \in Story
        <3>1. "archive" \in PC
            BY DEF PC
        <3> QED BY <2>2, <2>3, <3>1, IdleType DEF ProcState
    <2>5. proc' \in [Proc -> ProcState] /\ WorksOnStory'
        <3>1. CASE Becomes(Sweeper, state)
            BY <1>0, <2>4, <3>1, BecomesType
        <3>2. CASE UNCHANGED proc
            BY <3>2 DEF TypeInv, TypeOK, WorksOnStory
        <3> QED BY <2>1, <3>1, <3>2
    <2>6. budget' \in Nat
        BY <1>6, <2>1 DEF SweepRow, TypeInv, TypeOK
    <2>7. cand' \subseteq [story : Story, votes : Nat]
        BY <2>1 DEF TypeInv, TypeOK
    <2> QED BY <1>6, <2>5, <2>6, <2>7 DEF SweepRow, TypeInv, TypeOK, tables
<1>7. CASE SweepEnd
    <2>1. proc' \in [Proc -> ProcState] /\ WorksOnStory'
        BY <1>0, <1>7, ReturnType DEF SweepEnd
    <2>2. faults' \in Nat
        BY <1>7 DEF SweepEnd, Fault, TypeInv, TypeOK
    <2> QED BY <1>7, <2>1, <2>2 DEF SweepEnd, TypeInv, TypeOK, tables
<1> QED BY <1>3, <1>4, <1>5, <1>6, <1>7 DEF SweepStep

LEMMA TypeWorld ==
    ASSUME TypeInv,
           Cleanup \/ (\E s \in Story : AgeOut(s)) \/ Retarget \/ Tick \/ Crash
    PROVE  TypeInv'
<1>1. CASE Cleanup
    <2>1. exists' \subseteq Story
        BY <1>1 DEF Cleanup, TypeInv, TypeOK
    <2>2. votes' \in [Story -> SUBSET Voter]
        BY <1>1 DEF Cleanup, TypeInv, TypeOK
    <2>3. voteCount' \in [Story -> Nat] /\ attempts' \in [Story -> Nat]
        BY <1>1 DEF Cleanup, TypeInv, TypeOK
    <2>4. hard' \in [Story -> BOOLEAN]
        BY <1>1 DEF Cleanup, TypeInv, TypeOK
    <2>5. age' \in [Story -> Nat]
        BY <1>1, AgeType DEF Cleanup, TypeInv, TypeOK
    <2> QED BY <1>1, <2>1, <2>2, <2>3, <2>4, <2>5
            DEF Cleanup, TypeInv, TypeOK, WorksOnStory, sweep
<1>2. ASSUME NEW s \in Story, AgeOut(s)
      PROVE  TypeInv'
    BY <1>2 DEF AgeOut, TypeInv, TypeOK, WorksOnStory, sweep
<1>3. CASE Retarget
    BY <1>3 DEF Retarget, TypeInv, TypeOK, WorksOnStory, tables, sweep
<1>4. CASE Tick
    <2>1. age' \in [Story -> Nat]
        BY <1>4, AgeType DEF Tick, TypeInv, TypeOK
    <2>2. ASSUME NEW p \in Proc
          PROVE  /\ proc'[p] \in ProcState
                 /\ proc'[p].pc = proc[p].pc /\ proc'[p].story = proc[p].story
        <3>1. proc[p] \in ProcState
            BY DEF TypeInv, TypeOK
        <3> QED BY <1>4, <3>1 DEF Tick, ProcState
    <2>3. proc' \in [Proc -> ProcState]
        BY <1>4, <2>2 DEF Tick
    <2>4. WorksOnStory'
        BY <2>2 DEF TypeInv, WorksOnStory
    <2> QED BY <1>4, <2>1, <2>3, <2>4 DEF Tick, TypeInv, TypeOK, sweep
<1>5. CASE Crash
    <2>1. proc' \in [Proc -> ProcState] /\ WorksOnStory'
        BY <1>5, IdleType DEF Crash, WorksOnStory, Idle
    <2> QED BY <1>5, <2>1 DEF Crash, Fault, TypeInv, TypeOK, tables
<1> QED BY <1>1, <1>2, <1>3, <1>4, <1>5

LEMMA TypeStep == TypeInv /\ [Next]_vars => TypeInv'
<1> SUFFICES ASSUME TypeInv, [Next]_vars PROVE TypeInv'
    OBVIOUS
<1>1. CASE Next
    BY <1>1, TypeVote, TypeCheck, TypeArchive, TypeUploader, TypeSweep, TypeWorld
       DEF Next
<1>2. CASE UNCHANGED vars
    BY <1>2 DEF vars, tables, sweep, TypeInv, TypeOK, WorksOnStory
<1> QED BY <1>1, <1>2

\* Every reachable state is well typed: the columns of stories, votes and
\* citation_checks and the local state of every request keep their types.
THEOREM TypeCorrect == Spec => []TypeOK
<1>1. Spec => []TypeInv
    BY TypeInit, TypeStep, PTL DEF Spec
<1>2. TypeInv => TypeOK
    BY DEF TypeInv
<1> QED BY <1>1, <1>2, PTL

-----------------------------------------------------------------------------
(* Safety.  The inductive invariant says what a process that is between    *)
(* two database calls still knows about the row it works on, although      *)
(* others have acted since.                                                *)

\* A row with a marker or a transaction is there: the clean-up spares it.
Marked == \A s \in Story : tx[s] # NoTx => s \in exists

\* What process p knows of its story.
Knows(p) ==
    /\ proc[p].pc \notin Holding => proc[p].held = 0
    /\ proc[p].tx # NoTx =>
         /\ proc[p].pc = "wait"
         /\ \E e \in ledger : e.tx = proc[p].tx /\ e.story = proc[p].story
    /\ proc[p].pc = "claim" => proc[p].saw \in {NoTx, Pending}
    /\ proc[p].pc = "count" /\ proc[p].story \in exists
         => proc[p].count <= Votes(proc[p].story)
    /\ proc[p].pc \in {"archive", "claim", "bundle"} /\ proc[p].story \in exists
         => proc[p].need <= Votes(proc[p].story)
    /\ proc[p].pc = "bundle" => tx[proc[p].story] # NoTx

\* An upload in flight carries enough votes.
UploadsConsent ==
    \A s \in Story : up[s].pc # "idle" => Cardinality(up[s].votes) >= up[s].need

RowInv ==
    /\ TypeInv
    /\ Marked
    /\ \A p \in Proc : Knows(p)
    /\ UploadsConsent
    /\ SealedWithConsent
    /\ RecordedIsPaid
-----------------------------------------------------------------------------
(* How one step may change the tables *)

\* The only steps that write arweave_tx_id or delete a story.
LEMMA RowSteps ==
    ASSUME [Next]_vars
    PROVE  \/ UNCHANGED <<tx, exists>>
           \/ Cleanup
           \/ LoopFree(Sweeper) /\ SweepReset
           \/ \E p \in Proc : /\ LoopFree(p)
                              /\ ArchiveClaim(p) \/ ArchiveRecord(p) \/ FailureWrite(p)
<1>1. CASE UNCHANGED vars
    BY <1>1 DEF vars, tables
<1>2. ASSUME NEW u \in Voter, VoteStep(u)
      PROVE  UNCHANGED <<tx, exists>>
    BY <1>2 DEF VoteStep, VoteInsert, VoteGather, VoteCount, VoteAbort, tables
<1>3. ASSUME NEW c \in Checker, CheckStep(c)
      PROVE  UNCHANGED <<tx, exists>>
    BY <1>3 DEF CheckStep, Recheck, MaybeArchiveNow, tables
<1>4. ASSUME NEW p \in Proc, ArchiveStep(p)
      PROVE  \/ UNCHANGED <<tx, exists>>
             \/ /\ LoopFree(p)
                /\ ArchiveClaim(p) \/ ArchiveRecord(p) \/ FailureWrite(p)
    BY <1>4 DEF ArchiveStep, ArchiveRead, ArchivePost, ArchiveError, FailureRead,
                ArchiveAbort, tables
<1>5. ASSUME NEW s \in Story, UploaderStep(s)
      PROVE  UNCHANGED <<tx, exists>>
    BY <1>5 DEF UploaderStep, UploadLookup, UploadDone, UploadLost, UploadFail, tables
<1>6. CASE SweepStep
    BY <1>6 DEF SweepStep, SweepResetError, SweepSelect, SweepRow, SweepEnd, tables
<1>7. CASE (\E s \in Story : AgeOut(s)) \/ Retarget \/ Tick \/ Crash
    BY <1>7 DEF AgeOut, Retarget, Tick, Crash, tables
<1> QED BY <1>1, <1>2, <1>3, <1>4, <1>5, <1>6, <1>7 DEF Next

\* The clean-up takes no row that is marked or archived.
LEMMA CleanupSpares ==
    ASSUME Cleanup, NEW s \in exists, tx[s] # NoTx
    PROVE  s \in exists'
BY DEF Cleanup, Expired

LEMMA MarkedStep ==
    ASSUME TypeInv, Marked, [Next]_vars
    PROVE  Marked'
<1>1. CASE UNCHANGED <<tx, exists>>
    BY <1>1 DEF Marked
<1>2. CASE Cleanup
    <2>1. tx' = tx
        BY <1>2 DEF Cleanup
    <2> QED BY <1>2, <2>1, CleanupSpares DEF Marked
<1>3. CASE SweepReset
    BY <1>3 DEF SweepReset, Marked, TypeInv, TypeOK
<1>4. ASSUME NEW p \in Proc, ArchiveClaim(p) \/ ArchiveRecord(p) \/ FailureWrite(p)
      PROVE  Marked'
    <2>1. exists' = exists
        BY <1>4 DEF ArchiveClaim, ArchiveRecord, FailureWrite
    <2>2. ASSUME NEW s \in Story, tx'[s] # NoTx
          PROVE  tx[s] # NoTx \/ s \in exists
        BY <1>4, <2>2 DEF ArchiveClaim, Claimable, ArchiveRecord, FailureWrite,
                         TypeInv, TypeOK
    <2> QED BY <2>1, <2>2 DEF Marked
<1> QED BY <1>1, <1>2, <1>3, <1>4, RowSteps

\* Receipts stay, stories are only ever removed, and while a story is there
\* its votes only grow.
Forward ==
    /\ ledger \subseteq ledger'
    /\ exists' \subseteq exists
    /\ \A s \in exists' : votes[s] \subseteq votes'[s]

LEMMA ForwardStep ==
    ASSUME TypeInv, [Next]_vars
    PROVE  Forward
<1>1. CASE UNCHANGED vars
    BY <1>1 DEF vars, tables, Forward
<1>2. ASSUME NEW u \in Voter, VoteStep(u)
      PROVE  Forward
    BY <1>2 DEF VoteStep, VoteInsert, VoteGather, VoteCount, VoteAbort, tables,
                Forward, TypeInv, TypeOK
<1>3. ASSUME NEW c \in Checker, CheckStep(c)
      PROVE  Forward
    BY <1>3 DEF CheckStep, Recheck, MaybeArchiveNow, tables, Forward
<1>4. ASSUME NEW p \in Proc, ArchiveStep(p)
      PROVE  Forward
    BY <1>4 DEF ArchiveStep, ArchiveRead, ArchiveClaim, ArchivePost, ArchiveError,
                ArchiveRecord, FailureRead, FailureWrite, ArchiveAbort, tables, Forward
<1>5. ASSUME NEW s \in Story, UploaderStep(s)
      PROVE  Forward
    BY <1>5 DEF UploaderStep, UploadLookup, UploadDone, UploadLost, UploadFail, Pay,
                tables, Forward
<1>6. CASE SweepStep
    BY <1>6 DEF SweepStep, SweepReset, SweepResetError, SweepSelect, SweepRow,
                SweepEnd, tables, Forward
<1>7. CASE Cleanup
    BY <1>7 DEF Cleanup, Forward, TypeInv, TypeOK
<1>8. CASE (\E s \in Story : AgeOut(s)) \/ Retarget \/ Tick \/ Crash
    BY <1>8 DEF AgeOut, Retarget, Tick, Crash, tables, Forward
<1> QED BY <1>1, <1>2, <1>3, <1>4, <1>5, <1>6, <1>7, <1>8 DEF Next

LEMMA VotesGrow ==
    ASSUME TypeInv, TypeInv', Forward, NEW s \in exists'
    PROVE  Votes(s) \in Nat /\ Votes(s)' \in Nat /\ Votes(s) <= Votes(s)'
<1>1. s \in Story
    BY DEF TypeInv, TypeOK
<1>2. votes[s] \subseteq votes'[s] /\ votes'[s] \subseteq Voter
    BY <1>1 DEF Forward, TypeInv, TypeOK
<1>3. IsFiniteSet(votes'[s])
    BY <1>2, SetAssumption, FS_Subset
<1> QED BY <1>2, <1>3, FS_Subset, FS_CardinalityType DEF Votes

-----------------------------------------------------------------------------
(* What a process knows stays true *)

\* While p is in the stretch of code between its claim and its post, no other
\* coroutine takes the marker off.
LEMMA BundleKept ==
    ASSUME TypeInv, Marked, [Next]_vars, NEW p \in Proc, Knows(p),
           proc[p].pc = "bundle", proc'[p].pc = "bundle"
    PROVE  tx'[proc[p].story] # NoTx
<1> DEFINE s == proc[p].story
<1>0. s \in Story /\ tx[s] # NoTx
    BY DEF TypeInv, WorksOnStory, Knows
<1>1. ASSUME NEW q \in Proc, LoopFree(q)
      PROVE  q = p
    BY <1>1 DEF LoopFree, Midway
<1>2. CASE UNCHANGED <<tx, exists>>
    BY <1>0, <1>2
<1>3. CASE Cleanup
    BY <1>0, <1>3 DEF Cleanup
<1>4. CASE LoopFree(Sweeper) /\ SweepReset
    <2>1. Sweeper = p
        BY <1>1, <1>4 DEF Proc
    <2> QED BY <1>4, <2>1 DEF SweepReset
<1>5. ASSUME NEW q \in Proc, LoopFree(q),
             ArchiveClaim(q) \/ ArchiveRecord(q) \/ FailureWrite(q)
      PROVE  FALSE
    <2>1. q = p
        BY <1>1, <1>5
    <2> QED BY <1>5, <2>1 DEF ArchiveClaim, ArchiveRecord, FailureWrite
<1> QED BY <1>2, <1>3, <1>4, <1>5, RowSteps

\* A process whose own state does not change keeps what it knows.
LEMMA KnowsOther ==
    ASSUME TypeInv, TypeInv', Marked, [Next]_vars, NEW p \in Proc, Knows(p),
           proc'[p] = proc[p]
    PROVE  Knows(p)'
<1> DEFINE s == proc[p].story
<1>1. Forward
    BY ForwardStep
<1>2. proc[p] \in ProcState
    BY DEF TypeInv, TypeOK
<1>3. s \in exists' => s \in exists /\ Votes(s) \in Nat /\ Votes(s)' \in Nat
                       /\ Votes(s) <= Votes(s)'
    BY <1>1, VotesGrow DEF Forward
<1>4. /\ proc[p].pc = "count" /\ s \in exists' => proc[p].count <= Votes(s)'
      /\ proc[p].pc \in {"archive", "claim", "bundle"} /\ s \in exists'
           => proc[p].need <= Votes(s)'
    BY <1>2, <1>3 DEF Knows, ProcState
<1>5. proc[p].pc = "bundle" => tx'[s] # NoTx
    BY BundleKept
<1>6. proc[p].tx # NoTx =>
        /\ proc[p].pc = "wait"
        /\ \E e \in ledger' : e.tx = proc[p].tx /\ e.story = s
    BY <1>1 DEF Forward, Knows
<1>7. /\ proc[p].pc \notin Holding => proc[p].held = 0
      /\ proc[p].pc = "claim" => proc[p].saw \in {NoTx, Pending}
    BY DEF Knows
<1> QED BY <1>4, <1>5, <1>6, <1>7 DEF Knows, Votes

\* A process that does nothing knows everything it has to.
LEMMA KnowsNothing ==
    ASSUME NEW p \in Proc, proc'[p].pc \in {"idle", "gather", "select", "rows"},
           proc'[p].tx = NoTx, proc'[p].held = 0
    PROVE  Knows(p)'
BY DEF Knows, Holding

\* One process moves and the others stand still.
LEMMA KnowsBecomes ==
    ASSUME TypeInv, TypeInv', Marked, [Next]_vars, \A q \in Proc : Knows(q),
           NEW p \in Proc, NEW state, Becomes(p, state),
           proc'[p] = state => Knows(p)'
    PROVE  \A q \in Proc : Knows(q)'
<1>1. proc'[p] = state
    BY DEF Becomes, TypeInv, TypeOK
<1>2. ASSUME NEW q \in Proc, q # p
      PROVE  Knows(q)'
    <2>1. proc'[q] = proc[q]
        BY <1>2 DEF Becomes, TypeInv, TypeOK
    <2> QED BY <2>1, KnowsOther
<1> QED BY <1>1, <1>2

LEMMA KnowsReturn ==
    ASSUME TypeInv, TypeInv', Marked, [Next]_vars, \A q \in Proc : Knows(q),
           NEW p \in Proc, Becomes(p, AfterArchive(p)) \/ Becomes(p, Idle)
    PROVE  \A q \in Proc : Knows(q)'
<1>1. ASSUME proc'[p] \in {AfterArchive(p), Idle}
      PROVE  Knows(p)'
    BY <1>1, KnowsNothing DEF AfterArchive, Idle
<1>2. CASE Becomes(p, AfterArchive(p))
    BY <1>1, <1>2, KnowsBecomes
<1>3. CASE Becomes(p, Idle)
    BY <1>1, <1>3, KnowsBecomes
<1> QED BY <1>2, <1>3

LEMMA KnowsVote ==
    ASSUME TypeInv, TypeInv', Marked, [Next]_vars, \A q \in Proc : Knows(q),
           NEW u \in Voter, VoteStep(u)
    PROVE  \A q \in Proc : Knows(q)'
<1> DEFINE s == proc[u].story
<1>0. u \in Proc /\ proc[u] \in ProcState
    BY DEF Proc, TypeInv, TypeOK
<1>1. ASSUME NEW r \in Story, VoteInsert(u, r)
      PROVE  \A q \in Proc : Knows(q)'
    <2> DEFINE state == [Idle EXCEPT !.pc = "gather", !.story = r]
    <2>1. state.pc = "gather" /\ state.tx = NoTx /\ state.held = 0
        BY DEF Idle
    <2>2. Becomes(u, state)
        BY <1>1 DEF VoteInsert
    <2>3. proc'[u] = state => Knows(u)'
        BY <1>0, <2>1, KnowsNothing
    <2> QED BY <1>0, <2>2, <2>3, KnowsBecomes
<1>2. CASE VoteGather(u)
    <2> DEFINE state == [proc[u] EXCEPT !.pc = "count", !.count = Votes(s),
                                        !.need = Need(s), !.saw = tx[s]]
    <2>1. CASE Becomes(u, Idle)
        BY <1>0, <2>1, KnowsReturn
    <2>2. CASE Becomes(u, state)
        <3>1. /\ proc[u].pc = "gather" /\ proc[u].held = 0 /\ proc[u].tx = NoTx
              /\ s \in Story
            BY <1>0, <1>2 DEF VoteGather, Knows, Holding, TypeInv, WorksOnStory
        <3>2. /\ state.pc = "count" /\ state.held = 0 /\ state.tx = NoTx
              /\ state.story = s /\ state.count = Votes(s)
            BY <1>0, <3>1 DEF ProcState
        <3>3. votes' = votes
            BY <1>2 DEF VoteGather, tables
        <3>4. Votes(s) \in Nat
            BY <3>1, VotesType DEF TypeInv
        <3>5. proc'[u] = state => Knows(u)'
            BY <3>2, <3>3, <3>4 DEF Knows, Holding, Votes
        <3> QED BY <1>0, <2>2, <3>5, KnowsBecomes
    <2> QED BY <1>2, <2>1, <2>2 DEF VoteGather
<1>3. CASE VoteCount(u)
    <2> DEFINE state == [proc[u] EXCEPT !.pc = "archive", !.saw = NoTx, !.count = 0]
    <2>1. CASE Becomes(u, Idle)
        BY <1>0, <2>1, KnowsReturn
    <2>2. CASE Becomes(u, state) /\ proc[u].count >= proc[u].need
        <3>1. /\ proc[u].pc = "count" /\ proc[u].held = 0 /\ proc[u].tx = NoTx
              /\ s \in Story
              /\ s \in exists => proc[u].count <= Votes(s)
            BY <1>0, <1>3 DEF VoteCount, Knows, Holding, TypeInv, WorksOnStory
        <3>2. /\ state.pc = "archive" /\ state.held = 0 /\ state.tx = NoTx
              /\ state.story = s /\ state.need = proc[u].need
            BY <1>0, <3>1 DEF ProcState
        <3>3. votes' = votes /\ exists' = exists
            BY <1>3 DEF VoteCount
        <3>4. s \in exists => proc[u].need <= Votes(s)
            BY <1>0, <2>2, <3>1, VotesType DEF ProcState, TypeInv
        <3>5. proc'[u] = state => Knows(u)'
            BY <3>2, <3>3, <3>4 DEF Knows, Holding, Votes
        <3> QED BY <1>0, <2>2, <3>5, KnowsBecomes
    <2> QED BY <1>3, <2>1, <2>2 DEF VoteCount, Reached
<1>4. CASE VoteAbort(u)
    BY <1>0, <1>4, KnowsReturn DEF VoteAbort
<1> QED BY <1>1, <1>2, <1>3, <1>4 DEF VoteStep

LEMMA KnowsCheck ==
    ASSUME TypeInv, TypeInv', Marked, [Next]_vars, \A q \in Proc : Knows(q),
           NEW c \in Checker, CheckStep(c)
    PROVE  \A q \in Proc : Knows(q)'
<1> DEFINE s == proc[c].story
<1>0. c \in Proc /\ proc[c] \in ProcState
    BY DEF Proc, TypeInv, TypeOK
<1>1. ASSUME NEW r \in Story, NEW isHard \in BOOLEAN, NEW newlyGone \in BOOLEAN,
             Recheck(c, r, isHard, newlyGone)
      PROVE  \A q \in Proc : Knows(q)'
    <2> DEFINE state == [Idle EXCEPT !.pc = "gather", !.story = r]
    <2>1. state.pc = "gather" /\ state.tx = NoTx /\ state.held = 0
        BY DEF Idle
    <2>2. proc'[c] = state => Knows(c)'
        BY <1>0, <2>1, KnowsNothing
    <2>3. CASE Becomes(c, state)
        BY <1>0, <2>2, <2>3, KnowsBecomes
    <2>4. CASE UNCHANGED proc
        BY <2>4, KnowsOther
    <2> QED BY <1>1, <2>3, <2>4 DEF Recheck
<1>2. CASE MaybeArchiveNow(c)
    <2> DEFINE state == [proc[c] EXCEPT !.pc = "archive", !.need = Need(s)]
    <2>1. CASE Becomes(c, Idle)
        BY <1>0, <2>1, KnowsReturn
    <2>2. CASE Becomes(c, state) /\ Votes(s) >= Need(s)
        <3>1. /\ proc[c].pc = "gather" /\ proc[c].held = 0 /\ proc[c].tx = NoTx
              /\ s \in Story
            BY <1>0, <1>2 DEF MaybeArchiveNow, Knows, Holding, TypeInv, WorksOnStory
        <3>2. /\ state.pc = "archive" /\ state.held = 0 /\ state.tx = NoTx
              /\ state.story = s /\ state.need = Need(s)
            BY <1>0, <3>1 DEF ProcState
        <3>3. votes' = votes
            BY <1>2 DEF MaybeArchiveNow, tables
        <3>4. Need(s) <= Votes(s)
            BY <2>2, <3>1, VotesType, NeedType DEF TypeInv
        <3>5. proc'[c] = state => Knows(c)'
            BY <3>2, <3>3, <3>4 DEF Knows, Holding, Votes
        <3> QED BY <1>0, <2>2, <3>5, KnowsBecomes
    <2> QED BY <1>2, <2>1, <2>2 DEF MaybeArchiveNow, Reached
<1> QED BY <1>1, <1>2 DEF CheckStep

LEMMA KnowsArchive ==
    ASSUME TypeInv, TypeInv', Marked, [Next]_vars, \A q \in Proc : Knows(q),
           NEW p \in Proc, ArchiveStep(p)
    PROVE  \A q \in Proc : Knows(q)'
<1> DEFINE s == proc[p].story
<1>0. proc[p] \in ProcState /\ Knows(p)
    BY DEF TypeInv, TypeOK
<1>1. CASE Becomes(p, AfterArchive(p)) \/ Becomes(p, Idle)
    BY <1>1, KnowsReturn
<1>2. CASE ArchiveRead(p)
    <2> DEFINE state == [proc[p] EXCEPT !.pc = "claim", !.saw = tx[s]]
    <2>1. CASE Becomes(p, state) /\ ~Archived(s)
        <3>1. proc[p].pc = "archive" /\ s \in Story
            BY <1>2 DEF ArchiveRead, TypeInv, WorksOnStory
        <3>2. tx[s] \in {NoTx, Pending}
            BY <2>1, <3>1 DEF Archived, TypeInv, TypeOK
        <3>3. /\ state.pc = "claim" /\ state.saw = tx[s] /\ state.story = s
              /\ state.need = proc[p].need /\ state.held = 0 /\ state.tx = NoTx
            BY <1>0, <3>1 DEF ProcState, Knows, Holding
        <3>4. s \in exists => proc[p].need <= Votes(s)
            BY <1>0, <3>1 DEF Knows
        <3>5. votes' = votes /\ exists' = exists
            BY <1>2 DEF ArchiveRead, tables
        <3>6. proc'[p] = state => Knows(p)'
            BY <3>2, <3>3, <3>4, <3>5 DEF Knows, Holding, Votes
        <3> QED BY <2>1, <3>6, KnowsBecomes
    <2> QED BY <1>1, <1>2, <2>1 DEF ArchiveRead
<1>3. CASE ArchiveClaim(p)
    <2> DEFINE state == [proc[p] EXCEPT !.pc = "bundle", !.saw = NoTx]
    <2>1. CASE Becomes(p, state) /\ tx' = [tx EXCEPT ![s] = Pending]
        <3>1. proc[p].pc = "claim" /\ s \in Story
            BY <1>3 DEF ArchiveClaim, TypeInv, WorksOnStory
        <3>2. tx'[s] # NoTx
            BY <2>1, <3>1, SetAssumption DEF TypeInv, TypeOK
        <3>3. /\ state.pc = "bundle" /\ state.story = s
              /\ state.need = proc[p].need /\ state.held = 0 /\ state.tx = NoTx
            BY <1>0, <3>1 DEF ProcState, Knows, Holding
        <3>4. s \in exists => proc[p].need <= Votes(s)
            BY <1>0, <3>1 DEF Knows
        <3>5. votes' = votes /\ exists' = exists
            BY <1>3 DEF ArchiveClaim
        <3>6. proc'[p] = state => Knows(p)'
            BY <3>2, <3>3, <3>4, <3>5 DEF Knows, Holding, Votes
        <3> QED BY <2>1, <3>6, KnowsBecomes
    <2> QED BY <1>1, <1>3, <2>1 DEF ArchiveClaim
<1>4. CASE ArchivePost(p)
    <2> DEFINE state == [proc[p] EXCEPT !.pc = "wait", !.need = 1]
    <2>1. proc[p].pc = "bundle" /\ proc[p].tx = NoTx
        BY <1>0, <1>4 DEF ArchivePost, Knows
    <2>2. state.pc = "wait" /\ state.tx = NoTx
        BY <1>0, <2>1 DEF ProcState
    <2>3. proc'[p] = state => Knows(p)'
        BY <2>2 DEF Knows, Holding
    <2>4. Becomes(p, state)
        BY <1>4 DEF ArchivePost
    <2> QED BY <2>3, <2>4, KnowsBecomes
<1>5. CASE ArchiveError(p)
    <2> DEFINE state == [proc[p] EXCEPT !.pc = "fail", !.tx = NoTx]
    <2>1. state.pc = "fail" /\ state.tx = NoTx
        BY <1>0 DEF ProcState
    <2>2. proc'[p] = state => Knows(p)'
        BY <2>1 DEF Knows, Holding
    <2>3. Becomes(p, state)
        BY <1>5 DEF ArchiveError
    <2> QED BY <2>2, <2>3, KnowsBecomes
<1>6. CASE FailureRead(p)
    <2> DEFINE seen == IF s \in exists THEN attempts[s] ELSE 0
               state == [proc[p] EXCEPT !.pc = "failwrite", !.att = seen]
    <2>1. proc[p].pc = "fail" /\ proc[p].tx = NoTx
        BY <1>0, <1>6 DEF FailureRead, Knows
    <2>2. state.pc = "failwrite" /\ state.tx = NoTx
        BY <1>0, <2>1 DEF ProcState
    <2>3. proc'[p] = state => Knows(p)'
        BY <2>2 DEF Knows, Holding
    <2>4. Becomes(p, state)
        BY <1>6 DEF FailureRead
    <2> QED BY <2>3, <2>4, KnowsBecomes
<1> QED BY <1>1, <1>2, <1>3, <1>4, <1>5, <1>6
        DEF ArchiveStep, ArchiveRecord, FailureWrite, ArchiveAbort

LEMMA KnowsAnswer ==
    ASSUME TypeInv, TypeInv', Marked, [Next]_vars, \A q \in Proc : Knows(q),
           NEW s \in Story, NEW t \in TxId, Answer(s, t),
           \E e \in ledger' : e.tx = t /\ e.story = s
    PROVE  \A q \in Proc : Knows(q)'
<1> SUFFICES ASSUME NEW q \in Proc PROVE Knows(q)'
    OBVIOUS
<1>1. CASE proc'[q] = proc[q]
    BY <1>1, KnowsOther
<1>2. CASE Waiting(q, s) /\ proc'[q] = [proc[q] EXCEPT !.tx = t]
    <2>1. proc[q] \in ProcState /\ proc[q].pc = "wait" /\ proc[q].story = s
        BY <1>2 DEF TypeInv, TypeOK, Waiting
    <2>2. proc'[q].pc = "wait" /\ proc'[q].tx = t /\ proc'[q].story = s
        BY <1>2, <2>1 DEF ProcState
    <2> QED BY <2>2 DEF Knows, Holding
<1> QED BY <1>1, <1>2 DEF Answer

LEMMA KnowsAnswerError ==
    ASSUME TypeInv, TypeInv', Marked, [Next]_vars, \A q \in Proc : Knows(q),
           NEW s \in Story, AnswerError(s)
    PROVE  \A q \in Proc : Knows(q)'
<1> SUFFICES ASSUME NEW q \in Proc PROVE Knows(q)'
    OBVIOUS
<1>1. CASE proc'[q] = proc[q]
    BY <1>1, KnowsOther
<1>2. CASE proc[q].tx = NoTx /\ proc'[q] = [proc[q] EXCEPT !.pc = "fail"]
    <2>1. proc[q] \in ProcState
        BY DEF TypeInv, TypeOK
    <2>2. proc'[q].pc = "fail" /\ proc'[q].tx = NoTx
        BY <1>2, <2>1 DEF ProcState
    <2> QED BY <2>2 DEF Knows, Holding
<1> QED BY <1>1, <1>2 DEF AnswerError

LEMMA KnowsUploader ==
    ASSUME TypeInv, TypeInv', Marked, [Next]_vars, \A q \in Proc : Knows(q),
           NEW s \in Story, UploaderStep(s)
    PROVE  \A q \in Proc : Knows(q)'
<1>1. CASE UploadLookup(s)
    <2>1. ledger' = ledger
        BY <1>1 DEF UploadLookup
    <2>2. ASSUME NEW e \in Uploads(s), Answer(s, e.tx)
          PROVE  \A q \in Proc : Knows(q)'
        <3>1. e \in ledger /\ e.story = s /\ e.tx \in TxId
            BY DEF Uploads, Receipt, TypeInv, TypeOK
        <3> QED BY <2>1, <2>2, <3>1, KnowsAnswer
    <2>3. CASE UNCHANGED proc
        BY <2>3, KnowsOther
    <2> QED BY <1>1, <2>2, <2>3 DEF UploadLookup
<1>2. CASE UploadDone(s)
    <2>1. PICK t \in Unused : Pay(s, t) /\ Answer(s, t)
        BY <1>2 DEF UploadDone
    <2>2. t \in TxId
        BY DEF Unused
    <2> DEFINE receipt == [tx |-> t, story |-> s, votes |-> up[s].votes,
                           need |-> up[s].need]
    <2>3. receipt \in ledger' /\ receipt.tx = t /\ receipt.story = s
        BY <2>1 DEF Pay
    <2> QED BY <2>1, <2>2, <2>3, KnowsAnswer
<1>3. CASE UploadLost(s) \/ UploadFail(s)
    BY <1>3, KnowsAnswerError DEF UploadLost, UploadFail
<1> QED BY <1>1, <1>2, <1>3 DEF UploaderStep

LEMMA KnowsSweep ==
    ASSUME TypeInv, TypeInv', Marked, [Next]_vars, \A q \in Proc : Knows(q),
           SweepStep
    PROVE  \A q \in Proc : Knows(q)'
<1>0. Sweeper \in Proc
    BY DEF Proc
<1>1. ASSUME NEW pc \in {"select", "rows"}, Becomes(Sweeper, [Idle EXCEPT !.pc = pc])
      PROVE  \A q \in Proc : Knows(q)'
    <2> DEFINE state == [Idle EXCEPT !.pc = pc]
    <2>1. state.pc = pc /\ state.tx = NoTx /\ state.held = 0
        BY DEF Idle
    <2>2. proc'[Sweeper] = state => Knows(Sweeper)'
        BY <1>0, <2>1, KnowsNothing
    <2> QED BY <1>0, <1>1, <2>2, KnowsBecomes
<1>2. CASE SweepReset \/ SweepResetError \/ SweepSelect
    BY <1>1, <1>2 DEF SweepReset, SweepResetError, SweepSelect
<1>3. CASE SweepRow
    <2>1. CASE UNCHANGED proc
        BY <2>1, KnowsOther
    <2>2. ASSUME NEW row \in cand, Votes(row.story) >= Need(row.story),
                 Becomes(Sweeper, [Idle EXCEPT !.pc = "archive", !.story = row.story,
                                               !.need = Need(row.story)])
          PROVE  \A q \in Proc : Knows(q)'
        <3> DEFINE state == [Idle EXCEPT !.pc = "archive", !.story = row.story,
                                         !.need = Need(row.story)]
        <3>1. row.story \in Story
            BY DEF TypeInv, TypeOK
        <3>2. Need(row.story) <= Votes(row.story)
            BY <2>2, <3>1, VotesType, NeedType DEF TypeInv
        <3>3. /\ state.pc = "archive" /\ state.tx = NoTx /\ state.held = 0
              /\ state.story = row.story /\ state.need = Need(row.story)
            BY DEF Idle
        <3>4. votes' = votes
            BY <1>3 DEF SweepRow, tables
        <3>5. proc'[Sweeper] = state => Knows(Sweeper)'
            BY <3>2, <3>3, <3>4 DEF Knows, Holding, Votes
        <3> QED BY <1>0, <2>2, <3>5, KnowsBecomes
    <2> QED BY <1>3, <2>1, <2>2 DEF SweepRow, Reached
<1>4. CASE SweepEnd
    BY <1>0, <1>4, KnowsReturn DEF SweepEnd
<1> QED BY <1>2, <1>3, <1>4 DEF SweepStep

LEMMA KnowsWorld ==
    ASSUME TypeInv, TypeInv', Marked, [Next]_vars, \A q \in Proc : Knows(q),
           \/ Cleanup \/ (\E s \in Story : AgeOut(s)) \/ Retarget \/ Tick \/ Crash
           \/ UNCHANGED vars
    PROVE  \A q \in Proc : Knows(q)'
<1>1. CASE UNCHANGED proc
    BY <1>1, KnowsOther
<1>2. CASE Tick
    <2> SUFFICES ASSUME NEW q \in Proc PROVE Knows(q)'
        OBVIOUS
    <2>1. CASE proc'[q] = proc[q]
        BY <2>1, KnowsOther
    <2>2. CASE proc[q].pc = "wait" /\ proc'[q] = [proc[q] EXCEPT !.held = @ + 1]
        <3>1. proc[q] \in ProcState /\ Knows(q)
            BY DEF TypeInv, TypeOK
        <3>2. proc'[q].pc = "wait" /\ proc'[q].tx = proc[q].tx
              /\ proc'[q].story = proc[q].story
            BY <2>2, <3>1 DEF ProcState
        <3>3. ledger' = ledger
            BY <1>2 DEF Tick
        <3> QED BY <3>1, <3>2, <3>3 DEF Knows, Holding
    <2> QED BY <1>2, <2>1, <2>2 DEF Tick
<1>3. CASE Crash
    BY <1>3, KnowsNothing DEF Crash, Idle
<1> QED BY <1>1, <1>2, <1>3 DEF Cleanup, AgeOut, Retarget, vars

LEMMA KnowsStep ==
    ASSUME TypeInv, TypeInv', Marked, [Next]_vars, \A q \in Proc : Knows(q)
    PROVE  \A q \in Proc : Knows(q)'
BY KnowsVote, KnowsCheck, KnowsArchive, KnowsUploader, KnowsSweep, KnowsWorld DEF Next
-----------------------------------------------------------------------------
(* Consent *)

LEMMA UploadsConsentStep ==
    ASSUME TypeInv, Marked, \A q \in Proc : Knows(q), UploadsConsent, [Next]_vars
    PROVE  UploadsConsent'
<1>1. CASE UNCHANGED up
    BY <1>1 DEF UploadsConsent
<1>2. ASSUME NEW p \in Proc, ArchivePost(p)
      PROVE  UploadsConsent'
    <2> DEFINE s == proc[p].story
    <2>1. s \in Story /\ proc[p].pc = "bundle" /\ Knows(p)
        BY <1>2 DEF ArchivePost, TypeInv, WorksOnStory
    <2>2. s \in exists
        BY <2>1 DEF Knows, Marked
    <2>3. Votes(s) \in Nat /\ proc[p].need \in Nat /\ Votes(s) >= proc[p].need
        BY <2>1, <2>2, VotesType DEF Knows, TypeInv, TypeOK, ProcState
    <2>4. CASE up' = [up EXCEPT ![s] = [pc |-> "lookup", votes |-> votes[s],
                                        need |-> proc[p].need]]
        BY <2>1, <2>3, <2>4 DEF UploadsConsent, Votes, TypeInv, TypeOK
    <2> QED BY <1>1, <1>2, <2>4 DEF ArchivePost
<1>3. ASSUME NEW s \in Story, UploaderStep(s)
      PROVE  UploadsConsent'
    <2>1. CASE up' = [up EXCEPT ![s] = NoUpload]
        BY <2>1 DEF UploadsConsent, NoUpload, TypeInv, TypeOK
    <2>2. CASE up[s].pc = "lookup" /\ up' = [up EXCEPT ![s].pc = "upload"]
        <3>1. up[s] \in Upload
            BY DEF TypeInv, TypeOK
        <3>2. up'[s].votes = up[s].votes /\ up'[s].need = up[s].need
            BY <2>2, <3>1 DEF TypeInv, TypeOK, Upload
        <3>3. \A r \in Story \ {s} : up'[r] = up[r]
            BY <2>2 DEF TypeInv, TypeOK
        <3> QED BY <2>2, <3>2, <3>3 DEF UploadsConsent
    <2> QED BY <1>3, <2>1, <2>2 DEF UploaderStep, UploadLookup, UploadDone, UploadLost,
                                    UploadFail, Answer, AnswerError
<1>4. ASSUME NEW p \in Proc, ArchiveStep(p), ~ArchivePost(p)
      PROVE  UNCHANGED up
    BY <1>4 DEF ArchiveStep, ArchiveRead, ArchiveClaim, ArchiveError, ArchiveRecord,
                FailureRead, FailureWrite, ArchiveAbort
<1>5. CASE (\E u \in Voter : VoteStep(u)) \/ (\E c \in Checker : CheckStep(c))
    BY <1>1, <1>5 DEF VoteStep, VoteInsert, VoteGather, VoteCount, VoteAbort,
                      CheckStep, Recheck, MaybeArchiveNow
<1>6. CASE SweepStep \/ Cleanup \/ (\E s \in Story : AgeOut(s)) \/ Retarget
           \/ Tick \/ Crash \/ UNCHANGED vars
    BY <1>1, <1>6 DEF SweepStep, SweepReset, SweepResetError, SweepSelect, SweepRow,
                      SweepEnd, Cleanup, AgeOut, Retarget, Tick, Crash, vars
<1> QED BY <1>1, <1>2, <1>3, <1>4, <1>5, <1>6 DEF Next

\* The only steps that pay.
LEMMA LedgerSteps ==
    ASSUME [Next]_vars
    PROVE  \/ UNCHANGED ledger
           \/ \E s \in Story, t \in Unused :
                /\ up[s].pc = "upload" /\ Pay(s, t) /\ UNCHANGED tables
                /\ up' = [up EXCEPT ![s] = NoUpload]
<1>1. ASSUME NEW u \in Voter, VoteStep(u)
      PROVE  UNCHANGED ledger
    BY <1>1 DEF VoteStep, VoteInsert, VoteGather, VoteCount, VoteAbort
<1>2. ASSUME NEW c \in Checker, CheckStep(c)
      PROVE  UNCHANGED ledger
    BY <1>2 DEF CheckStep, Recheck, MaybeArchiveNow
<1>3. ASSUME NEW p \in Proc, ArchiveStep(p)
      PROVE  UNCHANGED ledger
    BY <1>3 DEF ArchiveStep, ArchiveRead, ArchiveClaim, ArchivePost, ArchiveError,
                ArchiveRecord, FailureRead, FailureWrite, ArchiveAbort
<1>4. ASSUME NEW s \in Story, UploaderStep(s)
      PROVE  \/ UNCHANGED ledger
             \/ \E t \in Unused : /\ up[s].pc = "upload" /\ Pay(s, t)
                                  /\ UNCHANGED tables
                                  /\ up' = [up EXCEPT ![s] = NoUpload]
    BY <1>4 DEF UploaderStep, UploadLookup, UploadDone, UploadLost, UploadFail,
                Answer, AnswerError
<1>5. CASE SweepStep \/ Cleanup \/ (\E s \in Story : AgeOut(s)) \/ Retarget
           \/ Tick \/ Crash \/ UNCHANGED vars
    BY <1>5 DEF SweepStep, SweepReset, SweepResetError, SweepSelect, SweepRow,
                SweepEnd, Cleanup, AgeOut, Retarget, Tick, Crash, vars
<1> QED BY <1>1, <1>2, <1>3, <1>4, <1>5 DEF Next

LEMMA SealedStep ==
    ASSUME TypeInv, UploadsConsent, SealedWithConsent, [Next]_vars
    PROVE  SealedWithConsent'
<1>1. CASE UNCHANGED ledger
    BY <1>1 DEF SealedWithConsent
<1>2. ASSUME NEW s \in Story, NEW t \in Unused, up[s].pc = "upload", Pay(s, t)
      PROVE  SealedWithConsent'
    <2>1. up[s].need >= 1 /\ Cardinality(up[s].votes) >= up[s].need
        BY <1>2 DEF UploadsConsent, TypeInv, TypeOK, Upload
    <2> QED BY <1>2, <2>1 DEF Pay, SealedWithConsent
<1> QED BY <1>1, <1>2, LedgerSteps

LEMMA RecordedStep ==
    ASSUME TypeInv, \A p \in Proc : Knows(p), RecordedIsPaid, [Next]_vars
    PROVE  RecordedIsPaid'
<1>1. Forward
    BY ForwardStep
<1>2. ASSUME NEW s \in Story, Archived(s)', tx'[s] = tx[s]
      PROVE  \E e \in ledger' : e.tx = tx'[s] /\ e.story = s
    BY <1>1, <1>2 DEF Forward, RecordedIsPaid, Archived
<1>3. ASSUME NEW p \in Proc, ArchiveRecord(p), NEW s \in Story,
             Archived(s)', tx'[s] # tx[s]
      PROVE  \E e \in ledger' : e.tx = tx'[s] /\ e.story = s
    <2>1. s = proc[p].story /\ tx'[s] = proc[p].tx /\ proc[p].tx # NoTx
        BY <1>3 DEF ArchiveRecord, TypeInv, TypeOK
    <2> QED BY <1>1, <2>1 DEF Knows, Forward
<1>4. ASSUME NEW s \in Story, Archived(s)', tx'[s] # tx[s]
      PROVE  \E p \in Proc : ArchiveRecord(p)
    <2>1. tx \in [Story -> {NoTx, Pending} \cup TxId] /\ Pending \notin TxId /\ NoTx \notin TxId
        BY SetAssumption DEF TypeInv, TypeOK
    <2>2. tx'[s] \in TxId /\ tx'[s] # tx[s]
        BY <1>4 DEF Archived
    <2>3. ~Cleanup
        BY <2>1, <2>2 DEF Cleanup
    <2>4. ~SweepReset
        BY <2>1, <2>2 DEF SweepReset
    <2>5. \A p \in Proc : ~ArchiveClaim(p) /\ ~FailureWrite(p)
        BY <2>1, <2>2 DEF ArchiveClaim, FailureWrite
    <2>6. ~UNCHANGED <<tx, exists>>
        BY <2>2
    <2> QED BY <2>3, <2>4, <2>5, <2>6, RowSteps
<1> QED BY <1>2, <1>3, <1>4 DEF RecordedIsPaid

LEMMA RowInit == Init => RowInv
<1> SUFFICES ASSUME Init PROVE RowInv
    OBVIOUS
<1>1. TypeInv
    BY TypeInit
<1>2. Marked /\ RecordedIsPaid
    BY SetAssumption DEF Init, Marked, RecordedIsPaid, Archived
<1>3. \A p \in Proc : Knows(p)
    BY DEF Init, Knows, Idle, Holding
<1>4. UploadsConsent /\ SealedWithConsent
    BY DEF Init, UploadsConsent, SealedWithConsent, NoUpload
<1> QED BY <1>1, <1>2, <1>3, <1>4 DEF RowInv

LEMMA RowStep == RowInv /\ [Next]_vars => RowInv'
<1> SUFFICES ASSUME RowInv, [Next]_vars PROVE RowInv'
    OBVIOUS
<1> USE DEF RowInv
<1>1. TypeInv'
    BY TypeStep
<1>2. Marked'
    BY MarkedStep
<1>3. \A p \in Proc : Knows(p)'
    BY <1>1, KnowsStep
<1>4. UploadsConsent' /\ SealedWithConsent'
    BY UploadsConsentStep, SealedStep
<1>5. RecordedIsPaid'
    BY RecordedStep
<1> QED BY <1>1, <1>2, <1>3, <1>4, <1>5

\* What is known of every row, process and upload holds in every reachable state.
THEOREM RowInvariant == Spec => []RowInv
BY RowInit, RowStep, PTL DEF Spec

\* Nothing is sealed with fewer votes than the threshold that triggered it,
\* for any number of voters, stories, retries, crashes and failed calls.
THEOREM Consent == Spec => []SealedWithConsent
<1>1. RowInv => SealedWithConsent
    BY DEF RowInv
<1> QED BY <1>1, RowInvariant, PTL

\* The transaction recorded for a story was paid for that story, also when
\* uploads outlive claims and claims are taken over.
THEOREM Paid == Spec => []RecordedIsPaid
<1>1. RowInv => RecordedIsPaid
    BY DEF RowInv
<1> QED BY <1>1, RowInvariant, PTL

\* Once archived, a story keeps its transaction and its row: the claim, the
\* failure record and the sweep all leave it alone, and so does the clean-up.
THEOREM Permanent == Spec => ArchivedForEver
<1>1. ASSUME RowInv, [Next]_vars, NEW s \in Story, Archived(s)
      PROVE  tx'[s] = tx[s] /\ s \in exists'
    <2>1. s \in exists /\ tx[s] \notin {NoTx, Pending}
        BY <1>1, SetAssumption DEF RowInv, Marked, Archived
    <2>2. CASE UNCHANGED <<tx, exists>>
        BY <2>1, <2>2
    <2>3. CASE Cleanup
        BY <2>1, <2>3, CleanupSpares DEF Cleanup
    <2>4. CASE SweepReset
        BY <1>1, <2>1, <2>4 DEF SweepReset
    <2>5. ASSUME NEW p \in Proc,
                 ArchiveClaim(p) \/ ArchiveRecord(p) \/ FailureWrite(p)
          PROVE  tx'[s] = tx[s] /\ s \in exists'
        <3>1. exists' = exists
            BY <2>5 DEF ArchiveClaim, ArchiveRecord, FailureWrite
        <3>2. proc[p].pc = "claim" => proc[p].saw # tx[s]
            BY <1>1, <2>1 DEF RowInv, Knows
        <3>3. tx'[s] = tx[s]
            BY <1>1, <2>1, <2>5, <3>2 DEF ArchiveClaim, Claimable, ArchiveRecord, FailureWrite,
               RowInv, TypeInv, TypeOK
        <3> QED BY <2>1, <3>1, <3>3
    <2> QED BY <1>1, <2>2, <2>3, <2>4, <2>5, RowSteps
<1>2. RowInv /\ [Next]_vars
        => [\A s \in Story : Archived(s) => tx'[s] = tx[s] /\ s \in exists']_vars
    BY <1>1
<1> QED BY <1>2, RowInvariant, PTL DEF Spec, ArchivedForEver

-----------------------------------------------------------------------------
(* The cached count *)

\* Voter u still has to bring the cached count of s up to date.
Owes(u, s) ==
    /\ proc[u].story = s
    /\ \/ proc[u].pc = "gather"
       \/ proc[u].pc = "count" /\ proc[u].count = Votes(s)

Counted(s) ==
    /\ voteCount[s] <= Votes(s)
    /\ faults = 0 => voteCount[s] = Votes(s) \/ \E u \in Voter : Owes(u, s)

CountInv == RowInv /\ \A s \in exists : Counted(s)

\* Steps that leave the votes, their counts and the vote requests alone.
LEMMA CountedStays ==
    ASSUME NEW s \in Story, Counted(s), votes'[s] = votes[s],
           voteCount'[s] = voteCount[s],
           faults' = 0 => /\ faults = 0
                          /\ \A u \in Voter : proc[u].pc \in {"gather", "count"}
                                               => proc'[u] = proc[u]
    PROVE  Counted(s)'
<1>1. CASE faults' = 0
    <2>1. \A u \in Voter : Owes(u, s) => Owes(u, s)'
        BY <1>1 DEF Owes, Votes
    <2> QED BY <2>1 DEF Counted, Votes
<1>2. CASE faults' # 0
    BY <1>2 DEF Counted, Votes
<1> QED BY <1>1, <1>2

LEMMA CountedVote ==
    ASSUME RowInv, NEW u \in Voter, VoteStep(u), NEW s \in exists', Counted(s)
    PROVE  Counted(s)'
<1> USE DEF RowInv
<1>0. /\ u \in Proc /\ proc[u] \in ProcState /\ exists' = exists /\ s \in Story
      /\ s \in exists /\ Votes(s) \in Nat /\ voteCount[s] \in Nat /\ faults \in Nat
    <2>1. exists' = exists
        BY DEF VoteStep, VoteInsert, VoteGather, VoteCount, VoteAbort, tables
    <2> QED BY <2>1, VotesType DEF Proc, TypeInv, TypeOK
<1>1. ASSUME NEW state, Becomes(u, state)
      PROVE  proc'[u] = state /\ \A w \in Voter \ {u} : proc'[w] = proc[w]
    BY <1>1 DEF Becomes, Proc, TypeInv, TypeOK
<1>2. ASSUME NEW r \in Story, VoteInsert(u, r)
      PROVE  Counted(s)'
    <2> DEFINE state == [Idle EXCEPT !.pc = "gather", !.story = r]
    <2>1. /\ proc[u].pc = "idle" /\ faults' = faults /\ voteCount' = voteCount
          /\ proc'[u] = state /\ \A w \in Voter \ {u} : proc'[w] = proc[w]
        BY <1>1, <1>2 DEF VoteInsert
    <2>2. CASE r = s
        <3>1. /\ votes'[s] = votes[s] \cup {u} /\ votes'[s] \subseteq Voter
              /\ votes[s] \subseteq votes'[s]
            BY <1>0, <1>2, <2>2 DEF VoteInsert, TypeInv, TypeOK
        <3>2. IsFiniteSet(votes'[s])
            BY <3>1, SetAssumption, FS_Subset
        <3>3. voteCount'[s] <= Cardinality(votes'[s])
            <4>1. /\ Cardinality(votes[s]) <= Cardinality(votes'[s])
                  /\ Cardinality(votes'[s]) \in Nat
                BY <3>1, <3>2, FS_Subset, FS_CardinalityType
            <4> QED BY <1>0, <2>1, <4>1 DEF Counted, Votes
        <3>4. Owes(u, s)'
            BY <2>1, <2>2 DEF Owes, Idle
        <3> QED BY <3>3, <3>4 DEF Counted, Votes
    <2>3. CASE r # s
        <3>1. votes'[s] = votes[s]
            BY <1>0, <1>2, <2>3 DEF VoteInsert, TypeInv, TypeOK
        <3> QED BY <1>0, <2>1, <3>1, CountedStays
    <2> QED BY <2>2, <2>3
<1>3. CASE VoteGather(u)
    <2>1. /\ proc[u].pc = "gather" /\ votes' = votes /\ voteCount' = voteCount
          /\ faults' = faults /\ proc[u].story \in Story
        BY <1>0, <1>3 DEF VoteGather, tables, TypeInv, WorksOnStory
    <2>2. CASE proc[u].story = s
        <3> DEFINE state == [proc[u] EXCEPT !.pc = "count", !.count = Votes(s),
                                            !.need = Need(s), !.saw = tx[s]]
        <3>1. proc'[u] = state
            BY <1>0, <1>1, <1>3, <2>2 DEF VoteGather
        <3>2. proc'[u].story = s /\ proc'[u].pc = "count" /\ proc'[u].count = Votes(s)
            BY <1>0, <2>2, <3>1 DEF ProcState
        <3>3. Owes(u, s)'
            BY <2>1, <3>2 DEF Owes, Votes
        <3> QED BY <2>1, <3>3 DEF Counted, Votes
    <2>3. CASE proc[u].story # s
        <3>1. \A w \in Voter \ {u} : proc'[w] = proc[w]
            BY <1>1, <1>3 DEF VoteGather
        <3>2. \A w \in Voter : Owes(w, s) => Owes(w, s)'
            BY <2>1, <2>3, <3>1 DEF Owes, Votes
        <3> QED BY <2>1, <3>2 DEF Counted, Votes
    <2> QED BY <2>2, <2>3
<1>4. CASE VoteCount(u)
    <2>1. /\ proc[u].pc = "count" /\ votes' = votes /\ faults' = faults
          /\ proc[u].count \in Nat
        BY <1>0, <1>4 DEF VoteCount, ProcState
    <2>2. \A w \in Voter \ {u} : Owes(w, s) => Owes(w, s)'
        <3>1. \A w \in Voter \ {u} : proc'[w] = proc[w]
            BY <1>1, <1>4 DEF VoteCount
        <3> QED BY <2>1, <3>1 DEF Owes, Votes
    <2>3. CASE proc[u].story = s
        <3>1. proc[u].count <= Votes(s)
            BY <1>0, <2>1, <2>3 DEF Knows
        <3>2. voteCount'[s] = IF voteCount[s] < proc[u].count THEN proc[u].count
                              ELSE voteCount[s]
            BY <1>0, <1>4, <2>1, <2>3 DEF VoteCount, RaisedCount, Larger, TypeInv, TypeOK
        <3>3. Votes(s)' = Votes(s)
            BY <2>1 DEF Votes
        <3>4. voteCount'[s] <= Votes(s)'
            BY <1>0, <3>1, <3>2, <3>3 DEF Counted
        <3>5. Owes(u, s) \/ voteCount[s] = Votes(s) => voteCount'[s] = Votes(s)
            BY <1>0, <2>1, <3>1, <3>2 DEF Owes, Counted
        <3> QED BY <2>1, <2>2, <3>3, <3>4, <3>5 DEF Counted
    <2>4. CASE proc[u].story # s
        <3>1. voteCount'[s] = voteCount[s]
            BY <1>0, <1>4, <2>4 DEF VoteCount, TypeInv, TypeOK
        <3>2. ~Owes(u, s)
            BY <2>4 DEF Owes
        <3>3. Votes(s)' = Votes(s)
            BY <2>1 DEF Votes
        <3> QED BY <2>1, <2>2, <3>1, <3>2, <3>3 DEF Counted
    <2> QED BY <2>3, <2>4
<1>5. CASE VoteAbort(u)
    <2>1. votes' = votes /\ voteCount' = voteCount /\ faults' # 0
        BY <1>0, <1>5 DEF VoteAbort, Fault, tables
    <2> QED BY <1>0, <2>1, CountedStays
<1> QED BY <1>2, <1>3, <1>4, <1>5 DEF VoteStep

LEMMA CountedOther ==
    ASSUME RowInv, [Next]_vars, ~(\E u \in Voter : VoteStep(u)),
           NEW s \in exists', Counted(s)
    PROVE  Counted(s)'
<1> USE DEF RowInv
<1> DEFINE Calm == \A u \in Voter : proc[u].pc \in {"gather", "count"}
                                     => proc'[u] = proc[u]
<1>0. s \in Story /\ faults \in Nat
    BY ForwardStep DEF Forward, TypeInv, TypeOK
<1>1. ASSUME NEW p \in Proc, NEW state, Becomes(p, state),
             p \notin Voter \/ proc[p].pc \notin {"gather", "count"}
      PROVE  Calm
    BY <1>1 DEF Becomes, Proc, TypeInv, TypeOK
<1>2. ASSUME NEW c \in Checker, CheckStep(c)
      PROVE  votes' = votes /\ voteCount' = voteCount /\ faults' = faults /\ Calm
    <2>1. c \in Proc /\ c \notin Voter
        BY SetAssumption DEF Proc
    <2> QED BY <1>1, <1>2, <2>1 DEF CheckStep, Recheck, MaybeArchiveNow, tables
<1>3. ASSUME NEW p \in Proc, ArchiveStep(p)
      PROVE  votes' = votes /\ voteCount' = voteCount
             /\ (faults' = faults \/ faults' = faults + 1) /\ Calm
    BY <1>1, <1>3 DEF ArchiveStep, ArchiveRead, ArchiveClaim, ArchivePost, ArchiveError,
       ArchiveRecord, FailureRead, FailureWrite, ArchiveAbort, Fault, tables
<1>4. ASSUME NEW r \in Story, UploaderStep(r)
      PROVE  votes' = votes /\ voteCount' = voteCount /\ faults' = faults /\ Calm
    <2>1. votes' = votes /\ voteCount' = voteCount /\ faults' = faults
        BY <1>4 DEF UploaderStep, UploadLookup, UploadDone, UploadLost, UploadFail, tables
    <2>2. Calm
        BY <1>4 DEF UploaderStep, UploadLookup, UploadDone, UploadLost, UploadFail,
           Answer, AnswerError, Waiting, Proc
    <2> QED BY <2>1, <2>2
<1>5. CASE SweepStep
    <2>1. votes' = votes /\ voteCount' = voteCount
          /\ (faults' = faults \/ faults' = faults + 1)
        BY <1>5 DEF SweepStep, SweepReset, SweepResetError, SweepSelect, SweepRow,
           SweepEnd, Fault, tables
    <2>2. Sweeper \in Proc /\ Sweeper \notin Voter
        BY SetAssumption DEF Proc
    <2>3. Calm
        BY <1>1, <1>5, <2>2 DEF SweepStep, SweepReset, SweepResetError, SweepSelect,
           SweepRow, SweepEnd
    <2> QED BY <1>0, <2>1, <2>3, CountedStays
<1>6. CASE Cleanup
    <2>1. votes'[s] = votes[s] /\ voteCount'[s] = voteCount[s]
        BY <1>0, <1>6 DEF Cleanup, Expired
    <2> QED BY <1>0, <1>6, <2>1, CountedStays DEF Cleanup
<1>7. CASE (\E r \in Story : AgeOut(r)) \/ Retarget \/ UNCHANGED vars
    BY <1>0, <1>7, CountedStays DEF AgeOut, Retarget, tables, vars
<1>8. CASE Tick
    <2>1. Calm
        BY <1>8 DEF Tick, Proc
    <2> QED BY <1>0, <1>8, <2>1, CountedStays DEF Tick
<1>9. CASE Crash
    <2>1. votes' = votes /\ voteCount' = voteCount /\ faults' # 0
        BY <1>0, <1>9 DEF Crash, Fault, tables
    <2> QED BY <1>0, <2>1, CountedStays
<1> QED BY <1>0, <1>2, <1>3, <1>4, <1>5, <1>6, <1>7, <1>8, <1>9, CountedStays DEF Next

\* The .lt guard of votes.py: however vote requests overlap, the cached count
\* never passes the votes, and it has caught up once the requests are through.
THEOREM CountCatchesUp == Spec => []VoteCountCatchesUp
<1>1. Init => CountInv
    <2> SUFFICES ASSUME Init PROVE CountInv
        OBVIOUS
    <2>1. \A s \in Story : Votes(s) = 0 /\ voteCount[s] = 0
        BY FS_EmptySet DEF Init, Votes
    <2> QED BY <2>1, RowInit DEF Init, CountInv, Counted
<1>2. CountInv /\ [Next]_vars => CountInv'
    <2> SUFFICES ASSUME CountInv, [Next]_vars PROVE CountInv'
        OBVIOUS
    <2>1. RowInv'
        BY RowStep DEF CountInv
    <2>2. ASSUME NEW s \in exists'
          PROVE  Counted(s)'
        <3>1. s \in exists /\ Counted(s)
            BY ForwardStep DEF Forward, CountInv, RowInv
        <3> QED BY <3>1, CountedVote, CountedOther DEF CountInv
    <2> QED BY <2>1, <2>2 DEF CountInv
<1>3. CountInv => VoteCountCatchesUp
    BY DEF CountInv, Counted, Owes, VoteCountCatchesUp
<1> QED BY <1>1, <1>2, <1>3, PTL DEF Spec
=============================================================================
