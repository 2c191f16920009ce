------------------------- MODULE CaptureQueueProofs -------------------------
(***************************************************************************)
(* Proofs about CaptureQueue, for any number of workers, URLs and sources, *)
(* any budget, leases and delays.                                          *)
(***************************************************************************)
EXTENDS CaptureQueue, SequenceTheorems, FiniteSetTheorems, TLAPS

-----------------------------------------------------------------------------
(* Helpers *)

\* Overdue rows keep everything but their due time.
LEMMA RankedType ==
    ASSUME NEW q \in [Url -> QueueRow]
    PROVE  /\ Ranked(q) \in [Url -> QueueRow]
           /\ \A u \in Url : /\ Ranked(q)[u].status = q[u].status
                             /\ Ranked(q)[u].attempts = q[u].attempts
                             /\ Ranked(q)[u].cooldown = q[u].cooldown
                             /\ Ranked(q)[u].due = Null <=> q[u].due = Null
                             /\ q[u].due \in Int /\ q[u].due > 0 => Ranked(q)[u] = q[u]
<1> DEFINE overdue == {q[u].due : u \in {v \in Url : q[v].due # Null /\ q[v].due <= 0}}
           later(u) == {d \in overdue : d > q[u].due}
<1>1. IsFiniteSet(overdue)
    <2> DEFINE rows == {v \in Url : q[v].due # Null /\ q[v].due <= 0}
               dueOf == [v \in rows |-> q[v].due]
    <2>1. IsFiniteSet(rows)
        BY SetAssumption, FS_Subset
    <2>2. dueOf \in Surjection(rows, overdue)
        BY DEF Surjection
    <2> HIDE DEF dueOf, rows, overdue
    <2> QED BY <2>1, <2>2, FS_Surjection
<1>2. ASSUME NEW u \in Url
      PROVE  -Cardinality(later(u)) \in Int
    <2>1. later(u) \subseteq overdue
        OBVIOUS
    <2>2. Cardinality(later(u)) \in Nat
        BY <1>1, <2>1, FS_Subset, FS_CardinalityType
    <2> HIDE DEF later
    <2> QED BY <2>2
<1>3. \A u \in Url : -Cardinality(later(u)) # Null
    BY <1>2, SetAssumption
<1>4. \A u \in Url : Ranked(q)[u] = IF q[u].due = Null \/ q[u].due > 0 THEN q[u]
                                    ELSE [q[u] EXCEPT !.due = -Cardinality(later(u))]
    BY DEF Ranked
<1>5. Ranked(q) = [u \in Url |-> Ranked(q)[u]]
    BY DEF Ranked
<1> HIDE DEF later, overdue
<1>6. ASSUME NEW u \in Url
      PROVE  Ranked(q)[u] \in QueueRow
    <2> DEFINE n == -Cardinality(later(u))
    <2>1. n \in Int
        BY <1>2
    <2>2. q[u] \in QueueRow
        OBVIOUS
    <2>3. Ranked(q)[u] = q[u] \/ Ranked(q)[u] = [q[u] EXCEPT !.due = n]
        BY <1>4
    <2> HIDE DEF n
    <2> QED BY <2>1, <2>2, <2>3 DEF QueueRow
<1>7. ASSUME NEW u \in Url
      PROVE  /\ Ranked(q)[u].status = q[u].status
             /\ Ranked(q)[u].attempts = q[u].attempts
             /\ Ranked(q)[u].cooldown = q[u].cooldown
             /\ Ranked(q)[u].due = Null <=> q[u].due = Null
             /\ q[u].due \in Int /\ q[u].due > 0 => Ranked(q)[u] = q[u]
    <2> DEFINE n == -Cardinality(later(u))
    <2>1. n # Null
        BY <1>3
    <2>2. q[u] \in QueueRow
        OBVIOUS
    <2>3. \/ Ranked(q)[u] = q[u]
          \/ /\ ~(q[u].due = Null \/ q[u].due > 0)
             /\ Ranked(q)[u] = [q[u] EXCEPT !.due = n]
        BY <1>4
    <2> HIDE DEF n
    <2> QED BY <2>1, <2>2, <2>3 DEF QueueRow
<1> QED BY <1>5, <1>6, <1>7

LEMMA Numbers ==
    /\ Budget \in Nat /\ RecheckBatch \in Nat /\ MaxFaults \in Nat
    /\ ClaimTicks \in Nat /\ ClaimTicks > 0
    /\ RetryBase \in Nat /\ RetryBase > 0 /\ RetryMax \in Nat /\ RetryMax > 0
    /\ AttemptCap \in Nat /\ AttemptCap > 0
    /\ \A n \in Int : n # Null
    /\ Null \notin Url
BY NumberAssumption, MaxFaultsAssumption, SetAssumption

LEMMA IdleType ==
    Idle \in WorkerState /\ NoRow \in QueueRow /\ NoPost \in Post /\ NoPage \in [status : Verdict, body : Text]
BY EmptySeq DEF Idle, WorkerState, NoRow, QueueRow, NoPost, Post, NoPage, Verdict, Text

\* A row with another status and another time.
LEMMA RowType ==
    ASSUME NEW row \in QueueRow, NEW due \in Int \cup {Null}, NEW status \in Unfinished
    PROVE  [row EXCEPT !.status = status, !.due = due] \in QueueRow
BY DEF QueueRow

\* The plan of a cycle without the candidate just taken.
LEMMA RotatedType ==
    ASSUME NEW g \in Seq(Seq(Claims) \ {<<>>}), g # <<>>
    PROVE  /\ Head(g) \in Seq(Claims) \ {<<>>}
           /\ Head(Head(g)) \in Claims
           /\ Tail(g) \in Seq(Seq(Claims) \ {<<>>})
           /\ Rotated(g) \in Seq(Seq(Claims) \ {<<>>})
<1>1. Head(g) \in Seq(Claims) \ {<<>>} /\ Tail(g) \in Seq(Seq(Claims) \ {<<>>})
    BY HeadTailProperties
<1>2. Head(Head(g)) \in Claims /\ Tail(Head(g)) \in Seq(Claims)
    BY <1>1, HeadTailProperties
<1>3. CASE Tail(Head(g)) = <<>>
    BY <1>1, <1>2, <1>3 DEF Rotated
<1>4. CASE Tail(Head(g)) # <<>>
    <2>1. Append(Tail(g), Tail(Head(g))) \in Seq(Seq(Claims) \ {<<>>})
        BY <1>1, <1>2, <1>4, AppendProperties
    <2> QED BY <1>1, <1>2, <1>4, <2>1 DEF Rotated
<1> QED BY <1>3, <1>4

\* One worker changes.
LEMMA BecomesType ==
    ASSUME TypeOK, NEW w \in Worker, NEW state \in WorkerState, InHand(state),
           Becomes(w, state)
    PROVE  proc' \in [Worker -> WorkerState] /\ \A v \in Worker : InHand(proc'[v])
BY DEF TypeOK, Becomes

LEMMA RestType ==
    ASSUME TypeOK, NEW w \in Worker
    PROVE  /\ Rest(w) \in WorkerState /\ InHand(Rest(w)) /\ Rest(w).pc = "idle"
           /\ NextRow(w) \in WorkerState /\ InHand(NextRow(w)) /\ NextRow(w).pc = "rows"
<1>1. proc[w] \in WorkerState
    BY DEF TypeOK
<1>2. Rest(w) \in WorkerState /\ Rest(w).pc = "idle"
    <2>1. Idle \in WorkerState /\ Idle.pc = "idle"
        BY IdleType DEF Idle
    <2> QED BY <1>1, <2>1 DEF Rest, WorkerState
<1>3. NextRow(w) \in WorkerState /\ NextRow(w).pc = "rows"
    BY <1>1, <1>2 DEF NextRow, WorkerState
<1> QED BY <1>2, <1>3 DEF InHand, Attempting

LEMMA QueueRankedType ==
    ASSUME NEW q \in [Url -> QueueRow],
           \A u \in Url : q[u].due = Null <=> q[u].status \notin Unfinished
    PROVE  /\ Ranked(q) \in [Url -> QueueRow]
           /\ \A u \in Url : Ranked(q)[u].due = Null <=> Ranked(q)[u].status \notin Unfinished
BY RankedType

\* A row after a failed or successful attempt.
LEMMA OutcomeType ==
    ASSUME NEW success \in BOOLEAN, NEW p \in Post, NEW attempts \in Nat
    PROVE  /\ Outcome(success, p, attempts) \in QueueRow
           /\ Outcome(success, p, attempts).attempts = attempts
           /\ Outcome(success, p, attempts).status \in Terminal \cup {"retry"}
           /\ Outcome(success, p, attempts).due = Null
                <=> Outcome(success, p, attempts).status \in Terminal
<1>1. attempts - 1 \in Int /\ RetryBase \in Int /\ RetryMax \in Int
    BY NumberAssumption
<1>2. 2^(attempts - 1) \in Int
    BY <1>1
<1>3. Delay(attempts) \in Int
    <2> DEFINE n == RetryBase * 2^(attempts - 1)
    <2>1. n \in Int
        BY <1>1, <1>2
    <2> HIDE DEF n
    <2>2. Lesser(RetryMax, n) \in Int
        BY <1>1, <2>1 DEF Lesser
    <2> QED BY <2>2 DEF Delay, n
<1>4. Delay(attempts) # Null
    BY <1>3, SetAssumption
<1> HIDE DEF Delay
<1>5. CASE success
    BY <1>5 DEF Outcome, QueueRow, Terminal
<1>6. CASE ~success /\ p.body # Null
    BY <1>6 DEF Outcome, QueueRow, Terminal
<1>7. CASE ~success /\ p.body = Null /\ p.status = "hard"
    BY <1>7 DEF Outcome, QueueRow, Terminal
<1>8. CASE ~success /\ p.body = Null /\ p.status # "hard"
    BY <1>3, <1>4, <1>8 DEF Outcome, Retry, QueueRow, Terminal, Unfinished
<1> QED BY <1>5, <1>6, <1>7, <1>8
-----------------------------------------------------------------------------
(* Type correctness *)

LEMMA InitTypeOK == Init => TypeOK
<1> SUFFICES ASSUME Init PROVE TypeOK
    OBVIOUS
<1>1. Cardinality(Source) \in Nat
    BY SetAssumption, FS_CardinalityType
<1>2. InHand(Idle)
    BY DEF InHand, Idle, Attempting
<1> QED BY <1>1, <1>2, IdleType, NumberAssumption, MaxFaultsAssumption, SetAssumption
        DEF Init, TypeOK, NoRow, QueueRow, NoPost, Post, Verdict, Text, Unfinished

\* What a page is judged to be, and what is kept of it.
LEMMA LookType ==
    ASSUME TypeOK, NEW w \in Worker, NEW u \in Url, NEW needed \in BOOLEAN,
           NEW next \in WorkerState, InHand(next), next.pc \in {"save", "store"},
           Look(w, u, needed, next)
    PROVE  /\ proc' \in [Worker -> WorkerState]
           /\ \A v \in Worker : InHand(proc'[v])
           /\ faults' \in 0..MaxFaults
           /\ gone' \subseteq Url
<1>1. Judge(site[u]) \in [status : Verdict, body : Text]
    <2>1. site[u] \in Version \cup {"soft", "gone", "error"}
        BY SetAssumption DEF TypeOK, Web
    <2> QED BY <2>1, SetAssumption DEF Judge, Verdict, Text
<1>2. Unstored \in [status : Verdict, body : Text]
    BY DEF Unstored, Verdict, Text
<1>3. \A page \in [status : Verdict, body : Text] :
        /\ [next EXCEPT !.page = page] \in WorkerState
        /\ InHand([next EXCEPT !.page = page])
    BY DEF WorkerState, InHand, Attempting
<1>4. \A page \in [status : Verdict, body : Text] :
        Becomes(w, [next EXCEPT !.page = page]) =>
            /\ proc' \in [Worker -> WorkerState]
            /\ \A v \in Worker : InHand(proc'[v])
    BY <1>3, BecomesType
<1>5. faults' \in 0..MaxFaults
    BY NumberAssumption, MaxFaultsAssumption DEF Look, Fault, TypeOK
<1>6. gone' \subseteq Url
    BY DEF Look, TypeOK
<1>7. \E page \in [status : Verdict, body : Text] : Becomes(w, [next EXCEPT !.page = page])
    BY <1>1, <1>2 DEF Look
<1> QED BY <1>4, <1>5, <1>6, <1>7

LEMMA DiscoverType ==
    ASSUME TypeOK, NEW w \in Worker, NEW listed \in SUBSET Url, Discover(w, listed)
    PROVE  TypeOK'
<1> DEFINE new == {u \in listed : post[u].body = Null /\ post[u].status # "hard"}
           q == Enqueue(queue, new)
<1>1. q \in [Url -> QueueRow] /\ \A u \in Url : q[u].due = Null <=> q[u].status \notin Unfinished
    <2> DEFINE row == [NoRow EXCEPT !.status = "queued", !.due = 0]
    <2>1. row \in QueueRow /\ row.due # Null /\ row.status \in Unfinished
        <3>1. 0 \in Int \cup {Null} /\ "queued" \in Unfinished /\ NoRow \in QueueRow
            BY IdleType DEF Unfinished
        <3>2. row \in QueueRow
            BY <3>1, RowType
        <3>3. row.due = 0 /\ row.status = "queued"
            BY DEF NoRow
        <3>4. 0 # Null
            BY Numbers
        <3> HIDE DEF row
        <3> QED BY <3>1, <3>2, <3>3, <3>4
    <2> HIDE DEF row
    <2>2. q = [u \in Url |-> IF u \in new /\ queue[u].status = "absent" THEN row ELSE queue[u]]
        BY DEF Enqueue, row
    <2> HIDE DEF new, q
    <2>3. \A u \in Url : q[u] = row \/ q[u] = queue[u]
        BY <2>2
    <2> QED BY <2>1, <2>2, <2>3 DEF TypeOK
<1> DEFINE state == [Rest(w) EXCEPT !.pc = "plan"]
<1>2. state \in WorkerState /\ InHand(state)
    <2>1. Rest(w) \in WorkerState
        BY RestType
    <2>2. state \in WorkerState /\ state.pc = "plan"
        BY <2>1 DEF WorkerState
    <2> QED BY <2>2 DEF InHand, Attempting
<1>3. Becomes(w, state) /\ queue' = Ranked(q)
    BY DEF Discover
<1> HIDE DEF state, q
<1>4. UNCHANGED <<since, post, faults, site, gone>>
    BY DEF Discover
<1>5. queue' \in [Url -> QueueRow]
      /\ \A u \in Url : queue'[u].due = Null <=> queue'[u].status \notin Unfinished
    BY <1>1, <1>3, QueueRankedType
<1>6. proc' \in [Worker -> WorkerState] /\ \A v \in Worker : InHand(proc'[v])
    BY <1>2, <1>3, BecomesType
<1> QED BY <1>4, <1>5, <1>6 DEF TypeOK

\* The rows of a source that a cycle may attempt.
LEMMA CandidatesType ==
    ASSUME TypeOK, NEW s \in Source, DueRows(s) # {}, Budget # 0, NEW c \in Candidates(s)
    PROVE  c \in Seq(Claims) \ {<<>>}
<1>1. IsFiniteSet(DueRows(s)) /\ DueRows(s) \subseteq Url
    BY SetAssumption, FS_Subset DEF DueRows
<1>2. Cardinality(DueRows(s)) \in Nat /\ Cardinality(DueRows(s)) # 0
    BY <1>1, FS_CardinalityType, FS_EmptySet
<1>3. PICK q \in SetToSeqs(DueRows(s)) : c = [i \in 1..Lesser(Budget, Len(q)) |-> Candidate(q[i])]
    BY DEF Candidates
<1>4. q \in [1..Cardinality(DueRows(s)) -> DueRows(s)]
    BY DEF SetToSeqs
<1>5. Len(q) = Cardinality(DueRows(s))
    BY <1>2, <1>4
<1> DEFINE n == Lesser(Budget, Len(q))
<1>6. n \in Nat /\ n # 0 /\ 1..n \subseteq 1..Cardinality(DueRows(s))
    BY <1>2, <1>5, NumberAssumption DEF Lesser
<1>7. \A u \in DueRows(s) : Candidate(u) \in Claims
    BY DEF DueRows, Candidate, Claims, TypeOK, QueueRow
<1>8. \A i \in 1..n : Candidate(q[i]) \in Claims
    BY <1>4, <1>6, <1>7
<1>9. c \in [1..n -> Claims]
    BY <1>3, <1>8
<1> HIDE DEF n
<1>10. c \in Seq(Claims)
    BY <1>6, <1>9
<1>11. c # <<>>
    BY <1>6, <1>9
<1> QED BY <1>10, <1>11

LEMMA PlanType ==
    ASSUME TypeOK, NEW w \in Worker, Plan(w)
    PROVE  TypeOK'
<1> DEFINE ready == {s \in Source : DueRows(s) # {} /\ ~Paused(s)}
<1>1. PICK order \in {q \in SetToSeqs(ready) : Sorted(q, TurnOf)},
           rows \in [ready -> UNION {Candidates(s) : s \in Source}] :
         /\ \A s \in ready : rows[s] \in Candidates(s)
         /\ Becomes(w, [proc[w] EXCEPT !.pc = "drain", !.budget = Budget,
                          !.groups = IF Budget = 0 THEN <<>>
                                     ELSE [i \in DOMAIN order |-> rows[order[i]]]])
    BY DEF Plan
<1> DEFINE g == IF Budget = 0 THEN <<>> ELSE [i \in DOMAIN order |-> rows[order[i]]]
<1>2. g \in Seq(Seq(Claims) \ {<<>>})
    <2>1. CASE Budget = 0
        BY <2>1, EmptySeq
    <2>2. CASE Budget # 0
        <3>1. Cardinality(ready) \in Nat
            BY SetAssumption, FS_Subset, FS_CardinalityType
        <3>2. order \in [1..Cardinality(ready) -> ready]
            BY DEF SetToSeqs
        <3>3. \A s \in ready : rows[s] \in Seq(Claims) \ {<<>>}
            BY <1>1, <2>2, CandidatesType
        <3>4. [i \in DOMAIN order |-> rows[order[i]]] \in
                [1..Cardinality(ready) -> Seq(Claims) \ {<<>>}]
            BY <3>2, <3>3
        <3> HIDE DEF ready
        <3> QED BY <2>2, <3>1, <3>4
    <2> QED BY <2>1, <2>2
<1> DEFINE state == [proc[w] EXCEPT !.pc = "drain", !.budget = Budget, !.groups = g]
<1>3. state \in WorkerState /\ InHand(state)
    <2> HIDE DEF g
    <2>1. proc[w] \in WorkerState /\ Budget \in Nat
        BY NumberAssumption DEF TypeOK
    <2>2. state \in WorkerState
        BY <1>2, <2>1 DEF WorkerState
    <2>3. state.pc = "drain"
        BY <2>1 DEF WorkerState
    <2> QED BY <2>2, <2>3 DEF InHand, Attempting
<1>4. Becomes(w, state)
    BY <1>1
<1> HIDE DEF state
<1> QED BY <1>3, <1>4, BecomesType DEF Plan, TypeOK

\* The candidate in hand.
LEMMA HeadType ==
    ASSUME TypeOK, NEW w \in Worker, proc[w].groups # <<>>
    PROVE  /\ Head(Head(proc[w].groups)) \in Claims
           /\ Tail(proc[w].groups) \in Seq(Seq(Claims) \ {<<>>})
           /\ Rotated(proc[w].groups) \in Seq(Seq(Claims) \ {<<>>})
BY RotatedType DEF TypeOK, WorkerState

LEMMA ClaimType ==
    ASSUME TypeOK, NEW w \in Worker, Claim(w)
    PROVE  TypeOK'
<1> DEFINE c == Head(Head(proc[w].groups))
<1>1. /\ c \in Claims /\ proc[w] \in WorkerState
      /\ Rotated(proc[w].groups) \in Seq(Seq(Claims) \ {<<>>})
    BY HeadType DEF Claim, TypeOK
<1>2. c.url \in Url /\ c.attempts \in Nat /\ Raised(c.attempts) \in Nat
    <2>1. c.url \in Url /\ c.attempts \in Nat
        BY <1>1 DEF Claims
    <2> HIDE DEF c
    <2> QED BY <2>1 DEF Raised
<1>3. CASE Claimable(c)
    <2> DEFINE row == [queue[c.url] EXCEPT !.status = "capturing",
                          !.attempts = Raised(c.attempts), !.due = ClaimTicks]
               q == [queue EXCEPT ![c.url] = row]
               state == [proc[w] EXCEPT !.pc = "capture", !.url = c.url,
                                        !.attempts = Raised(c.attempts)]
    <2>1. queue' = Ranked(q) /\ Becomes(w, state)
        BY <1>3 DEF Claim
    <2> HIDE DEF c
    <2>2. row \in QueueRow /\ row.due # Null /\ row.status \in Unfinished
        <3>1. queue[c.url] \in QueueRow
            BY <1>2 DEF TypeOK
        <3>2. ClaimTicks \in Int /\ ClaimTicks # Null
            BY Numbers
        <3> QED BY <1>2, <3>1, <3>2 DEF QueueRow, Unfinished
    <2>3. q \in [Url -> QueueRow] /\ \A u \in Url : q[u].due = Null <=> q[u].status \notin Unfinished
        <3> HIDE DEF row
        <3>1. \A u \in Url : q[u] = row \/ q[u] = queue[u]
            BY DEF TypeOK
        <3> QED BY <1>2, <2>2, <3>1 DEF TypeOK
    <2>4. state \in WorkerState
        BY <1>1, <1>2 DEF WorkerState
    <2>5. InHand(state)
        BY <1>1, <1>2 DEF WorkerState, InHand, Attempting, Claim, TypeOK
    <2>6. since' \in [Source -> Nat]
        <3>1. SourceOf[c.url] \in Source
            BY <1>2, SetAssumption
        <3> DEFINE s == SourceOf[c.url]
        <3>2. since' = [t \in Source |->
                          IF t = s THEN 0
                          ELSE IF since[t] < since[s] THEN since[t] + 1 ELSE since[t]]
            BY <1>3 DEF Claim, c
        <3>3. since \in [Source -> Nat]
            BY DEF TypeOK
        <3> HIDE DEF s
        <3>4. \A t \in Source : since[t] + 1 \in Nat
            BY <3>3
        <3> QED BY <3>2, <3>3, <3>4
    <2>7. UNCHANGED <<post, faults, site, gone>>
        BY DEF Claim
    <2> HIDE DEF q, state
    <2>8. queue' \in [Url -> QueueRow]
          /\ \A u \in Url : queue'[u].due = Null <=> queue'[u].status \notin Unfinished
        BY <2>1, <2>3, QueueRankedType
    <2>9. proc' \in [Worker -> WorkerState] /\ \A v \in Worker : InHand(proc'[v])
        BY <2>1, <2>4, <2>5, BecomesType
    <2> QED BY <2>6, <2>7, <2>8, <2>9 DEF TypeOK
<1>4. CASE ~Claimable(c)
    <2> DEFINE state == [proc[w] EXCEPT !.groups = Rotated(@)]
    <2>1. Becomes(w, state) /\ UNCHANGED <<queue, since>>
        BY <1>4 DEF Claim
    <2>2. state \in WorkerState
        BY <1>1 DEF WorkerState
    <2>3. InHand(state)
        BY <1>1 DEF WorkerState, InHand, Attempting, Claim
    <2> HIDE DEF state
    <2> QED BY <2>1, <2>2, <2>3, BecomesType DEF Claim, TypeOK
<1> QED BY <1>3, <1>4

LEMMA DrainedType ==
    ASSUME TypeOK, NEW w \in Worker, Drained(w)
    PROVE  TypeOK'
<1> DEFINE state == [Rest(w) EXCEPT !.pc = "recheck"]
<1>1. state \in WorkerState /\ InHand(state)
    <2>1. Rest(w) \in WorkerState
        BY RestType
    <2>2. state \in WorkerState /\ state.pc = "recheck"
        BY <2>1 DEF WorkerState
    <2> QED BY <2>2 DEF InHand, Attempting
<1>2. Becomes(w, state)
    BY DEF Drained
<1> HIDE DEF state
<1> QED BY <1>1, <1>2, BecomesType DEF Drained, TypeOK

LEMMA CaptureType ==
    ASSUME TypeOK, NEW w \in Worker, Capture(w)
    PROVE  TypeOK'
<1> DEFINE u == proc[w].url
<1>1. u \in Url /\ proc[w] \in WorkerState /\ proc[w].groups # <<>> /\ proc[w].budget > 0
    BY DEF TypeOK, InHand, Attempting, Capture
<1>2. post' \in [Url -> Post]
    BY <1>1 DEF Capture, TypeOK, Post
<1>3. CASE post[u].body # Null \/ post[u].status = "hard"
    <2> DEFINE state == [proc[w] EXCEPT !.pc = "finish", !.success = post[u].body # Null]
    <2>1. Becomes(w, state) /\ UNCHANGED <<faults, gone>>
        BY <1>3 DEF Capture
    <2>2. state \in WorkerState
        BY <1>1 DEF WorkerState
    <2>3. InHand(state)
        BY <1>1 DEF WorkerState, InHand, Attempting
    <2> HIDE DEF state, u
    <2> QED BY <1>2, <2>1, <2>2, <2>3, BecomesType DEF Capture, TypeOK
<1>4. CASE ~(post[u].body # Null \/ post[u].status = "hard")
    <2> DEFINE next == [proc[w] EXCEPT !.pc = "save"]
    <2>1. Look(w, u, TRUE, next)
        BY <1>4 DEF Capture
    <2>2. next \in WorkerState /\ next.pc = "save"
        BY <1>1 DEF WorkerState
    <2>3. InHand(next)
        BY <1>1 DEF WorkerState, InHand, Attempting
    <2> HIDE DEF next, u
    <2> QED BY <1>1, <1>2, <2>1, <2>2, <2>3, LookType DEF Capture, TypeOK
<1> QED BY <1>3, <1>4

LEMMA ProbeType ==
    ASSUME TypeOK, NEW w \in Worker, NEW found \in BOOLEAN, Probe(w, found), CountProbe(w, found)
    PROVE  faults' \in 0..MaxFaults /\ KnowsAfter(w, found) \in BOOLEAN
BY NumberAssumption, MaxFaultsAssumption DEF Probe, CountProbe, KnowsAfter, TypeOK, WorkerState

LEMMA UpdatedType ==
    ASSUME NEW p \in Post, NEW status \in Verdict, NEW body \in Text, NEW knows \in BOOLEAN
    PROVE  /\ Updated(p, status, body, knows) \in Post
           /\ Updated(p, status, body, knows).status = status
           /\ Updated(p, status, body, knows).body = IF body = Null THEN p.body ELSE body
           /\ Updated(p, status, body, knows).hard = (p.hard \/ (status = "hard" /\ knows))
BY DEF Updated, Post

LEMMA SaveType ==
    ASSUME TypeOK, NEW w \in Worker, Save(w)
    PROVE  TypeOK'
<1> DEFINE u == proc[w].url
           page == proc[w].page
<1>1. /\ u \in Url /\ proc[w] \in WorkerState /\ proc[w].groups # <<>> /\ proc[w].budget > 0
      /\ page \in [status : Verdict, body : Text]
    BY DEF TypeOK, InHand, Attempting, Save, WorkerState
<1>2. PICK found \in BOOLEAN :
         /\ Probe(w, found) /\ CountProbe(w, found)
         /\ post' = IF Free(post[u])
                    THEN [post EXCEPT ![u] = Updated(@, page.status, page.body, KnowsAfter(w, found))]
                    ELSE post
         /\ Becomes(w, [proc[w] EXCEPT !.pc = "finish", !.knows = KnowsAfter(w, found), !.page = NoPage,
                          !.success = page.body # Null /\ Free(post[u])])
    BY DEF Save
<1>3. faults' \in 0..MaxFaults /\ KnowsAfter(w, found) \in BOOLEAN
    BY <1>2, ProbeType
<1> HIDE DEF page, u
<1>4. post' \in [Url -> Post]
    <2>1. Updated(post[u], page.status, page.body, KnowsAfter(w, found)) \in Post
        BY <1>1, <1>3, UpdatedType DEF TypeOK
    <2> QED BY <1>1, <1>2, <2>1 DEF TypeOK
<1> DEFINE state == [proc[w] EXCEPT !.pc = "finish", !.knows = KnowsAfter(w, found), !.page = NoPage,
                                    !.success = page.body # Null /\ Free(post[u])]
<1>5. state \in WorkerState
    BY <1>1, <1>3, IdleType DEF WorkerState, Free
<1>6. InHand(state)
    BY <1>1 DEF WorkerState, InHand, Attempting, u
<1>7. Becomes(w, state)
    BY <1>2
<1> HIDE DEF state
<1> QED BY <1>3, <1>4, <1>5, <1>6, <1>7, BecomesType DEF Save, TypeOK

LEMMA CaptureFailsType ==
    ASSUME TypeOK, NEW w \in Worker, CaptureFails(w)
    PROVE  TypeOK'
<1> DEFINE state == [proc[w] EXCEPT !.pc = "finish", !.page = NoPage, !.success = FALSE]
<1>1. proc[w] \in WorkerState /\ proc[w].url \in Url /\ proc[w].groups # <<>> /\ proc[w].budget > 0
    BY DEF TypeOK, InHand, Attempting, CaptureFails
<1>2. state \in WorkerState
    BY <1>1, IdleType DEF WorkerState
<1>3. InHand(state)
    BY <1>1 DEF WorkerState, InHand, Attempting
<1>4. Becomes(w, state) /\ faults' \in 0..MaxFaults
    BY NumberAssumption, MaxFaultsAssumption DEF CaptureFails, Fault, TypeOK
<1> HIDE DEF state
<1> QED BY <1>2, <1>3, <1>4, BecomesType DEF CaptureFails, TypeOK

LEMMA FinishReadType ==
    ASSUME TypeOK, NEW w \in Worker, FinishRead(w)
    PROVE  TypeOK'
<1> DEFINE verdict == Outcome(proc[w].success, post[proc[w].url], proc[w].attempts)
           state == [proc[w] EXCEPT !.pc = "settle", !.verdict = verdict]
<1>1. /\ proc[w] \in WorkerState /\ proc[w].url \in Url /\ proc[w].groups # <<>>
      /\ proc[w].budget > 0 /\ proc[w].success \in BOOLEAN /\ proc[w].attempts \in Nat
    BY DEF TypeOK, InHand, Attempting, FinishRead, WorkerState
<1>2. post[proc[w].url] \in Post
    BY <1>1 DEF TypeOK
<1>3. /\ verdict \in QueueRow /\ verdict.status \in Terminal \cup {"retry"}
      /\ verdict.due = Null <=> verdict.status \in Terminal
    BY <1>1, <1>2, OutcomeType
<1>4. Becomes(w, state)
    BY DEF FinishRead
<1> HIDE DEF verdict
<1>5. state \in WorkerState
    BY <1>1, <1>3 DEF WorkerState
<1>6. InHand(state)
    BY <1>1, <1>3 DEF WorkerState, InHand, Attempting
<1> HIDE DEF state
<1> QED BY <1>4, <1>5, <1>6, BecomesType DEF FinishRead, TypeOK

LEMMA FinishWriteType ==
    ASSUME TypeOK, NEW w \in Worker, FinishWrite(w)
    PROVE  TypeOK'
<1> DEFINE u == proc[w].url
           q == [queue EXCEPT ![u] = proc[w].verdict]
           state == [Rest(w) EXCEPT !.pc = "drain", !.budget = proc[w].budget - 1,
                                    !.groups = LeftOf(proc[w].groups, proc[w].success)]
<1>1. /\ proc[w] \in WorkerState /\ proc[w].verdict \in QueueRow
      /\ u \in Url /\ proc[w].groups # <<>> /\ proc[w].budget > 0 /\ proc[w].budget \in Nat
      /\ proc[w].verdict.status \in Terminal \cup {"retry"}
      /\ proc[w].verdict.due = Null <=> proc[w].verdict.status \in Terminal
    BY DEF TypeOK, InHand, Attempting, FinishWrite, WorkerState
<1>2. queue' \in [Url -> QueueRow]
      /\ \A v \in Url : queue'[v].due = Null <=> queue'[v].status \notin Unfinished
    <2>1. q \in [Url -> QueueRow]
          /\ \A v \in Url : q[v].due = Null <=> q[v].status \notin Unfinished
        <3>1. proc[w].verdict.due = Null <=> proc[w].verdict.status \notin Unfinished
            BY <1>1 DEF Terminal, Unfinished
        <3>2. \A v \in Url : q[v] = proc[w].verdict \/ q[v] = queue[v]
            BY DEF TypeOK
        <3> QED BY <1>1, <3>1, <3>2 DEF TypeOK
    <2>2. queue' = Ranked(q) \/ queue' = queue
        BY DEF FinishWrite
    <2> HIDE DEF q
    <2> QED BY <2>1, <2>2, QueueRankedType DEF TypeOK
<1>3. LeftOf(proc[w].groups, proc[w].success) \in Seq(Seq(Claims) \ {<<>>})
    BY <1>1, HeadType DEF LeftOf
<1>4. proc[w].budget - 1 \in Nat
    <2> DEFINE n == proc[w].budget
    <2>1. n \in Nat /\ n > 0
        BY <1>1
    <2> HIDE DEF n
    <2>2. n - 1 \in Nat
        BY <2>1
    <2> QED BY <2>2 DEF n
<1>5. state \in WorkerState /\ InHand(state)
    <2> DEFINE n == proc[w].budget - 1
               g == LeftOf(proc[w].groups, proc[w].success)
    <2>1. n \in Nat /\ g \in Seq(Seq(Claims) \ {<<>>}) /\ Rest(w) \in WorkerState
        BY <1>3, <1>4, RestType
    <2> HIDE DEF n, g
    <2>2. [Rest(w) EXCEPT !.pc = "drain", !.budget = n, !.groups = g] \in WorkerState
        BY <2>1 DEF WorkerState
    <2>3. [Rest(w) EXCEPT !.pc = "drain", !.budget = n, !.groups = g].pc = "drain"
        BY <2>1 DEF WorkerState
    <2> QED BY <2>2, <2>3 DEF InHand, Attempting, n, g
<1>6. Becomes(w, state)
    BY DEF FinishWrite
<1> HIDE DEF state
<1> QED BY <1>2, <1>5, <1>6, BecomesType DEF FinishWrite, TypeOK

LEMMA PollFailsType ==
    ASSUME TypeOK, NEW w \in Worker, PollFails(w)
    PROVE  TypeOK'
BY RestType, BecomesType, Numbers DEF PollFails, Fault, TypeOK

LEMMA SelectRowsType ==
    ASSUME TypeOK, NEW w \in Worker, SelectRows(w)
    PROVE  TypeOK'
<1> DEFINE eligible == {u \in Url : post[u].here /\ post[u].status # "hard"}
<1>1. PICK found \in BOOLEAN :
         /\ Probe(w, found) /\ CountProbe(w, found)
         /\ IF MayRecheck(w, found)
            THEN \E rows \in {r \in SUBSET eligible : Cardinality(r) <= RecheckBatch} :
                   Becomes(w, [Idle EXCEPT !.pc = "rows", !.knows = KnowsAfter(w, found),
                                 !.rows = {[url |-> u, needs |-> post[u].body = Null] : u \in rows}])
            ELSE Becomes(w, Rest(w))
    BY DEF SelectRows
<1>2. faults' \in 0..MaxFaults /\ KnowsAfter(w, found) \in BOOLEAN
    BY <1>1, ProbeType
<1>3. CASE MayRecheck(w, found)
    <2>1. PICK rows \in SUBSET Url :
            Becomes(w, [Idle EXCEPT !.pc = "rows", !.knows = KnowsAfter(w, found),
                          !.rows = {[url |-> u, needs |-> post[u].body = Null] : u \in rows}])
        BY <1>1, <1>3
    <2> DEFINE read == {[url |-> u, needs |-> post[u].body = Null] : u \in rows}
               state == [Idle EXCEPT !.pc = "rows", !.knows = KnowsAfter(w, found), !.rows = read]
    <2>2. read \in SUBSET [url : Url, needs : BOOLEAN]
        <3>1. ASSUME NEW u \in rows
              PROVE  [url |-> u, needs |-> post[u].body = Null] \in [url : Url, needs : BOOLEAN]
            <4> DEFINE n == post[u].body = Null
            <4>1. n \in BOOLEAN
                OBVIOUS
            <4> HIDE DEF n
            <4> QED BY <4>1
        <3> QED BY <3>1, Zenon
    <2>3. Becomes(w, state)
        BY <2>1
    <2> HIDE DEF read
    <2>4. state \in WorkerState /\ InHand(state)
        BY <1>2, <2>2, IdleType DEF WorkerState, InHand, Attempting
    <2> HIDE DEF state
    <2> QED BY <1>2, <2>3, <2>4, BecomesType DEF SelectRows, TypeOK
<1>4. CASE ~MayRecheck(w, found)
    BY <1>1, <1>2, <1>4, RestType, BecomesType DEF SelectRows, TypeOK
<1> QED BY <1>3, <1>4

LEMMA RecheckFetchType ==
    ASSUME TypeOK, NEW w \in Worker, RecheckFetch(w)
    PROVE  TypeOK'
<1>1. PICK r \in proc[w].rows :
         Look(w, r.url, r.needs,
              [proc[w] EXCEPT !.pc = "store", !.rows = @ \ {r}, !.url = r.url, !.needs = r.needs])
    BY DEF RecheckFetch
<1>2. proc[w] \in WorkerState /\ r.url \in Url /\ r.needs \in BOOLEAN
    BY DEF TypeOK, WorkerState
<1> DEFINE next == [proc[w] EXCEPT !.pc = "store", !.rows = @ \ {r}, !.url = r.url,
                                   !.needs = r.needs]
<1>3. next \in WorkerState /\ next.pc = "store" /\ next.url \in Url
    BY <1>2 DEF WorkerState
<1>4. Look(w, r.url, r.needs, next)
    BY <1>1
<1> HIDE DEF next
<1>5. InHand(next)
    BY <1>3 DEF InHand, Attempting
<1> QED BY <1>2, <1>3, <1>4, <1>5, LookType DEF RecheckFetch, TypeOK

LEMMA RecheckStoreType ==
    ASSUME TypeOK, NEW w \in Worker, RecheckStore(w)
    PROVE  TypeOK'
<1> DEFINE u == proc[w].url
           page == proc[w].page
           brings == page.body # Null /\ proc[w].needs
           saved == brings => Free(post[u])
           body == IF brings THEN page.body ELSE Null
           Resolving(status) == [proc[w] EXCEPT !.pc = "resolve", !.verdict.status = status]
<1>1. /\ u \in Url /\ proc[w] \in WorkerState /\ proc[w].knows \in BOOLEAN
      /\ page.status \in Verdict /\ page.body \in Text /\ proc[w].verdict \in QueueRow
    BY DEF TypeOK, InHand, RecheckStore, WorkerState
<1>2. post' \in [Url -> Post]
    <2>1. body \in Text
        BY <1>1 DEF Text
    <2>2. Updated(post[u], page.status, body, proc[w].knows) \in Post
        BY <1>1, <2>1, UpdatedType DEF TypeOK
    <2> QED BY <1>1, <2>2 DEF RecheckStore, TypeOK
<1>3. \A status \in Terminal : Resolving(status) \in WorkerState /\ InHand(Resolving(status))
    <2> SUFFICES ASSUME NEW status \in Terminal
                 PROVE  Resolving(status) \in WorkerState /\ InHand(Resolving(status))
        OBVIOUS
    <2> DEFINE row == [proc[w].verdict EXCEPT !.status = status]
    <2>1. row \in QueueRow /\ row.status = status
        BY <1>1 DEF QueueRow
    <2>2. Resolving(status) = [proc[w] EXCEPT !.pc = "resolve", !.verdict = row]
        BY <1>1 DEF WorkerState, QueueRow
    <2> HIDE DEF row
    <2>3. [proc[w] EXCEPT !.pc = "resolve", !.verdict = row] \in WorkerState
        BY <1>1, <2>1 DEF WorkerState
    <2>4. InHand([proc[w] EXCEPT !.pc = "resolve", !.verdict = row])
        BY <1>1, <2>1 DEF WorkerState, InHand, Attempting
    <2> QED BY <2>2, <2>3, <2>4
<1>4. \/ Becomes(w, Resolving("captured")) \/ Becomes(w, Resolving("deleted"))
      \/ Becomes(w, NextRow(w))
    BY DEF RecheckStore
<1> HIDE DEF Resolving
<1>5. "captured" \in Terminal /\ "deleted" \in Terminal
    BY DEF Terminal
<1>6. proc' \in [Worker -> WorkerState] /\ \A v \in Worker : InHand(proc'[v])
    BY <1>3, <1>4, <1>5, RestType, BecomesType
<1> QED BY <1>2, <1>6 DEF RecheckStore, TypeOK

LEMMA ResolveType ==
    ASSUME TypeOK, NEW w \in Worker, Resolve(w)
    PROVE  TypeOK'
<1> DEFINE u == proc[w].url
           row == [queue[u] EXCEPT !.status = proc[w].verdict.status, !.due = Null]
<1>1. u \in Url /\ proc[w].verdict.status \in Terminal /\ queue[u] \in QueueRow
    BY DEF TypeOK, InHand, Resolve, WorkerState
<1>2. row \in QueueRow /\ row.due = Null /\ row.status \notin Unfinished
    BY <1>1 DEF QueueRow, Terminal, Unfinished
<1>3. queue' = queue \/ queue' = [queue EXCEPT ![u] = row]
    BY <1>1 DEF Resolve, TypeOK
<1> HIDE DEF row
<1>4. queue' \in [Url -> QueueRow]
      /\ \A v \in Url : queue'[v].due = Null <=> queue'[v].status \notin Unfinished
    <2>1. \A v \in Url : queue'[v] = queue[v] \/ queue'[v] = row
        BY <1>3 DEF TypeOK
    <2> QED BY <1>1, <1>2, <1>3, <2>1 DEF TypeOK
<1> QED BY <1>4, RestType, BecomesType DEF Resolve, TypeOK

LEMMA RecheckFailsType ==
    ASSUME TypeOK, NEW w \in Worker, RecheckFails(w)
    PROVE  TypeOK'
BY RestType, BecomesType, Numbers DEF RecheckFails, Fault, TypeOK

LEMMA RecheckedType ==
    ASSUME TypeOK, NEW w \in Worker, Rechecked(w)
    PROVE  TypeOK'
BY RestType, BecomesType DEF Rechecked, TypeOK

LEMMA CrashType ==
    ASSUME TypeOK, NEW w \in Worker, Crash(w)
    PROVE  TypeOK'
<1>1. InHand(Idle)
    BY DEF InHand, Idle, Attempting
<1> QED BY <1>1, IdleType, BecomesType, Numbers DEF Crash, Fault, TypeOK

LEMMA TickType ==
    ASSUME TypeOK, Tick
    PROVE  TypeOK'
<1> DEFINE older(u) == [queue[u] EXCEPT !.due = @ - 1]
           q == [u \in Url |-> IF queue[u].due = Null THEN queue[u] ELSE older(u)]
<1>1. ASSUME NEW u \in Url, queue[u].due # Null
      PROVE  older(u) \in QueueRow /\ older(u).due # Null /\ older(u).status = queue[u].status
    <2> DEFINE n == queue[u].due - 1
    <2>1. queue[u] \in QueueRow /\ queue[u].due \in Int
        BY <1>1 DEF TypeOK, QueueRow
    <2>2. n \in Int
        BY <2>1
    <2>3. n # Null
        BY <2>2, Numbers
    <2> HIDE DEF n
    <2>4. older(u) = [queue[u] EXCEPT !.due = n]
        BY DEF n
    <2> QED BY <2>1, <2>2, <2>3, <2>4 DEF QueueRow
<1> HIDE DEF older
<1>2. \A u \in Url : IF queue[u].due = Null THEN q[u] = queue[u] ELSE q[u] = older(u)
    OBVIOUS
<1>3. q \in [Url -> QueueRow] /\ \A u \in Url : q[u].due = Null <=> q[u].status \notin Unfinished
    <2>1. \A u \in Url : q[u] \in QueueRow
        BY <1>1, <1>2 DEF TypeOK
    <2>2. q \in [Url -> QueueRow]
        BY <2>1
    <2> HIDE DEF q
    <2> QED BY <1>1, <1>2, <2>2 DEF TypeOK
<1>4. queue' = Ranked(q)
    BY DEF Tick, older
<1> HIDE DEF q
<1> QED BY <1>3, <1>4, QueueRankedType DEF Tick, TypeOK

LEMMA ChangeType ==
    ASSUME TypeOK, NEW u \in Url, Change(u)
    PROVE  TypeOK'
<1>1. PICK o \in Answers[u] : site' = [site EXCEPT ![u] = o]
    BY DEF Change
<1>2. site \in Web
    BY DEF TypeOK
<1>3. site' \in Web
    BY <1>1, <1>2 DEF Web
<1>4. UNCHANGED <<queue, since, post, proc, faults, gone>>
    BY DEF Change
<1> QED BY <1>3, <1>4 DEF TypeOK

LEMMA NextTypeOK == TypeOK /\ [Next]_vars => TypeOK'
<1> SUFFICES ASSUME TypeOK, [Next]_vars PROVE TypeOK'
    OBVIOUS
<1>1. CASE \E w \in Worker : WorkerStep(w) \/ Crash(w)
    BY <1>1, DiscoverType, PlanType, ClaimType, DrainedType, CaptureType, SaveType,
       CaptureFailsType, FinishReadType, FinishWriteType, PollFailsType, SelectRowsType,
       RecheckFetchType, RecheckStoreType, ResolveType, RecheckFailsType, RecheckedType,
       CrashType DEF WorkerStep
<1>2. CASE \E u \in Url : Change(u)
    BY <1>2, ChangeType
<1>3. CASE Tick
    BY <1>3, TickType
<1>4. CASE UNCHANGED vars
    BY <1>4 DEF vars, TypeOK
<1> QED BY <1>1, <1>2, <1>3, <1>4 DEF Next

\* Every variable keeps its type, and a row to be attempted always has a time
\* for it: none is left where no worker would look (discovery.py:93).
THEOREM TypeCorrect == Spec => []TypeOK
<1>1. Init => TypeOK
    BY InitTypeOK
<1>2. TypeOK /\ [Next]_vars => TypeOK'
    BY NextTypeOK
<1> QED BY <1>1, <1>2, PTL DEF Spec
=============================================================================
