----------------------------- MODULE RequestProofs -----------------------------
(***************************************************************************)
(* Theorems about what answers requests: the payment for sources           *)
(* (SourcesReveal), the calls of the database in the process (LocalDb),    *)
(* the makers of stories (StoryMaking) and the limit on them (RateLimiter).*)
(***************************************************************************)
EXTENDS SourcesReveal, LocalDb, StoryMaking, RateLimiter, SequenceTheorems, FiniteSetTheorems, TLAPS

-----------------------------------------------------------------------------
(* sources/reveal *)

Token == [story : Told, secret : Secret]
Asking == [pc : {"verify", "decrypt", "settle", "reply"}, secret : Secret, token : Token,
           payment : Payment, settled : BOOLEAN]
Shown == [payment : Payment, by : Handler, story : Told, settled : BOOLEAN]

RevealType ==
    /\ secret \in Secret
    /\ tokens \subseteq Token
    /\ reveal \in [Handler -> {Unasked} \cup Asking]
    /\ settled \subseteq Payment
    /\ revealed \subseteq Shown
    /\ faults \in Nat

\* Handler h is about to say that payment p has been settled.
WillClaim(h, p) == reveal[h].pc = "reply" /\ reveal[h].settled /\ reveal[h].payment = p

\* What has been said of payment p already.
HasClaimed(p) == \E r \in revealed : r.settled /\ r.payment = p

\* A claim is made for a payment that was made, by one handler, once.
ClaimsInHand ==
    \A h \in Handler, p \in Payment :
        WillClaim(h, p) => /\ p \in settled
                           /\ ~HasClaimed(p)
                           /\ \A g \in Handler : WillClaim(g, p) => g = h

RevealInv == RevealType /\ ClaimsInHand /\ PaidIsGiven

\* The stages follow one another as _handle_sources_reveal has them: the payment
\* is verified, the token decrypted, the payment settled, the sources given.
LEMMA NextStage ==
    /\ Stages[1] = "verify"
    /\ Stages[1 + CHOOSE i \in DOMAIN Stages : Stages[i] = "verify"] = "decrypt"
    /\ Stages[1 + CHOOSE i \in DOMAIN Stages : Stages[i] = "decrypt"] = "settle"
    /\ Stages[1 + CHOOSE i \in DOMAIN Stages : Stages[i] = "settle"] = "reply"
<1>1. DOMAIN Stages = 1..4
  BY DEF Stages
<1>2. /\ Stages[1] = "verify" /\ Stages[2] = "decrypt"
      /\ Stages[3] = "settle" /\ Stages[4] = "reply"
  BY DEF Stages
<1>3. \A i \in 1..4 : i = 1 \/ i = 2 \/ i = 3 \/ i = 4
  OBVIOUS
<1>4. (CHOOSE i \in DOMAIN Stages : Stages[i] = "verify") = 1
  BY <1>1, <1>2, <1>3
<1>5. (CHOOSE i \in DOMAIN Stages : Stages[i] = "decrypt") = 2
  BY <1>1, <1>2, <1>3
<1>6. (CHOOSE i \in DOMAIN Stages : Stages[i] = "settle") = 3
  BY <1>1, <1>2, <1>3
<1>7. 1 + 1 = 2 /\ 1 + 2 = 3 /\ 1 + 3 = 4
  OBVIOUS
<1> QED BY <1>2, <1>4, <1>5, <1>6, <1>7

\* The steps of a handler change the stage, and before the settlement nothing else.
LEMMA AskingEdit ==
    ASSUME NEW a \in Asking, NEW pc \in {"verify", "decrypt", "settle", "reply"}
    PROVE  [a EXCEPT !.pc = pc] \in Asking /\ [a EXCEPT !.pc = pc].pc = pc
BY DEF Asking

LEMMA AskingType ==
    ASSUME NEW h \in Handler, RevealType, reveal[h].pc # "idle"
    PROVE  /\ reveal[h] \in Asking
           /\ reveal[h].token \in Token /\ reveal[h].payment \in Payment
           /\ reveal[h].settled \in BOOLEAN
BY DEF RevealType, Asking, Unasked

\* A step that only takes a handler to another stage than "reply", or away.
LEMMA HandlerMoves ==
    ASSUME RevealInv, NEW h \in Handler, NEW to \in {Unasked} \cup Asking,
           to.pc # "reply",
           reveal[h].pc = "reply" => faults' # 0,
           reveal' = [reveal EXCEPT ![h] = to],
           faults' \in {faults, faults + 1},
           UNCHANGED <<secret, tokens, settled, revealed>>
    PROVE  RevealInv'
<1> USE DEF RevealInv
<1>1. RevealType'
  BY DEF RevealType
<1>2. \A g \in Handler : reveal'[g].pc = "reply" => g # h /\ reveal'[g] = reveal[g]
  BY DEF RevealType
<1>3. \A g \in Handler, p \in Payment : WillClaim(g, p)' => WillClaim(g, p)
  BY <1>2 DEF WillClaim
<1>4. ClaimsInHand'
  BY <1>3 DEF ClaimsInHand, HasClaimed
<1>5. ReceiptsAreTrue'
  BY DEF PaidIsGiven, ReceiptsAreTrue
<1>6. NobodyPaysForNothing'
  <2> SUFFICES ASSUME faults' = 0, NEW p \in settled
               PROVE  \/ \E r \in revealed : r.payment = p
                      \/ \E g \in Handler : reveal'[g].pc = "reply" /\ reveal'[g].payment = p
    BY DEF NobodyPaysForNothing
  <2>1. faults = 0 /\ reveal[h].pc # "reply"
    BY DEF RevealType
  <2>2. ASSUME NEW g \in Handler, reveal[g].pc = "reply", reveal[g].payment = p
        PROVE  reveal'[g].pc = "reply" /\ reveal'[g].payment = p
    BY <2>1, <2>2 DEF RevealType
  <2> QED BY <2>1, <2>2 DEF PaidIsGiven, NobodyPaysForNothing
<1> QED BY <1>1, <1>4, <1>5, <1>6 DEF PaidIsGiven

-----------------------------------------------------------------------------
(* Init and the actions *)

LEMMA RevealInitially == RevealInit => RevealInv
BY DEF RevealInit, RevealInv, RevealType, ClaimsInHand, PaidIsGiven, NobodyPaysForNothing,
       ReceiptsAreTrue, WillClaim, HasClaimed, Unasked

LEMMA RevealElsewhere ==
    ASSUME RevealInv,
           \/ Rekey
           \/ \E s \in Told : Tell(s)
           \/ UNCHANGED revealVars
    PROVE  RevealInv'
<1>1. UNCHANGED <<reveal, settled, revealed, faults>>
  BY DEF Rekey, Tell, revealVars
<1>2. RevealType'
  BY DEF RevealInv, RevealType, Rekey, Tell, Token, revealVars
<1> QED BY <1>1, <1>2 DEF RevealInv, ClaimsInHand, PaidIsGiven, NobodyPaysForNothing,
                         ReceiptsAreTrue, WillClaim, HasClaimed

LEMMA AskSourcesStep ==
    ASSUME RevealInv, NEW h \in Handler, NEW t \in tokens, NEW p \in Payment,
           AskSources(h, t, p)
    PROVE  RevealInv'
<1> DEFINE to == [pc |-> "verify", secret |-> secret, token |-> t,
                  payment |-> p, settled |-> FALSE]
<1>1. to \in Asking /\ to.pc # "reply"
  BY DEF RevealInv, RevealType, Asking
<1>2. /\ reveal[h].pc = "idle"
      /\ reveal' = [reveal EXCEPT ![h] = to]
      /\ faults' \in {faults, faults + 1}
      /\ UNCHANGED <<secret, tokens, settled, revealed>>
  BY NextStage DEF AskSources
<1> HIDE DEF to
<1> QED BY <1>1, <1>2, HandlerMoves

LEMMA VerifyPaymentStep ==
    ASSUME RevealInv, NEW h \in Handler, VerifyPayment(h)
    PROVE  RevealInv'
<1> DEFINE on == [reveal[h] EXCEPT !.pc = "decrypt"]
<1>1. reveal[h].pc = "verify" /\ reveal[h] \in Asking
  BY AskingType DEF VerifyPayment, RevealInv
<1>2. on \in Asking /\ on.pc = "decrypt"
  BY <1>1, AskingEdit
<1>3. Unasked.pc = "idle"
  BY DEF Unasked
<1>4. /\ reveal' = [reveal EXCEPT ![h] = on] \/ reveal' = [reveal EXCEPT ![h] = Unasked]
      /\ faults' \in {faults, faults + 1}
      /\ UNCHANGED <<secret, tokens, settled, revealed>>
  BY <1>1, NextStage DEF VerifyPayment, GoesOn, Refuses, Fault
<1> HIDE DEF on
<1> QED BY <1>1, <1>2, <1>3, <1>4, HandlerMoves

LEMMA DecryptTokenStep ==
    ASSUME RevealInv, NEW h \in Handler, DecryptToken(h)
    PROVE  RevealInv'
<1> DEFINE on == [reveal[h] EXCEPT !.pc = "settle"]
<1>1. reveal[h].pc = "decrypt" /\ reveal[h] \in Asking
  BY AskingType DEF DecryptToken, RevealInv
<1>2. on \in Asking /\ on.pc = "settle"
  BY <1>1, AskingEdit
<1>3. Unasked.pc = "idle"
  BY DEF Unasked
<1>4. /\ reveal' = [reveal EXCEPT ![h] = on] \/ reveal' = [reveal EXCEPT ![h] = Unasked]
      /\ faults' \in {faults, faults + 1}
      /\ UNCHANGED <<secret, tokens, settled, revealed>>
  BY <1>1, NextStage DEF DecryptToken, GoesOn, Refuses
<1> HIDE DEF on
<1> QED BY <1>1, <1>2, <1>3, <1>4, HandlerMoves

LEMMA HandlerDiesStep ==
    ASSUME RevealInv, NEW h \in Handler, HandlerDies(h)
    PROVE  RevealInv'
<1>1. Unasked.pc = "idle"
  BY DEF Unasked
<1>2. /\ reveal' = [reveal EXCEPT ![h] = Unasked]
      /\ faults' = faults + 1 /\ faults \in Nat
      /\ UNCHANGED <<secret, tokens, settled, revealed>>
  BY DEF HandlerDies, Refuses, Fault, RevealInv, RevealType
<1>3. faults' # 0
  BY <1>2
<1> QED BY <1>1, <1>2, <1>3, HandlerMoves

\* The settlement: the claim is true only if nobody could settle the payment
\* before, so no other handler and no reply can have claimed it.
LEMMA SettlePaymentStep ==
    ASSUME RevealInv, NEW h \in Handler, SettlePayment(h)
    PROVE  RevealInv'
<1> USE DEF RevealInv
<1> DEFINE p == reveal[h].payment
           said(claim) == [reveal[h] EXCEPT !.pc = "reply", !.settled = claim]
<1>1. /\ reveal[h].pc = "settle" /\ reveal[h] \in Asking /\ p \in Payment
  BY AskingType DEF SettlePayment
<1>2. PICK claim \in BOOLEAN :
        /\ reveal' = [reveal EXCEPT ![h] = said(claim)]
        /\ settled' \in {settled, settled \cup {p}}
        /\ claim => p \notin settled /\ p \in settled'
        /\ p \notin settled' => ~claim
        /\ faults' \in {faults, faults + 1}
        /\ UNCHANGED <<secret, tokens, revealed>>
  <2> DEFINE c == p \notin settled
  <2>1. CASE Settlement(h, Claims(p \notin settled)) /\ settled' = settled \cup {p}
             /\ UNCHANGED <<secret, tokens, revealed, faults>>
    <3>1. c \in BOOLEAN
      OBVIOUS
    <3>2. reveal' = [reveal EXCEPT ![h] = said(c)]
      BY <1>1, <2>1, NextStage DEF Settlement, Claims
    <3> QED BY <2>1, <3>1, <3>2
  <2>2. CASE Settlement(h, FALSE) /\ settled' \in {settled, settled \cup {p}}
             /\ faults' \in {faults, faults + 1}
             /\ UNCHANGED <<secret, tokens, revealed>>
    <3>1. reveal' = [reveal EXCEPT ![h] = said(FALSE)]
      BY <1>1, <2>2, NextStage DEF Settlement
    <3> QED BY <2>2, <3>1
  <2> QED BY <2>1, <2>2 DEF SettlePayment, Fault
<1>3. said(claim) \in Asking /\ said(claim).pc = "reply" /\ said(claim).settled = claim
      /\ said(claim).payment = p
  <2> DEFINE a == reveal[h]
  <2>1. a \in Asking
    BY <1>1
  <2> HIDE DEF a
  <2>2. /\ [a EXCEPT !.pc = "reply", !.settled = claim] \in Asking
        /\ [a EXCEPT !.pc = "reply", !.settled = claim].pc = "reply"
        /\ [a EXCEPT !.pc = "reply", !.settled = claim].settled = claim
        /\ [a EXCEPT !.pc = "reply", !.settled = claim].payment = a.payment
    BY <2>1 DEF Asking
  <2> QED BY <2>2, Zenon DEF a
<1> HIDE DEF said, p
<1>4. \A g \in Handler : reveal'[g] = IF g = h THEN said(claim) ELSE reveal[g]
  BY <1>2 DEF RevealType
<1>5. RevealType'
  BY <1>1, <1>2, <1>3 DEF RevealType
<1>6. \A g \in Handler, q \in Payment :
        WillClaim(g, q)' => IF g = h THEN claim /\ q = p ELSE WillClaim(g, q)
  BY <1>3, <1>4 DEF WillClaim
<1>7. claim => /\ ~HasClaimed(p)
               /\ \A g \in Handler : ~WillClaim(g, p)
  BY <1>1, <1>2 DEF PaidIsGiven, ReceiptsAreTrue, HasClaimed, ClaimsInHand
<1>8. ClaimsInHand'
  <2> SUFFICES ASSUME NEW g \in Handler, NEW q \in Payment, WillClaim(g, q)'
               PROVE  /\ q \in settled'
                      /\ ~HasClaimed(q)
                      /\ \A k \in Handler : WillClaim(k, q)' => k = g
    BY <1>2 DEF ClaimsInHand, HasClaimed
  <2>1. CASE g = h
    BY <1>2, <1>6, <1>7, <2>1
  <2>2. CASE g # h
    BY <1>2, <1>6, <1>7, <2>2 DEF ClaimsInHand
  <2> QED BY <2>1, <2>2
<1>9. ReceiptsAreTrue'
  BY <1>2 DEF PaidIsGiven, ReceiptsAreTrue
<1>10. NobodyPaysForNothing'
  <2> SUFFICES ASSUME faults' = 0, NEW q \in settled'
               PROVE  \/ \E r \in revealed' : r.payment = q
                      \/ \E g \in Handler : reveal'[g].pc = "reply" /\ reveal'[g].payment = q
    BY DEF NobodyPaysForNothing
  <2>1. faults = 0
    BY <1>2 DEF RevealType
  <2>2. CASE q = p
    BY <1>3, <1>4, <2>2
  <2>3. CASE q \in settled
    <3>1. CASE \E r \in revealed : r.payment = q
      BY <1>2, <3>1
    <3>2. CASE \E g \in Handler : reveal[g].pc = "reply" /\ reveal[g].payment = q
      BY <1>1, <1>4, <3>2
    <3> QED BY <2>1, <2>3, <3>1, <3>2 DEF PaidIsGiven, NobodyPaysForNothing
  <2> QED BY <1>2, <2>2, <2>3
<1> QED BY <1>5, <1>8, <1>9, <1>10 DEF PaidIsGiven

\* The reply: what the handler was about to claim becomes a claim that was made.
LEMMA ReplyStep ==
    ASSUME RevealInv, NEW h \in Handler, Reply(h)
    PROVE  RevealInv'
<1> USE DEF RevealInv
<1> DEFINE p == reveal[h].payment
           new == [payment |-> p, by |-> h,
                   story |-> reveal[h].token.story, settled |-> reveal[h].settled]
<1>1. reveal[h].pc = "reply" /\ reveal[h] \in Asking /\ p \in Payment
      /\ reveal[h].token \in Token /\ reveal[h].settled \in BOOLEAN
  BY AskingType DEF Reply
<1>2. new \in Shown /\ new.payment = p /\ new.settled = reveal[h].settled
  BY <1>1 DEF Shown, Token
<1>3. /\ revealed' = revealed \cup {new}
      /\ reveal' = [reveal EXCEPT ![h] = Unasked]
      /\ UNCHANGED <<secret, tokens, settled, faults>>
  BY DEF Reply, Refuses
<1>4. new.settled => WillClaim(h, p)
  BY <1>1, <1>2 DEF WillClaim
<1> HIDE DEF new, p
<1>5. \A g \in Handler : reveal'[g] = IF g = h THEN Unasked ELSE reveal[g]
  BY <1>3 DEF RevealType
<1>6. RevealType'
  BY <1>2, <1>3 DEF RevealType
<1>7. \A g \in Handler, q \in Payment : WillClaim(g, q)' => g # h /\ WillClaim(g, q)
  BY <1>5 DEF WillClaim, Unasked
<1>8. ClaimsInHand'
  <2> SUFFICES ASSUME NEW g \in Handler, NEW q \in Payment, WillClaim(g, q)'
               PROVE  /\ q \in settled'
                      /\ ~HasClaimed(q)'
                      /\ \A k \in Handler : WillClaim(k, q)' => k = g
    BY DEF ClaimsInHand
  <2>1. g # h /\ WillClaim(g, q)
    BY <1>7
  <2>2. q \in settled /\ ~HasClaimed(q) /\ \A k \in Handler : WillClaim(k, q) => k = g
    BY <2>1 DEF ClaimsInHand
  <2>3. ~(new.settled /\ new.payment = q)
    BY <1>1, <1>2, <1>4, <2>1, <2>2
  <2> QED BY <1>3, <1>7, <2>2, <2>3 DEF HasClaimed
<1>9. ReceiptsAreTrue'
  <2>1. new.settled => p \in settled /\ ~HasClaimed(p)
    BY <1>1, <1>4 DEF ClaimsInHand
  <2>2. ASSUME NEW r \in revealed', r.settled
        PROVE  r.payment \in settled'
    BY <1>2, <1>3, <2>1, <2>2 DEF PaidIsGiven, ReceiptsAreTrue
  <2>3. ASSUME NEW r \in revealed', NEW q \in revealed', r.settled, q.settled,
               r.payment = q.payment
        PROVE  r = q
    BY <1>2, <1>3, <2>1, <2>3 DEF PaidIsGiven, ReceiptsAreTrue, HasClaimed
  <2> QED BY <2>2, <2>3 DEF ReceiptsAreTrue
<1>10. NobodyPaysForNothing'
  <2> SUFFICES ASSUME faults = 0, NEW q \in settled
               PROVE  \/ \E r \in revealed' : r.payment = q
                      \/ \E g \in Handler : reveal'[g].pc = "reply" /\ reveal'[g].payment = q
    BY <1>3 DEF NobodyPaysForNothing
  <2>1. CASE \E r \in revealed : r.payment = q
    BY <1>3, <2>1
  <2>2. CASE q = p
    BY <1>2, <1>3, <2>2
  <2>3. CASE \E g \in Handler : reveal[g].pc = "reply" /\ reveal[g].payment = q /\ q # p
    BY <1>5, <2>3 DEF p
  <2> QED BY <2>1, <2>2, <2>3 DEF PaidIsGiven, NobodyPaysForNothing
<1> QED BY <1>6, <1>8, <1>9, <1>10 DEF PaidIsGiven

LEMMA RevealPreserved == RevealInv /\ [RevealNext]_revealVars => RevealInv'
<1> SUFFICES ASSUME RevealInv, [RevealNext]_revealVars PROVE RevealInv'
  OBVIOUS
<1>1. CASE \E h \in Handler : RevealStep(h)
  BY <1>1, AskSourcesStep, VerifyPaymentStep, DecryptTokenStep, SettlePaymentStep, ReplyStep,
     HandlerDiesStep DEF RevealStep
<1> QED BY <1>1, RevealElsewhere DEF RevealNext

\* Whatever payments, tokens and keys there are, and however many handlers work
\* at the same time: without a fault nobody pays without getting the sources, and
\* one reply says of a payment that it settled it (index.py:1468-1500).
THEOREM PaymentIsGiven == RevealSpec => []PaidIsGiven
<1>1. RevealInv => PaidIsGiven
  BY DEF RevealInv
<1> QED BY RevealInitially, RevealPreserved, <1>1, PTL DEF RevealSpec
-----------------------------------------------------------------------------
(* The calls of the database *)

Table == [Key -> Value \cup {Absent}]

\* The thread that holds the lock, and its call.
Calling == [thread : {{t} : t \in Thread}, call : Call, done : Nat, found : Table]

DbType ==
    /\ view \in Table /\ stored \in Table
    /\ owner \in {Nobody} \cup Calling
    /\ DOMAIN replied = Thread /\ replied = [t \in Thread |-> replied[t]]

\* The rows of the batch that are done.
DoneRows == 1..owner.done
KeyOf(i) == owner.call.rows[i].key
ValueOf(i) == owner.call.rows[i].value

\* They were accepted, each on what the rows before it had left.
RowsAccepted ==
    /\ owner.done <= Len(owner.call.rows)
    /\ \A i \in DoneRows : ValueOf(i) # Bad
    /\ owner.call.op = "insert" =>
         \A i \in DoneRows : /\ owner.found[KeyOf(i)] = Absent
                             /\ \A j \in DoneRows : KeyOf(j) = KeyOf(i) => j = i

\* A key that no row named is as it was found; one that was named has the value of
\* the last row that named it, or of the first if the others were ignored.
RowsStored ==
    \A k \in Key :
        \/ view[k] = owner.found[k] /\ \A i \in DoneRows : KeyOf(i) # k
        \/ /\ owner.call.op # "ignore"
           /\ \E i \in DoneRows : /\ KeyOf(i) = k /\ view[k] = ValueOf(i)
                                  /\ \A j \in DoneRows : KeyOf(j) = k => j <= i
        \/ /\ owner.call.op = "ignore"
           /\ \E i \in DoneRows :
                /\ KeyOf(i) = k
                /\ view[k] = IF owner.found[k] = Absent THEN ValueOf(i) ELSE owner.found[k]
                /\ \A j \in DoneRows : KeyOf(j) = k => i <= j

\* What the call of the owner has done so far; nothing but a batch has done
\* anything before its end.
CallInHand ==
    owner # Nobody =>
        IF IsBatch THEN RowsAccepted /\ RowsStored ELSE view = owner.found

DbInv == DbType /\ CallInHand

\* A batch is a sequence of rows.
LEMMA BatchIsSequence ==
    ASSUME NEW c \in Call, c.op \in {"insert", "upsert", "ignore"}
    PROVE  /\ c.rows \in Seq(Row)
           /\ Len(c.rows) \in Nat /\ DOMAIN c.rows = 1..Len(c.rows)
           /\ \A i \in 1..Len(c.rows) : c.rows[i] \in Row
<1>1. PICK n \in 1..BatchLength : c.rows \in [1..n -> Row]
  BY DEF Call
<1>2. n \in Nat
  BY <1>1, LocalDbAssumption
<1>3. c.rows \in Seq(Row)
  BY <1>1, <1>2, SeqDef
<1> QED BY <1>3

LEMMA OwnerType ==
    ASSUME DbType, owner # Nobody
    PROVE  /\ owner \in Calling
           /\ owner.call \in Call /\ owner.done \in Nat /\ owner.found \in Table
           /\ \E t \in Thread : owner.thread = {t}
BY DEF DbType, Calling

LEMMA DbInitially == LocalDbInit => DbInv /\ Calls!TableInit
BY DEF LocalDbInit, DbInv, DbType, CallInHand, Table, NoRows, Calls!TableInit

\* A new call has found the table as it is.
LEMMA BeginCallStep ==
    ASSUME DbInv, NEW t \in Thread, NEW c \in Call, BeginCall(t, c)
    PROVE  DbInv' /\ UNCHANGED Calls!tableVars
<1> DEFINE new == [thread |-> {t}, call |-> c, done |-> 0, found |-> view]
<1>1. new \in Calling /\ new # Nobody
  BY DEF Calling, Nobody, DbInv, DbType
<1>2. /\ owner = Nobody /\ owner' = new
      /\ UNCHANGED <<view, stored, replied>>
  BY DEF BeginCall
<1>3. DbType'
  BY <1>1, <1>2 DEF DbInv, DbType
<1>4. owner'.found = view /\ owner'.done = 0 /\ owner'.call = c
  BY <1>2
<1> HIDE DEF new
<1>5. CallInHand'
  <2>1. DoneRows' = {}
    BY <1>4 DEF DoneRows
  <2>2. IsBatch' => Len(c.rows) \in Nat
    BY <1>4, BatchIsSequence DEF IsBatch, Asked
  <2> QED BY <1>2, <1>4, <2>1, <2>2 DEF CallInHand, RowsAccepted, RowsStored, KeyOf, ValueOf
<1> QED BY <1>1, <1>2, <1>3, <1>4, <1>5 DEF DbInv, Calls!tableVars

\* One more row is stored; nobody but the connection sees it.
LEMMA StoreRowStep ==
    ASSUME DbInv, StoreRow
    PROVE  DbInv' /\ UNCHANGED Calls!tableVars
<1> DEFINE rows == owner.call.rows
           n == owner.done
<1>1. /\ owner # Nobody /\ IsBatch /\ n < Len(rows) /\ ~Refused
      /\ owner' = [owner EXCEPT !.done = @ + 1]
      /\ UNCHANGED <<stored, replied>>
  BY DEF StoreRow, Left, Asked
<1>2. /\ owner \in Calling /\ owner.call \in Call /\ n \in Nat /\ owner.found \in Table
      /\ RowsAccepted /\ RowsStored
  BY <1>1, OwnerType DEF DbInv, CallInHand
<1>3. /\ owner' \in Calling /\ owner' # Nobody
      /\ owner'.call = owner.call /\ owner'.found = owner.found /\ owner'.done = n + 1
  BY <1>1, <1>2 DEF Calling, Nobody
<1>4. /\ Len(rows) \in Nat
      /\ \A i \in 1..Len(rows) : rows[i] \in Row
  BY <1>1, <1>2, BatchIsSequence DEF IsBatch, Asked
<1>5. n + 1 \in 1..Len(rows) /\ rows[n + 1] \in Row /\ BatchRow = rows[n + 1]
  BY <1>1, <1>2, <1>4 DEF BatchRow, Asked
<1>6. /\ rows[n + 1].key \in Key
      /\ rows[n + 1].value \in Value /\ rows[n + 1].value # Bad /\ rows[n + 1].value # Absent
  BY <1>1, <1>5, LocalDbAssumption DEF Refused, Row
<1>7. view' = [view EXCEPT ![rows[n + 1].key] =
                 IF owner.call.op = "ignore" /\ @ # Absent THEN @ ELSE rows[n + 1].value]
  BY <1>5 DEF StoreRow, Asked
<1>8. view' \in Table
  BY <1>6, <1>7 DEF DbInv, DbType, Table
<1>9. DbType'
  BY <1>1, <1>3, <1>8 DEF DbInv, DbType
<1>10. IsBatch'
  BY <1>1, <1>3 DEF IsBatch, Asked
<1>11. /\ DoneRows' = 1..(n + 1) /\ DoneRows = 1..n
       /\ \A i \in 1..(n + 1) : i \in 1..n \/ i = n + 1
       /\ \A i \in 1..(n + 1) : KeyOf(i)' = rows[i].key /\ ValueOf(i)' = rows[i].value
       /\ \A i \in 1..n : KeyOf(i) = rows[i].key /\ ValueOf(i) = rows[i].value
       /\ \A i \in 1..n : i \in 1..(n + 1) /\ i <= n + 1 /\ i # n + 1
       /\ n + 1 \in 1..(n + 1)
  BY <1>2, <1>3 DEF DoneRows, KeyOf, ValueOf
<1>12. owner.call.op = "insert" => view[rows[n + 1].key] = Absent
  BY <1>1, <1>5 DEF Refused, Asked
<1>13. \A i \in 1..n : ValueOf(i) # Absent
  <2> TAKE i \in 1..n
  <2>1. i \in 1..Len(rows)
    BY <1>1, <1>2, <1>4
  <2>2. rows[i] \in Row
    BY <1>4, <2>1
  <2> QED BY <1>11, <2>2, LocalDbAssumption DEF Row
<1> HIDE DEF rows, n
<1>14. RowsAccepted'
  <2>1. n + 1 <= Len(rows)
    BY <1>5, <1>4, <1>2
  <2>2. \A i \in 1..(n + 1) : rows[i].value # Bad
    BY <1>2, <1>6, <1>11 DEF RowsAccepted
  <2>3. ASSUME owner.call.op = "insert"
        PROVE  \A i \in 1..(n + 1) :
                 /\ owner.found[rows[i].key] = Absent
                 /\ \A j \in 1..(n + 1) : rows[j].key = rows[i].key => j = i
    <3>1. \A i \in 1..n : rows[i].key # rows[n + 1].key
      <4> SUFFICES ASSUME NEW i \in 1..n, rows[i].key = rows[n + 1].key PROVE FALSE
        OBVIOUS
      <4>1. view[rows[n + 1].key] = Absent
        BY <1>12, <2>3
      <4>2. PICK j \in 1..n : view[rows[n + 1].key] = ValueOf(j)
        BY <1>2, <1>6, <1>11, <2>3 DEF RowsStored
      <4> QED BY <1>13, <4>1, <4>2
    <3>2. owner.found[rows[n + 1].key] = Absent
      BY <1>2, <1>6, <1>11, <1>12, <2>3, <3>1 DEF RowsStored
    <3>3. \A i \in 1..n : /\ owner.found[rows[i].key] = Absent
                          /\ \A j \in 1..n : rows[j].key = rows[i].key => j = i
      BY <1>2, <1>11, <2>3 DEF RowsAccepted
    <3> QED BY <1>11, <3>1, <3>2, <3>3
  <2> QED BY <1>3, <1>11, <2>1, <2>2, <2>3 DEF RowsAccepted, rows
<1>15. RowsStored'
  <2>0. /\ owner'.found = owner.found /\ owner'.call.op = owner.call.op
        /\ DoneRows' = 1..(n + 1)
        /\ \A i \in 1..(n + 1) : KeyOf(i)' = rows[i].key /\ ValueOf(i)' = rows[i].value
    BY <1>3, <1>11
  <2> SUFFICES ASSUME NEW k \in Key
      PROVE  \/ view'[k] = owner.found[k] /\ \A i \in 1..(n + 1) : rows[i].key # k
             \/ /\ owner.call.op # "ignore"
                /\ \E i \in 1..(n + 1) : /\ rows[i].key = k /\ view'[k] = rows[i].value
                                         /\ \A j \in 1..(n + 1) : rows[j].key = k => j <= i
             \/ /\ owner.call.op = "ignore"
                /\ \E i \in 1..(n + 1) :
                     /\ rows[i].key = k
                     /\ view'[k] = IF owner.found[k] = Absent THEN rows[i].value ELSE owner.found[k]
                     /\ \A j \in 1..(n + 1) : rows[j].key = k => i <= j
    BY <2>0, SMTT(30) DEF RowsStored
  <2>1. \/ view[k] = owner.found[k] /\ \A i \in 1..n : rows[i].key # k
        \/ /\ owner.call.op # "ignore"
           /\ \E i \in 1..n : /\ rows[i].key = k /\ view[k] = rows[i].value
                              /\ \A j \in 1..n : rows[j].key = k => j <= i
        \/ /\ owner.call.op = "ignore"
           /\ \E i \in 1..n :
                /\ rows[i].key = k
                /\ view[k] = IF owner.found[k] = Absent THEN rows[i].value ELSE owner.found[k]
                /\ \A j \in 1..n : rows[j].key = k => i <= j
    <3>1. \/ view[k] = owner.found[k] /\ \A i \in 1..n : KeyOf(i) # k
          \/ /\ owner.call.op # "ignore"
             /\ \E i \in 1..n : /\ KeyOf(i) = k /\ view[k] = ValueOf(i)
                                /\ \A j \in 1..n : KeyOf(j) = k => j <= i
          \/ /\ owner.call.op = "ignore"
             /\ \E i \in 1..n :
                  /\ KeyOf(i) = k
                  /\ view[k] = IF owner.found[k] = Absent THEN ValueOf(i) ELSE owner.found[k]
                  /\ \A j \in 1..n : KeyOf(j) = k => i <= j
      BY <1>2, <1>11 DEF RowsStored
    <3> QED BY <1>11, <3>1
  <2>2. CASE k # rows[n + 1].key
    <3>1. view'[k] = view[k]
      BY <1>7, <1>8, <2>2 DEF Table, DbInv, DbType
    <3> QED BY <1>11, <2>1, <2>2, <3>1
  <2>3. CASE k = rows[n + 1].key /\ owner.call.op # "ignore"
    <3>1. view'[k] = rows[n + 1].value
      BY <1>7, <2>3 DEF Table, DbInv, DbType
    <3> QED BY <1>11, <2>3, <3>1
  <2>4. CASE k = rows[n + 1].key /\ owner.call.op = "ignore"
    <3>1. view'[k] = IF view[k] # Absent THEN view[k] ELSE rows[n + 1].value
      BY <1>7, <2>4 DEF Table, DbInv, DbType
    <3>2. CASE view[k] = owner.found[k] /\ \A i \in 1..n : rows[i].key # k
      BY <1>11, <2>4, <3>1, <3>2
    <3>3. CASE \E i \in 1..n :
                 /\ rows[i].key = k
                 /\ view[k] = IF owner.found[k] = Absent THEN rows[i].value ELSE owner.found[k]
                 /\ \A j \in 1..n : rows[j].key = k => i <= j
      <4>1. PICK i \in 1..n :
                 /\ rows[i].key = k
                 /\ view[k] = IF owner.found[k] = Absent THEN rows[i].value ELSE owner.found[k]
                 /\ \A j \in 1..n : rows[j].key = k => i <= j
        BY <3>3
      <4>2. view[k] # Absent
        BY <1>11, <1>13, <4>1
      <4> QED BY <1>11, <2>4, <3>1, <4>1, <4>2
    <3> QED BY <2>1, <2>4, <3>2, <3>3
  <2> QED BY <2>2, <2>3, <2>4
<1>16. CallInHand'
  BY <1>10, <1>14, <1>15 DEF CallInHand
<1> QED BY <1>1, <1>3, <1>9, <1>16 DEF DbInv, Calls!tableVars

\* What the end of a call answers, and to whom.
LEMMA EndsAnswers ==
    ASSUME DbType, owner # Nobody, NEW word, Ends(word)
    PROVE  /\ owner' = Nobody
           /\ DOMAIN replied' = Thread /\ replied' = [t \in Thread |-> replied'[t]]
           /\ \E t \in Thread : Calls!Answers(t, word)
<1>1. PICK t \in Thread : owner.thread = {t}
  BY OwnerType
<1>2. replied' = [r \in Thread |-> IF r = t THEN word ELSE replied[r]]
  BY <1>1 DEF Ends
<1>3. replied' = [replied EXCEPT ![t] = word]
  BY <1>2 DEF DbType
<1> QED BY <1>2, <1>3 DEF Ends, Calls!Answers

\* When all its rows are stored, a batch has the effect it promises.
LEMMA BatchEffect ==
    ASSUME DbInv, owner # Nobody, IsBatch, ~Left
    PROVE  /\ Calls!Accepted(owner.call)
           /\ view = Calls!Effect(owner.call)
<1> DEFINE c == owner.call
           rows == c.rows
<1>1. /\ c \in Call /\ owner.done \in Nat /\ owner.found \in Table
      /\ RowsAccepted /\ RowsStored
  BY OwnerType DEF DbInv, CallInHand
<1>2. c.op \in {"insert", "upsert", "ignore"}
  BY DEF IsBatch, Asked
<1>3. Len(rows) \in Nat /\ DOMAIN rows = 1..Len(rows)
  BY <1>1, <1>2, BatchIsSequence
<1>4. owner.done = Len(rows)
  BY <1>1, <1>3 DEF RowsAccepted, Left, Asked
<1>5. DoneRows = DOMAIN rows
  BY <1>3, <1>4 DEF DoneRows
<1>6. \A i \in DOMAIN rows : KeyOf(i) = rows[i].key /\ ValueOf(i) = rows[i].value
  BY DEF KeyOf, ValueOf
<1>7. \A i, j \in DOMAIN rows : i <= j /\ j <= i => i = j
  BY <1>3
<1> DEFINE at(k) == {i \in DOMAIN rows : rows[i].key = k}
<1>8. \A k \in Key : Calls!Positions(c, k) = at(k)
  BY DEF Calls!Positions
<1>9. Calls!Accepted(c)
  <2>1. \A i \in DOMAIN rows : rows[i].value # Bad
    BY <1>1, <1>5, <1>6 DEF RowsAccepted
  <2>2. ASSUME c.op = "insert", NEW i \in DOMAIN rows
        PROVE  owner.found[rows[i].key] = Absent
               /\ Calls!Positions(c, rows[i].key) = {i}
    BY <1>1, <1>5, <1>6, <2>2 DEF RowsAccepted, Calls!Positions
  <2> QED BY <2>1, <2>2 DEF Calls!Accepted
<1>10. ASSUME NEW k \in Key
       PROVE  view[k] = Calls!ValueAfter(c, k)
  <2>1. CASE view[k] = owner.found[k] /\ \A i \in DOMAIN rows : rows[i].key # k
    <3>1. at(k) = {}
      BY <2>1
    <3> QED BY <1>2, <1>8, <2>1, <3>1 DEF Calls!ValueAfter
  <2>2. CASE /\ c.op # "ignore"
             /\ \E i \in DOMAIN rows :
                  /\ rows[i].key = k /\ view[k] = rows[i].value
                  /\ \A j \in DOMAIN rows : rows[j].key = k => j <= i
    <3>1. PICK i \in DOMAIN rows :
            /\ rows[i].key = k /\ view[k] = rows[i].value
            /\ \A j \in DOMAIN rows : rows[j].key = k => j <= i
      BY <2>2
    <3>2. i \in at(k) /\ \A j \in at(k) : j <= i
      BY <3>1
    <3>3. (CHOOSE l \in at(k) : \A j \in at(k) : j <= l) = i
      BY <1>7, <3>2
    <3>4. Calls!LastRow(c, k) = rows[i]
      BY <1>8, <3>3 DEF Calls!LastRow
    <3>5. Calls!Positions(c, k) # {} /\ c.op \in {"insert", "upsert"}
      BY <1>2, <1>8, <2>2, <3>2
    <3> QED BY <3>1, <3>4, <3>5 DEF Calls!ValueAfter
  <2>3. CASE /\ c.op = "ignore"
             /\ \E i \in DOMAIN rows :
                  /\ rows[i].key = k
                  /\ view[k] = IF owner.found[k] = Absent THEN rows[i].value ELSE owner.found[k]
                  /\ \A j \in DOMAIN rows : rows[j].key = k => i <= j
    <3>1. PICK i \in DOMAIN rows :
            /\ rows[i].key = k
            /\ view[k] = IF owner.found[k] = Absent THEN rows[i].value ELSE owner.found[k]
            /\ \A j \in DOMAIN rows : rows[j].key = k => i <= j
      BY <2>3
    <3>2. i \in at(k) /\ \A j \in at(k) : i <= j
      BY <3>1
    <3>3. (CHOOSE f \in at(k) : \A j \in at(k) : f <= j) = i
      BY <1>7, <3>2
    <3>4. Calls!FirstRow(c, k) = rows[i]
      BY <1>8, <3>3 DEF Calls!FirstRow
    <3>5. Calls!Positions(c, k) # {}
      BY <1>8, <3>2
    <3>6. CASE owner.found[k] = Absent
      BY <2>3, <3>1, <3>4, <3>5, <3>6 DEF Calls!ValueAfter
    <3>7. CASE owner.found[k] # Absent
      BY <2>3, <3>1, <3>7 DEF Calls!ValueAfter
    <3> QED BY <3>6, <3>7
  <2> QED BY <1>1, <1>5, <1>6, <2>1, <2>2, <2>3 DEF RowsStored
<1>11. view = Calls!Effect(c)
  BY <1>10 DEF Calls!Effect, DbInv, DbType, Table
<1> QED BY <1>9, <1>11

\* Any other call has its effect at its end.
LEMMA ChangedEffect ==
    ASSUME DbInv, owner # Nobody, ~IsBatch
    PROVE  /\ Calls!Accepted(owner.call)
           /\ Changed = Calls!Effect(owner.call)
<1>1. owner.call \in Call /\ view = owner.found /\ view \in Table
  BY OwnerType DEF DbInv, DbType, CallInHand
<1>2. owner.call.op \in {"update", "delete", "clean", "select"}
  BY <1>1 DEF Call, IsBatch, Asked
<1>3. Calls!Accepted(owner.call)
  BY <1>2 DEF Calls!Accepted, Calls!Batch
<1>4. CASE owner.call.op = "update"
  BY <1>1, <1>3, <1>4 DEF Changed, Asked, Calls!Effect, Calls!ValueAfter
<1>5. CASE owner.call.op \in {"delete", "clean"}
  BY <1>1, <1>3, <1>5 DEF Changed, Asked, Calls!Effect, Calls!ValueAfter
<1>6. CASE owner.call.op = "select"
  <2>1. Changed = view
    BY <1>6 DEF Changed, Asked
  <2>2. \A k \in Key : Calls!ValueAfter(owner.call, k) = view[k]
    BY <1>1, <1>6 DEF Calls!ValueAfter
  <2> QED BY <1>1, <1>3, <2>1, <2>2 DEF Calls!Effect, Table
<1> QED BY <1>2, <1>3, <1>4, <1>5, <1>6

LEMMA ChangedType ==
    ASSUME DbInv, owner # Nobody
    PROVE  Changed \in Table
<1>1. view \in Table /\ owner.call \in Call
  BY OwnerType DEF DbInv, DbType
<1>2. owner.call.op = "update" => owner.call.to \in Value
  BY <1>1 DEF Call
<1> QED BY <1>1, <1>2 DEF Changed, Asked, Table

\* Between two calls there is nothing in hand.
LEMMA NothingInHand ==
    ASSUME owner' = Nobody, view' \in Table, stored' \in Table,
           DOMAIN replied' = Thread, replied' = [t \in Thread |-> replied'[t]]
    PROVE  DbInv'
BY DEF DbInv, DbType, CallInHand

LEMMA CommitStep ==
    ASSUME DbInv, Commit
    PROVE  DbInv' /\ Calls!TableNext
<1>1. owner # Nobody /\ owner.call.op # "select" /\ ~Left
      /\ view' = Changed /\ stored' = view' /\ Ends("ok")
  BY DEF Commit, Asked
<1>2. DbType /\ view' \in Table
  BY <1>1, ChangedType DEF DbInv
<1>3. /\ Calls!Accepted(owner.call)
      /\ view' = Calls!Effect(owner.call)
  <2>1. CASE IsBatch
    <3>1. Changed = view
      BY <2>1 DEF Changed, IsBatch, Asked
    <3> QED BY <1>1, <2>1, <3>1, BatchEffect
  <2>2. CASE ~IsBatch
    BY <1>1, <2>2, ChangedEffect
  <2> QED BY <2>1, <2>2
<1>4. PICK t \in Thread : Calls!Answers(t, "ok")
  BY <1>1, <1>2, EndsAnswers
<1>5. Calls!Succeeds(t, owner.call)
  BY <1>1, <1>3, <1>4 DEF Calls!Succeeds, Ends
<1>6. owner.call \in Call
  BY <1>1, <1>2, OwnerType
<1>7. Calls!TableNext
  BY <1>5, <1>6 DEF Calls!TableNext
<1>8. DbInv'
  BY <1>1, <1>2, EndsAnswers, NothingInHand
<1> QED BY <1>7, <1>8

LEMMA SelectStep ==
    ASSUME DbInv, Select
    PROVE  DbInv' /\ Calls!TableNext
<1>1. owner # Nobody /\ owner.call.op = "select" /\ Ends("ok") /\ UNCHANGED <<view, stored>>
  BY DEF Select, Asked
<1>2. DbType /\ ~IsBatch /\ view = owner.found
  BY <1>1 DEF DbInv, CallInHand, IsBatch, Asked
<1>3. /\ Calls!Accepted(owner.call)
      /\ view = Calls!Effect(owner.call)
  BY <1>1, <1>2, ChangedEffect DEF Changed, Asked
<1>4. PICK t \in Thread : Calls!Answers(t, "ok")
  BY <1>1, <1>2, EndsAnswers
<1>5. Calls!Succeeds(t, owner.call)
  BY <1>1, <1>3, <1>4 DEF Calls!Succeeds, Ends
<1>6. owner.call \in Call
  BY <1>1, <1>2, OwnerType
<1>7. Calls!TableNext
  BY <1>5, <1>6 DEF Calls!TableNext
<1>8. DbInv'
  BY <1>1, <1>2, EndsAnswers, NothingInHand DEF DbType
<1> QED BY <1>7, <1>8

\* Whatever is raised, the table is again what the last commit left.
LEMMA RaiseStep ==
    ASSUME DbInv, Raise
    PROVE  DbInv' /\ Calls!TableNext
<1>1. owner # Nobody /\ owner.call.op # "clean" /\ Ends("error")
      /\ view' = stored /\ stored' = stored
  BY DEF Raise, Asked, RolledBack
<1>2. DbType /\ view' \in Table
  BY <1>1 DEF DbInv, DbType
<1>3. PICK t \in Thread : Calls!Answers(t, "error")
  BY <1>1, <1>2, EndsAnswers
<1>4. Calls!Fails(t, owner.call)
  BY <1>1, <1>3 DEF Calls!Fails, Ends
<1>5. owner.call \in Call
  BY <1>1, <1>2, OwnerType
<1>6. Calls!TableNext
  BY <1>4, <1>5 DEF Calls!TableNext
<1>7. DbInv'
  BY <1>1, <1>2, EndsAnswers, NothingInHand DEF DbType
<1> QED BY <1>6, <1>7

\* The clean-up procedure may leave its DELETE in the open transaction.
LEMMA CleanFailsStep ==
    ASSUME DbInv, CleanFails
    PROVE  DbInv' /\ Calls!TableNext
<1>1. owner # Nobody /\ owner.call.op = "clean" /\ Ends("error")
      /\ view' \in {view, Changed} /\ stored' = stored
  BY DEF CleanFails, Asked
<1>2. DbType /\ view' \in Table /\ ~IsBatch
  BY <1>1, ChangedType DEF DbInv, DbType, IsBatch, Asked
<1>3. PICK t \in Thread : Calls!Answers(t, "error")
  BY <1>1, <1>2, EndsAnswers
<1>4. view = owner.found /\ Changed = Calls!Effect(owner.call)
  BY <1>1, <1>2, ChangedEffect DEF DbInv, CallInHand
<1>5. Calls!Fails(t, owner.call)
  BY <1>1, <1>3, <1>4 DEF Calls!Fails, Ends
<1>6. owner.call \in Call
  BY <1>1, <1>2, OwnerType
<1>7. Calls!TableNext
  BY <1>5, <1>6 DEF Calls!TableNext
<1>8. DbInv'
  BY <1>1, <1>2, EndsAnswers, NothingInHand DEF DbType
<1> QED BY <1>7, <1>8

LEMMA DbCrashStep ==
    ASSUME DbInv, DbCrash
    PROVE  DbInv' /\ Calls!TableNext
<1>1. owner' = Nobody /\ view' = stored /\ UNCHANGED <<stored, replied>>
  BY DEF DbCrash
<1>2. Calls!TableNext
  BY <1>1 DEF Calls!TableNext, Calls!Dies
<1>3. DbInv'
  BY <1>1 DEF DbInv, DbType, CallInHand
<1> QED BY <1>2, <1>3

LEMMA DbPreserved ==
    ASSUME DbInv, [LocalDbNext]_dbVars
    PROVE  DbInv' /\ [Calls!TableNext]_(Calls!tableVars)
<1>1. CASE UNCHANGED dbVars
  BY <1>1 DEF dbVars, DbInv, DbType, CallInHand, RowsAccepted, RowsStored, DoneRows, KeyOf,
              ValueOf, IsBatch, Asked, Calls!tableVars
<1> QED BY <1>1, BeginCallStep, StoreRowStep, SelectStep, CommitStep, RaiseStep, CleanFailsStep,
           DbCrashStep DEF LocalDbNext

\* Batches of any length, whatever they contain, any number of threads, any call
\* failing anywhere: every call is all or nothing, as its caller is told.
THEOREM EveryCallIsWhole == LocalDbSpec => CallsAreWhole
<1>1. LocalDbInit => DbInv /\ Calls!TableInit
  BY DbInitially
<1>2. DbInv /\ [LocalDbNext]_dbVars => DbInv' /\ [Calls!TableNext]_(Calls!tableVars)
  BY DbPreserved
<1> QED BY <1>1, <1>2, PTL DEF LocalDbSpec, CallsAreWhole, Calls!TableSpec
-----------------------------------------------------------------------------
(* Making stories *)

\* A maker's state, as far as these proofs look at it.
IsMaker(r) ==
    DOMAIN r = {"pc", "category", "tries", "results", "posts", "draft", "provider",
                 "before", "blind"}

\* What the sources of a story in the making have to do with those that were known
\* when its making began: all results of a search are new, and so is something of
\* what is about to be inserted, unless a lookup failed.
SourcesAreNew(r) ==
    /\ r.pc = "reply" => /\ r.results \subseteq OnTopic[r.category]
                         /\ r.blind \/ r.results \cap r.before = {}
    /\ r.pc = "insert" => /\ r.posts # {} => r.blind \/ ~(r.posts \subseteq r.before)
                          /\ r.provider = "groq" =>
                               \E p \in OnTopic[r.category] : r.posts = {p}

StorySourcesInv ==
    /\ DOMAIN maker = Maker /\ maker = [m \in Maker |-> maker[m]]
    /\ \A m \in Maker : /\ IsMaker(maker[m])
                        /\ SourcesAreNew(maker[m])
                        /\ maker[m].before \subseteq KnownUrls

LEMMA StorySourcesInitially == StoryInit => StorySourcesInv
BY DEF StoryInit, StorySourcesInv, Resting, IsMaker, SourcesAreNew

\* A step of maker m alone, which may make sources known.
LEMMA MakerTurns ==
    ASSUME StorySourcesInv, NEW m \in Maker, NEW r, Turns(m, r),
           IsMaker(r), SourcesAreNew(r), r.before \subseteq KnownUrls,
           known \subseteq known'
    PROVE  StorySourcesInv'
<1>1. KnownUrls \subseteq KnownUrls'
  BY DEF KnownUrls
<1>2. /\ DOMAIN maker' = Maker /\ maker' = [n \in Maker |-> maker'[n]]
      /\ \A n \in Maker : maker'[n] = IF n = m THEN r ELSE maker[n]
  BY DEF Turns, StorySourcesInv
<1> QED BY <1>1, <1>2 DEF StorySourcesInv

LEMMA RestingIsMaker ==
    /\ IsMaker(Resting) /\ SourcesAreNew(Resting) /\ Resting.before \subseteq KnownUrls
    /\ Resting.pc = "idle"
BY DEF Resting, IsMaker, SourcesAreNew


LEMMA BeginSources ==
    ASSUME StorySourcesInv, NEW m \in Maker, Begin(m)
    PROVE  StorySourcesInv'
<1>1. PICK c \in Category :
        /\ Turns(m, [GoesTo(m, "search") EXCEPT !.category = c, !.tries = Attempts,
                                                !.before = KnownUrls])
        /\ UNCHANGED known
  BY DEF Begin
<1> DEFINE seen == KnownUrls
           n == Attempts
           r == [GoesTo(m, "search") EXCEPT !.category = c, !.tries = n, !.before = seen]
<1>2. IsMaker(maker[m])
  BY DEF StorySourcesInv
<1> HIDE DEF seen, n
<1>3. IsMaker(r) /\ r.pc = "search" /\ r.before = seen
  BY <1>2 DEF IsMaker, GoesTo
<1>4. Turns(m, r)
  BY <1>1 DEF seen, n
<1> HIDE DEF r
<1>5. SourcesAreNew(r)
  BY <1>3 DEF SourcesAreNew
<1> QED BY <1>1, <1>3, <1>4, <1>5, MakerTurns DEF seen

\* The next query, or the end of Groq's part, has nothing in hand.
LEMMA NextQuerySources ==
    ASSUME StorySourcesInv, NEW m \in Maker
    PROVE  /\ IsMaker(NextQuery(m)) /\ NextQuery(m).pc \in {"search", "gemini", "idle"}
           /\ NextQuery(m).before = maker[m].before
<1> DEFINE none == {}
           to == IF GeminiKey THEN "gemini" ELSE "idle"
           left == maker[m].tries - 1
           zero == 0
<1>1. IsMaker(maker[m])
  BY DEF StorySourcesInv
<1>2. NextQuery(m) = IF maker[m].tries > 1
                     THEN [GoesTo(m, "search") EXCEPT !.tries = left, !.results = none]
                     ELSE [GoesTo(m, to) EXCEPT !.tries = zero, !.results = none]
  BY <1>1 DEF NextQuery, GoesTo, IsMaker
<1>3. to \in {"gemini", "idle"}
  OBVIOUS
<1> HIDE DEF none, to, left, zero
<1>4. /\ IsMaker([GoesTo(m, "search") EXCEPT !.tries = left, !.results = none])
      /\ [GoesTo(m, "search") EXCEPT !.tries = left, !.results = none].pc = "search"
      /\ [GoesTo(m, "search") EXCEPT !.tries = left, !.results = none].before = maker[m].before
  BY <1>1 DEF IsMaker, GoesTo
<1>5. /\ IsMaker([GoesTo(m, to) EXCEPT !.tries = zero, !.results = none])
      /\ [GoesTo(m, to) EXCEPT !.tries = zero, !.results = none].pc = to
      /\ [GoesTo(m, to) EXCEPT !.tries = zero, !.results = none].before = maker[m].before
  BY <1>1 DEF IsMaker, GoesTo
<1> QED BY <1>2, <1>3, <1>4, <1>5

LEMMA NothingInHandSources ==
    ASSUME StorySourcesInv, NEW m \in Maker, UNCHANGED known,
           Turns(m, Resting) \/ Turns(m, NextQuery(m))
    PROVE  StorySourcesInv'
<1>1. SourcesAreNew(NextQuery(m)) /\ NextQuery(m).before \subseteq KnownUrls
  BY NextQuerySources DEF SourcesAreNew, StorySourcesInv
<1> QED BY <1>1, NextQuerySources, RestingIsMaker, MakerTurns

LEMMA GroqRaisesSources ==
    ASSUME StorySourcesInv, NEW m \in Maker, GroqRaises(m)
    PROVE  StorySourcesInv'
<1>1. CASE Turns(m, Resting)
  BY <1>1, NothingInHandSources DEF GroqRaises
<1>2. CASE Turns(m, [GoesTo(m, "gemini") EXCEPT !.tries = 0, !.results = {}])
  <2> DEFINE none == {}
             zero == 0
             r == [GoesTo(m, "gemini") EXCEPT !.tries = zero, !.results = none]
  <2>1. IsMaker(maker[m]) /\ maker[m].before \subseteq KnownUrls
    BY DEF StorySourcesInv
  <2>2. Turns(m, r)
    BY <1>2
  <2> HIDE DEF none, zero
  <2>3. IsMaker(r) /\ r.pc = "gemini" /\ r.before = maker[m].before
    BY <2>1 DEF IsMaker, GoesTo
  <2> HIDE DEF r
  <2>4. SourcesAreNew(r)
    BY <2>3 DEF SourcesAreNew
  <2> QED BY <2>1, <2>2, <2>3, <2>4, MakerTurns DEF GroqRaises
<1> QED BY <1>1, <1>2 DEF GroqRaises

\* What the searches leave is on topic.
LEMMA SearchedOnTopic ==
    ASSUME NEW c, NEW posts \in Searched(c), NEW seen
    PROVE  Candidates(posts, seen) \subseteq OnTopic[c] \ seen
<1>1. posts \subseteq OnTopic[c]
  BY DEF Searched, OnTopicResults
<1> QED BY <1>1 DEF Candidates, Richer

LEMMA GroqSearchSources ==
    ASSUME StorySourcesInv, NEW m \in Maker, GroqSearch(m)
    PROVE  StorySourcesInv'
<1>1. PICK posts \in Searched(maker[m].category), seen \in {KnownUrls, {}} :
         LET results == Candidates(posts, seen)
             next == IF results = {} THEN NextQuery(m)
                     ELSE [GoesTo(m, "reply") EXCEPT !.results = results] IN
         \/ seen = KnownUrls /\ Turns(m, next)
         \/ seen # KnownUrls /\ Turns(m, [next EXCEPT !.blind = TRUE])
  BY DEF GroqSearch
<1> DEFINE results == Candidates(posts, seen)
           next == IF results = {} THEN NextQuery(m)
                   ELSE [GoesTo(m, "reply") EXCEPT !.results = results]
<1>2. IsMaker(maker[m]) /\ maker[m].before \subseteq KnownUrls /\ UNCHANGED known
  BY DEF StorySourcesInv, GroqSearch
<1>3. results \subseteq OnTopic[maker[m].category] \ seen
  BY SearchedOnTopic
<1> HIDE DEF results
<1>4. /\ IsMaker(next) /\ next.before = maker[m].before
      /\ next.pc \in {"search", "gemini", "idle", "reply"}
      /\ next.pc = "reply" => next.results = results /\ next.category = maker[m].category
  <2>1. CASE results = {}
    BY <2>1, NextQuerySources
  <2>2. CASE results # {}
    BY <1>2, <2>2 DEF IsMaker, GoesTo
  <2> QED BY <2>1, <2>2
<1>5. \/ seen = KnownUrls /\ Turns(m, next)
      \/ seen # KnownUrls /\ Turns(m, [next EXCEPT !.blind = TRUE])
  BY <1>1 DEF results
<1> HIDE DEF next
<1>6. CASE seen = KnownUrls /\ Turns(m, next)
  <2>1. results \cap maker[m].before = {}
    BY <1>2, <1>3, <1>6
  <2>2. SourcesAreNew(next)
    BY <1>3, <1>4, <2>1 DEF SourcesAreNew
  <2> QED BY <1>2, <1>4, <1>6, <2>2, MakerTurns
<1>7. CASE Turns(m, [next EXCEPT !.blind = TRUE])
  <2> DEFINE yes == TRUE
             r == [next EXCEPT !.blind = yes]
  <2>1. Turns(m, r) /\ yes
    BY <1>7
  <2> HIDE DEF yes
  <2>2. /\ IsMaker(r) /\ r.before = next.before /\ r.pc = next.pc /\ r.blind = yes
        /\ r.results = next.results /\ r.category = next.category
    BY <1>4 DEF IsMaker
  <2> HIDE DEF r
  <2>3. r.pc = "reply" => r.results \subseteq OnTopic[r.category]
    BY <1>3, <1>4, <2>2
  <2>4. SourcesAreNew(r)
    BY <1>4, <2>1, <2>2, <2>3 DEF SourcesAreNew
  <2> QED BY <1>2, <1>4, <2>1, <2>2, <2>4, MakerTurns
<1> QED BY <1>5, <1>6, <1>7

LEMMA GroqReplySources ==
    ASSUME StorySourcesInv, NEW m \in Maker, GroqReply(m)
    PROVE  StorySourcesInv'
<1>1. CASE Turns(m, NextQuery(m))
  BY <1>1, NothingInHandSources DEF GroqReply
<1>2. ASSUME NEW p \in maker[m].results,
             Turns(m, [GoesTo(m, "insert") EXCEPT !.posts = {p}, !.provider = "groq",
                                                 !.results = {}, !.tries = 0])
      PROVE  StorySourcesInv'
  <2> DEFINE one == {p}
             none == {}
             zero == 0
             r == [GoesTo(m, "insert") EXCEPT !.posts = one, !.provider = "groq",
                                              !.results = none, !.tries = zero]
  <2>1. /\ IsMaker(maker[m]) /\ maker[m].before \subseteq KnownUrls
        /\ SourcesAreNew(maker[m]) /\ maker[m].pc = "reply" /\ UNCHANGED known
    BY DEF StorySourcesInv, GroqReply
  <2>2. Turns(m, r)
    BY <1>2
  <2>3. /\ p \in OnTopic[maker[m].category]
        /\ maker[m].blind \/ ~(one \subseteq maker[m].before)
    BY <1>2, <2>1 DEF SourcesAreNew
  <2> HIDE DEF none, zero, one
  <2>4. /\ IsMaker(r) /\ r.pc = "insert" /\ r.before = maker[m].before
        /\ r.posts = one /\ r.category = maker[m].category
    BY <2>1 DEF IsMaker, GoesTo
  <2>5. r.blind = maker[m].blind
    BY <2>1 DEF IsMaker, GoesTo
  <2> HIDE DEF r
  <2>6. SourcesAreNew(r)
    BY <2>3, <2>4, <2>5 DEF SourcesAreNew, one
  <2> QED BY <2>1, <2>2, <2>4, <2>6, MakerTurns
<1> QED BY <1>1, <1>2 DEF GroqReply

LEMMA GeminiReplySources ==
    ASSUME StorySourcesInv, NEW m \in Maker, GeminiReply(m)
    PROVE  StorySourcesInv'
<1>1. PICK posts \in SUBSET Post, seen \in {KnownUrls, {}} :
         Turns(m, IF SomethingNew(posts, seen)
                  THEN [GoesTo(m, "insert") EXCEPT !.posts = posts, !.provider = "gemini",
                                                  !.blind = @ \/ seen # KnownUrls]
                  ELSE Resting)
  BY DEF GeminiReply
<1>2. IsMaker(maker[m]) /\ maker[m].before \subseteq KnownUrls /\ UNCHANGED known
  BY DEF StorySourcesInv, GeminiReply
<1>3. CASE ~SomethingNew(posts, seen)
  BY <1>1, <1>2, <1>3, NothingInHandSources
<1>4. CASE SomethingNew(posts, seen)
  <2> DEFINE missed == maker[m].blind \/ seen # KnownUrls
             r == [GoesTo(m, "insert") EXCEPT !.posts = posts, !.provider = "gemini",
                                              !.blind = missed]
  <2>1. Turns(m, r)
    BY <1>1, <1>2, <1>4 DEF GoesTo, IsMaker
  <2>2. posts # {} => missed \/ ~(posts \subseteq maker[m].before)
    BY <1>2, <1>4 DEF SomethingNew
  <2> HIDE DEF missed
  <2>3. /\ IsMaker(r) /\ r.pc = "insert" /\ r.before = maker[m].before
        /\ r.posts = posts /\ r.provider = "gemini"
    BY <1>2 DEF IsMaker, GoesTo
  <2>4. r.blind = missed
    BY <1>2 DEF IsMaker, GoesTo
  <2> HIDE DEF r
  <2>5. SourcesAreNew(r)
    BY <2>2, <2>3, <2>4 DEF SourcesAreNew
  <2> QED BY <1>2, <2>1, <2>3, <2>5, MakerTurns
<1> QED BY <1>3, <1>4

LEMMA WritingSources ==
    ASSUME StorySourcesInv, NEW m \in Maker,
           GeminiRaises(m) \/ Insert(m) \/ Register(m) \/ WriteFailed(m)
    PROVE  StorySourcesInv'
<1>1. CASE Turns(m, Resting) /\ known \subseteq known'
  BY <1>1, RestingIsMaker, MakerTurns
<1>2. ASSUME NEW d \in Draft,
             Turns(m, [Resting EXCEPT !.pc = "register", !.draft = {d}, !.posts = maker[m].posts]),
             UNCHANGED known
      PROVE  StorySourcesInv'
  <2> DEFINE one == {d}
             posts == maker[m].posts
             r == [Resting EXCEPT !.pc = "register", !.draft = one, !.posts = posts]
  <2>1. Turns(m, r)
    BY <1>2
  <2> HIDE DEF one, posts
  <2>2. IsMaker(r) /\ r.pc = "register" /\ r.before = Resting.before
    BY RestingIsMaker DEF IsMaker
  <2> HIDE DEF r
  <2>3. SourcesAreNew(r)
    BY <2>2 DEF SourcesAreNew
  <2> QED BY <1>2, <2>1, <2>2, <2>3, RestingIsMaker, MakerTurns
<1> QED BY <1>1, <1>2 DEF GeminiRaises, Insert, Register, WriteFailed

\* The clean-up forgets sources, for everybody who is making a story too.
LEMMA CleanUpSources ==
    ASSUME StorySourcesInv, NEW d \in Draft, CleanUp(d)
    PROVE  StorySourcesInv'
<1> DEFINE left == {k \in known : k[2] # d}
           forgotten == KnownUrls \ {k[1] : k \in left}
<1>1. /\ known' = left
      /\ maker' = [m \in Maker |-> [maker[m] EXCEPT !.before = @ \ forgotten]]
  BY DEF CleanUp
<1>2. KnownUrls' = {k[1] : k \in left}
  BY <1>1 DEF KnownUrls
<1> HIDE DEF forgotten
<1>3. ASSUME NEW m \in Maker
      PROVE  /\ IsMaker(maker'[m]) /\ SourcesAreNew(maker'[m])
             /\ maker'[m].before \subseteq KnownUrls'
  <2> DEFINE seen == maker[m].before \ forgotten
             r == [maker[m] EXCEPT !.before = seen]
  <2>1. maker'[m] = r /\ IsMaker(maker[m]) /\ SourcesAreNew(maker[m])
        /\ maker[m].before \subseteq KnownUrls
    BY <1>1 DEF StorySourcesInv
  <2>2. seen \subseteq maker[m].before /\ seen \subseteq KnownUrls'
    BY <1>2, <2>1 DEF forgotten
  <2> HIDE DEF seen
  <2>3. /\ IsMaker(r) /\ r.before = seen /\ r.pc = maker[m].pc
        /\ r.results = maker[m].results /\ r.category = maker[m].category
        /\ r.posts = maker[m].posts /\ r.provider = maker[m].provider
    BY <2>1 DEF IsMaker
  <2>4. r.blind = maker[m].blind
    BY <2>1 DEF IsMaker
  <2> HIDE DEF r
  <2>5. SourcesAreNew(r)
    BY <2>1, <2>2, <2>3, <2>4 DEF SourcesAreNew
  <2> QED BY <2>1, <2>2, <2>3, <2>5
<1> QED BY <1>1, <1>3 DEF StorySourcesInv

LEMMA StorySourcesPreserved == StorySourcesInv /\ [StoryNext]_storyVars => StorySourcesInv'
<1> SUFFICES ASSUME StorySourcesInv, [StoryNext]_storyVars PROVE StorySourcesInv'
  OBVIOUS
<1>1. CASE UNCHANGED <<known, maker>> \/ \E d \in Draft : PromoterRegisters(d)
  BY <1>1 DEF PromoterRegisters, StorySourcesInv, KnownUrls
<1>2. CASE MakersCrash
  BY <1>2, RestingIsMaker DEF MakersCrash, StorySourcesInv, KnownUrls, Resting
<1> QED BY <1>1, <1>2, BeginSources, GroqSearchSources, GroqReplySources, GroqRaisesSources,
        GeminiReplySources, WritingSources, CleanUpSources
        DEF StoryNext, MakerStep, Archiving, PromoterInserts, storyVars

\* Any posts, any number of requests beside the hunter, any answers: no story is
\* made only of sources that were known when its making began, and Groq's have one
\* source, on the topic (dedup.py:1-6, llm.py:900-903).
THEOREM StoriesSound == StorySpec => []StoriesAreSound
<1>1. StorySourcesInv => StoriesAreSound
  BY DEF StorySourcesInv, SourcesAreNew, StoriesAreSound, NothingTwice, StoryIsOnTopic, Writing
<1> QED BY StorySourcesInitially, StorySourcesPreserved, <1>1, PTL DEF StorySpec

\* Makers that have counted the pending stories and have not inserted theirs.
OnTheWay == {m \in Maker : maker[m].pc \in {"search", "reply", "gemini", "insert"}}

\* Each of them was let in by a count below the cap, or by a count that failed; so
\* it is they and the stories made together that are bounded.
PendingInv ==
    /\ StorySourcesInv
    /\ faults \in Nat /\ DOMAIN story = Draft
    /\ Cardinality(Made) + Cardinality(OnTheWay) < MaxCap + Cardinality(Maker) + faults

LEMMA MakersFinite ==
    /\ IsFiniteSet(Maker) /\ Cardinality(Maker) \in Nat
    /\ IsFiniteSet(OnTheWay) /\ Cardinality(OnTheWay) \in Nat
    /\ Cardinality(OnTheWay) <= Cardinality(Maker)
    /\ IsFiniteSet(Made) /\ Cardinality(Made) \in Nat
    /\ MaxCap \in Nat \ {0}
<1>1. IsFiniteSet(Maker)
  <2>1. Maker = Request \cup {Hunter}
    BY DEF Maker
  <2> QED BY <2>1, StoryAssumption, FS_AddElement
<1>2. OnTheWay \subseteq Maker /\ Made \subseteq Draft
  BY DEF OnTheWay, Made, Pending
<1>3. MaxCap \in Nat \ {0}
  BY StoryAssumption DEF MaxCap
<1> QED BY <1>1, <1>2, <1>3, StoryAssumption, FS_Subset, FS_CardinalityType

\* Neither set grows.
LEMMA PendingShrinks ==
    ASSUME PendingInv, StorySourcesInv', faults' \in {faults, faults + 1},
           DOMAIN story' = Draft, Made' \subseteq Made, OnTheWay' \subseteq OnTheWay
    PROVE  PendingInv'
<1>1. /\ Cardinality(Made') <= Cardinality(Made) /\ Cardinality(Made') \in Nat
      /\ Cardinality(OnTheWay') <= Cardinality(OnTheWay) /\ Cardinality(OnTheWay') \in Nat
  BY MakersFinite, FS_Subset, FS_CardinalityType
<1>2. MaxCap' = MaxCap /\ Maker' = Maker
  BY DEF MaxCap, Maker
<1>3. /\ Cardinality(Made) \in Nat /\ Cardinality(OnTheWay) \in Nat
      /\ Cardinality(Maker) \in Nat /\ MaxCap \in Nat
  BY MakersFinite
<1> QED BY <1>1, <1>2, <1>3 DEF PendingInv

LEMMA BeginPending ==
    ASSUME PendingInv, StorySourcesInv', NEW m \in Maker, Begin(m)
    PROVE  PendingInv'
<1>1. Made' = Made /\ faults \in Nat /\ DOMAIN story' = Draft
  BY DEF Begin, Made, Pending, PendingInv
<1>2. OnTheWay' \subseteq OnTheWay \cup {m}
  BY DEF OnTheWay, Begin, Turns, PendingInv, StorySourcesInv
<1>3. /\ Cardinality(Made) \in Nat /\ Cardinality(OnTheWay) \in Nat
      /\ Cardinality(Maker) \in Nat /\ MaxCap \in Nat /\ IsFiniteSet(OnTheWay)
  BY MakersFinite
<1>4. /\ OnTheWay' \subseteq Maker
      /\ Cardinality(OnTheWay') <= Cardinality(Maker) /\ Cardinality(OnTheWay') \in Nat
  <2>1. OnTheWay' \subseteq Maker
    BY DEF OnTheWay
  <2> QED BY <2>1, MakersFinite, FS_Subset, FS_CardinalityType
<1>5. Cardinality(OnTheWay') <= Cardinality(OnTheWay) + 1
  <2>1. /\ IsFiniteSet(OnTheWay \cup {m})
        /\ Cardinality(OnTheWay \cup {m}) \in {Cardinality(OnTheWay), Cardinality(OnTheWay) + 1}
    BY <1>3, FS_AddElement
  <2>2. Cardinality(OnTheWay') <= Cardinality(OnTheWay \cup {m})
    BY <1>2, <2>1, FS_Subset
  <2> QED BY <1>3, <1>4, <2>1, <2>2
<1>6. CASE Cardinality(Pending) < Cap(m) /\ UNCHANGED faults
  <2>1. Cap(m) <= MaxCap /\ Cap(m) \in Nat
    BY StoryAssumption DEF Cap, MaxCap
  <2>3. Cardinality(Made) <= Cardinality(Pending) /\ Cardinality(Pending) \in Nat
    <3>1. Made \subseteq Pending /\ Pending \subseteq Draft
      BY DEF Made, Pending
    <3> QED BY <3>1, StoryAssumption, FS_Subset, FS_CardinalityType
  <2>2. Cardinality(Made) + Cardinality(OnTheWay') < MaxCap + Cardinality(Maker) + faults
    BY <1>1, <1>3, <1>4, <1>6, <2>1, <2>3
  <2> QED BY <1>1, <1>6, <2>2 DEF PendingInv, MaxCap
<1>7. CASE Fault
  <2>1. Cardinality(Made) + Cardinality(OnTheWay') < MaxCap + Cardinality(Maker) + (faults + 1)
    BY <1>1, <1>3, <1>4, <1>5 DEF PendingInv
  <2> QED BY <1>1, <1>7, <2>1 DEF PendingInv, Fault, MaxCap
<1> QED BY <1>6, <1>7 DEF Begin

LEMMA InsertPending ==
    ASSUME PendingInv, StorySourcesInv', NEW m \in Maker, Insert(m)
    PROVE  PendingInv'
<1> DEFINE r(d) == [Resting EXCEPT !.pc = "register", !.draft = {d}, !.posts = maker[m].posts]
<1>1. \A d : r(d).pc = "register"
  BY DEF Resting
<1> HIDE DEF r
<1>2. PICK d \in Draft \ Stories : /\ story' = [story EXCEPT ![d] = "pending"] /\ Turns(m, r(d))
                                   /\ maker[m].pc = "insert" /\ UNCHANGED <<promoted, faults>>
  BY DEF Insert, r
<1>3. /\ story' = [story EXCEPT ![d] = "pending"] /\ maker[m].pc = "insert"
      /\ maker'[m].pc = "register" /\ \A n \in Maker \ {m} : maker'[n] = maker[n]
      /\ UNCHANGED <<promoted, faults>> /\ DOMAIN story' = Draft
  BY <1>1, <1>2 DEF Turns, PendingInv, StorySourcesInv
<1>4. Made' \subseteq Made \cup {d}
  BY <1>3 DEF Made, Pending
<1>5. m \in OnTheWay /\ OnTheWay' = OnTheWay \ {m}
  BY <1>3 DEF OnTheWay
<1>6. /\ Cardinality(Made) \in Nat /\ IsFiniteSet(Made)
      /\ Cardinality(OnTheWay) \in Nat /\ IsFiniteSet(OnTheWay)
      /\ Cardinality(Maker) \in Nat /\ MaxCap \in Nat
  BY MakersFinite
<1>7. /\ IsFiniteSet(Made \cup {d})
      /\ Cardinality(Made \cup {d}) \in {Cardinality(Made), Cardinality(Made) + 1}
  BY <1>6, FS_AddElement
<1>8. Cardinality(Made') <= Cardinality(Made) + 1 /\ Cardinality(Made') \in Nat
  <2>1. Cardinality(Made') <= Cardinality(Made \cup {d}) /\ IsFiniteSet(Made')
    BY <1>4, <1>7, FS_Subset
  <2>2. Cardinality(Made') \in Nat
    BY <2>1, FS_CardinalityType
  <2> QED BY <1>6, <1>7, <2>1, <2>2
<1>9. Cardinality(OnTheWay') = Cardinality(OnTheWay) - 1
  BY <1>5, <1>6, FS_RemoveElement
<1> QED BY <1>3, <1>6, <1>8, <1>9 DEF PendingInv, MaxCap

LEMMA StepPending ==
    ASSUME PendingInv, StorySourcesInv', NEW m \in Maker,
           \/ GroqSearch(m) \/ GroqReply(m) \/ GroqRaises(m) \/ GeminiReply(m) \/ GeminiRaises(m)
           \/ Register(m) \/ WriteFailed(m)
    PROVE  PendingInv'
<1>1. /\ Made' = Made /\ DOMAIN story' = Draft
      /\ faults' \in {faults, faults + 1}
  BY DEF PendingInv, Made, Pending, Fault, GroqSearch, GroqReply, GroqRaises, GeminiReply, GeminiRaises, Register,
         WriteFailed
<1>2. PICK r : Turns(m, r)
  BY DEF GroqSearch, GroqReply, GroqRaises, GeminiReply, GeminiRaises, Register, WriteFailed
<1>3. maker'[m].pc \in {"search", "reply", "gemini", "insert"} =>
          maker[m].pc \in {"search", "reply", "gemini", "insert"}
  <2>1. CASE Register(m) \/ WriteFailed(m)
    BY <2>1 DEF Register, WriteFailed, Turns, Resting, PendingInv, StorySourcesInv
  <2>2. CASE \/ GroqSearch(m) \/ GroqReply(m) \/ GroqRaises(m)
             \/ GeminiReply(m) \/ GeminiRaises(m)
    BY <2>2 DEF GroqSearch, GroqReply, GroqRaises, GeminiReply, GeminiRaises
  <2> QED BY <2>1, <2>2
<1>4. \A n \in Maker \ {m} : maker'[n] = maker[n]
  BY <1>2 DEF Turns, PendingInv, StorySourcesInv
<1>5. OnTheWay' \subseteq OnTheWay
  BY <1>3, <1>4 DEF OnTheWay
<1> QED BY <1>1, <1>5, PendingShrinks

LEMMA OthersPending ==
    ASSUME PendingInv, StorySourcesInv',
           \/ \E d \in Draft : \/ PromoterInserts(d) \/ PromoterRegisters(d)
                             \/ Archiving(d) \/ CleanUp(d)
           \/ MakersCrash
           \/ UNCHANGED storyVars
    PROVE  PendingInv'
<1>1. faults' \in {faults, faults + 1}
  BY DEF PromoterInserts, PromoterRegisters, Archiving, CleanUp, MakersCrash, Fault, storyVars
<1>2. Made' \subseteq Made /\ DOMAIN story' = Draft
  <2>1. CASE UNCHANGED <<story, promoted>>
    BY <2>1 DEF Made, Pending, PendingInv
  <2>2. CASE \E d \in Draft : Archiving(d)
    BY <2>2 DEF Made, Pending, PendingInv, Archiving
  <2>3. CASE \E d \in Draft : CleanUp(d)
    BY <2>3 DEF Made, Pending, PendingInv, CleanUp
  <2>4. CASE \E d \in Draft : PromoterInserts(d)
    BY <2>4 DEF Made, Pending, PendingInv, PromoterInserts
  <2> QED BY <2>1, <2>2, <2>3, <2>4 DEF PromoterRegisters, MakersCrash, storyVars
<1>3. ASSUME NEW m \in Maker
      PROVE  maker'[m].pc \in {maker[m].pc, "idle"}
  <2>1. CASE \E d \in Draft : CleanUp(d)
    <3>1. PICK seen : maker'[m] = [maker[m] EXCEPT !.before = seen]
      BY <2>1 DEF CleanUp
    <3>2. IsMaker(maker[m])
      BY DEF PendingInv, StorySourcesInv
    <3> QED BY <3>1, <3>2 DEF IsMaker
  <2> QED BY <2>1 DEF PromoterInserts, PromoterRegisters, Archiving, MakersCrash, Resting, storyVars
<1>4. OnTheWay' \subseteq OnTheWay
  BY <1>3 DEF OnTheWay
<1> QED BY <1>1, <1>2, <1>4, PendingShrinks

\* However many stories the promoter adds, the hunter and the requests pass the
\* caps, whatever they are, by one story for each maker that was on its way and for
\* each count that failed, and by no more (hunter.py:92-93, stories.py:118-123).
THEOREM PendingStaysBounded == StorySpec => []PendingBounded
<1>1. StoryInit => PendingInv
  <2> SUFFICES ASSUME StoryInit PROVE PendingInv
    OBVIOUS
  <2>1. Made = {} /\ OnTheWay = {}
    BY DEF StoryInit, Made, Pending, OnTheWay, Resting
  <2>2. Cardinality(Made) = 0 /\ Cardinality(OnTheWay) = 0
    BY <2>1, FS_EmptySet
  <2>3. MaxCap \in Nat \ {0} /\ Cardinality(Maker) \in Nat
    BY MakersFinite
  <2> QED BY <2>2, <2>3, StorySourcesInitially DEF PendingInv, StoryInit
<1>2. PendingInv /\ [StoryNext]_storyVars => PendingInv'
  <2> SUFFICES ASSUME PendingInv, [StoryNext]_storyVars PROVE PendingInv'
    OBVIOUS
  <2>1. StorySourcesInv'
    BY StorySourcesPreserved DEF PendingInv
  <2> QED BY <2>1, BeginPending, InsertPending, StepPending, OthersPending DEF StoryNext, MakerStep
<1>3. PendingInv => PendingBounded
  BY MakersFinite DEF PendingInv, PendingBounded
<1> QED BY <1>1, <1>2, <1>3, PTL DEF StorySpec

-----------------------------------------------------------------------------
(* The rate limiter *)

\* Entries stand by age, the oldest first.
Sorted(q) == \A i, j \in DOMAIN q : i <= j => q[i] >= q[j]
Upto(q, k) == {i \in DOMAIN q : q[i] <= k}

Younger(S, past, k) == {i \in S : past[i].age <= k}

\* Of every age that counts, q has as many entries as there are requests of S
\* among the accepted ones.
Tallies(q, past, S) ==
    /\ q \in Seq(Nat) /\ Sorted(q)
    /\ \A k \in 0 .. Window : Cardinality(Upto(q, k)) = Cardinality(Younger(S, past, k))

EntriesIn(b, c) == IF c \in DOMAIN b THEN b[c] ELSE <<>>

LimitInv ==
    /\ DOMAIN bucket \subseteq Client /\ IsFiniteSet(DOMAIN bucket)
    /\ accepted \in Seq([client : Client, age : 0 .. Window])
    /\ Sorted([i \in DOMAIN accepted |-> accepted[i].age])
    /\ \A c \in Client : Tallies(Entries(c), accepted, AcceptedOf(c))
    /\ Tallies(total, accepted, DOMAIN accepted)
    /\ WindowLimit /\ BucketsBounded

LEMMA LimitConstants ==
    /\ Window \in Nat /\ Window > 0 /\ PerIp \in Nat /\ PerIp > 0 /\ Global \in Nat /\ Global > 0
    /\ BucketCap \in Nat /\ BucketCap > 0
BY LimitAssumption

LEMMA SeqIs ==
    ASSUME NEW T, NEW q \in Seq(T)
    PROVE  /\ Len(q) \in Nat /\ DOMAIN q = 1 .. Len(q) /\ \A i \in DOMAIN q : q[i] \in T
           /\ IsFiniteSet(DOMAIN q) /\ Cardinality(DOMAIN q) = Len(q)
<1>1. Len(q) \in Nat /\ DOMAIN q = 1 .. Len(q) /\ \A i \in DOMAIN q : q[i] \in T
  BY LenProperties, ElementOfSeq
<1>2. IsFiniteSet(1 .. Len(q)) /\ Cardinality(1 .. Len(q)) = Len(q)
  BY <1>1, FS_Interval
<1> QED BY <1>1, <1>2

LEMMA AsSeq ==
    ASSUME NEW n \in Nat, NEW T, NEW f \in [1 .. n -> T]
    PROVE  f \in Seq(T) /\ Len(f) = n
OBVIOUS

\* As many indices after d are dropped in front of them.
LEMMA Shifted ==
    ASSUME NEW S, IsFiniteSet(S), S \subseteq Int, NEW T, T \subseteq Int, NEW d \in Int,
           \A i \in S : i - d \in T, \A j \in T : j + d \in S
    PROVE  IsFiniteSet(T) /\ Cardinality(T) = Cardinality(S)
<1> DEFINE f == [i \in S |-> i - d]
<1>1. f \in [S -> T]
  OBVIOUS
<1>2. \A i, j \in S : f[i] = f[j] => i = j
  OBVIOUS
<1>3. ASSUME NEW j \in T PROVE \E i \in S : f[i] = j
  <2>1. j + d \in S /\ f[j + d] = j
    OBVIOUS
  <2> QED BY <2>1
<1>4. f \in Bijection(S, T)
  BY <1>1, <1>2, <1>3 DEF Bijection, Injection, Surjection, IsInjective
<1> QED BY <1>4, FS_Bijection DEF ExistsBijection

\* The entries that the loop drops are a beginning of the sequence; of a sorted
\* one, they are all that are too old.
LEMMA StaleIs ==
    ASSUME NEW q \in Seq(Nat), Sorted(q)
    PROVE  LET d == Cardinality(Stale(q)) IN
           /\ d \in 0 .. Len(q)
           /\ \A i \in DOMAIN q : q[i] > Window <=> i <= d
<1> DEFINE S == Stale(q)
           d == Cardinality(S)
<1>1. Len(q) \in Nat /\ DOMAIN q = 1 .. Len(q) /\ \A i \in DOMAIN q : q[i] \in Nat
  BY SeqIs
<1>2. S \subseteq 1 .. Len(q) /\ IsFiniteSet(1 .. Len(q)) /\ Cardinality(1 .. Len(q)) = Len(q)
  BY <1>1, SeqIs DEF Stale
<1>3. IsFiniteSet(S) /\ d \in Nat /\ d <= Len(q)
  BY <1>2, FS_Subset, FS_CardinalityType
<1>4. ASSUME NEW i \in S PROVE i \in 1 .. d
  <2>1. i \in 1 .. Len(q) /\ 1 .. i \subseteq S
    BY <1>1, <1>2 DEF Stale
  <2>2. Cardinality(1 .. i) = i
    BY <2>1, FS_Interval
  <2>3. i <= d
    BY <1>3, <2>1, <2>2, FS_Subset
  <2> QED BY <1>3, <2>1, <2>3
<1>5. IsFiniteSet(1 .. d) /\ Cardinality(1 .. d) = d
  BY <1>3, FS_Interval
<1>6. S = 1 .. d
  BY <1>4, <1>5, FS_Subset
<1>7. ASSUME NEW i \in DOMAIN q PROVE q[i] > Window <=> i \in S
  BY <1>1, LimitConstants DEF Stale, Sorted
<1> HIDE DEF S, d
<1>8. \A i \in DOMAIN q : q[i] > Window <=> i <= d
  BY <1>1, <1>3, <1>6, <1>7
<1> QED BY <1>3, <1>8 DEF S, d

LEMMA RecentIs ==
    ASSUME NEW q \in Seq(Nat), Sorted(q)
    PROVE  LET d == Cardinality(Stale(q)) IN
           /\ Recent(q) \in Seq(Nat) /\ Len(Recent(q)) = Len(q) - d /\ d \in 0 .. Len(q)
           /\ \A i \in 1 .. Len(q) - d : Recent(q)[i] = q[i + d]
<1> DEFINE d == Cardinality(Stale(q))
           r == SubSeq(q, d + 1, Len(q))
<1>1. d \in 0 .. Len(q) /\ Len(q) \in Nat /\ DOMAIN q = 1 .. Len(q) /\ \A i \in DOMAIN q : q[i] \in Nat
  BY SeqIs, StaleIs
<1>2. Recent(q) = r
  BY DEF Recent
<1> HIDE DEF d
<1>3. d + 1 \in Int /\ Len(q) \in Int /\ \A i \in d + 1 .. Len(q) : q[i] \in Nat
  BY <1>1
<1>4. /\ r \in Seq(Nat) /\ Len(r) = IF d + 1 <= Len(q) THEN Len(q) - (d + 1) + 1 ELSE 0
      /\ \A i \in 1 .. Len(q) - (d + 1) + 1 : r[i] = q[(d + 1) + i - 1]
  BY <1>3, SubSeqProperties
<1> HIDE DEF r
<1>5. Len(r) = Len(q) - d
  <2> DEFINE n == Len(q)
             m == Len(r)
  <2>1. d \in Int /\ n \in Int /\ d <= n
    BY <1>1
  <2>2. m = IF d + 1 <= n THEN n - (d + 1) + 1 ELSE 0
    BY <1>4
  <2> HIDE DEF n, m
  <2>3. m = n - d
    BY <2>1, <2>2
  <2> QED BY <2>3 DEF n, m
<1>6. ASSUME NEW i \in 1 .. Len(q) - d PROVE r[i] = q[i + d]
  <2>1. i \in 1 .. Len(q) - (d + 1) + 1 /\ (d + 1) + i - 1 = i + d
    BY <1>1
  <2> QED BY <1>4, <2>1
<1> QED BY <1>1, <1>2, <1>4, <1>5, <1>6 DEF d

LEMMA RecentTallies ==
    ASSUME NEW q, NEW past, NEW S, Tallies(q, past, S)
    PROVE  /\ Tallies(Recent(q), past, S)
           /\ Len(Recent(q)) = Cardinality(Younger(S, past, Window))
<1> DEFINE d == Cardinality(Stale(q))
           r == Recent(q)
<1>1. q \in Seq(Nat) /\ Sorted(q) /\ Window \in Nat
  BY LimitConstants DEF Tallies
<1>2. Len(q) \in Nat /\ DOMAIN q = 1 .. Len(q) /\ \A i \in DOMAIN q : q[i] \in Nat
  BY <1>1, SeqIs
<1>3. /\ r \in Seq(Nat) /\ Len(r) = Len(q) - d /\ d \in 0 .. Len(q)
      /\ \A i \in 1 .. Len(q) - d : r[i] = q[i + d]
  BY <1>1, RecentIs
<1>4. \A i \in DOMAIN q : q[i] > Window <=> i <= d
  BY <1>1, StaleIs
<1> HIDE DEF d, r
<1>5. DOMAIN r = 1 .. Len(q) - d
  BY <1>3, SeqIs
<1>6. Sorted(r)
  <2>1. \A i \in DOMAIN r : i + d \in DOMAIN q /\ r[i] = q[i + d] /\ i \in Int
    BY <1>2, <1>3, <1>5
  <2>2. \A i, j \in DOMAIN r : i <= j => i + d <= j + d
    BY <1>3, <1>5
  <2> QED BY <1>1, <2>1, <2>2 DEF Sorted
<1>12. \A i \in DOMAIN r : i + d \in DOMAIN q /\ r[i] = q[i + d]
  BY <1>2, <1>3, <1>5
<1>13. \A i \in DOMAIN q : i > d => i - d \in DOMAIN r /\ r[i - d] = q[i]
  BY <1>2, <1>3, <1>5
<1>7. ASSUME NEW k \in 0 .. Window
      PROVE  Cardinality(Upto(r, k)) = Cardinality(Upto(q, k))
  <2>1. IsFiniteSet(Upto(q, k)) /\ Upto(q, k) \subseteq Int
    <3>1. Upto(q, k) \subseteq 1 .. Len(q)
      BY <1>2 DEF Upto
    <3> QED BY <1>1, <1>2, <3>1, SeqIs, FS_Subset
  <2>2. Upto(r, k) \subseteq Int
    BY <1>3, <1>5 DEF Upto
  <2>3. ASSUME NEW i \in Upto(q, k) PROVE i - d \in Upto(r, k)
    <3>1. i \in DOMAIN q /\ q[i] <= k /\ q[i] \in Nat /\ i \in Nat /\ d \in Nat
      BY <1>2, <1>3 DEF Upto
    <3>2. ~(q[i] > Window)
      BY <1>1, <3>1
    <3>3. i > d
      BY <1>4, <3>1, <3>2
    <3> QED BY <1>13, <3>1, <3>3 DEF Upto
  <2>4. \A j \in Upto(r, k) : j + d \in Upto(q, k)
    BY <1>12 DEF Upto
  <2>5. d \in Int
    BY <1>3
  <2> QED BY <2>5, <2>1, <2>2, <2>3, <2>4, Shifted
<1>8. Tallies(r, past, S)
  BY <1>3, <1>6, <1>7 DEF Tallies
<1>9. Upto(r, Window) = DOMAIN r
  <2>1. ASSUME NEW i \in DOMAIN r PROVE r[i] <= Window
    <3>1. i + d \in DOMAIN q /\ r[i] = q[i + d] /\ q[i + d] \in Nat /\ ~(i + d <= d)
      BY <1>2, <1>3, <1>5, <1>12
    <3> QED BY <1>1, <1>4, <3>1
  <2> QED BY <2>1 DEF Upto
<1>10. Cardinality(DOMAIN r) = Len(r)
  BY <1>3, SeqIs
<1>11. Window \in 0 .. Window
  BY <1>1
<1> QED BY <1>8, <1>9, <1>10, <1>11 DEF Tallies, r

LEMMA RecentOnes ==
    ASSUME NEW q, NEW past, NEW S, Tallies(q, past, S), Recent(q) # <<>>
    PROVE  S # {}
<1>1. q \in Seq(Nat) /\ Sorted(q)
  BY DEF Tallies
<1>2. Recent(q) \in Seq(Nat)
  BY <1>1, RecentIs
<1>3. Len(Recent(q)) # 0
  BY <1>2, EmptySeq
<1>4. Len(Recent(q)) = Cardinality(Younger(S, past, Window))
  BY RecentTallies
<1>5. Younger(S, past, Window) # {}
  BY <1>3, <1>4, FS_EmptySet
<1> QED BY <1>5 DEF Younger

\* One more request passes: who is counted by q has one entry more, the others
\* as many as before.
LEMMA OneMorePasses ==
    ASSUME NEW past \in Seq([client : Client, age : 0 .. Window]), NEW c \in Client,
           NEW S \in SUBSET DOMAIN past, NEW q, Tallies(q, past, S)
    PROVE  LET more == Append(past, [client |-> c, age |-> 0])
               n == Len(past) + 1 IN
           /\ Tallies(q, more, S)
           /\ Tallies(Append(q, 0), more, S \cup {n})
<1> DEFINE new == [client |-> c, age |-> 0]
           more == Append(past, new)
           n == Len(past) + 1
           a == Append(q, 0)
<1>1. /\ Len(past) \in Nat /\ DOMAIN past = 1 .. Len(past) /\ IsFiniteSet(DOMAIN past)
      /\ q \in Seq(Nat) /\ Sorted(q) /\ new \in [client : Client, age : 0 .. Window]
      /\ n \notin DOMAIN past
  BY SeqIs, LimitConstants DEF Tallies
<1>2. Len(q) \in Nat /\ DOMAIN q = 1 .. Len(q) /\ IsFiniteSet(DOMAIN q)
      /\ \A i \in DOMAIN q : q[i] \in Nat
  BY <1>1, SeqIs
<1>3. more[n] = new /\ \A i \in DOMAIN past : more[i] = past[i]
  BY <1>1, AppendProperties
<1>4. /\ a \in Seq(Nat) /\ DOMAIN a = 1 .. Len(q) + 1 /\ a[Len(q) + 1] = 0
      /\ \A i \in DOMAIN q : a[i] = q[i]
  <2>1. a \in Seq(Nat) /\ Len(a) = Len(q) + 1 /\ a[Len(q) + 1] = 0
        /\ \A i \in 1 .. Len(q) : a[i] = q[i]
    BY <1>1, AppendProperties
  <2> QED BY <1>2, <2>1, SeqIs
<1> HIDE DEF new, more, a
<1>5. \A k : Younger(S, more, k) = Younger(S, past, k)
  BY <1>3 DEF Younger
<1>6. Tallies(q, more, S)
  BY <1>5 DEF Tallies
<1>7. Sorted(a)
  <2>1. \A i \in DOMAIN a : a[i] \in Nat /\ (i \in DOMAIN q \/ i = Len(q) + 1)
    BY <1>2, <1>4
  <2>2. ASSUME NEW i \in DOMAIN a, NEW j \in DOMAIN a, i <= j PROVE a[i] >= a[j]
    <3>1. CASE j = Len(q) + 1
      BY <1>4, <2>1, <3>1
    <3>2. CASE j \in DOMAIN q
      <4>1. i \in DOMAIN q
        BY <1>2, <2>1, <2>2, <3>2
      <4> QED BY <1>1, <1>4, <2>2, <3>2, <4>1 DEF Sorted
    <3> QED BY <2>1, <3>1, <3>2
  <2> QED BY <2>2 DEF Sorted
<1>8. ASSUME NEW k \in 0 .. Window
      PROVE  Cardinality(Upto(a, k)) = Cardinality(Younger(S \cup {n}, more, k))
  <2> DEFINE A == Upto(q, k)
             B == Younger(S, past, k)
  <2>1. Upto(a, k) = A \cup {Len(q) + 1}
    BY <1>2, <1>4, <1>1, LimitConstants DEF Upto
  <2>2. more[n].age = 0
    BY <1>3 DEF new
  <2>3. Younger(S \cup {n}, more, k) = B \cup {n}
    BY <1>5, <2>2, LimitConstants DEF Younger
  <2>4. IsFiniteSet(A) /\ IsFiniteSet(B)
    BY <1>1, <1>2, FS_Subset DEF Upto, Younger
  <2>5. Len(q) + 1 \notin A /\ n \notin B
    BY <1>1, <1>2 DEF Upto, Younger
  <2>6. Cardinality(A) = Cardinality(B)
    BY DEF Tallies
  <2> HIDE DEF A, B
  <2>7. Cardinality(A \cup {Len(q) + 1}) = Cardinality(A) + 1
        /\ Cardinality(B \cup {n}) = Cardinality(B) + 1
    BY <2>4, <2>5, FS_AddElement
  <2> QED BY <2>1, <2>3, <2>6, <2>7
<1>9. Tallies(a, more, S \cup {n})
  BY <1>4, <1>7, <1>8 DEF Tallies
<1> QED BY <1>6, <1>9 DEF more, a, new

LEMMA OlderIs ==
    /\ \A n \in Nat : Older(n) \in Nat
    /\ \A n \in 0 .. Window : Older(n) = n + 1
    /\ \A m, n \in Nat : m >= n => Older(m) >= Older(n)
    /\ \A n \in Nat, k \in 0 .. Window : Older(n) <= k <=> n <= k - 1
BY LimitConstants DEF Older

\* A tick: the entries age where they stand; of the requests of the past the
\* oldest leave.
LEMMA TallyOfAllAges ==
    ASSUME NEW q, NEW past, NEW S, Tallies(q, past, S), IsFiniteSet(S), S \subseteq Int,
           NEW left, NEW T, T \subseteq Int, NEW d \in Int,
           \A i \in S : past[i].age \in Nat,
           \A i \in S : past[i].age < Window => i - d \in T,
           \A j \in T : j + d \in S /\ left[j].age = past[j + d].age + 1
    PROVE  Tallies(AllOlder(q), left, T)
<1> DEFINE a == AllOlder(q)
<1>1. q \in Seq(Nat) /\ Sorted(q) /\ Window \in Nat /\ Window > 0
  BY LimitConstants DEF Tallies
<1>2. Len(q) \in Nat /\ DOMAIN q = 1 .. Len(q) /\ \A i \in DOMAIN q : q[i] \in Nat
  BY <1>1, SeqIs
<1>4. DOMAIN a = 1 .. Len(q) /\ \A i \in DOMAIN q : a[i] = Older(q[i])
  BY <1>2 DEF AllOlder
<1>5. a \in Seq(Nat)
  <2>1. a \in [1 .. Len(q) -> Nat]
    BY <1>2, OlderIs DEF AllOlder
  <2> QED BY <1>2, <2>1
<1> HIDE DEF a
<1>6. Sorted(a)
  <2>1. ASSUME NEW i \in DOMAIN a, NEW j \in DOMAIN a, i <= j PROVE a[i] >= a[j]
    <3>1. q[i] >= q[j] /\ q[i] \in Nat /\ q[j] \in Nat /\ a[i] = Older(q[i]) /\ a[j] = Older(q[j])
      BY <1>1, <1>2, <1>4, <2>1 DEF Sorted
    <3> QED BY <3>1, OlderIs
  <2> QED BY <2>1 DEF Sorted
<1>7. ASSUME NEW k \in 0 .. Window
      PROVE  Cardinality(Upto(a, k)) = Cardinality(Younger(T, left, k))
  <2> DEFINE B == Younger(S, past, k - 1)
             C == Younger(T, left, k)
  <2>1. Upto(a, k) = Upto(q, k - 1)
    <3>1. ASSUME NEW i \in DOMAIN q PROVE a[i] <= k <=> q[i] <= k - 1
      <4>1. q[i] \in Nat /\ a[i] = Older(q[i])
        BY <1>2, <1>4
      <4> QED BY <4>1, OlderIs
    <3> QED BY <1>2, <1>4, <3>1 DEF Upto
  <2>2. Cardinality(Upto(q, k - 1)) = Cardinality(B)
    <3>1. CASE k = 0
      <4>1. Upto(q, k - 1) = {}
        BY <1>2, <3>1 DEF Upto
      <4>2. \A i \in S : ~(past[i].age <= k - 1)
        BY <1>1, <3>1
      <4> QED BY <4>1, <4>2 DEF Younger
    <3>2. CASE k # 0
      <4>1. k - 1 \in 0 .. Window
        BY <1>1, <3>2
      <4> QED BY <4>1 DEF Tallies
    <3> QED BY <3>1, <3>2
  <2>3. IsFiniteSet(B) /\ B \subseteq Int
    BY FS_Subset DEF Younger
  <2>4. \A j \in C : j + d \in B
    <3>1. ASSUME NEW j \in C PROVE j + d \in B
      <4>1. j \in T /\ left[j].age <= k
        BY DEF Younger
      <4>2. j + d \in S /\ left[j].age = past[j + d].age + 1
        BY <4>1
      <4>3. past[j + d].age \in Nat
        BY <4>2
      <4>4. past[j + d].age <= k - 1
        BY <4>1, <4>2, <4>3
      <4> QED BY <4>2, <4>4 DEF Younger
    <3> QED BY <3>1
  <2>5. \A i \in B : i - d \in C
    <3>1. ASSUME NEW i \in B PROVE i - d \in C
      <4>1. i \in S /\ past[i].age <= k - 1
        BY DEF Younger
      <4>2. past[i].age \in Nat /\ i \in Int
        BY <4>1
      <4>3. past[i].age < Window
        BY <1>1, <4>1, <4>2
      <4>4. i - d \in T
        BY <4>1, <4>3
      <4>5. (i - d) + d = i
        BY <4>2
      <4>6. left[i - d].age = past[i].age + 1
        BY <4>4, <4>5
      <4>7. left[i - d].age <= k
        BY <4>1, <4>2, <4>6
      <4> QED BY <4>4, <4>7 DEF Younger
    <3> QED BY <3>1
  <2>6. C \subseteq Int
    BY DEF Younger
  <2> HIDE DEF B, C
  <2>7. Cardinality(C) = Cardinality(B)
    BY <2>3, <2>4, <2>5, <2>6, Shifted
  <2> QED BY <2>1, <2>2, <2>7 DEF C
<1> QED BY <1>5, <1>6, <1>7 DEF Tallies, a

LEMMA LimitInitially == LimiterInit => LimitInv
<1> SUFFICES ASSUME LimiterInit PROVE LimitInv
  OBVIOUS
<1> DEFINE none == <<>>
<1>1. /\ none \in Seq(Nat) /\ none \in Seq([client : Client, age : 0 .. Window])
      /\ DOMAIN none = {} /\ Len(none) = 0
  BY EmptySeq
<1>2. bucket = none /\ total = none /\ accepted = none
  BY DEF LimiterInit
<1> HIDE DEF none
<1>3. IsFiniteSet({}) /\ Cardinality({}) = 0
  BY FS_EmptySet
<1>4. Sorted(none) /\ \A k : Upto(none, k) = {}
  BY <1>1 DEF Sorted, Upto
<1>5. ASSUME NEW S, S = {} PROVE Tallies(none, none, S)
  <2>1. \A k : Younger(S, none, k) = {}
    BY <1>5 DEF Younger
  <2> QED BY <1>1, <1>4, <2>1 DEF Tallies
<1>6. \A c : AcceptedOf(c) = {} /\ Entries(c) = none
  BY <1>1, <1>2 DEF AcceptedOf, Entries, none
<1>7. Sorted([i \in DOMAIN accepted |-> accepted[i].age])
  BY <1>1, <1>2 DEF Sorted
<1>8. WindowLimit /\ BucketsBounded
  BY <1>1, <1>2, <1>3, <1>6, LimitConstants DEF WindowLimit, BucketsBounded
<1> QED BY <1>1, <1>2, <1>3, <1>5, <1>6, <1>7, <1>8 DEF LimitInv

\* Accepted requests are as many as the entries that are recent.
LEMMA WhatCounts ==
    ASSUME LimitInv
    PROVE  /\ \A i \in DOMAIN accepted : accepted[i].age \in 0 .. Window /\ accepted[i].client \in Client
           /\ \A c \in Client : Len(Recent(Entries(c))) = Cardinality(AcceptedOf(c))
           /\ Len(Recent(total)) = Len(accepted)
           /\ Len(accepted) \in Nat /\ DOMAIN accepted = 1 .. Len(accepted)
           /\ \A c : AcceptedOf(c) \subseteq DOMAIN accepted /\ IsFiniteSet(AcceptedOf(c))
<1>1. /\ \A i \in DOMAIN accepted : accepted[i] \in [client : Client, age : 0 .. Window]
      /\ Len(accepted) \in Nat /\ DOMAIN accepted = 1 .. Len(accepted)
      /\ IsFiniteSet(DOMAIN accepted) /\ Cardinality(DOMAIN accepted) = Len(accepted)
  BY SeqIs DEF LimitInv
<1>2. \A i \in DOMAIN accepted : accepted[i].age \in 0 .. Window /\ accepted[i].client \in Client
  BY <1>1
<1>3. \A S \in SUBSET DOMAIN accepted : Younger(S, accepted, Window) = S
  BY <1>2, LimitConstants DEF Younger
<1>4. \A c : AcceptedOf(c) \subseteq DOMAIN accepted /\ IsFiniteSet(AcceptedOf(c))
  BY <1>1, FS_Subset DEF AcceptedOf
<1>5. ASSUME NEW c \in Client PROVE Len(Recent(Entries(c))) = Cardinality(AcceptedOf(c))
  <2> DEFINE q == Entries(c)
             S == AcceptedOf(c)
  <2>1. Tallies(q, accepted, S) /\ S \in SUBSET DOMAIN accepted
    BY <1>4 DEF LimitInv
  <2> HIDE DEF q, S
  <2>2. Len(Recent(q)) = Cardinality(Younger(S, accepted, Window))
    BY <2>1, RecentTallies
  <2>3. Len(Recent(q)) = Cardinality(S)
    BY <1>3, <2>1, <2>2
  <2> QED BY <2>3 DEF q, S
<1>6. Len(Recent(total)) = Len(accepted)
  <2>1. Tallies(total, accepted, DOMAIN accepted)
    BY DEF LimitInv
  <2>2. Len(Recent(total)) = Cardinality(Younger(DOMAIN accepted, accepted, Window))
    BY <2>1, RecentTallies
  <2> QED BY <1>1, <1>3, <2>2
<1> QED BY <1>1, <1>2, <1>4, <1>5, <1>6

LEMMA RefuseKeeps ==
    ASSUME LimitInv, NEW c \in Client, Refuse(c)
    PROVE  LimitInv'
<1>1. UNCHANGED accepted /\ bucket' = Looked(c) /\ total' \in {Recent(total), total}
  BY DEF Refuse
<1>2. DOMAIN bucket' = DOMAIN bucket
      /\ \A d \in DOMAIN bucket : bucket'[d] = IF d = c THEN Recent(bucket[d]) ELSE bucket[d]
  BY <1>1 DEF Looked
<1>3. \A d \in Client : Tallies(Entries(d), accepted, AcceptedOf(d))
  BY DEF LimitInv
<1>4. \A d \in Client : Entries(d)' \in {Entries(d), Recent(Entries(d))}
  BY <1>2 DEF Entries
<1>5. \A d \in Client : Tallies(Entries(d)', accepted, AcceptedOf(d))
  BY <1>3, <1>4, RecentTallies
<1>6. Tallies(total', accepted, DOMAIN accepted)
  BY <1>1, RecentTallies DEF LimitInv
<1>7. \A d : AcceptedOf(d)' = AcceptedOf(d)
  BY <1>1 DEF AcceptedOf
<1>8. WindowLimit'
  BY <1>1, <1>7 DEF WindowLimit, LimitInv
<1> QED BY <1>1, <1>2, <1>5, <1>6, <1>7, <1>8 DEF LimitInv, BucketsBounded

LEMMA LimiterTickKeeps ==
    ASSUME LimitInv, LimiterTick
    PROVE  LimitInv'
<1> DEFINE past == [i \in DOMAIN accepted |-> [accepted[i] EXCEPT !.age = Older(@)]]
           ages == [i \in DOMAIN accepted |-> past[i].age]
           d == Cardinality(Stale(ages))
           n == Len(accepted)
<1>1. /\ bucket' = [c \in DOMAIN bucket |-> AllOlder(bucket[c])]
      /\ total' = AllOlder(total)
      /\ accepted' = SubSeq(past, d + 1, Len(past))
  BY DEF LimiterTick
<1>2. /\ \A i \in DOMAIN accepted : accepted[i] \in [client : Client, age : 0 .. Window]
      /\ n \in Nat /\ DOMAIN accepted = 1 .. n
      /\ IsFiniteSet(DOMAIN accepted) /\ Cardinality(DOMAIN accepted) = n
      /\ Sorted([i \in DOMAIN accepted |-> accepted[i].age])
  BY SeqIs DEF LimitInv
<1>3. \A i \in 1 .. n : accepted[i].age \in 0 .. Window /\ accepted[i].client \in Client
  BY <1>2
<1>4. ASSUME NEW i \in 1 .. n
      PROVE  /\ past[i] \in [client : Client, age : Nat]
             /\ past[i].age = accepted[i].age + 1 /\ past[i].client = accepted[i].client
             /\ ages[i] = accepted[i].age + 1
  <2> DEFINE x == accepted[i]
             y == x.age
             a == Older(y)
  <2>1. x \in [client : Client, age : 0 .. Window] /\ y \in 0 .. Window
    BY <1>2
  <2>2. a = y + 1 /\ a \in Nat
    <3> HIDE DEF y
    <3>1. y \in Nat
      BY <2>1, LimitConstants
    <3> QED BY <2>1, <3>1, OlderIs
  <2>3. past[i] = [x EXCEPT !.age = a] /\ ages[i] = past[i].age
    BY <1>2
  <2> HIDE DEF past, ages, a
  <2>4. [x EXCEPT !.age = a] \in [client : Client, age : Nat]
        /\ [x EXCEPT !.age = a].age = a /\ [x EXCEPT !.age = a].client = x.client
    BY <2>1, <2>2
  <2> QED BY <2>2, <2>3, <2>4
<1>5. DOMAIN past = 1 .. n /\ DOMAIN ages = 1 .. n
  BY <1>2
<1>6. ages \in Seq(Nat) /\ past \in Seq([client : Client, age : Nat]) /\ Len(past) = n /\ Len(ages) = n
  <2>1. ages \in [1 .. n -> Nat] /\ past \in [1 .. n -> [client : Client, age : Nat]]
    BY <1>2, <1>3, <1>4
  <2> HIDE DEF ages, past
  <2> QED BY <1>2, <2>1, AsSeq
<1>7. Sorted(ages)
  <2>1. \A i, j \in 1 .. n : i <= j => accepted[i].age >= accepted[j].age
    BY <1>2 DEF Sorted
  <2> HIDE DEF ages
  <2>2. ASSUME NEW i \in 1 .. n, NEW j \in 1 .. n, i <= j PROVE ages[i] >= ages[j]
    <3>1. accepted[i].age >= accepted[j].age /\ accepted[i].age \in Int /\ accepted[j].age \in Int
      BY <1>3, <2>1, <2>2
    <3>2. ages[i] = accepted[i].age + 1 /\ ages[j] = accepted[j].age + 1
      BY <1>4
    <3> QED BY <3>1, <3>2
  <2> QED BY <1>5, <2>2 DEF Sorted
<1> HIDE DEF past, ages
<1>8. d \in 0 .. n /\ \A i \in 1 .. n : ages[i] > Window <=> i <= d
  BY <1>5, <1>6, <1>7, StaleIs
<1> HIDE DEF d, n
<1>9. /\ Len(accepted') = n - d
      /\ \A i \in 1 .. n - d : accepted'[i] = past[i + d] /\ i + d \in 1 .. n
  <2> DEFINE R == [client : Client, age : Nat]
             from == d + 1
  <2>1. \A i \in from .. n : past[i] \in R
    BY <1>4, <1>8
  <2>2. /\ Len(accepted') = IF from <= n THEN n - from + 1 ELSE 0
        /\ \A i \in 1 .. n - from + 1 : accepted'[i] = past[from + i - 1]
    <3>1. accepted' = SubSeq(past, from, n) /\ from \in Int /\ n \in Int
      BY <1>1, <1>2, <1>6, <1>8
    <3> HIDE DEF R, from
    <3> QED BY <2>1, <3>1, SubSeqProperties
  <2>3. d \in Int /\ n \in Int /\ d <= n
    BY <1>2, <1>8
  <2>4. \A i \in 1 .. n - d : i \in 1 .. n - (d + 1) + 1 /\ (d + 1) + i - 1 = i + d /\ i + d \in 1 .. n
    BY <1>2, <1>8
  <2>5. Len(accepted') = n - d
    BY <2>2, <2>3
  <2> QED BY <2>2, <2>4, <2>5
<1>10. ASSUME NEW i \in 1 .. n - d
       PROVE  /\ i + d \in 1 .. n /\ accepted'[i] \in [client : Client, age : 0 .. Window]
              /\ accepted'[i].age = accepted[i + d].age + 1
              /\ accepted'[i].client = accepted[i + d].client
              /\ ages[i + d] = accepted'[i].age
  <2>1. i + d \in 1 .. n /\ accepted'[i] = past[i + d] /\ ~(i + d <= d)
    BY <1>2, <1>8, <1>9
  <2>2. /\ past[i + d] \in [client : Client, age : Nat]
        /\ past[i + d].age = accepted[i + d].age + 1
        /\ past[i + d].client = accepted[i + d].client
        /\ ages[i + d] = accepted[i + d].age + 1
    BY <1>4, <2>1
  <2>3. ~(ages[i + d] > Window) /\ accepted[i + d].age \in Nat
    BY <1>3, <1>8, <2>1
  <2>4. past[i + d].age \in 0 .. Window /\ past[i + d].client \in Client
    BY <2>2, <2>3, LimitConstants
  <2>5. past[i + d] \in [client : Client, age : 0 .. Window]
    BY <2>2, <2>4
  <2> QED BY <2>1, <2>2, <2>5
<1>11. DOMAIN accepted' = 1 .. n - d /\ accepted' \in Seq([client : Client, age : 0 .. Window])
  <2>1. accepted' \in Seq([client : Client, age : Nat])
    <3>1. \A i \in d + 1 .. n : past[i] \in [client : Client, age : Nat]
      BY <1>4, <1>8
    <3> QED BY <1>1, <1>2, <1>6, <1>8, <3>1, SubSeqProperties
  <2>2. DOMAIN accepted' = 1 .. n - d
    BY <1>9, <2>1, SeqIs
  <2>3. n - d \in Nat
    BY <1>2, <1>8
  <2>4. accepted' = [i \in 1 .. n - d |-> accepted'[i]]
    BY <2>1, <2>2
  <2>5. accepted' \in [1 .. n - d -> [client : Client, age : 0 .. Window]]
    BY <1>10, <2>4
  <2> QED BY <2>2, <2>3, <2>5, AsSeq
<1>12. Sorted([i \in DOMAIN accepted' |-> accepted'[i].age])
  <2> DEFINE now == [i \in DOMAIN accepted' |-> accepted'[i].age]
  <2>1. DOMAIN now = 1 .. n - d /\ \A i \in 1 .. n - d : now[i] = ages[i + d] /\ i + d \in 1 .. n
    BY <1>10, <1>11
  <2>2. \A i, j \in 1 .. n - d : i <= j => i + d <= j + d
    BY <1>2, <1>8
  <2> HIDE DEF now
  <2>3. Sorted(now)
    BY <1>5, <1>7, <2>1, <2>2 DEF Sorted
  <2> QED BY <2>3 DEF now
<1>13. ASSUME NEW S \in SUBSET DOMAIN accepted, NEW q, Tallies(q, accepted, S),
              NEW T, T = {j \in 1 .. n - d : j + d \in S}
       PROVE  Tallies(AllOlder(q), accepted', T)
  <2>1. IsFiniteSet(S) /\ S \subseteq Int /\ T \subseteq Int /\ d \in Int
    BY <1>2, <1>8, <1>13, FS_Subset
  <2>2. \A i \in S : accepted[i].age \in Nat
    BY <1>2, <1>3, LimitConstants
  <2>3. ASSUME NEW i \in S, accepted[i].age < Window PROVE i - d \in T
    <3>1. i \in 1 .. n /\ accepted[i].age \in Nat /\ ages[i] = accepted[i].age + 1
      BY <1>2, <1>3, <1>4
    <3>2. ~(ages[i] > Window)
      BY <2>3, <3>1, LimitConstants
    <3>3. ~(i <= d)
      BY <1>8, <3>1, <3>2
    <3>4. i - d \in 1 .. n - d /\ (i - d) + d = i
      BY <1>2, <1>8, <3>1, <3>3
    <3> QED BY <1>13, <3>4
  <2>4. \A j \in T : j + d \in S /\ accepted'[j].age = accepted[j + d].age + 1
    BY <1>10, <1>13
  <2> QED BY <1>13, <2>1, <2>2, <2>3, <2>4, TallyOfAllAges
<1>14. ASSUME NEW c \in Client
       PROVE  /\ Tallies(Entries(c)', accepted', AcceptedOf(c)')
              /\ Cardinality(AcceptedOf(c)') <= PerIp
  <2>1. Tallies(Entries(c), accepted, AcceptedOf(c)) /\ AcceptedOf(c) \subseteq DOMAIN accepted
    BY DEF LimitInv, AcceptedOf
  <2>2. AcceptedOf(c)' = {j \in 1 .. n - d : j + d \in AcceptedOf(c)}
    BY <1>2, <1>10, <1>11 DEF AcceptedOf
  <2>3. Entries(c)' = AllOlder(Entries(c))
    <3>1. c \in DOMAIN bucket => Entries(c)' = AllOlder(bucket[c])
      BY <1>1 DEF Entries
    <3>2. c \notin DOMAIN bucket => Entries(c)' = <<>> /\ AllOlder(<<>>) = <<>>
      BY <1>1 DEF Entries, AllOlder
    <3> QED BY <3>1, <3>2 DEF Entries
  <2>4. Tallies(Entries(c)', accepted', AcceptedOf(c)')
    BY <1>13, <2>1, <2>2, <2>3
  <2>5. IsFiniteSet(AcceptedOf(c)) /\ Cardinality(AcceptedOf(c)) <= PerIp
    BY <1>2, <2>1, FS_Subset DEF LimitInv, WindowLimit
  <2> DEFINE S == AcceptedOf(c)
             T == AcceptedOf(c)'
             f == [j \in T |-> j + d]
  <2>6. f \in Injection(T, S)
    <3>1. f \in [T -> S]
      BY <2>2
    <3>2. \A i, j \in T : f[i] = f[j] => i = j
      BY <1>8, <2>2
    <3> QED BY <3>1, <3>2 DEF Injection, IsInjective
  <2> HIDE DEF S, T, f
  <2>7. Cardinality(T) <= Cardinality(S) /\ IsFiniteSet(T)
    BY <2>5, <2>6, FS_Injection DEF S
  <2>8. Cardinality(T) \in Nat /\ Cardinality(S) \in Nat /\ PerIp \in Nat
    BY <2>5, <2>7, FS_CardinalityType, LimitConstants DEF S
  <2> QED BY <2>4, <2>5, <2>7, <2>8 DEF S, T
<1>15. Tallies(total', accepted', DOMAIN accepted')
  <2>1. DOMAIN accepted' = {j \in 1 .. n - d : j + d \in DOMAIN accepted}
    BY <1>2, <1>10, <1>11
  <2> QED BY <1>1, <1>13, <2>1 DEF LimitInv
<1>16. WindowLimit'
  <2>1. Len(accepted') <= n /\ n <= Global
    BY <1>2, <1>8, <1>9 DEF LimitInv, WindowLimit, n
  <2>2. Len(accepted') <= Global
    BY <1>2, <1>8, <1>9, <2>1, LimitConstants
  <2> QED BY <1>14, <2>2 DEF WindowLimit
<1>17. DOMAIN bucket' = DOMAIN bucket
  BY <1>1
<1> QED BY <1>11, <1>12, <1>14, <1>15, <1>16, <1>17 DEF LimitInv, BucketsBounded

\* The bucket of a client with another request, before the pruning.
Appended(c) == [d \in DOMAIN bucket \cup {c} |->
                  IF d = c THEN Append(Recent(Entries(c)), 0) ELSE bucket[d]]

LEMMA AcceptKeeps ==
    ASSUME LimitInv, NEW c \in Client, Accept(c)
    PROVE  LimitInv'
<1> DEFINE new == [client |-> c, age |-> 0]
           n == Len(accepted) + 1
           b == Appended(c)
<1>1. /\ ClientHasRoom(c) /\ AllHaveRoom
      /\ bucket' = IF Cardinality(DOMAIN b) > BucketCap THEN Prune(b) ELSE b
      /\ total' = Append(Recent(total), 0)
      /\ accepted' = Append(accepted, new)
  BY DEF Accept, Hit, Appended
<1>2. /\ \A i \in DOMAIN accepted : accepted[i].age \in 0 .. Window
      /\ \A d \in Client : Len(Recent(Entries(d))) = Cardinality(AcceptedOf(d))
      /\ Len(Recent(total)) = Len(accepted)
      /\ Len(accepted) \in Nat /\ DOMAIN accepted = 1 .. Len(accepted)
      /\ \A d : AcceptedOf(d) \subseteq DOMAIN accepted /\ IsFiniteSet(AcceptedOf(d))
  BY WhatCounts
<1>3. new \in [client : Client, age : 0 .. Window] /\ new.age = 0 /\ new.client = c
  BY LimitConstants
<1> HIDE DEF new
<1>4. /\ accepted' \in Seq([client : Client, age : 0 .. Window]) /\ Len(accepted') = n
      /\ DOMAIN accepted' = DOMAIN accepted \cup {n} /\ n \notin DOMAIN accepted
      /\ accepted'[n] = new /\ \A i \in DOMAIN accepted : accepted'[i] = accepted[i]
  <2>1. /\ accepted' \in Seq([client : Client, age : 0 .. Window]) /\ Len(accepted') = n
        /\ accepted'[n] = new /\ \A i \in 1 .. Len(accepted) : accepted'[i] = accepted[i]
    BY <1>1, <1>3, AppendProperties DEF LimitInv
  <2>2. DOMAIN accepted' = 1 .. n
    BY <2>1, SeqIs
  <2> QED BY <1>2, <2>1, <2>2
<1>5. AcceptedOf(c)' = AcceptedOf(c) \cup {n}
      /\ \A d \in Client : d # c => AcceptedOf(d)' = AcceptedOf(d)
  BY <1>3, <1>4 DEF AcceptedOf
<1>6. ASSUME NEW S \in SUBSET DOMAIN accepted, NEW q, Tallies(q, accepted, S)
      PROVE  Tallies(q, accepted', S) /\ Tallies(Append(q, 0), accepted', S \cup {n})
  BY <1>1, <1>6, OneMorePasses DEF LimitInv, new
<1>7. Tallies(total', accepted', DOMAIN accepted')
  <2> DEFINE r == Recent(total)
  <2>1. Tallies(r, accepted, DOMAIN accepted)
    BY RecentTallies DEF LimitInv
  <2> HIDE DEF r
  <2>2. Tallies(Append(r, 0), accepted', DOMAIN accepted \cup {n})
    BY <1>6, <2>1
  <2> QED BY <1>1, <1>4, <2>2 DEF r
<1>8. ASSUME NEW d \in Client
      PROVE  Tallies(EntriesIn(b, d), accepted', AcceptedOf(d)')
  <2>1. Tallies(Entries(d), accepted, AcceptedOf(d)) /\ AcceptedOf(d) \in SUBSET DOMAIN accepted
    BY <1>2 DEF LimitInv
  <2>2. CASE d = c
    <3> DEFINE r == Recent(Entries(c))
    <3>1. Tallies(r, accepted, AcceptedOf(c))
      BY <2>1, <2>2, RecentTallies
    <3> HIDE DEF r
    <3>2. Tallies(Append(r, 0), accepted', AcceptedOf(c) \cup {n})
      BY <1>6, <2>1, <2>2, <3>1
    <3>3. EntriesIn(b, d) = Append(r, 0)
      BY <2>2 DEF Appended, EntriesIn, r
    <3> QED BY <1>5, <2>2, <3>2, <3>3
  <2>3. CASE d # c
    <3>1. EntriesIn(b, d) = Entries(d)
      BY <2>3 DEF Appended, EntriesIn, Entries
    <3> QED BY <1>5, <1>6, <2>1, <2>3, <3>1
  <2> QED BY <2>2, <2>3
<1>9. DOMAIN b = DOMAIN bucket \cup {c} /\ IsFiniteSet(DOMAIN b) /\ DOMAIN b \subseteq Client
      /\ Cardinality(DOMAIN b) \in Nat
  <2>1. DOMAIN b = DOMAIN bucket \cup {c}
    BY DEF Appended
  <2> HIDE DEF b
  <2>2. IsFiniteSet(DOMAIN b)
    BY <2>1, FS_AddElement DEF LimitInv
  <2> QED BY <2>1, <2>2, FS_CardinalityType DEF LimitInv
<1> HIDE DEF b
<1>10. ASSUME NEW d \in Client
       PROVE  Tallies(Entries(d)', accepted', AcceptedOf(d)')
  <2>1. CASE bucket' = b
    BY <1>8, <2>1 DEF Entries, EntriesIn
  <2>2. CASE bucket' = Prune(b)
    <3>1. Entries(d)' \in {EntriesIn(b, d), Recent(EntriesIn(b, d))}
      BY <2>2 DEF Entries, EntriesIn, Prune
    <3> QED BY <1>8, <3>1, RecentTallies
  <2> QED BY <1>1, <2>1, <2>2
<1>11. WindowLimit'
  <2>1. n <= Global
    BY <1>1, <1>2, LimitConstants DEF AllHaveRoom
  <2>2. ASSUME NEW d \in Client PROVE Cardinality(AcceptedOf(d)') <= PerIp
    <3>1. CASE d = c
      <4>1. Cardinality(AcceptedOf(c)) < PerIp /\ Cardinality(AcceptedOf(c)) \in Nat
        BY <1>1, <1>2, FS_CardinalityType DEF ClientHasRoom
      <4>2. n \notin AcceptedOf(c)
        BY <1>2, <1>4
      <4>3. Cardinality(AcceptedOf(c) \cup {n}) = Cardinality(AcceptedOf(c)) + 1
        BY <1>2, <4>2, FS_AddElement
      <4>4. Cardinality(AcceptedOf(c) \cup {n}) <= PerIp
        BY <4>1, <4>3, LimitConstants
      <4> QED BY <1>5, <3>1, <4>4
    <3>2. CASE d # c
      BY <1>5, <3>2 DEF LimitInv, WindowLimit
    <3> QED BY <3>1, <3>2
  <2> QED BY <1>4, <2>1, <2>2 DEF WindowLimit
<1>12. /\ DOMAIN bucket' \subseteq Client /\ IsFiniteSet(DOMAIN bucket')
       /\ BucketsBounded'
  <2>1. CASE ~(Cardinality(DOMAIN b) > BucketCap)
    <3>1. bucket' = b /\ Cardinality(DOMAIN b) <= BucketCap
      BY <1>1, <1>9, <2>1, LimitConstants
    <3> QED BY <1>9, <3>1, LimitConstants DEF BucketsBounded
  <2>2. CASE Cardinality(DOMAIN b) > BucketCap
    <3> DEFINE D == DOMAIN bucket'
               f == [d \in D |-> CHOOSE i \in DOMAIN accepted' : accepted'[i].client = d]
    <3>1. bucket' = Prune(b)
      BY <1>1, <2>2
    <3>2. D = {d \in DOMAIN b : Recent(b[d]) # <<>>}
      BY <3>1 DEF Prune
    <3>3. ASSUME NEW d \in D PROVE \E i \in DOMAIN accepted' : accepted'[i].client = d
      <4> DEFINE q == EntriesIn(b, d)
                 S == AcceptedOf(d)'
      <4>1. d \in Client /\ q = b[d] /\ Recent(q) # <<>>
        BY <1>9, <3>2 DEF EntriesIn
      <4>2. Tallies(q, accepted', S)
        BY <1>8, <4>1
      <4> HIDE DEF q, S
      <4>3. S # {}
        BY <4>1, <4>2, RecentOnes
      <4> QED BY <4>3 DEF S, AcceptedOf
    <3>4. \A d \in D : f[d] \in DOMAIN accepted' /\ accepted'[f[d]].client = d
      BY <3>3
    <3>5. f \in [D -> DOMAIN accepted']
      BY <3>4
    <3> HIDE DEF f
    <3>6. f \in Injection(D, DOMAIN accepted')
      BY <3>4, <3>5 DEF Injection, IsInjective
    <3>7. IsFiniteSet(DOMAIN accepted') /\ Cardinality(DOMAIN accepted') = n
      BY <1>4, SeqIs
    <3>8. IsFiniteSet(D) /\ Cardinality(D) <= n /\ Cardinality(D) \in Nat
      BY <3>6, <3>7, FS_Injection, FS_CardinalityType
    <3>9. n <= Global /\ n \in Nat
      BY <1>2, <1>4, <1>11 DEF WindowLimit
    <3>10. D \subseteq Client
      BY <1>9, <3>2
    <3> HIDE DEF D
    <3>11. Cardinality(D) <= IF Global > BucketCap THEN Global ELSE BucketCap
      BY <3>8, <3>9, LimitConstants
    <3> QED BY <3>8, <3>10, <3>11 DEF BucketsBounded, D
  <2> QED BY <2>1, <2>2
<1>13. Sorted([i \in DOMAIN accepted' |-> accepted'[i].age])
  <2> DEFINE old == [i \in DOMAIN accepted |-> accepted[i].age]
             now == [i \in DOMAIN accepted' |-> accepted'[i].age]
  <2>1. Sorted(old) /\ DOMAIN old = DOMAIN accepted
    BY DEF LimitInv
  <2>2. DOMAIN now = DOMAIN accepted \cup {n} /\ now[n] = 0
        /\ \A i \in DOMAIN accepted : now[i] = old[i] /\ old[i] \in 0 .. Window
    BY <1>2, <1>3, <1>4
  <2> HIDE DEF old, now
  <2>3. ASSUME NEW i \in DOMAIN now, NEW j \in DOMAIN now, i <= j PROVE now[i] >= now[j]
    <3>1. CASE j = n
      BY <2>2, <3>1, LimitConstants
    <3>2. CASE j \in DOMAIN accepted
      <4>1. i \in DOMAIN accepted
        BY <1>2, <2>2, <2>3, <3>2
      <4> QED BY <2>1, <2>2, <2>3, <3>2, <4>1 DEF Sorted
    <3> QED BY <2>2, <3>1, <3>2
  <2>4. Sorted(now)
    BY <2>3 DEF Sorted
  <2> QED BY <2>4 DEF now
<1> QED BY <1>4, <1>7, <1>10, <1>11, <1>12, <1>13 DEF LimitInv

LEMMA LimitPreserved == LimitInv /\ [LimiterNext]_limiterVars => LimitInv'
<1> SUFFICES ASSUME LimitInv, [LimiterNext]_limiterVars PROVE LimitInv'
  OBVIOUS
<1>1. CASE UNCHANGED limiterVars
  BY <1>1 DEF limiterVars, LimitInv, Entries, AcceptedOf, WindowLimit, BucketsBounded
<1> QED BY <1>1, LimiterTickKeeps, AcceptKeeps, RefuseKeeps DEF LimiterNext

\* However requests of any number of clients, refusals and the pruning of
\* buckets alternate (ratelimit.py: check_story_ratelimit), in no window more
\* pass than the two limits allow, refused ones cost nothing, and buckets stay
\* as few as the limits make them.
THEOREM LimitsAlwaysHold == LimiterSpec => []LimitsHold
<1>1. LimitInv => LimitsHold
  BY WhatCounts DEF LimitInv, LimitsHold, RefusedCostsNothing
<1> QED BY <1>1, LimitInitially, LimitPreserved, PTL DEF LimiterSpec
=============================================================================
