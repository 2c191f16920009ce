---------------------------- MODULE SourcesReveal ----------------------------
(***************************************************************************)
(* The serverless variant of the agent (api/index.py): a story is free and *)
(* comes with a token that holds its sources; sources/reveal gives them    *)
(* against a payment.                                                      *)
(*                                                                         *)
(* A server keeps nothing between requests but the key in its environment; *)
(* the tokens are encrypted with it.  Handlers run side by side.  The      *)
(* facilitator, which knows which payments have been made, is external: it *)
(* verifies a payment that is good and not made yet, and makes it once.    *)
(***************************************************************************)
EXTENDS Faults

CONSTANTS
    Told,       \* stories that can be generated
    Secret,     \* what _source_secret may be
    Payment,    \* payments of clients
    Good,       \* those that are signed as the requirements say
    Handler,    \* requests the servers handle at the same time
    Settles     \* X402_SETTLE

ASSUME RevealAssumption == Good \subseteq Payment /\ Settles \in BOOLEAN

VARIABLES
    secret,     \* the key of the servers that now start
    tokens,     \* tokens issued: the story and the key
    reveal,     \* what each handler does, with which key, token and payment
    settled,    \* payments the facilitator has made
    revealed    \* replies with sources: payment, story, payment_meta["settled"]

revealVars == <<secret, tokens, reveal, settled, revealed, faults>>

Unasked == [pc |-> "idle"]

RevealInit ==
    /\ secret \in Secret
    /\ tokens = {}
    /\ reveal = [h \in Handler |-> Unasked]
    /\ settled = {}
    /\ revealed = {}
    /\ faults = 0

\* message/send: generate searches (again without the list of sites when that
\* finds nothing), asks the model, and issues the token.  A failure is a task
\* that failed, without a token.
Tell(s) ==
    /\ tokens' = tokens \cup {[story |-> s, secret |-> secret]}
    /\ UNCHANGED <<secret, reveal, settled, revealed, faults>>

\* A deployment with another key.
Rekey ==
    /\ secret' \in Secret \ {secret}
    /\ UNCHANGED <<tokens, reveal, settled, revealed, faults>>
-----------------------------------------------------------------------------
(* sources/reveal *)

\* Variant: the payment is made before the token is looked at.
SettleFirst == <<"verify", "settle", "decrypt", "reply">>

\* The order of _handle_sources_reveal.
Stages == <<"verify", "decrypt", "settle", "reply">>

GoesOn(h) ==
    LET next == 1 + CHOOSE i \in DOMAIN Stages : Stages[i] = reveal[h].pc IN
    reveal' = [reveal EXCEPT ![h].pc = Stages[next]]
Refuses(h) == reveal' = [reveal EXCEPT ![h] = Unasked]

\* A request with a token and a payment (without them it is refused: 400, 402).
AskSources(h, t, p) ==
    /\ reveal[h].pc = "idle"
    /\ reveal' = [reveal EXCEPT ![h] = [pc |-> Stages[1], secret |-> secret, token |-> t,
                                        payment |-> p, settled |-> FALSE]]
    /\ UNCHANGED <<secret, tokens, settled, revealed, faults>>

\* The facilitator finds the payment valid, or not, or does not answer (402).
VerifyPayment(h) ==
    /\ reveal[h].pc = "verify"
    /\ \/ reveal[h].payment \in Good \ settled /\ GoesOn(h) /\ UNCHANGED faults
       \/ reveal[h].payment \notin Good \ settled /\ Refuses(h) /\ UNCHANGED faults
       \/ Fault /\ Refuses(h)
    /\ UNCHANGED <<secret, tokens, settled, revealed>>

\* A token encrypted with another key is refused (400).
DecryptToken(h) ==
    /\ reveal[h].pc = "decrypt"
    /\ IF reveal[h].token.secret = reveal[h].secret THEN GoesOn(h) ELSE Refuses(h)
    /\ UNCHANGED <<secret, tokens, settled, revealed, faults>>

\* What payment_meta["settled"] becomes.
Claims(success) == success

Settlement(h, claim) ==
    LET next == 1 + CHOOSE i \in DOMAIN Stages : Stages[i] = "settle" IN
    reveal' = [reveal EXCEPT ![h].pc = Stages[next], ![h].settled = claim]

\* settle_payment: the payment is made, or was already made (success = false), or
\* the call fails, before or after it is made.  In every case the sources follow.
SettlePayment(h) ==
    LET p == reveal[h].payment IN
    /\ reveal[h].pc = "settle"
    /\ \/ /\ Settles
          /\ settled' = settled \cup {p}
          /\ Settlement(h, Claims(p \notin settled))
          /\ UNCHANGED faults
       \/ Settles /\ Fault /\ settled' \in {settled, settled \cup {p}} /\ Settlement(h, FALSE)
       \/ ~Settles /\ Settlement(h, FALSE) /\ UNCHANGED <<settled, faults>>
    /\ UNCHANGED <<secret, tokens, revealed>>

\* build_sources_task.
Reply(h) ==
    /\ reveal[h].pc = "reply"
    /\ revealed' = revealed \cup {[payment |-> reveal[h].payment, by |-> h,
                       story |-> reveal[h].token.story, settled |-> reveal[h].settled]}
    /\ Refuses(h)
    /\ UNCHANGED <<secret, tokens, settled, faults>>

\* The function is killed, or the connection is lost.
HandlerDies(h) ==
    /\ Fault
    /\ reveal[h].pc # "idle" /\ Refuses(h)
    /\ UNCHANGED <<secret, tokens, settled, revealed>>

RevealStep(h) ==
    \/ \E t \in tokens, p \in Payment : AskSources(h, t, p)
    \/ VerifyPayment(h) \/ DecryptToken(h) \/ SettlePayment(h) \/ Reply(h) \/ HandlerDies(h)

RevealNext == Rekey \/ (\E s \in Told : Tell(s)) \/ \E h \in Handler : RevealStep(h)

RevealSpec == RevealInit /\ [][RevealNext]_revealVars
-----------------------------------------------------------------------------
(* Properties *)

\* A payment is made only for sources that are then given: what may be refused
\* is found out before (index.py:1468-1481), also when the keys have changed
\* since the token was issued, and when the same payment is sent twice at once.
NobodyPaysForNothing ==
    faults = 0 => \A p \in settled :
        \/ \E r \in revealed : r.payment = p
        \/ \E h \in Handler : reveal[h].pc = "reply" /\ reveal[h].payment = p

\* payment_meta tells the truth: "settled" stands in one reply for one payment,
\* which has been made (index.py:1486-1500).
ReceiptsAreTrue ==
    /\ \A r \in revealed : r.settled => r.payment \in settled
    /\ \A r, q \in revealed : r.settled /\ q.settled /\ r.payment = q.payment => r = q

\* Payment and sources belong together, whatever fails on the way, and the reply
\* says which payment was made.
PaidIsGiven == NobodyPaysForNothing /\ ReceiptsAreTrue
=============================================================================
