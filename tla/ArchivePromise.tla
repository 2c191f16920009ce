---------------------------- MODULE ArchivePromise ----------------------------
(***************************************************************************)
(* What the archive promises the readers of a story, without saying how:   *)
(* an archive sealed with at least one human vote is paid for, a story is  *)
(* recorded as archived only under a transaction paid for that very story, *)
(* and from then on it neither changes its transaction nor disappears.     *)
(***************************************************************************)
CONSTANTS Story, Voter, TxId

VARIABLES
    status,   \* "open", "removed" or the recorded transaction of each story
    paid      \* uploads paid for: [tx, story, votes]

promised == <<status, paid>>

Init ==
    /\ status = [s \in Story |-> "open"]
    /\ paid = {}

\* A new transaction is paid for; nothing restricts how often.
Pay(s, t, voters) ==
    /\ \A e \in paid : e.tx # t
    /\ voters # {}
    /\ paid' = paid \cup {[tx |-> t, story |-> s, votes |-> voters]}
    /\ UNCHANGED status

Record(s, t) ==
    /\ status[s] = "open"
    /\ \E e \in paid : e.tx = t /\ e.story = s
    /\ status' = [status EXCEPT ![s] = t]
    /\ UNCHANGED paid

\* Stories nobody chose expire together.
Remove(gone) ==
    /\ \A s \in gone : status[s] = "open"
    /\ status' = [s \in Story |-> IF s \in gone THEN "removed" ELSE status[s]]
    /\ UNCHANGED paid

Next ==
    \/ \E s \in Story, t \in TxId, voters \in SUBSET Voter : Pay(s, t, voters)
    \/ \E s \in Story, t \in TxId : Record(s, t)
    \/ \E gone \in SUBSET Story : Remove(gone)

Spec == Init /\ [][Next]_promised
=============================================================================
