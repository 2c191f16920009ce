----------------------------- MODULE Verification -----------------------------
(***************************************************************************)
(* The verification of an archived story (services/transparency.py,        *)
(* verify_story_archive): the row, then the bundle at the URL it names,    *)
(* the signature, the comparison of the bodies, and a cache of verdicts.   *)
(*                                                                         *)
(* Other requests and changes of the row come between the reading of the   *)
(* row and the bundle.  A verdict depends on the row as it was read (a     *)
(* bundle does not change), so the state of a story is the verdict it      *)
(* deserves.  The gateway is external: it may not have the bundle yet.     *)
(***************************************************************************)
EXTENDS Faults

CONSTANTS
    Archived,     \* stories
    Reader,       \* requests that run at the same time
    MaxVerdicts,  \* _VERIFY_CACHE_MAX
    VerdictTtl    \* _VERIFY_TTL, in ticks

ASSUME VerificationAssumption == {MaxVerdicts, VerdictTtl} \subseteq Nat \ {0}

VARIABLES
    row,        \* unarchived, spreading (the gateway has no bundle yet), or what a
                \* verification finds: ok, body_differs, foreign_key
    reader,     \* what each request does, and the row it has read
    verdicts,   \* _verify_cache: verdict, ticks until expires_at, ticks since the fetch
    told        \* the last answer, whence it came, and how old it was

verificationVars == <<row, reader, verdicts, told, faults>>

Found == {"ok", "body_differs", "foreign_key"}
NotReading == [pc |-> "away"]
Says(s, answer, by, age) == told' = [post |-> s, answer |-> answer, by |-> by, age |-> age]

VerificationInit ==
    /\ row = [s \in Archived |-> "unarchived"]
    /\ reader = [r \in Reader |-> NotReading]
    /\ verdicts = [s \in {} |-> 0]
    /\ told = [answer |-> "none", by |-> "nobody", age |-> 0]
    /\ faults = 0

\* The archive writes its place into the row; the bundle spreads; the row is
\* changed afterwards (its body, or the bundle it names).
RowChanges(s) ==
    /\ row' = [row EXCEPT ![s] =
                 CASE @ = "unarchived" -> "spreading"
                   [] @ \in {"spreading", "body_differs"} -> "ok"
                   [] @ = "ok" -> "body_differs"
                   [] OTHER -> "foreign_key"]
    /\ UNCHANGED <<reader, verdicts, told, faults>>

RowIsReplaced(s) ==
    /\ row[s] \in Found /\ row' = [row EXCEPT ![s] = "foreign_key"]
    /\ UNCHANGED <<reader, verdicts, told, faults>>

Fresh(s) == s \in DOMAIN verdicts /\ verdicts[s].left > 0
Leaves(r) == reader' = [reader EXCEPT ![r] = NotReading]

\* Variant: who asks for a verdict keeps it in the cache.
RenewedBy(s) == [verdicts EXCEPT ![s].left = VerdictTtl]

\* The cache after it has answered.
AfterHit(s) == verdicts

\* The verdict in the cache will do, or the row is to be read.
AsksVerdict(r, s) ==
    /\ reader[r].pc = "away"
    /\ IF Fresh(s)
       THEN /\ Says(s, verdicts[s].answer, "cache", verdicts[s].age)
            /\ verdicts' = AfterHit(s)
            /\ UNCHANGED reader
       ELSE /\ reader' = [reader EXCEPT ![r] = [pc |-> "read", post |-> s]]
            /\ UNCHANGED <<verdicts, told>>
    /\ UNCHANGED <<row, faults>>

\* db_error, not_archived, or on to the bundle with the row just read.
ReadsRow(r) ==
    LET s == reader[r].post IN
    /\ reader[r].pc = "read"
    /\ \/ /\ Fault \/ (row[s] = "unarchived" /\ UNCHANGED faults)
          /\ Says(s, "error", "check", 0)
          /\ Leaves(r)
       \/ /\ row[s] # "unarchived"
          /\ reader' = [reader EXCEPT ![r] = [pc |-> "fetch", post |-> s, row |-> row[s]]]
          /\ UNCHANGED <<told, faults>>
    /\ UNCHANGED <<row, verdicts>>

Alive == {s \in DOMAIN verdicts : verdicts[s].left > 0}

\* What may stay when _cache_put has made room for s: everything while there is
\* room, else what has not expired, without those that expire first.
Staying(s) ==
    IF Cardinality(DOMAIN verdicts) < MaxVerdicts THEN {DOMAIN verdicts}
    ELSE IF Cardinality(Alive) < MaxVerdicts THEN {Alive}
    ELSE {rest \in SUBSET Alive :
            /\ Cardinality(rest) = MaxVerdicts - 1
            /\ \A t \in rest, u \in Alive \ rest : verdicts[t].left >= verdicts[u].left}

\* The bundle is there: the verdict is put in the cache.  Or it is not (yet), or
\* the gateway fails: that is not remembered.
FetchesBundle(r) ==
    LET s == reader[r].post
        found == IF reader[r].row = "spreading" THEN "ok" ELSE reader[r].row IN
    /\ reader[r].pc = "fetch"
    /\ Leaves(r)
    /\ \/ /\ Fault \/ (row[s] = "spreading" /\ UNCHANGED faults)
          /\ Says(s, "error", "check", 0)
          /\ UNCHANGED verdicts
       \/ /\ row[s] # "spreading"
          /\ Says(s, found, "check", 0)
          /\ \E rest \in Staying(s) :
               verdicts' = [t \in rest \cup {s} |-> IF t = s
                   THEN [answer |-> found, left |-> VerdictTtl, age |-> 0] ELSE verdicts[t]]
          /\ UNCHANGED faults
    /\ UNCHANGED row

VerificationTick ==
    /\ verdicts' = [s \in DOMAIN verdicts |-> [verdicts[s] EXCEPT
                      !.left = IF @ = 0 THEN 0 ELSE @ - 1,
                      !.age = IF @ > VerdictTtl THEN @ ELSE @ + 1]]
    /\ UNCHANGED <<row, reader, told, faults>>

VerificationNext ==
    \/ \E s \in Archived : RowChanges(s) \/ RowIsReplaced(s)
    \/ \E r \in Reader : ReadsRow(r) \/ FetchesBundle(r) \/ \E s \in Archived : AsksVerdict(r, s)
    \/ VerificationTick

VerificationSpec == VerificationInit /\ [][VerificationNext]_verificationVars
-----------------------------------------------------------------------------
(* Properties *)

\* Nobody is told a verdict that is older than the cache may be, however often
\* it is asked for: a change of the archived story shows (transparency.py:34-35).
VerdictsAreRecent == told.by = "cache" => told.age < VerdictTtl

\* However many stories are asked for, by requests that overlap, the cache does
\* not outgrow its limit (transparency.py:36).
VerdictsBounded == Cardinality(DOMAIN verdicts) <= MaxVerdicts

\* The cache of verdicts is bounded in time and in size.
CacheIsBounded == VerdictsAreRecent /\ VerdictsBounded
=============================================================================
