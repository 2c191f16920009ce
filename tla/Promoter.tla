------------------------------- MODULE Promoter -------------------------------
(***************************************************************************)
(* Making a public story of a post that was kept before it was deleted     *)
(* (services/promoter.py, services/llm.py generate_from_text).             *)
(*                                                                         *)
(* The promoter's loop and an administrator's request (routers/stories.py, *)
(* /api/promote) may work on the same post.  Each call of the database and *)
(* each answer of a model ends a step; a failed call of _mark is logged    *)
(* and forgotten.  origin_captured_url is unique, so a post has at most    *)
(* one story and a story is named by its post.  The clean-up keeps these   *)
(* stories (module StoryArchive: CaptureStory).                            *)
(***************************************************************************)
EXTENDS Faults

CONSTANTS
    Kept,              \* rows of captured_posts with a text
    Texts,             \* what the texts may be: functions from Kept to Kind
    Worth,             \* value_score (and volatility), which order the candidates
    Automatic, Admin,  \* background_promotion_loop and requests of the administrator
    PromoteBatch,      \* PROMOTER_BATCH
    MaxLlmAttempts,    \* PROMOTER_MAX_LLM_ATTEMPTS
    AutoCritique       \* PROMOTER_AUTO_CRITIQUE

Promoters == {Automatic} \cup Admin

\* What pii.scan and classify_category make of a text.
Kind == {"plain", "critique", "private"}

ASSUME PromoterAssumption ==
    /\ IsFiniteSet(Kept)
    /\ Texts \subseteq [Kept -> Kind]
    /\ Worth \in [Kept -> Nat]
    /\ Automatic \notin Admin
    /\ PromoteBatch \in Nat \ {0} /\ MaxLlmAttempts \in Nat \ {0}
    /\ AutoCritique \in BOOLEAN

VARIABLES
    text,       \* the kind of each post's text
    hard,       \* posts with hard_deleted_at (module CaptureQueue)
    promotion,  \* promotion_status of each post
    linked,     \* posts with a promoted_story_id
    public,     \* posts that have a story, and how it came about
    witnessed,  \* stories whose source is registered with the collector's sighting
    llmFails,   \* _llm_fail_counts
    promoter    \* what the loop and each request are doing

promoterVars == <<text, hard, promotion, linked, public, witnessed, llmFails,
                  promoter, faults>>

None == [by |-> "nobody", hard |-> FALSE, clean |-> TRUE]
Waiting == [pc |-> "idle", todo |-> {}]

PromoterInit ==
    /\ text \in Texts
    /\ hard = {}
    /\ promotion = [c \in Kept |-> "null"]
    /\ linked = {}
    /\ public = [c \in Kept |-> None]
    /\ witnessed = {}
    /\ llmFails = [c \in Kept |-> 0]
    /\ promoter = [w \in Promoters |-> Waiting]
    /\ faults = 0

Works(w, pc, todo) == promoter' = [promoter EXCEPT ![w] = [pc |-> pc, todo |-> todo]]

\* The rows of a batch are done in their order.
Current(w) == CHOOSE c \in promoter[w].todo : \A d \in promoter[w].todo : Worth[c] >= Worth[d]
RestOf(w) == promoter[w].todo \ {Current(w)}
DoneWith(w) == Works(w, IF RestOf(w) = {} THEN "idle" ELSE "gate", RestOf(w))

\* _mark: the status, and the link if there is one.
Mark(c, status) ==
    \/ /\ promotion' = [promotion EXCEPT ![c] = status]
       /\ linked' = IF status = "promoted" THEN linked \cup {c} ELSE linked
       /\ UNCHANGED faults
    \/ Fault /\ UNCHANGED <<promotion, linked>>

Published(c) == public[c].by # "nobody"
-----------------------------------------------------------------------------
(* find_promotable, run_promotion_batch, promote_captured_url *)

Promotable == {c \in hard \ linked : promotion[c] = "null"}

SelectPromotable ==
    /\ promoter[Automatic].pc = "idle"
    /\ \E rows \in SUBSET Promotable :
         /\ rows # {} /\ Cardinality(rows) <= PromoteBatch
         /\ Cardinality(rows) < PromoteBatch => rows = Promotable
         /\ \A c \in rows, d \in Promotable \ rows : Worth[c] >= Worth[d]
         /\ Works(Automatic, "gate", rows)
    /\ UNCHANGED <<text, hard, promotion, linked, public, witnessed, llmFails, faults>>

\* Any post with a text, whatever its status.
AskPromotion(a, c) ==
    /\ promoter[a].pc = "idle"
    /\ Works(a, "gate", {c})
    /\ UNCHANGED <<text, hard, promotion, linked, public, witnessed, llmFails, faults>>
-----------------------------------------------------------------------------
(* promote_one *)

Manual(w, c) == w = Automatic /\ text[c] = "critique" /\ ~AutoCritique

\* The scan for personal data and the policy for critique.
Gate(w) ==
    LET c == Current(w) IN
    /\ promoter[w].pc = "gate"
    /\ IF text[c] = "private" THEN Mark(c, "blocked_pii") /\ DoneWith(w)
       ELSE IF Manual(w, c) THEN Mark(c, "pending_review") /\ DoneWith(w)
       ELSE Works(w, "rewrite", promoter[w].todo) /\ UNCHANGED <<promotion, linked, faults>>
    /\ UNCHANGED <<text, hard, public, witnessed, llmFails>>

\* Variant: a failed attempt is not counted.
Uncounted(c) == 1

FailuresWith(c) == llmFails[c] + 1

\* No model answers: counted in the process; the last failure ends it.
RewriteFails(w) ==
    LET c == Current(w) IN
    /\ promoter[w].pc = "rewrite"
    /\ IF FailuresWith(c) >= MaxLlmAttempts
       THEN /\ llmFails' = [llmFails EXCEPT ![c] = 0]
            /\ Mark(c, "pending_review")
       ELSE /\ llmFails' = [llmFails EXCEPT ![c] = FailuresWith(c)]
            /\ UNCHANGED <<promotion, linked, faults>>
    /\ DoneWith(w)
    /\ UNCHANGED <<text, hard, public, witnessed>>

\* What may be wrong with a rewritten text (generate_from_text finds nothing that
\* fits; the second scan finds personal data).
Unfit == {"skipped", "blocked_pii"}

\* The rewritten text is unfit, or will be published.
Rewrite(w) ==
    LET c == Current(w) IN
    /\ promoter[w].pc = "rewrite"
    /\ llmFails' = [llmFails EXCEPT ![c] = 0]
    /\ \/ /\ \E status \in Unfit : Mark(c, status)
          /\ DoneWith(w)
       \/ /\ Works(w, "link", promoter[w].todo)
          /\ UNCHANGED <<promotion, linked, faults>>
    /\ UNCHANGED <<text, hard, public, witnessed>>

\* _link_existing, before the INSERT; a failed lookup finds nothing.
Link(w) ==
    LET c == Current(w) IN
    /\ promoter[w].pc = "link"
    /\ \/ Published(c) /\ Mark(c, "promoted") /\ DoneWith(w)
       \/ ~Published(c) /\ Works(w, "insert", promoter[w].todo)
          /\ UNCHANGED <<promotion, linked, faults>>
       \/ Published(c) /\ Fault /\ Works(w, "insert", promoter[w].todo)
          /\ UNCHANGED <<promotion, linked>>
    /\ UNCHANGED <<text, hard, public, witnessed, llmFails>>

\* The INSERT; a conflict on the origin leads to the story that is there.
InsertStory(w) ==
    LET c == Current(w) IN
    /\ promoter[w].pc = "insert"
    /\ IF Published(c)
       THEN Mark(c, "promoted") /\ DoneWith(w) /\ UNCHANGED public
       ELSE /\ public' = [public EXCEPT ![c] =
                            [by |-> IF w = Automatic THEN "loop" ELSE "admin",
                             hard |-> c \in hard, clean |-> text[c] # "private"]]
            /\ Works(w, "mark", promoter[w].todo)
            /\ UNCHANGED <<promotion, linked, faults>>
    /\ UNCHANGED <<text, hard, witnessed, llmFails>>

\* Variant: any failure of the INSERT is taken for a conflict.
InsertConflict(w) ==
    /\ promoter[w].pc = "insert" /\ ~Published(Current(w))
    /\ Mark(Current(w), "promoted")
    /\ DoneWith(w)
    /\ UNCHANGED <<text, hard, public, witnessed, llmFails>>

\* The INSERT fails for another reason: nothing is marked, nothing counted.
InsertFails(w) ==
    /\ Fault
    /\ promoter[w].pc = "insert" /\ ~Published(Current(w))
    /\ DoneWith(w)
    /\ UNCHANGED <<text, hard, promotion, linked, public, witnessed, llmFails>>

MarkPromoted(w) ==
    /\ promoter[w].pc = "mark"
    /\ Mark(Current(w), "promoted")
    /\ Works(w, "register", promoter[w].todo)
    /\ UNCHANGED <<text, hard, public, witnessed, llmFails>>

\* register_citations with captured_at and content_hash (module
\* CitationTracker: Register); its failure is logged and forgotten.
RegisterWitness(w) ==
    /\ promoter[w].pc = "register"
    /\ \/ witnessed' = witnessed \cup {Current(w)} /\ UNCHANGED faults
       \/ Fault /\ UNCHANGED witnessed
    /\ DoneWith(w)
    /\ UNCHANGED <<text, hard, promotion, linked, public, llmFails>>
-----------------------------------------------------------------------------
\* The collector finds a post gone for good.
GoesHard(c) ==
    /\ c \notin hard
    /\ hard' = hard \cup {c}
    /\ UNCHANGED <<text, promotion, linked, public, witnessed, llmFails, promoter, faults>>

\* The counts of failures live in the process.
PromoterCrash ==
    /\ Fault
    /\ promoter' = [w \in Promoters |-> Waiting]
    /\ llmFails' = [c \in Kept |-> 0]
    /\ UNCHANGED <<text, hard, promotion, linked, public, witnessed>>

PromoterStep(w) ==
    \/ Gate(w) \/ Rewrite(w) \/ RewriteFails(w) \/ Link(w)
    \/ InsertStory(w) \/ InsertFails(w) \/ MarkPromoted(w) \/ RegisterWitness(w)

PromoterNext ==
    \/ SelectPromotable
    \/ \E w \in Promoters : PromoterStep(w)
    \/ \E c \in Kept : GoesHard(c) \/ \E a \in Admin : AskPromotion(a, c)
    \/ PromoterCrash

PromoterSpec == PromoterInit /\ [][PromoterNext]_promoterVars
-----------------------------------------------------------------------------
(* Properties *)

\* What is published on its own is only what is gone for good and is no
\* critique (promoter.py:156-158, 224-229); personal data is published by
\* nobody, the administrator included (promoter.py:335-336).
PublishedWithCare ==
    \A c \in Kept :
        /\ public[c].by = "loop" => public[c].hard /\ (text[c] = "critique" => AutoCritique)
        /\ public[c].clean

\* A post says that it has a story only if it has, although the link is
\* written after the story and may be lost; and the link is kept for ever.
LinkIsTrue ==
    \A c \in Kept : (c \in linked \/ promotion[c] = "promoted") => Published(c)

\* The sighting of the collector reaches the tracker with every promoted
\* story: only then a dead source lowers the threshold (promoter.py:293-297).
\* A crash or a failed registration may lose it, two promoters may not.
WitnessHandedOver ==
    faults = 0 =>
        \A c \in Kept : Published(c) =>
            c \in witnessed \/ \E w \in Promoters :
                promoter[w].pc \in {"mark", "register"} /\ Current(w) = c

\* What is published is what may be, its post knows of it, and the tracker has
\* its sighting, with two promoters at work and any step failing.
PromotionIsSound == PublishedWithCare /\ LinkIsTrue /\ WitnessHandedOver

\* promoter.py:51-53: a post that no model will rewrite does not keep the
\* others from their turn, however small the batch, and none is retried for
\* ever: there is never a last candidate that stays one.
CandidatesSettle == []<>(\A c \in hard : promotion[c] # "null")
=============================================================================
