----------------------------- MODULE StoryMaking -----------------------------
(***************************************************************************)
(* From a search result to a story.                                        *)
(*                                                                         *)
(*   services/hunter.py   count_recent_pending, pick_category, hunt_once   *)
(*   routers/stories.py   create_story                                     *)
(*   services/llm.py      generate, generate_via_groq, _groq_search        *)
(*   services/dedup.py    filter_known_sources, all_known                  *)
(*   services/promoter.py the INSERT and the registration of promote_one   *)
(*                                                                         *)
(* A maker is the hunter's loop or the thread of one request (which the    *)
(* rate limiter has let pass: module RateLimiter).  Counting the pending   *)
(* stories, each search with its lookup of known sources, each answer of a *)
(* model, the INSERT and the registration are steps of their own.  The     *)
(* promoter (module Promoter) adds stories too, which the makers count, but *)
(* asks no cap itself.                                                     *)
(***************************************************************************)
EXTENDS Faults

CONSTANTS
    Category,          \* kindness and critique
    Post,              \* posts of communities, by URL
    OnTopic,           \* OnTopic[c]: posts that pass the topic filter of category c
    News, Rich,        \* posts that look like news; posts with enough text
    Community,         \* posts on the domains the first search is limited to
    Lost,              \* posts that the collector has seen and that are gone
    Draft,             \* names for stories
    MaxPromoted,       \* stories of the promoter at a time (a bound)
    Hunter, Request,   \* the loop, and threads of create_story
    HunterCap, StoryCap,   \* HUNTER_MAX_PENDING, STORY_MAX_PENDING
    Attempts,          \* RELEVANCE_MAX_ATTEMPTS
    GeminiKey          \* GEMINI_API_KEY is set

Maker == {Hunter} \cup Request

ASSUME StoryAssumption ==
    /\ OnTopic \in [Category -> SUBSET Post]
    /\ "none" \notin Category
    /\ Lost \subseteq Post /\ MaxPromoted \in Nat
    /\ Hunter \notin Request
    /\ IsFiniteSet(Draft) /\ IsFiniteSet(Request)
    /\ HunterCap \in Nat \ {0} /\ StoryCap \in Nat \ {0}
    /\ Attempts \in Nat \ {0} /\ GeminiKey \in BOOLEAN

VARIABLES
    story,       \* by name: absent, pending, claimed (an upload runs), old, sealed
    known,       \* URLs of citation_checks, with the stories they belong to
    lastCategory,
    maker,       \* what each maker is doing
    promoted     \* the stories that the promoter has inserted

storyVars == <<story, known, lastCategory, maker, promoted, faults>>

\* provider, before and blind are only for the properties: who wrote the text,
\* which sources were known when its making began, and whether a lookup of them
\* failed.
Resting == [pc |-> "idle", category |-> "none", tries |-> 0, results |-> {},
            posts |-> {}, draft |-> {}, provider |-> "groq",
            before |-> {}, blind |-> FALSE]

StoryInit ==
    /\ story = [d \in Draft |-> "absent"]
    /\ known = {}
    /\ lastCategory = "none"
    /\ maker = [m \in Maker |-> Resting]
    /\ promoted = {}
    /\ faults = 0

Turns(m, state) == maker' = [maker EXCEPT ![m] = state]
GoesTo(m, pc) == [maker[m] EXCEPT !.pc = pc]
KnownUrls == {k[1] : k \in known}
-----------------------------------------------------------------------------
(* count_recent_pending *)

Stories == {d \in Draft : story[d] # "absent"}

\* Variant: a story that is being uploaded is not counted.
PendingUnclaimed == {d \in Draft : story[d] = "pending"}

\* Stories of the last seven days without a transaction.
Pending == {d \in Draft : story[d] \in {"pending", "claimed"}}

Cap(m) == IF m = Hunter THEN HunterCap ELSE StoryCap

\* A maker begins, the hunter after its delay, a request when the limiter lets
\* it pass, unless too many stories are pending; a failed count says none is.
\* pick_category alternates; a request names a category or leaves it to chance.
Begin(m) ==
    /\ maker[m].pc = "idle"
    /\ \/ Cardinality(Pending) < Cap(m) /\ UNCHANGED faults
       \/ Fault
    /\ \E c \in Category :
         /\ m = Hunter => c # lastCategory
         /\ Turns(m, [GoesTo(m, "search") EXCEPT !.category = c, !.tries = Attempts,
                                                 !.before = KnownUrls])
         /\ lastCategory' = IF m = Hunter THEN c ELSE lastCategory
    /\ UNCHANGED <<story, known, promoted>>
-----------------------------------------------------------------------------
(* generate_via_groq *)

\* The three searches of _groq_search: posts of the communities that are no
\* news, then news too, then the whole web; always on topic.
OnTopicResults(found, open, c) ==
    LET fit == found \cap OnTopic[c] IN
    IF fit \ News # {} THEN fit \ News
    ELSE IF fit # {} THEN fit ELSE open \cap OnTopic[c]

Richer(posts) == IF posts \cap Rich # {} THEN posts \cap Rich ELSE posts

\* Variant: when nothing new is left, known posts will do.
PreferUnknown(posts, seen) ==
    IF Richer(posts) \ seen = {} THEN Richer(posts) ELSE Richer(posts) \ seen

\* dedup.filter_known_sources, after poor sources have been left out.
Candidates(posts, seen) == Richer(posts) \ seen

\* No result, or an answer the gates refuse: the next query, or none left.
NextQuery(m) ==
    IF maker[m].tries > 1 THEN [GoesTo(m, "search") EXCEPT !.tries = @ - 1, !.results = {}]
    ELSE [GoesTo(m, IF GeminiKey THEN "gemini" ELSE "idle") EXCEPT !.tries = 0, !.results = {}]

\* An exception of the search or of Groq (after its own retries).
GroqRaises(m) ==
    /\ maker[m].pc \in {"search", "reply"}
    /\ Turns(m, IF GeminiKey
                THEN [GoesTo(m, "gemini") EXCEPT !.tries = 0, !.results = {}]
                ELSE Resting)
    /\ UNCHANGED <<story, known, lastCategory, promoted, faults>>

\* What the three searches may leave.
Searched(c) == {OnTopicResults(found, open, c) : found \in SUBSET Community, open \in SUBSET Post}

\* tavily_search, the filters and the lookup of known sources, which fails open.
GroqSearch(m) ==
    /\ maker[m].pc = "search"
    /\ \E posts \in Searched(maker[m].category), seen \in {KnownUrls, {}} :
         LET results == Candidates(posts, seen)
             next == IF results = {} THEN NextQuery(m)
                     ELSE [GoesTo(m, "reply") EXCEPT !.results = results] IN
         \/ /\ seen = KnownUrls
            /\ Turns(m, next) /\ UNCHANGED faults
         \/ /\ seen # KnownUrls
            /\ Fault
            /\ Turns(m, [next EXCEPT !.blind = TRUE])
    /\ UNCHANGED <<story, known, lastCategory, promoted>>

\* The gates (NO_FIT, low volatility, kindness_output_off_topic) refuse the
\* answer, or let it pass.  The first source the model names is the only one
\* cited; if it names none, the first result.
GroqReply(m) ==
    /\ maker[m].pc = "reply"
    /\ \/ Turns(m, NextQuery(m))
       \/ \E p \in maker[m].results :
            Turns(m, [GoesTo(m, "insert") EXCEPT !.posts = {p}, !.provider = "groq",
                                                !.results = {}, !.tries = 0])
    /\ UNCHANGED <<story, known, lastCategory, promoted, faults>>

(* generate: the way over Gemini, when Groq raised or found nothing *)

\* dedup.all_known: not every source of a story may be known already.
SomethingNew(posts, seen) == posts = {} \/ ~(posts \subseteq seen)

\* The text passes the gates.  If a source is new, or there is none, it will do.
GeminiReply(m) ==
    /\ maker[m].pc = "gemini"
    /\ \E posts \in SUBSET Post, seen \in {KnownUrls, {}} :
         /\ IF seen # KnownUrls THEN Fault /\ posts # {} ELSE UNCHANGED faults
         /\ Turns(m, IF SomethingNew(posts, seen)
                     THEN [GoesTo(m, "insert") EXCEPT !.posts = posts, !.provider = "gemini",
                                                     !.blind = @ \/ seen # KnownUrls]
                     ELSE Resting)
    /\ UNCHANGED <<story, known, lastCategory, promoted>>

\* call_gemini gives up, or the gates refuse its text: 503, or the end of the
\* hunter's cycle.
GeminiRaises(m) ==
    /\ maker[m].pc = "gemini"
    /\ Turns(m, Resting)
    /\ UNCHANGED <<story, known, lastCategory, promoted, faults>>
-----------------------------------------------------------------------------
(* The INSERT, register_citations, and what becomes of stories *)

Insert(m) ==
    /\ maker[m].pc = "insert"
    /\ \E d \in Draft \ Stories :
         /\ story' = [story EXCEPT ![d] = "pending"]
         /\ Turns(m, [Resting EXCEPT !.pc = "register", !.draft = {d},
                                     !.posts = maker[m].posts])
    /\ UNCHANGED <<known, lastCategory, promoted, faults>>

\* One upsert for all sources; the story may be gone by then (foreign key).
Register(m) ==
    LET d == maker[m].draft IN
    /\ maker[m].pc = "register"
    /\ known' = IF d \subseteq Stories THEN known \cup (maker[m].posts \X d) ELSE known
    /\ Turns(m, Resting)
    /\ UNCHANGED <<story, lastCategory, promoted, faults>>

\* The INSERT fails (500, or logged by the hunter), or the registration does
\* (logged and forgotten).
WriteFailed(m) ==
    /\ Fault
    /\ maker[m].pc \in {"insert", "register"}
    /\ Turns(m, Resting)
    /\ UNCHANGED <<story, known, lastCategory, promoted>>

\* promote_one inserts a story of a lost source, whatever is pending.
PromoterInserts(d) ==
    /\ story[d] = "absent" /\ Cardinality(promoted) < MaxPromoted
    /\ story' = [story EXCEPT ![d] = "pending"]
    /\ promoted' = promoted \cup {d}
    /\ UNCHANGED <<known, lastCategory, maker, faults>>

\* Then it registers that source, later or never, for a story that still exists.
PromoterRegisters(d) ==
    /\ d \in promoted
    /\ \A k \in known : k[2] # d
    /\ \E p \in Lost : known' = known \cup {<<p, d>>}
    /\ UNCHANGED <<story, lastCategory, maker, promoted, faults>>

\* Module StoryArchive: an upload claims a story, gives up or records its
\* transaction; and a story without one becomes older than seven days.
Archiving(d) ==
    /\ \/ story[d] = "pending" /\ story' \in {[story EXCEPT ![d] = s] : s \in {"claimed", "old"}}
       \/ story[d] = "claimed" /\ story' \in {[story EXCEPT ![d] = s] : s \in {"pending", "sealed"}}
    /\ UNCHANGED <<known, lastCategory, maker, promoted, faults>>

\* The clean-up takes a story without a transaction, and its sources' rows.
\* Whoever is making a story then may take a source up again.
CleanUp(d) ==
    LET left == {k \in known : k[2] # d}
        forgotten == KnownUrls \ {k[1] : k \in left} IN
    /\ story[d] \in {"pending", "old"}
    /\ story' = [story EXCEPT ![d] = "absent"]
    /\ known' = left
    /\ promoted' = promoted \ {d}
    /\ maker' = [m \in Maker |-> [maker[m] EXCEPT !.before = @ \ forgotten]]
    /\ UNCHANGED <<lastCategory, faults>>

\* The process dies and starts again.
MakersCrash ==
    /\ Fault
    /\ maker' = [m \in Maker |-> Resting]
    /\ lastCategory' = "none"
    /\ UNCHANGED <<story, known, promoted>>

MakerStep(m) ==
    \/ GroqSearch(m) \/ GroqReply(m) \/ GroqRaises(m)
    \/ GeminiReply(m) \/ GeminiRaises(m)
    \/ Insert(m) \/ Register(m) \/ WriteFailed(m)

StoryNext ==
    \/ \E m \in Maker : Begin(m) \/ MakerStep(m)
    \/ \E d \in Draft : PromoterInserts(d) \/ PromoterRegisters(d) \/ Archiving(d) \/ CleanUp(d)
    \/ MakersCrash

StorySpec == StoryInit /\ [][StoryNext]_storyVars
-----------------------------------------------------------------------------
(* Properties *)

\* dedup.py:1-6: no story is made only of sources that were already known when
\* its making began, through all queries, the fallback to Gemini and the time
\* its text takes, unless a lookup failed.  (Two makers that overlap may choose
\* the same source, which was known to neither.)
Writing == {m \in Maker : maker[m].pc = "insert"}

NothingTwice ==
    \A m \in Writing :
        maker[m].posts # {} /\ ~maker[m].blind => ~(maker[m].posts \subseteq maker[m].before)

\* hunter.py:92-93 and stories.py:118-123: makers count first and insert long
\* after, so they may pass the caps, but only by one story for each maker that
\* was on its way and for each count that failed; stories that are being
\* uploaded count (hunter.py:58).  This bounds what the hunter and the requests
\* have made.  The promoter's stories count against the same caps, so they may
\* keep the makers from working, but promoter.py:286 asks no cap: nothing bounds
\* the pending stories altogether.
MaxCap == IF HunterCap > StoryCap THEN HunterCap ELSE StoryCap
Made == Pending \ promoted
PendingBounded == Cardinality(Made) < MaxCap + Cardinality(Maker) + faults

\* llm.py:900-903: whichever of the searches was the last resort, a story of
\* Groq has exactly one source, and that is on the topic of its category.
StoryIsOnTopic ==
    \A m \in Writing :
        maker[m].provider = "groq" =>
            \E p \in OnTopic[maker[m].category] : maker[m].posts = {p}

\* What is about to be inserted is new and is what the policy allows.
StoriesAreSound == NothingTwice /\ StoryIsOnTopic
=============================================================================
