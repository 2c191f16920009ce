------------------------------ MODULE MCRequests ------------------------------
(***************************************************************************)
(* The components that answer requests or only keep a bounded store, which *)
(* share no state: each is checked with the others at rest.  A behaviour   *)
(* is one of the component in focus.                                       *)
(***************************************************************************)
EXTENDS StoryMaking, RateLimiter, Witness, Dashboard, SourcesReveal, Verification,
        CaptureStore, LocalDb, TLC

CONSTANTS p1, p2

VARIABLE focus

vars == <<storyVars, limiterVars, witnessVars, dashboardVars, revealVars,
          verificationVars, storeVars, dbVars, focus>>

Focus == {"stories", "limiter", "witness", "dashboard", "reveal", "verification", "store",
          "database"}

\* One post is on the topic of kindness and of critique, the other on none.
Topics == [c \in Category |-> {p1}]
Symmetries == Permutations(Draft) \cup Permutations(Category)

\* Two events with one id, of which the second leaves its source, its conversation
\* and its time to the message; one of only one of their agents, without an id, that
\* says all but its source; an invalid one.  One message belongs to a conversation.
Ids == [e \in Event |-> IF e \in {"e1", "e2"} THEN "i1" ELSE Nothing]
Talks == [m \in Message |-> IF m = "m1" THEN "talk" ELSE Nothing]
Actors == [e \in Event |-> IF e = "e3" THEN {"a"} ELSE {"a", "b"}]
News1 == [e \in Event |-> IF e = "e3" THEN 1 ELSE 0]

Init ==
    /\ StoryInit /\ LimiterInit /\ WitnessInit /\ DashboardInit /\ RevealInit
    /\ VerificationInit /\ StoreInit /\ LocalDbInit
    /\ focus \in Focus
    /\ focus # "dashboard" => rows = [k \in Counted |-> 0]
    /\ focus # "reveal" => secret = CHOOSE s \in Secret : TRUE

\* A bound on the makers of stories: at any time there has been a fault, or there is
\* one story of the promoter or one archived story, and never two of these (an old
\* story is out of sight of the count as well as an archived one).
OneEvent == faults' + Cardinality(promoted') + Cardinality({d \in Draft : story'[d] = "sealed"}) <= 1

\* The other components rest.
Rest(c, own) == IF focus = c THEN TRUE ELSE UNCHANGED own
OthersRest ==
    /\ Rest("stories", <<story, known, lastCategory, maker, promoted>>)
    /\ Rest("limiter", limiterVars)
    /\ Rest("witness", <<seen, disk, handler>>)
    /\ Rest("dashboard", dashboardVars)
    /\ Rest("reveal", <<secret, tokens, reveal, settled, revealed>>)
    /\ Rest("verification", <<row, reader, verdicts, told>>)
    /\ Rest("store", <<directory, locked, writer, manifestOf>>)
    /\ Rest("database", <<view, stored, owner, replied>>)
    /\ UNCHANGED focus

Next ==
    /\ \/ focus = "stories" /\ StoryNext /\ OneEvent
       \/ focus = "limiter" /\ LimiterNext /\ UNCHANGED faults
       \/ focus = "witness" /\ WitnessNext
       \/ focus = "dashboard" /\ DashboardNext /\ UNCHANGED faults
       \/ focus = "reveal" /\ RevealNext
       \/ focus = "verification" /\ VerificationNext
       \/ focus = "store" /\ StoreNext
       \/ focus = "database" /\ LocalDbNext
    /\ OthersRest

Spec == Init /\ [][Next]_vars
=============================================================================
