-------------------------------- MODULE MCLoops --------------------------------
(***************************************************************************)
(* The background loops that must get to the end of their work: discovery  *)
(* and capture, promotion, and the Internet Archive.  What one hands to    *)
(* another is an action without a cause in the other's module, so each is  *)
(* checked with the others at rest: a behaviour is one of the loop in      *)
(* focus.                                                                  *)
(***************************************************************************)
EXTENDS MCCaptureQueue, Promoter, Wayback

CONSTANTS k1, k2

VARIABLE focus

queueOwn == <<queue, since, post, proc, site, gone>>
promoterOwn == <<text, hard, promotion, linked, public, witnessed, llmFails, promoter>>
waybackOwn == <<keys, asking, snapshot, consumer, jobs>>
loopVars == <<queueOwn, promoterOwn, waybackOwn, faults, focus>>

\* The better post is plain; the other is critique or has personal data.
Values == [c \in Kept |-> IF c = k1 THEN 2 ELSE 1]
Kinds == {[c \in Kept |-> IF c = k1 THEN "plain" ELSE kind] : kind \in {"critique", "private"}}

LoopInit ==
    /\ Init /\ PromoterInit /\ WaybackInit
    /\ focus \in {"queue", "promoter", "wayback"}
    /\ focus # "queue" => site = CHOOSE s \in Web : TRUE
    /\ focus # "promoter" => text = CHOOSE t \in Texts : TRUE
    /\ focus # "wayback" => keys

\* The loops that are not in focus rest.
IsAtRest(c, own) == IF focus = c THEN TRUE ELSE UNCHANGED own
In(c, step) ==
    /\ focus = c /\ step
    /\ IsAtRest("queue", queueOwn)
    /\ IsAtRest("promoter", promoterOwn)
    /\ IsAtRest("wayback", waybackOwn)
    /\ UNCHANGED focus

LoopNext ==
    \/ In("queue", Next)
    \/ In("promoter", PromoterNext)
    \/ In("wayback", WaybackNext)

LoopSafety == LoopInit /\ [][LoopNext]_loopVars

\* Every loop goes on after every exception and every start.  The Archive has
\* room again and again, and every job ends that is asked about often enough.
Fairness ==
    /\ WF_loopVars(In("queue", Tick))
    /\ \A w \in Worker : WF_loopVars(In("queue", WorkerStep(w)))
    /\ WF_loopVars(In("promoter", SelectPromotable \/ PromoterStep(Automatic)))
    /\ WF_loopVars(In("wayback", Consumes))
    /\ WF_loopVars(In("wayback", WaybackTick))
    /\ SF_loopVars(In("wayback", StartSubmit(SubmitLimit)))
    /\ \A u \in Target : SF_loopVars(In("wayback", JobEnds(u)))

LoopSpec == LoopSafety /\ Fairness
=============================================================================
