---------------------------- MODULE CapturePromise ----------------------------
(***************************************************************************)
(* What the collector promises of every post the feeds have listed,        *)
(* without saying how: it is not dropped once it is found, the first text  *)
(* kept of it is never replaced or lost, and what its queue concludes is   *)
(* final, and true when it is concluded.                                   *)
(***************************************************************************)
CONSTANTS Url, Version, Null

VARIABLES
    fate,  \* "unknown", "open", or the conclusion: "captured" or "deleted"
    kept,  \* the text kept of each post, or Null
    gone   \* posts that somebody has seen answer 404 or 410

promised == <<fate, kept, gone>>

Init ==
    /\ fate = [u \in Url |-> "unknown"]
    /\ kept = [u \in Url |-> Null]
    /\ gone = {}

\* A feed lists posts.
Find(found) ==
    /\ \A u \in found : fate[u] = "unknown"
    /\ fate' = [u \in Url |-> IF u \in found THEN "open" ELSE fate[u]]
    /\ UNCHANGED <<kept, gone>>

\* Whoever gets there first keeps the text.
Keep(u, text) ==
    /\ kept[u] = Null
    /\ kept' = [kept EXCEPT ![u] = text]
    /\ UNCHANGED <<fate, gone>>

SeeGone(u) ==
    /\ gone' = gone \cup {u}
    /\ UNCHANGED <<fate, kept>>

Conclude(u, conclusion) ==
    /\ fate[u] = "open"
    /\ \/ conclusion = "captured" /\ kept[u] # Null
       \/ conclusion = "deleted" /\ u \in gone
    /\ fate' = [fate EXCEPT ![u] = conclusion]
    /\ UNCHANGED <<kept, gone>>

Next ==
    \/ \E found \in SUBSET Url : Find(found)
    \/ \E u \in Url, text \in Version : Keep(u, text)
    \/ \E u \in Url : SeeGone(u)
    \/ \E u \in Url, conclusion \in {"captured", "deleted"} : Conclude(u, conclusion)

Spec == Init /\ [][Next]_promised
=============================================================================
