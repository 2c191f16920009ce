-------------------------- MODULE MCCitationTracker --------------------------
(* Pages and bounds for TLC: see the README, "Runs".                          *)
EXTENDS CitationTracker

Body == [net |-> "ok", code |-> 200, at |-> "page", bot |-> FALSE,
         article |-> "none", long |-> TRUE, hash |-> "text", del |-> FALSE,
         blk |-> FALSE]

Plain == Body
\* A page whose menu always says "log in", different at every visit.
LoginPhrase == [Body EXCEPT !.blk = TRUE, !.hash = "fresh"]
\* The article is replaced by a notice.
Notice == [Body EXCEPT !.long = FALSE, !.del = TRUE, !.hash = "notice"]
\* A supported site: the article is there, and a comment says "deleted".
Supported == [Body EXCEPT !.article = "live", !.del = TRUE, !.hash = "fresh"]
Challenge == [Body EXCEPT !.bot = TRUE, !.long = FALSE, !.hash = "challenge"]
Missing == [Silence EXCEPT !.net = "http", !.code = 404]
Forbidden == [Silence EXCEPT !.net = "http", !.code = 403]

OverlapPages == {LoginPhrase, Supported, Notice, Challenge, Missing}
StalePages == {Plain, Missing}
CorrectPages == {Plain, Silence, Missing}
WallPages == {Plain, Forbidden}

\* One story per citation is enough except where rows compete.
OneStory == [c \in Citation |-> CHOOSE s \in Story : TRUE]

\* A thread goes on to register sources that have rows since it looked: of two such
\* threads it is the second that is late, and nothing fails before it is done.
Late(t) == proc[t].pc = "register" /\ CitationsOf(proc[t].story) \cap known # {}
FirstThread == CHOOSE t \in Thread : TRUE
LateWithoutFaults ==
    (\E t \in Thread : Late(t))' => faults' = 0 /\ proc'[FirstThread].pc = "idle"
=============================================================================
