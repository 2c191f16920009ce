----------------------------- MODULE VersionStore -----------------------------
(***************************************************************************)
(* What the capture store promises, without saying how: a capture appears  *)
(* under its name at once and whole, never changes and is never removed,   *)
(* and a row names the first capture of its page that was handed to it,    *)
(* and no other later.                                                     *)
(***************************************************************************)
CONSTANTS Url, Object, Directory

VARIABLES
    version,  \* the capture under each name: none, or its page and its files
    named     \* the capture that the row of each page names, if any

kept == <<version, named>>

\* A capture of a page has the response at least, the offline page, the manifest.
IsCapture(v) ==
    /\ v.page \in Url
    /\ {"index.html", "manifest.json"} \subseteq v.files
    /\ \E object \in Object : object \in v.files
    /\ v.files \subseteq Object \cup {"index.html", "manifest.json"}

Init ==
    /\ version = [d \in Directory |-> {}]
    /\ named = [u \in Url |-> {}]

Publish(d) ==
    /\ version[d] = {}
    /\ \E v \in version'[d] : IsCapture(v) /\ version' = [version EXCEPT ![d] = {v}]
    /\ UNCHANGED named

Name(u, d) ==
    /\ named[u] = {}
    /\ \E v \in version[d] : v.page = u
    /\ named' = [named EXCEPT ![u] = {d}]
    /\ UNCHANGED version

Next ==
    \/ \E d \in Directory : Publish(d)
    \/ \E u \in Url, d \in Directory : Name(u, d)

Spec == Init /\ [][Next]_kept
=============================================================================
