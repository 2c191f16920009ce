----------------------------- MODULE CaptureStore -----------------------------
(***************************************************************************)
(* The private store of captures (services/preservation.py: _commit,       *)
(* preserve_capture, verify_capture).                                      *)
(*                                                                         *)
(* Writers are threads of the collector and other processes (recovery);    *)
(* flock on .write.lock lets one of them at a time measure the store,      *)
(* write a staging directory and rename it.  A kill releases the lock and  *)
(* leaves the staging directory, which counts in every later measure.      *)
(* Every file has size 1: objects, index.html and manifest.json.  A file   *)
(* that was being written when the process died counts as not written.     *)
(***************************************************************************)
EXTENDS Faults

CONSTANTS
    Url, Object,   \* pages; the response's body and images
    Writer,
    Directory,     \* names of staging directories and versions (a bound)
    StoreLimit     \* MAX_STORE_BYTES, in files

ASSUME StoreAssumption ==
    /\ IsFiniteSet(Object) /\ IsFiniteSet(Directory) /\ StoreLimit \in Nat

VARIABLES
    directory,   \* each: absent, pending or version, its page, its files
    locked,      \* writers that hold .write.lock
    writer,      \* what each writer is doing
    manifestOf   \* captured_posts.capture_manifest_path, as a set of directories

storeVars == <<directory, locked, writer, manifestOf, faults>>

NoDirectory == [state |-> "absent", url |-> {}, wants |-> {}, files |-> {}]
AtRest == [pc |-> "idle", url |-> {}, objects |-> {}, dir |-> {}]

StoreInit ==
    /\ directory = [d \in Directory |-> NoDirectory]
    /\ locked = {}
    /\ writer = [w \in Writer |-> AtRest]
    /\ manifestOf = [u \in Url |-> {}]
    /\ faults = 0

Does(w, pc) == writer' = [writer EXCEPT ![w].pc = pc]
Rests(w) == writer' = [writer EXCEPT ![w] = AtRest]
Files(objects) == objects \cup {"index.html", "manifest.json"}

\* What root.rglob finds, staging directories too.
Stored == UNION {{d} \X directory[d].files : d \in Directory}
Used == Cardinality(Stored)

\* preserve_capture has fetched what it could.
Preserve(w, u, objects) ==
    /\ writer[w].pc = "idle"
    /\ writer' = [writer EXCEPT ![w] = [AtRest EXCEPT !.pc = "lock", !.url = {u}, !.objects = objects]]
    /\ UNCHANGED <<directory, locked, manifestOf, faults>>

\* Variant: the lock is not waited for.
LockAnyway(w) == locked' = locked \cup {w}

TakesLock(w) == locked = {} /\ locked' = {w}

Lock(w) ==
    /\ writer[w].pc = "lock"
    /\ TakesLock(w)
    /\ Does(w, "measure")
    /\ UNCHANGED <<directory, manifestOf, faults>>

Releases(w) == locked' = locked \ {w}

Fits(w) == Used + Cardinality(Files(writer[w].objects)) <= StoreLimit

\* capture_store_full, or capture_disk_reserve for what others keep on the disk.
Full(w) ==
    /\ writer[w].pc = "measure"
    /\ Rests(w) /\ Releases(w)
    /\ UNCHANGED <<directory, manifestOf, faults>>

\* mkdtemp.
Stage(w) ==
    /\ writer[w].pc = "measure" /\ Fits(w)
    /\ \E d \in Directory :
         /\ directory[d].state = "absent"
         /\ directory' = [directory EXCEPT ![d] =
              [NoDirectory EXCEPT !.state = "pending", !.url = writer[w].url,
                                  !.wants = Files(writer[w].objects)]]
         /\ writer' = [writer EXCEPT ![w].pc = "write", ![w].dir = {d}]
    /\ UNCHANGED <<locked, manifestOf, faults>>

Missing(d) == directory[d].wants \ directory[d].files

\* Objects first, then the offline page, the manifest last.
NextFile(d) ==
    LET objects == Missing(d) \ {"index.html", "manifest.json"} IN
    IF objects # {} THEN objects
    ELSE IF "index.html" \in Missing(d) THEN {"index.html"} ELSE Missing(d)

WriteFile(w) ==
    /\ writer[w].pc = "write"
    /\ \E d \in writer[w].dir : \E file \in NextFile(d) :
         directory' = [directory EXCEPT ![d].files = @ \cup {file}]
    /\ UNCHANGED <<locked, writer, manifestOf, faults>>

\* os.rename, once the manifest is written; then fsync of the parent.
Rename(w) ==
    /\ writer[w].pc = "write"
    /\ \E d \in writer[w].dir :
         /\ "manifest.json" \in directory[d].files
         /\ directory' = [directory EXCEPT ![d].state = "version"]
    /\ Does(w, "sync")
    /\ UNCHANGED <<locked, manifestOf, faults>>

Synced(w) ==
    /\ writer[w].pc = "sync"
    /\ Does(w, "row") /\ Releases(w)
    /\ UNCHANGED <<directory, manifestOf, faults>>

\* Variant: what has its final name is removed too when the fsync fails.
Undo(d) == directory' = [directory EXCEPT ![d] = NoDirectory]

\* rmtree of the staging directory, whose name is no longer there after the rename.
RemoveStaging(d) ==
    /\ directory[d].state = "pending"
    /\ directory' = [directory EXCEPT ![d] = NoDirectory]

\* A write fails: the staging directory is removed, perhaps not.  When only the
\* fsync fails, the version stays, and nobody names it.
CommitFails(w) ==
    /\ Fault
    /\ writer[w].pc \in {"write", "sync"}
    /\ \E d \in writer[w].dir : RemoveStaging(d) \/ UNCHANGED directory
    /\ Rests(w) /\ Releases(w)
    /\ UNCHANGED manifestOf

\* The collector's UPDATE of a row that has no text yet (module CaptureQueue),
\* or its failure.
NameInRow(w) ==
    /\ writer[w].pc = "row"
    /\ \E u \in writer[w].url :
         \/ manifestOf[u] = {} /\ manifestOf' = [manifestOf EXCEPT ![u] = writer[w].dir] /\ UNCHANGED faults
         \/ manifestOf[u] # {} /\ UNCHANGED <<manifestOf, faults>>
         \/ Fault /\ UNCHANGED manifestOf
    /\ Rests(w)
    /\ UNCHANGED <<directory, locked>>

Killed(w) ==
    /\ Fault
    /\ Rests(w) /\ Releases(w)
    /\ UNCHANGED <<directory, manifestOf>>

WriterStep(w) ==
    \/ \E u \in Url, objects \in (SUBSET Object) \ {{}} : Preserve(w, u, objects)
    \/ Lock(w) \/ Full(w) \/ Stage(w) \/ WriteFile(w) \/ Rename(w) \/ Synced(w)
    \/ CommitFails(w) \/ NameInRow(w) \/ Killed(w)

StoreNext == \E w \in Writer : WriterStep(w)
StoreSpec == StoreInit /\ [][StoreNext]_storeVars
-----------------------------------------------------------------------------
(* Properties *)

\* The store keeps to its size although several processes write, what killed
\* ones left counts, and the measure is older than the files (preservation.py:201).
StoreIsBounded == Used <= StoreLimit

\* verify_capture: all files the manifest lists are there.
Verified(d) == Missing(d) = {}

\* Whatever dies when, a directory that has its final name is whole.
VersionsAreWhole == \A d \in Directory : directory[d].state = "version" => Verified(d)

\* The manifest a row names is a whole version of that very page, and stays so
\* even when the store is full (preservation.py:202).
RowsNameVersions ==
    \A u \in Url : \A d \in manifestOf[u] :
        directory[d].state = "version" /\ directory[d].url = {u} /\ Verified(d)

\* What the rows name is on the disk, whole, and within the limit.
StoreIsSound == StoreIsBounded /\ VersionsAreWhole /\ RowsNameVersions

\* The page of a directory that has its final name.
Final(d) == IF directory[d].state = "version" THEN directory[d].url ELSE {}

Captures == INSTANCE VersionStore WITH
    version <- [d \in Directory |-> {[page |-> u, files |-> directory[d].files] : u \in Final(d)}],
    named <- manifestOf

\* Whatever is written in pieces, fails or is killed, the store implements
\* VersionStore: captures appear whole by the rename, are never changed or removed,
\* and a row keeps the one it named first (preservation.py:_commit, collector.py:443).
KeepsVersions == Captures!Spec
=============================================================================
