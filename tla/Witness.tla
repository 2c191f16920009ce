------------------------------- MODULE Witness -------------------------------
(***************************************************************************)
(* TheWitness: tasks of other agents and the memories they leave.          *)
(*                                                                         *)
(*   app/a2a/server.py, handlers.py   send, continue, cancel, /api/events  *)
(*   app/memory/engine.py             ingest                               *)
(*   app/observer/normalizer.py, app/db/models.py   what is hashed         *)
(*   app/memory/significance.py, app/db/repository.py                      *)
(*                                                                         *)
(* The handlers run inside the event loop without an await, one after the  *)
(* other; but every call of the repository commits on its own, so a crash  *)
(* or a failed call in the middle leaves what came before.  The repository *)
(* never rolls back, except after a conflict: what a failed commit left    *)
(* open is committed with the next call.  Hence two states: what the one   *)
(* connection sees and what the disk holds.  A task is named by the        *)
(* message it was made for (message_id is unique).  An event is stored as  *)
(* it was observed: what its sender says of it, completed with the message *)
(* it came in and the time it came at, all of which its hash covers.       *)
(***************************************************************************)
EXTENDS Faults, Sequences, SequencesExt

CONSTANTS
    Message,        \* messages that ask for a memory
    Conversation,   \* their contextId, or Nothing
    Time,           \* instants at which they may come
    Event,          \* events as their senders describe them
    Invalid,        \* those normalize_event refuses
    Sourced, Placed, Dated,   \* those that bring their source (type and message), their
                              \* conversation, their timestamp
    EventId,        \* the ids that senders have given them; Nothing: a fresh one each time
    Participants,   \* their actors
    Novelty         \* how many earlier memories of the same agents leave the event significant (-1: none do)

Nothing == "nothing"   \* no event; no message (/api/events); no conversation; no id
Own == "own"           \* what an event brings itself

ASSUME WitnessAssumption ==
    /\ {Nothing, Own} \cap (Message \cup Event) = {}
    /\ Message = DOMAIN Conversation
    /\ Invalid \subseteq Event
    /\ Event = DOMAIN EventId /\ Event = DOMAIN Participants
    /\ Novelty \in [Event -> Nat \cup {-1}]

VARIABLES
    seen,      \* tables tasks, events, memories and memory_links, as the connection sees them
    disk,      \* the same after the last commit
    handler    \* the request that is being handled

witnessVars == <<seen, disk, handler, faults>>

\* event and remembered are those of the task's result.
NoTask == [state |-> "none", event |-> Nothing, remembered |-> FALSE]
Empty == [task |-> [m \in Message |-> NoTask], events |-> {}, memories |-> <<>>, links |-> {}]
Free == [pc |-> "idle", message |-> Nothing, event |-> Nothing, remembered |-> FALSE]

WitnessInit == seen = Empty /\ disk = Empty /\ handler = Free /\ faults = 0

Terminal == {"completed", "failed", "canceled"}

\* One call of the repository: it commits, the statement fails, or the commit
\* does and leaves the change open.
Commits(tables) == seen' = tables /\ disk' = tables
CallFails(tables) == Fault /\ seen' \in {seen, tables} /\ UNCHANGED disk

WithTask(m, row) == [seen EXCEPT !.task[m] = row]
WithState(m, state) == [seen EXCEPT !.task[m].state = state]

Remembered(tables, e) == \E i \in DOMAIN tables.memories : tables.memories[i] = e
-----------------------------------------------------------------------------
(* handlers.py *)

\* _event_payload: event e as message n brings it, or as /api/events does without
\* a message.  What the event does not say of its source and its conversation, the
\* message says.
Payload(e, n) ==
    [event |-> e,
     source |-> IF e \in Sourced THEN Own ELSE n,
     conversation |-> IF e \in Placed THEN Own
                      ELSE IF n = Nothing THEN Nothing ELSE Conversation[n]]

Ingests(m, payload) == [Free EXCEPT !.pc = "ingest", !.message = m, !.event = payload]

\* send_message, _remember_task: only for a message that has no task yet; any
\* other is answered with the task it has.
Send(m, e) ==
    LET new == WithState(m, IF e = Nothing THEN "input" ELSE "working") IN
    /\ handler.pc = "idle"
    /\ seen.task[m].state = "none"
    /\ \/ /\ Commits(new)
          /\ handler' = IF e = Nothing THEN Free ELSE Ingests(m, Payload(e, m))
          /\ UNCHANGED faults
       \/ CallFails(new) /\ UNCHANGED handler

\* _continue_task: a task that waits for its event, or one that a crash left
\* working.  The event comes in another message n, whose id no task keeps.
Continue(m, n, e) ==
    LET new == WithState(m, "working") IN
    /\ handler.pc = "idle"
    /\ seen.task[m].state \notin Terminal \cup {"none"}
    /\ \/ Commits(new) /\ handler' = Ingests(m, Payload(e, n)) /\ UNCHANGED faults
       \/ CallFails(new) /\ UNCHANGED handler

Cancel(m) ==
    /\ handler.pc = "idle"
    /\ seen.task[m].state \notin Terminal \cup {"none"}
    /\ \/ Commits(WithState(m, "canceled")) /\ UNCHANGED faults
       \/ CallFails(WithState(m, "canceled"))
    /\ UNCHANGED handler

\* POST /api/events: the same without a task.
PostEvent(e) ==
    /\ handler.pc = "idle"
    /\ handler' = Ingests(Nothing, Payload(e, Nothing))
    /\ UNCHANGED <<seen, disk, faults>>

Goes(pc) == [handler EXCEPT !.pc = pc]
Answers(remembered) == [handler EXCEPT !.pc = "finish", !.remembered = remembered]

\* The exception handler of _complete_memory_task: the task failed.
FailTask ==
    LET m == handler.message
        new == IF m = Nothing THEN seen ELSE WithState(m, "failed") IN
    /\ handler.pc = "fail"
    /\ \/ m = Nothing /\ UNCHANGED <<seen, disk, faults>>
       \/ m # Nothing /\ Commits(new) /\ UNCHANGED faults
       \/ m # Nothing /\ CallFails(new)
    /\ handler' = Free

FinishTask ==
    LET m == handler.message
        new == WithTask(m, [state |-> "completed", event |-> handler.event,
                            remembered |-> handler.remembered]) IN
    /\ handler.pc = "finish"
    /\ \/ m = Nothing /\ handler' = Free /\ UNCHANGED <<seen, disk, faults>>
       \/ m # Nothing /\ Commits(new) /\ handler' = Free /\ UNCHANGED faults
       \/ m # Nothing /\ CallFails(new) /\ handler' = Goes("fail")
-----------------------------------------------------------------------------
(* MemoryEngine.ingest *)

\* An event as it is hashed: normalize_event adds the time, unless the sender did.
Observation(payload, at) ==
    [event |-> payload.event, source |-> payload.source,
     conversation |-> payload.conversation, at |-> at]
Moments(e) == IF e \in Dated THEN {Own} ELSE Time

\* normalize_event, then upsert_agents.
Normalize ==
    LET payload == handler.event IN
    /\ handler.pc = "ingest"
    /\ \/ /\ payload.event \in Invalid
          /\ handler' = Goes("fail") /\ UNCHANGED <<seen, disk, faults>>
       \/ /\ payload.event \notin Invalid
          /\ Commits(seen) /\ UNCHANGED faults
          /\ \E at \in Moments(payload.event) :
               handler' = [Goes("event") EXCEPT !.event = Observation(payload, at)]
       \/ /\ payload.event \notin Invalid
          /\ CallFails(seen) /\ handler' = Goes("fail")

\* The same id, which its sender gave.
SameId(d, e) == EventId[d.event] = EventId[e.event] /\ EventId[e.event] # Nothing
Conflicts(e) == \E d \in seen.events : d = e \/ SameId(d, e)

\* Variant: an event observed before has been remembered, has it not?
AnswersAgainTrue(e) == TRUE

\* What is said of an event observed before.
AnswersAgain(e) == Remembered(disk, e)

\* insert_event: the hash is unique, and so is the id.  A conflict rolls back
\* and looks the hash up; when it was only the id, there is no row and the
\* handler fails.
StoreEvent ==
    LET e == handler.event
        new == [seen EXCEPT !.events = @ \cup {e}] IN
    /\ handler.pc = "event"
    /\ \/ /\ Conflicts(e)
          /\ seen' = disk
          /\ handler' = IF e \in disk.events THEN Answers(AnswersAgain(e)) ELSE Goes("fail")
          /\ UNCHANGED <<disk, faults>>
       \/ /\ ~Conflicts(e)
          /\ Commits(new) /\ handler' = Goes("memory") /\ UNCHANGED faults
       \/ /\ ~Conflicts(e)
          /\ CallFails(new) /\ handler' = Goes("fail")

Agents(e) == Participants[e.event]

\* Variant: one common participant is enough.
PriorAny(e) ==
    Cardinality({i \in DOMAIN seen.memories : Agents(e) \cap Agents(seen.memories[i]) # {}})

\* count_prior_participant_memories: memories with all participants.
Prior(e) ==
    IF Agents(e) = {} THEN 0
    ELSE Cardinality({i \in DOMAIN seen.memories : Agents(e) \subseteq Agents(seen.memories[i])})

\* score_event against the threshold.
Significant(e) == Prior(e) <= Novelty[e.event]

WithMemory(e) == [seen EXCEPT !.memories = Append(@, e)]

MakeMemory ==
    LET e == handler.event
        new == WithMemory(e) IN
    /\ handler.pc = "memory"
    /\ \/ /\ ~Significant(e)
          /\ handler' = Answers(FALSE) /\ UNCHANGED <<seen, disk, faults>>
       \/ /\ Significant(e)
          /\ Commits(new) /\ handler' = Goes("link") /\ UNCHANGED faults
       \/ /\ Significant(e)
          /\ CallFails(new) /\ handler' = Goes("fail")

\* find_latest_link_candidate: another memory with a common participant, if any.
LinkCandidates(e) ==
    {d \in ToSet(seen.memories) \ {e} : Agents(d) \cap Agents(e) # {}}

LinkMemory ==
    LET e == handler.event IN
    /\ handler.pc = "link"
    /\ IF LinkCandidates(e) = {}
       THEN handler' = Answers(TRUE) /\ UNCHANGED <<seen, disk, faults>>
       ELSE \E d \in LinkCandidates(e) :
              LET new == [seen EXCEPT !.links = @ \cup {<<d, e>>}] IN
              \/ Commits(new) /\ handler' = Answers(TRUE) /\ UNCHANGED faults
              \/ CallFails(new) /\ handler' = Goes("fail")
-----------------------------------------------------------------------------
WitnessCrash ==
    /\ Fault
    /\ seen' = disk
    /\ handler' = Free
    /\ UNCHANGED disk

Handles ==
    \/ Normalize \/ StoreEvent \/ MakeMemory \/ LinkMemory \/ FinishTask \/ FailTask

WitnessNext ==
    \/ \E m \in Message :
         \/ \E e \in Event \cup {Nothing} : Send(m, e)
         \/ \E n \in Message, e \in Event : Continue(m, n, e)
         \/ Cancel(m)
    \/ \E e \in Event : PostEvent(e)
    \/ Handles
    \/ WitnessCrash

WitnessSpec == WitnessInit /\ [][WitnessNext]_witnessVars
-----------------------------------------------------------------------------
(* Properties *)

WorkedOn(m) == handler.pc # "idle" /\ handler.message = m

\* A task stays WORKING only while it is handled; only a crash or a failed call
\* can leave it so (nobody takes it up then).  Invalid events, conflicts of ids
\* and requests without a task in between included.
WorkingIsWorkedOn ==
    faults = 0 => \A m \in Message : seen.task[m].state = "working" => WorkedOn(m)

\* What the result of a completed task says of the memory is so on the disk,
\* whatever failed, was left open or rolled back before.
TasksTellTheTruth ==
    \A m \in Message :
        LET t == disk.task[m] IN
        t.state = "completed" => t.event \in disk.events
                                 /\ (t.remembered => Remembered(disk, t.event))

\* Resending gives no second memory where the sender has said enough: an event
\* that names its id has one, whichever message brings it; so has one that brings
\* its source, its conversation and its time; and any other has one for each way
\* in which it was observed.  (An event that leaves these open is, in another
\* message or at another time, a new one with a memory of its own:
\* handlers.py:108-114, models.py:37, normalizer.py:28-40.)
SelfContained == Sourced \cap Placed \cap Dated

RememberedOnce ==
    \A i, j \in DOMAIN seen.memories :
        LET d == seen.memories[i]
            e == seen.memories[j] IN
        i # j => d # e /\ ~SameId(d, e) /\ (d.event = e.event => d.event \notin SelfContained)

\* An event that is worth remembering when it is the first of its agents is
\* remembered unless there is a memory of all of them already: nothing but a
\* fault between two commits loses it (and then a resend that is the same to the
\* hash does not bring it back, engine.py:62-70).
FirstIsRemembered ==
    faults = 0 =>
        \A e \in seen.events : Novelty[e.event] >= 0 =>
            \/ Agents(e) # {} /\ \E i \in DOMAIN seen.memories :
                  Agents(e) \subseteq Agents(seen.memories[i])
            \/ Remembered(seen, e)
            \/ handler.pc = "memory" /\ handler.event = e

\* What a client reads of its task is so: a task that works is worked on, and one
\* that is completed was remembered as it says.
TasksAreHonest == TasksTellTheTruth /\ WorkingIsWorkedOn

\* A memory is kept for every event that deserves one, and none twice.
OneMemoryEach == RememberedOnce /\ FirstIsRemembered
=============================================================================
