------------------------------- MODULE LocalDb -------------------------------
(***************************************************************************)
(* The database in the process (services/localdb.py: LocalClient,          *)
(* _LocalQuery.execute, _LocalRpc.execute).                                *)
(*                                                                         *)
(* All threads share one connection and one lock, which a call holds from  *)
(* its first statement to its commit or rollback.  A batch of rows is one  *)
(* statement for each row in one transaction.  What the connection sees    *)
(* and what the disk holds differ while a transaction is open; what a call *)
(* leaves open, the next commit takes along.  A table is seen through one  *)
(* unique key and one other column, on which the filters are.              *)
(***************************************************************************)
EXTENDS Faults, Sequences

CONSTANTS
    Key, Value,   \* of the table
    Bad,          \* a value no row can have: unknown column, CHECK, NOT NULL
    Absent,       \* no row
    Thread,       \* threads that call
    BatchLength   \* rows of a batch

ASSUME LocalDbAssumption ==
    /\ IsFiniteSet(Key) /\ Bad \notin Value /\ Absent \notin Value \cup {Bad}
    /\ BatchLength \in Nat \ {0}

VARIABLES
    view,     \* the table as the connection sees it
    stored,   \* the table on the disk
    owner,    \* the thread that holds _lock, its call, the rows that are done and what it found
    replied   \* the last answer to each thread

dbVars == <<view, stored, owner, replied, faults>>

Row == [key : Key, value : Value \cup {Bad}]
NoRows == [k \in Key |-> Absent]

\* What the program asks for.
Call ==
    [op : {"insert", "upsert", "ignore"}, rows : UNION {[1..n -> Row] : n \in 1..BatchLength}]
    \cup [op : {"update"}, from : Value, to : Value]
    \cup [op : {"delete", "clean"}, from : Value]
    \cup [op : {"select"}]

Nobody == [thread |-> {}, call |-> [op |-> "select"], done |-> 0, found |-> NoRows]

LocalDbInit ==
    /\ view = NoRows /\ stored = NoRows
    /\ owner = Nobody
    /\ replied = [t \in Thread |-> "none"]
    /\ faults = 0

\* execute: with self._c._lock.
BeginCall(t, c) ==
    /\ owner = Nobody
    /\ owner' = [thread |-> {t}, call |-> c, done |-> 0, found |-> view]
    /\ UNCHANGED <<view, stored, replied, faults>>

\* The end of a call: the lock is released.
Ends(word) ==
    /\ owner' = Nobody
    /\ replied' = [t \in Thread |-> IF t \in owner.thread THEN word ELSE replied[t]]

Asked == owner.call
BatchRow == Asked.rows[owner.done + 1]
IsBatch == Asked.op \in {"insert", "upsert", "ignore"}
Left == IsBatch /\ owner.done < Len(Asked.rows)

\* The next row is malformed (_cv raises) or in conflict.
Refused ==
    \/ BatchRow.value = Bad
    \/ Asked.op = "insert" /\ view[BatchRow.key] # Absent

\* INSERT of one row, with ON CONFLICT as the call says.
StoreRow ==
    /\ owner # Nobody /\ Left /\ ~Refused
    /\ view' = [view EXCEPT ![BatchRow.key] =
                  IF Asked.op = "ignore" /\ @ # Absent THEN @ ELSE BatchRow.value]
    /\ owner' = [owner EXCEPT !.done = @ + 1]
    /\ UNCHANGED <<stored, replied, faults>>

\* What UPDATE and DELETE make of the table; a batch has been stored by now.
Changed ==
    CASE Asked.op = "update" -> [k \in Key |-> IF view[k] = Asked.from THEN Asked.to ELSE view[k]]
      [] Asked.op \in {"delete", "clean"} -> [k \in Key |-> IF view[k] = Asked.from THEN Absent ELSE view[k]]
      [] OTHER -> view

Select ==
    /\ owner # Nobody /\ Asked.op = "select"
    /\ Ends("ok")
    /\ UNCHANGED <<view, stored, faults>>

Commit ==
    /\ owner # Nobody /\ Asked.op # "select" /\ ~Left
    /\ view' = Changed /\ stored' = view'
    /\ Ends("ok")
    /\ UNCHANGED faults

\* Variant: only a conflict is rolled back.
RollBackConflict == IF Left /\ BatchRow.value = Bad THEN view ELSE stored

RolledBack == stored

\* execute's two handlers: whatever is raised, by a row or by the engine, the
\* transaction is rolled back.
Raise ==
    /\ owner # Nobody /\ Asked.op # "clean"
    /\ \/ Left /\ Refused /\ UNCHANGED faults
       \/ Fault
    /\ view' = RolledBack
    /\ Ends("error")
    /\ UNCHANGED stored

\* _LocalRpc.execute has no handler: when its commit fails, its DELETE stays in
\* the open transaction.
CleanFails ==
    /\ owner # Nobody /\ Asked.op = "clean"
    /\ Fault
    /\ view' \in {view, Changed}
    /\ Ends("error")
    /\ UNCHANGED stored

\* The process dies; callers that wait get no answer.
DbCrash ==
    /\ Fault
    /\ view' = stored
    /\ owner' = Nobody
    /\ UNCHANGED <<stored, replied>>

LocalDbNext ==
    \/ \E t \in Thread, c \in Call : BeginCall(t, c)
    \/ StoreRow \/ Select \/ Commit \/ Raise \/ CleanFails \/ DbCrash

LocalDbSpec == LocalDbInit /\ [][LocalDbNext]_dbVars
-----------------------------------------------------------------------------
(* Properties *)

Calls == INSTANCE TableCalls WITH
    table <- IF owner = Nobody THEN view ELSE owner.found,
    kept <- stored, answer <- replied

\* Every call is all or nothing, as its caller is told, although batches are
\* stored row by row and a row in the middle may be refused (localdb.py:723-729).
CallsAreWhole == Calls!TableSpec
=============================================================================
