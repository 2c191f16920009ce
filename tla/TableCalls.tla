------------------------------ MODULE TableCalls ------------------------------
(***************************************************************************)
(* What a caller may expect of the database in the process: a call takes   *)
(* effect as a whole and is answered "ok", and its effect is then durable, *)
(* or it has no effect and is answered "error" (localdb.py:723-729),       *)
(* whatever other threads do and whenever the process dies.  The clean-up  *)
(* procedure is the exception: answered "error", it may have deleted rows  *)
(* for the time being.                                                     *)
(***************************************************************************)
EXTENDS Naturals, Sequences

CONSTANTS Key, Thread, Call, Bad, Absent

VARIABLES
    table,   \* value of the row with each unique key, or Absent
    kept,    \* what a crash leaves of it
    answer   \* the last answer to each thread

tableVars == <<table, kept, answer>>

TableInit ==
    /\ table = [k \in Key |-> Absent]
    /\ kept = table
    /\ answer = [t \in Thread |-> "none"]

Batch == {"insert", "upsert", "ignore"}
Positions(c, k) == {i \in DOMAIN c.rows : c.rows[i].key = k}
FirstRow(c, k) == c.rows[CHOOSE i \in Positions(c, k) : \A j \in Positions(c, k) : i <= j]
LastRow(c, k) == c.rows[CHOOSE i \in Positions(c, k) : \A j \in Positions(c, k) : j <= i]

\* A batch is accepted or refused as a whole: no row is malformed, and an
\* insert finds none of its keys and names none twice.
Accepted(c) ==
    c.op \in Batch =>
        \A i \in DOMAIN c.rows :
            /\ c.rows[i].value # Bad
            /\ c.op = "insert" => /\ table[c.rows[i].key] = Absent
                                  /\ Positions(c, c.rows[i].key) = {i}

ValueAfter(c, k) ==
    CASE c.op \in {"insert", "upsert"} /\ Positions(c, k) # {} -> LastRow(c, k).value
      [] c.op = "ignore" /\ Positions(c, k) # {} /\ table[k] = Absent -> FirstRow(c, k).value
      [] c.op = "update" /\ table[k] = c.from -> c.to
      [] c.op \in {"delete", "clean"} /\ table[k] = c.from -> Absent
      [] OTHER -> table[k]

Effect(c) == [k \in Key |-> ValueAfter(c, k)]
Answers(t, word) == answer' = [answer EXCEPT ![t] = word]

Succeeds(t, c) ==
    /\ Accepted(c)
    /\ table' = Effect(c)
    /\ kept' = IF c.op = "select" THEN kept ELSE table'
    /\ Answers(t, "ok")

Fails(t, c) ==
    /\ IF c.op = "clean" THEN table' \in {table, Effect(c)} ELSE table' = kept
    /\ UNCHANGED kept
    /\ Answers(t, "error")

Dies == table' = kept /\ UNCHANGED <<kept, answer>>

\* That nothing happens comes first: the cheapest case for a checker.
TableNext ==
    \/ UNCHANGED tableVars
    \/ \E t \in Thread, c \in Call : Succeeds(t, c) \/ Fails(t, c)
    \/ Dies

TableSpec == TableInit /\ [][TableNext]_tableVars
=============================================================================
