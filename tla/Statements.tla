----------------------------- MODULE Statements -----------------------------
(***************************************************************************)
(* What a driver's execute makes of the text it is given (the execute and  *)
(* run functions of src/native/src/drivers/).  A text is a BATCH of        *)
(* statements; the engine runs some of them, the driver shows the rows of  *)
(* some of those, or a count.  Every driver does that in its own way, and  *)
(* the client sees only the answer.                                        *)
(***************************************************************************)
EXTENDS Naturals, Sequences, SequencesExt

CONSTANTS MaxBatch,    \* bound: statements in a text
          MaxRows      \* bound: rows of a statement, or rows it changes

ASSUME TextsAssumption == MaxBatch \in Nat /\ MaxRows \in Nat

(* "rows": a query with n rows.  "tally": a query with one row and one      *)
(* column that happens to be called Count, saying n.  "count": an INSERT,   *)
(* UPDATE or DELETE that changed n rows; "merge": the same, by a MERGE.     *)
(* "ddl": neither rows nor a count.  "bad": the engine refuses it.          *)
Stmt == [does : {"rows", "tally", "count", "merge"}, n : 0..MaxRows]
          \cup [does : {"ddl", "bad"}, n : {0}]

Batches == BoundedSeq(Stmt, MaxBatch) \ {<<>>}

Queries == {"rows", "tally"}
Changes == {"count", "merge"}

RowsOf(b, i) == CASE b[i].does = "rows" -> [k \in 1..b[i].n |-> <<i, k>>]
                  [] b[i].does = "tally" -> <<<<i, 1>>>>
                  [] OTHER -> <<>>

\* The count in the engine's completion message.
Count(b, i) == CASE b[i].does = "tally" -> 1
                 [] OTHER -> b[i].n

Bad(b) == {i \in DOMAIN b : b[i].does = "bad"}

\* An engine works through a text until a statement fails.
Runs(b) == {i \in DOMAIN b : \A j \in Bad(b) : i < j}

(* of: the statement whose columns head the grid, 0 for a grid without      *)
(* columns; affected: empty, or the one count; ran: what the engine ran.    *)
Shown(of, rows, affected, ran) ==
  [ok |-> TRUE, of |-> of, rows |-> rows, affected |-> affected, ran |-> ran]

Refused(ran) == [Shown(0, <<>>, {}, ran) EXCEPT !.ok = FALSE]

-----------------------------------------------------------------------------
\* The simple protocol reports everything; all rows land in one grid.
PgExecute(b) ==
  LET rows == FlattenSeq([i \in DOMAIN b |-> RowsOf(b, i)])
  IN IF Bad(b) # {} THEN Refused(Runs(b))
     ELSE IF rows = <<>> THEN Shown(0, rows, {Count(b, Len(b))}, Runs(b))
     ELSE Shown(rows[1][1], rows, {}, Runs(b))

\* Only the first result set is read; the engine works on.
MysqlExecute(b) ==
  LET rows == RowsOf(b, 1)
  IN IF 1 \in Bad(b) THEN Refused(Runs(b))
     ELSE Shown(IF b[1].does \in Queries THEN 1 ELSE 0, rows,
                IF rows = <<>> THEN {Count(b, 1)} ELSE {}, Runs(b))

\* sqlite's own memory: the rows changed by the last INSERT, UPDATE or DELETE
\* it ran on this connection.
SqliteChanges(b, ran, before) ==
  LET did == {i \in ran : b[i].does \in Changes}
  IN IF did = {} THEN before ELSE b[CHOOSE i \in did : \A j \in did : j <= i].n

\* Bug: only the prepared statement is run.
SqliteExecute_First(b, before) ==
  IF 1 \in Bad(b) THEN Refused({})
  ELSE IF b[1].does \in Queries THEN Shown(1, RowsOf(b, 1), {}, {1})
  ELSE Shown(0, <<>>, {SqliteChanges(b, {1}, before)}, {1})

\* prepare looks at the first statement only.
SqliteExecute(b, before) ==
  IF 1 \in Bad(b) THEN Refused({})
  ELSE IF b[1].does \in Queries THEN Shown(1, RowsOf(b, 1), {}, {1})
  ELSE IF Bad(b) # {} THEN Refused(Runs(b))
  ELSE Shown(0, <<>>, {SqliteChanges(b, Runs(b), before)}, Runs(b))

\* Bug: the keyword is not looked at.
DuckdbExecute_AnyCount(b) ==
  LET n == Len(b)
  IN IF Bad(b) # {} THEN Refused(Runs(b))
     ELSE IF b[n].does = "ddl" THEN Shown(0, <<>>, {0}, Runs(b))
     ELSE IF b[n].does \in Changes \cup {"tally"} THEN Shown(0, <<>>, {b[n].n}, Runs(b))
     ELSE Shown(n, RowsOf(b, n), {}, Runs(b))

\* Everything runs, the last statement answers; a change answers with a grid
\* of one Count, which is turned back into a count when the text begins with
\* one of three six-letter keywords (MERGE is compared with six letters too).
DuckdbExecute(b) ==
  LET n == Len(b)
      is_mutation == b[1].does = "count"
  IN IF Bad(b) # {} THEN Refused(Runs(b))
     ELSE IF b[n].does = "ddl" THEN Shown(0, <<>>, {0}, Runs(b))
     ELSE IF is_mutation /\ b[n].does \in Changes \cup {"tally"}
     THEN Shown(0, <<>>, {b[n].n}, Runs(b))
     ELSE Shown(n, IF b[n].does \in Changes THEN <<<<n, 1>>>> ELSE RowsOf(b, n), {}, Runs(b))

\* The last result set with a row in it.
MssqlExecute(b) ==
  LET full == {i \in DOMAIN b : RowsOf(b, i) # <<>>}
      last == CHOOSE i \in full : \A j \in full : j <= i
  IN IF Bad(b) # {} THEN Refused(Runs(b))
     ELSE IF full = {} THEN Shown(0, <<>>, {}, Runs(b))
     ELSE Shown(last, RowsOf(b, last), {}, Runs(b))

\* These engines take one statement at a time and refuse a longer text.
Alone(b) == Len(b) = 1 /\ Bad(b) = {}

CqlExecute(b) ==
  IF Alone(b) THEN Shown(IF b[1].does \in Queries THEN 1 ELSE 0, RowsOf(b, 1), {}, {1})
              ELSE Refused({})

ClickhouseExecute(b) == CqlExecute(b)

\* As a cursor first, then as a command; columns come from the first row.
FirebirdExecute(b) ==
  IF Alone(b) THEN Shown(IF RowsOf(b, 1) # <<>> THEN 1 ELSE 0, RowsOf(b, 1), {}, {1})
              ELSE Refused({})

\* find and aggregate answer with documents, any other command with one.
MongoExecute(b) ==
  IF Alone(b) THEN Shown(1, IF b[1].does = "rows" THEN RowsOf(b, 1) ELSE <<<<1, 1>>>>, {}, {1})
              ELSE Refused({})

\* What the first answer of the service holds: of a long result the first
\* partition, of a statement that takes its time nothing yet, not even columns;
\* a change or a DDL statement answers with a grid of one row.
SnowflakeExecute(b) ==
  LET rows == MongoExecute(b).rows
      first == IF rows = <<>> THEN {0} ELSE 1..Len(rows)
  IN IF Alone(b) THEN {Shown(1, SubSeq(rows, 1, n), {}, {1}) : n \in first}
                        \cup {Shown(0, <<>>, {}, {1})}
                 ELSE {Refused({})}

\* A text is split at white space, ends of lines included, and sent as ONE command:
\* the statements behind the first are further arguments of it.  The server may
\* refuse them, or take them and answer with one value, or with a list in which
\* they have their share.  (A reply is a list, or one value: render gives either
\* a grid.)
RedisExecute(b) ==
  LET swallowed == [i \in 1..(Len(b) - 1) |-> <<i + 1, 1>>]
  IN IF Len(b) = 1 THEN {MongoExecute(b)}
     ELSE {Refused({}), Shown(1, <<<<1, 1>>>>, {}, {1}),
           Shown(1, RowsOf(b, 1) \o swallowed, {}, {1})}

\* The answers a driver may give.
Execute(kind, b, changes) ==
  CASE kind \in {"postgres", "cockroachdb"} -> {PgExecute(b)}
    [] kind \in {"mysql", "mariadb"} -> {MysqlExecute(b)}
    [] kind = "sqlite" -> {SqliteExecute(b, changes)}
    [] kind = "duckdb" -> {DuckdbExecute(b)}
    [] kind = "sqlserver" -> {MssqlExecute(b)}
    [] kind \in {"cassandra", "scylla"} -> {CqlExecute(b)}
    [] kind = "clickhouse" -> {ClickhouseExecute(b)}
    [] kind = "snowflake" -> SnowflakeExecute(b)
    [] kind = "firebird" -> {FirebirdExecute(b)}
    [] kind = "mongodb" -> {MongoExecute(b)}
    [] OTHER -> RedisExecute(b)
=============================================================================
