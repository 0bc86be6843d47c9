------------------------- MODULE DriverSession_proofs -------------------------
(***************************************************************************)
(* A connection in use.  A session is an attempt of Connecting that is     *)
(* also used (SessionKeepsLink), so what Connecting_proofs shows of links  *)
(* holds of it; and what a session answers is right whatever is asked:     *)
(* texts (TextsRunWhole, AnswersHonest), values (ValuesArrive) and the     *)
(* catalog (TreesComplete, ObjectsDescribed, IndexesInOrder).              *)
(*                                                                         *)
(* Each of these is an invariant of the answer alone, Statement, Value and *)
(* Inquiry: it is established where the request is answered, from a lemma  *)
(* about the operator that computes the answer, and it lasts because       *)
(* neither the link nor the current database moves before Forget.          *)
(***************************************************************************)
EXTENDS DriverSession, Catalog_proofs, Connecting_proofs, Cells_proofs

---------------------------------------------------------------------------
(* The link under use.                                                     *)

\* Using a connection never moves its link.
LEMMA UseKeepsLink == Use => UNCHANGED vars
BY DEF Use, RunBatch, ShowTree, ListColumns, ListIndexes, ShowDdl, UseDatabase, ReadCell,
       Forget, Ask

\* A session's link is an attempt of Connecting: whatever statements, schema
\* requests and cells go over it, it keeps every promise proved of it there.
THEOREM SessionKeepsLink == SessionSpec => Spec
<1>1. SessionInit => Init
  BY DEF SessionInit
<1>2. [SessionNext]_allVars => [Next]_vars
  <2>1. Use => UNCHANGED vars
    BY UseKeepsLink
  <2>2. LinkStep => Next
    BY DEF LinkStep
  <2>3. UNCHANGED allVars => UNCHANGED vars
    BY DEF allVars
  <2> QED BY <2>1, <2>2, <2>3 DEF SessionNext
<1> QED BY <1>1, <1>2, PTL DEF SessionSpec, Spec

---------------------------------------------------------------------------
(* Statements.                                                             *)

\* A text has a first statement, and a last.
LEMMA TextType ==
  ASSUME NEW b \in Batches
  PROVE  /\ Len(b) \in Nat \ {0} /\ DOMAIN b = 1..Len(b)
         /\ 1 \in DOMAIN b /\ Len(b) \in DOMAIN b
         /\ \A i \in DOMAIN b : b[i] \in Stmt
<1>1. PICK m \in 0..MaxBatch : b \in [1..m -> Stmt]
  BY DEF Batches, BoundedSeq, SeqOf
<1>2. m \in Nat /\ Len(b) = m /\ DOMAIN b = 1..m
  BY <1>1, TextsAssumption
<1>3. m # 0
  BY <1>1, <1>2 DEF Batches
<1> QED BY <1>1, <1>2, <1>3

\* Without a failing statement the engine works through the whole text.
LEMMA AllRun == ASSUME NEW b, Bad(b) = {} PROVE Runs(b) = DOMAIN b
BY DEF Runs

\* A text taken alone is its one statement.
LEMMA OneRuns == ASSUME NEW b \in Batches, Alone(b) PROVE DOMAIN b = {1} /\ Bad(b) = {}
BY TextType DEF Alone

\* Only a query has rows.
LEMMA RowsOfQuery ==
  ASSUME NEW b, NEW i, b[i].does \notin Queries
  PROVE  RowsOf(b, i) = <<>>
BY DEF RowsOf, Queries

\* An answer without an error stands for the whole text.
Whole(kind, b, got) ==
  \/ ~got.ok
  \/ got.ran = DOMAIN b
  \/ kind = "sqlite" /\ b[1].does \in Queries
  \/ kind \in {"mysql", "mariadb"} /\ Bad(b) # {}
  \/ kind = "redis" /\ Len(b) > 1

\* Its rows, or its count, are those of one statement.
Honest(kind, b, got) ==
  got.ok =>
    /\ got.rows # <<>> /\ kind \notin {"postgres", "cockroachdb"}
                       /\ (kind = "redis" => Len(b) = 1)
         => /\ got.of > 0
            /\ b[got.of].does \in Queries
                 => \/ got.rows = RowsOf(b, got.of)
                    \/ kind = "snowflake" /\ IsPrefix(got.rows, RowsOf(b, got.of))
    /\ got.affected # {} => got.rows = <<>>
    /\ got.affected # {} /\ kind # "sqlite"
         => \/ \E i \in DOMAIN b : got.affected = {Count(b, i)}
            \/ /\ kind = "duckdb"
               /\ b[1].does = "count" /\ b[Len(b)].does = "tally"

Sound(kind, b, got) == Whole(kind, b, got) /\ Honest(kind, b, got)

\* An error claims nothing.
LEMMA ErrorSound ==
  \A kind, b, ran : Sound(kind, b, Refused(ran))
<1>1. \A ran : ~Refused(ran).ok
  BY DEF Refused, Shown
<1> QED BY <1>1 DEF Sound, Whole, Honest

\* What an answer shows of a text.
LEMMA ShownSound ==
  ASSUME NEW kind, NEW b, NEW of, NEW rows, NEW affected, NEW ran,
         \/ ran = DOMAIN b
         \/ kind = "sqlite" /\ b[1].does \in Queries
         \/ kind \in {"mysql", "mariadb"} /\ Bad(b) # {}
         \/ kind = "redis" /\ Len(b) > 1,
         rows # <<>> /\ kind \notin {"postgres", "cockroachdb"} /\ (kind = "redis" => Len(b) = 1)
           => /\ of > 0
              /\ b[of].does \in Queries
                   => \/ rows = RowsOf(b, of)
                      \/ kind = "snowflake" /\ IsPrefix(rows, RowsOf(b, of)),
         affected # {} => rows = <<>>,
         affected # {} /\ kind # "sqlite"
           => \/ \E i \in DOMAIN b : affected = {Count(b, i)}
              \/ kind = "duckdb" /\ b[1].does = "count" /\ b[Len(b)].does = "tally"
  PROVE  Sound(kind, b, Shown(of, rows, affected, ran))
<1> DEFINE got == Shown(of, rows, affected, ran)
<1>1. /\ got.of = of /\ got.rows = rows /\ got.ok
      /\ got.affected = affected /\ got.ran = ran
  BY DEF Shown
<1> HIDE DEF got
<1>2. Whole(kind, b, got)
  BY <1>1 DEF Whole
<1>3. Honest(kind, b, got)
  BY <1>1 DEF Honest
<1> QED BY <1>2, <1>3 DEF Sound, got

\* PostgreSQL tells of every statement; a count is the last one's.
LEMMA PgAnswer ==
  ASSUME NEW b \in Batches, NEW kind \in {"postgres", "cockroachdb"}
  PROVE  Sound(kind, b, PgExecute(b))
<1> DEFINE rows == FlattenSeq([i \in DOMAIN b |-> RowsOf(b, i)])
<1>1. PgExecute(b) = IF Bad(b) # {} THEN Refused(Runs(b))
                     ELSE IF rows = <<>> THEN Shown(0, rows, {Count(b, Len(b))}, Runs(b))
                     ELSE Shown(rows[1][1], rows, {}, Runs(b))
  BY DEF PgExecute
<1> HIDE DEF rows
<1>2. Len(b) \in DOMAIN b
  BY TextType
<1>3. CASE Bad(b) # {}
  BY <1>1, <1>3, ErrorSound
<1>4. CASE Bad(b) = {} /\ rows = <<>>
  <2>1. Sound(kind, b, Shown(0, rows, {Count(b, Len(b))}, Runs(b)))
    BY <1>2, <1>4, AllRun, ShownSound
  <2> QED BY <1>1, <1>4, <2>1
<1>5. CASE Bad(b) = {} /\ rows # <<>>
  <2>1. Sound(kind, b, Shown(rows[1][1], rows, {}, Runs(b)))
    BY <1>5, AllRun, ShownSound
  <2> QED BY <1>1, <1>5, <2>1
<1> QED BY <1>3, <1>4, <1>5

\* MySQL reads the first result and lets the server work on.
LEMMA MysqlAnswer ==
  ASSUME NEW b \in Batches, NEW kind \in {"mysql", "mariadb"}
  PROVE  Sound(kind, b, MysqlExecute(b))
<1> DEFINE rows == RowsOf(b, 1)
           of == IF b[1].does \in Queries THEN 1 ELSE 0
           affected == IF rows = <<>> THEN {Count(b, 1)} ELSE {}
<1>1. 1 \in DOMAIN b /\ (rows # <<>> => b[1].does \in Queries)
  BY TextType, RowsOfQuery
<1>2. MysqlExecute(b) = IF 1 \in Bad(b) THEN Refused(Runs(b))
                        ELSE Shown(of, rows, affected, Runs(b))
  BY DEF MysqlExecute
<1>3. /\ affected # {} => rows = <<>> /\ affected = {Count(b, 1)}
      /\ rows # <<>> => of = 1 /\ of > 0 /\ rows = RowsOf(b, of)
  BY <1>1
<1> HIDE DEF rows, of, affected
<1>4. Sound(kind, b, Shown(of, rows, affected, Runs(b)))
  BY <1>1, <1>3, AllRun, ShownSound
<1> QED BY <1>2, <1>4, ErrorSound

\* sqlite runs the first statement if it has columns, else all of them.
LEMMA SqliteAnswer ==
  ASSUME NEW b \in Batches, NEW before
  PROVE  Sound("sqlite", b, SqliteExecute(b, before))
<1>1. CASE 1 \in Bad(b)
  BY <1>1, ErrorSound DEF SqliteExecute
<1>2. CASE 1 \notin Bad(b) /\ b[1].does \in Queries
  <2>1. Sound("sqlite", b, Shown(1, RowsOf(b, 1), {}, {1}))
    BY <1>2, ShownSound
  <2> QED BY <1>2, <2>1 DEF SqliteExecute
<1>3. CASE 1 \notin Bad(b) /\ b[1].does \notin Queries
  <2> DEFINE affected == {SqliteChanges(b, Runs(b), before)}
  <2> HIDE DEF affected
  <2>1. Bad(b) = {} => Sound("sqlite", b, Shown(0, <<>>, affected, Runs(b)))
    BY AllRun, ShownSound
  <2> QED BY <1>3, <2>1, ErrorSound DEF SqliteExecute, affected
<1> QED BY <1>1, <1>2, <1>3

\* DuckDB answers with the last statement.
LEMMA DuckdbAnswer ==
  ASSUME NEW b \in Batches
  PROVE  Sound("duckdb", b, DuckdbExecute(b))
<1> DEFINE n == Len(b)
           change == b[1].does = "count" /\ b[n].does \in Changes \cup {"tally"}
           rows == IF b[n].does \in Changes THEN <<<<n, 1>>>> ELSE RowsOf(b, n)
<1>1. n \in DOMAIN b /\ n > 0 /\ b[n] \in Stmt
  BY TextType
<1>2. b[n].does = "ddl" => Count(b, n) = 0
  BY <1>1 DEF Stmt, Count
<1>3. b[n].does \in Changes => Count(b, n) = b[n].n /\ b[n].does \notin Queries
  BY DEF Changes, Queries, Count
<1>4. DuckdbExecute(b) = IF Bad(b) # {} THEN Refused(Runs(b))
                         ELSE IF b[n].does = "ddl" THEN Shown(0, <<>>, {0}, Runs(b))
                         ELSE IF change THEN Shown(0, <<>>, {b[n].n}, Runs(b))
                         ELSE Shown(n, rows, {}, Runs(b))
  BY DEF DuckdbExecute
<1>5. b[n].does \in Queries => rows = RowsOf(b, n)
  BY <1>3
<1>6. Bad(b) = {} => Runs(b) = DOMAIN b
  BY AllRun
<1>7. change => \/ {b[n].n} = {Count(b, n)}
                \/ b[1].does = "count" /\ b[Len(b)].does = "tally"
  BY <1>3
<1> HIDE DEF rows, change
<1>8. b[n].does = "ddl" /\ Bad(b) = {} => Sound("duckdb", b, Shown(0, <<>>, {0}, Runs(b)))
  BY <1>1, <1>2, <1>6, ShownSound
<1>9. change /\ Bad(b) = {} => Sound("duckdb", b, Shown(0, <<>>, {b[n].n}, Runs(b)))
  BY <1>1, <1>6, <1>7, ShownSound
<1>10. Bad(b) = {} => Sound("duckdb", b, Shown(n, rows, {}, Runs(b)))
  BY <1>1, <1>5, <1>6, ShownSound
<1> QED BY <1>4, <1>8, <1>9, <1>10, ErrorSound

\* Where one statement is taken at a time, its rows are the answer.
LEMMA AloneAnswer ==
  ASSUME NEW b \in Batches, NEW kind
  PROVE  /\ Sound(kind, b, CqlExecute(b))
         /\ Sound(kind, b, FirebirdExecute(b))
         /\ Sound(kind, b, MongoExecute(b))
<1> DEFINE rows == RowsOf(b, 1)
           one == <<<<1, 1>>>>
<1>1. Alone(b) => DOMAIN b = {1}
  BY OneRuns
<1>2. /\ rows # <<>> => b[1].does \in Queries
      /\ b[1].does \in Queries /\ b[1].does # "rows" => rows = one
  BY RowsOfQuery DEF Queries, RowsOf
<1> HIDE DEF rows
<1>3. \A of : (rows # <<>> => of = 1) /\ Alone(b) => Sound(kind, b, Shown(of, rows, {}, {1}))
  <2> TAKE of
  <2>1. HAVE (rows # <<>> => of = 1) /\ Alone(b)
  <2>2. rows # <<>> => of > 0 /\ (b[of].does \in Queries => rows = RowsOf(b, of))
    BY <2>1 DEF rows
  <2> QED BY <1>1, <2>1, <2>2, ShownSound
<1>4. Alone(b) => Sound(kind, b, Shown(1, IF b[1].does = "rows" THEN rows ELSE one, {}, {1}))
  <2> DEFINE all == IF b[1].does = "rows" THEN rows ELSE one
  <2>1. b[1].does \in Queries => all = RowsOf(b, 1)
    BY <1>2 DEF rows
  <2> HIDE DEF all
  <2>2. Alone(b) => Sound(kind, b, Shown(1, all, {}, {1}))
    BY <1>1, <2>1, ShownSound
  <2> QED BY <2>2 DEF all
<1>5. Sound(kind, b, CqlExecute(b))
  <2>1. rows # <<>> => (IF b[1].does \in Queries THEN 1 ELSE 0) = 1
    BY <1>2
  <2> QED BY <1>3, <2>1, ErrorSound DEF CqlExecute, rows
<1>6. Sound(kind, b, FirebirdExecute(b))
  BY <1>3, ErrorSound DEF FirebirdExecute, rows
<1>7. Sound(kind, b, MongoExecute(b))
  BY <1>4, ErrorSound DEF MongoExecute, rows
<1> QED BY <1>5, <1>6, <1>7

\* The first rows of a result are a prefix of it.
LEMMA FrontIsPrefix ==
  ASSUME NEW S, NEW s \in Seq(S), NEW n \in 0..Len(s)
  PROVE  IsPrefix(SubSeq(s, 1, n), s)
<1>1. /\ Len(SubSeq(s, 1, n)) = n
      /\ SubSeq(SubSeq(s, 1, n), 1, n) = SubSeq(s, 1, n)
  OBVIOUS
<1> QED BY <1>1 DEF IsPrefix

\* Snowflake's first answer has the first rows of its one statement.
LEMMA SnowflakeAnswer ==
  ASSUME NEW b \in Batches, NEW got \in SnowflakeExecute(b)
  PROVE  Sound("snowflake", b, got)
<1> DEFINE rows == MongoExecute(b).rows
           first == IF rows = <<>> THEN {0} ELSE 1..Len(rows)
           part(n) == SubSeq(rows, 1, n)
<1>1. SnowflakeExecute(b) = IF Alone(b) THEN {Shown(1, part(n), {}, {1}) : n \in first}
                                                \cup {Shown(0, <<>>, {}, {1})}
                                        ELSE {Refused({})}
  BY DEF SnowflakeExecute
<1>2. ASSUME Alone(b), b[1].does \in Queries PROVE rows = RowsOf(b, 1)
  <2>1. rows = IF b[1].does = "rows" THEN RowsOf(b, 1) ELSE <<<<1, 1>>>>
    BY <1>2 DEF MongoExecute, Shown
  <2>2. b[1].does # "rows" => RowsOf(b, 1) = <<<<1, 1>>>>
    BY <1>2 DEF RowsOf, Queries
  <2> QED BY <2>1, <2>2
<1>3. ASSUME Alone(b) PROVE rows \in Seq(Nat \X Nat)
  <2>1. rows = IF b[1].does = "rows" THEN RowsOf(b, 1) ELSE <<<<1, 1>>>>
    BY <1>3 DEF MongoExecute, Shown
  <2>2. b[1].n \in Nat
    BY TextType, TextsAssumption DEF Stmt
  <2>3. b[1].does = "rows" => RowsOf(b, 1) = [k \in 1..b[1].n |-> <<1, k>>]
    BY DEF RowsOf
  <2>4. \A n \in Nat : [k \in 1..n |-> <<1, k>>] \in Seq(Nat \X Nat)
    OBVIOUS
  <2>5. <<<<1, 1>>>> \in Seq(Nat \X Nat)
    OBVIOUS
  <2> HIDE DEF rows
  <2>6. CASE b[1].does = "rows"
    <3>1. PICK n \in Nat : n = b[1].n
      BY <2>2
    <3>2. rows = [k \in 1..n |-> <<1, k>>]
      BY <2>1, <2>3, <2>6, <3>1
    <3> QED BY <2>4, <3>2
  <2>7. CASE b[1].does # "rows"
    BY <2>1, <2>5, <2>7
  <2> QED BY <2>6, <2>7
<1> HIDE DEF rows
<1>4. ASSUME Alone(b), NEW n \in first PROVE Sound("snowflake", b, Shown(1, part(n), {}, {1}))
  <2>1. n \in 0..Len(rows)
    BY <1>3, <1>4
  <2>2. IsPrefix(part(n), rows)
    BY <1>3, <1>4, <2>1, FrontIsPrefix
  <2>3. b[1].does \in Queries => IsPrefix(part(n), RowsOf(b, 1))
    BY <1>2, <1>4, <2>2
  <2> HIDE DEF part
  <2> QED BY <1>4, <2>3, OneRuns, ShownSound
<1>5. Alone(b) => Sound("snowflake", b, Shown(0, <<>>, {}, {1}))
  BY OneRuns, ShownSound
<1> HIDE DEF part, first
<1> QED BY <1>1, <1>4, <1>5, ErrorSound

\* Redis answers one line's text, and of a longer one nothing is said.
LEMMA RedisAnswer ==
  ASSUME NEW b \in Batches, NEW got \in RedisExecute(b)
  PROVE  Sound("redis", b, got)
<1> DEFINE one == <<<<1, 1>>>>
           list == RowsOf(b, 1) \o [i \in 1..(Len(b) - 1) |-> <<i + 1, 1>>]
<1>1. RedisExecute(b) = IF Len(b) = 1 THEN {MongoExecute(b)}
                        ELSE {Refused({}), Shown(1, one, {}, {1}), Shown(1, list, {}, {1})}
  BY DEF RedisExecute
<1> HIDE DEF one, list
<1>2. CASE Len(b) = 1
  BY <1>1, <1>2, AloneAnswer
<1>3. CASE Len(b) # 1
  <2>1. Len(b) > 1
    <3>1. PICK n \in Nat \ {0} : n = Len(b)
      BY TextType
    <3>2. n # 1 => n > 1
      OBVIOUS
    <3> QED BY <1>3, <3>1, <3>2
  <2>2. ASSUME NEW rows PROVE Sound("redis", b, Shown(1, rows, {}, {1}))
    <3>1. ~("redis" = "redis" => Len(b) = 1) /\ "redis" \notin {"postgres", "cockroachdb"}
      BY <1>3
    <3> QED BY <2>1, <3>1, ShownSound
  <2> QED BY <1>1, <1>3, <2>2, ErrorSound
<1> QED BY <1>2, <1>3

\* SQL Server's driver answers with the last result that has rows.
LEMMA MssqlAnswer ==
  ASSUME NEW b \in Batches, NEW kind
  PROVE  Sound(kind, b, MssqlExecute(b))
<1> DEFINE full == {i \in DOMAIN b : RowsOf(b, i) # <<>>}
           last == CHOOSE i \in full : \A j \in full : j <= i
<1>1. MssqlExecute(b) = IF Bad(b) # {} THEN Refused(Runs(b))
                        ELSE IF full = {} THEN Shown(0, <<>>, {}, Runs(b))
                        ELSE Shown(last, RowsOf(b, last), {}, Runs(b))
  BY DEF MssqlExecute
<1>2. full \in SUBSET (1..Len(b)) /\ Len(b) \in Nat
  BY TextType
<1>3. full # {} => last \in full
  BY <1>2, LastOf
<1>4. full # {} => last > 0
  BY <1>2, <1>3
<1> HIDE DEF full, last
<1>5. Bad(b) = {} => Sound(kind, b, Shown(0, <<>>, {}, Runs(b)))
  BY AllRun, ShownSound
<1>6. Bad(b) = {} /\ full # {} => Sound(kind, b, Shown(last, RowsOf(b, last), {}, Runs(b)))
  BY <1>4, AllRun, ShownSound
<1> QED BY <1>1, <1>5, <1>6, ErrorSound

\* Whatever the driver, and whichever of its answers.
LEMMA ExecuteSound ==
  ASSUME NEW b \in Batches, NEW kind \in Kinds, NEW before, NEW got \in Execute(kind, b, before)
  PROVE  Sound(kind, b, got)
<1>1. CASE kind \in {"postgres", "cockroachdb"}
  BY <1>1, PgAnswer DEF Execute
<1>2. CASE kind \in {"mysql", "mariadb"}
  BY <1>2, MysqlAnswer DEF Execute
<1>3. CASE kind \in {"sqlite", "duckdb", "sqlserver"}
  BY <1>3, SqliteAnswer, DuckdbAnswer, MssqlAnswer DEF Execute
<1>4. CASE kind \in {"cassandra", "scylla", "clickhouse", "firebird", "mongodb"}
  BY <1>4, AloneAnswer DEF Execute, ClickhouseExecute
<1>5. CASE kind = "snowflake"
  BY <1>5, SnowflakeAnswer DEF Execute
<1>6. CASE kind = "redis"
  BY <1>6, RedisAnswer DEF Execute
<1> QED BY <1>1, <1>2, <1>3, <1>4, <1>5, <1>6, KindsAre

---------------------------------------------------------------------------
(* Values.                                                                 *)

\* The variants of Value an engine's types become.
LEMMA Variants ==
  ASSUME NEW kind, NEW type \in DOMAIN CellsOf(kind)
  PROVE  LET variant == CellsOf(kind)[type]
         IN /\ variant \in {"Null", "NotFinite"} => \/ type \in {"null", "nan", "missing"}
                                                    \/ kind = "sqlserver" /\ type = "other"
            /\ type = "int" => variant \in {"Int", "Text"}
            /\ type = "big" => variant \in {"Text", "Literal"}
            /\ type = "decimal" => \/ variant \in {"Text", "Numeric", "Ext", "Literal"}
                                   \/ kind = "clickhouse"
            /\ variant = "Literal" => /\ kind \in {"cassandra", "scylla"}
                                      /\ type \in {"decimal", "big"}
            /\ type = "uint" => variant = "Unsigned" \/ kind = "clickhouse"
            /\ variant = "Unsigned" => type = "uint"
            /\ variant = "Numeric" => type = "decimal"
            /\ variant = "Lossy" => type = "uint"
<1> DEFINE variant(c) == c[type]
           Fine(c) == /\ c[type] \in {"Null", "NotFinite"} => \/ type \in {"null", "nan", "missing"}
                                                              \/ kind = "sqlserver" /\ type = "other"
                      /\ type = "int" => c[type] \in {"Int", "Text"}
                      /\ type = "big" => c[type] \in {"Text", "Literal"}
                      /\ type = "decimal" => \/ c[type] \in {"Text", "Numeric", "Ext", "Literal"}
                                             \/ kind = "clickhouse"
                      /\ c[type] = "Literal" => /\ kind \in {"cassandra", "scylla"}
                                                /\ type \in {"decimal", "big"}
                      /\ type = "uint" => c[type] = "Unsigned" \/ kind = "clickhouse"
                      /\ c[type] = "Unsigned" => type = "uint"
                      /\ c[type] = "Numeric" => type = "decimal"
                      /\ c[type] = "Lossy" => type = "uint"
<1>1. type \in DOMAIN PgCells => Fine(PgCells)
  BY DEF PgCells
<1>2. type \in DOMAIN MysqlCells => Fine(MysqlCells)
  BY DEF MysqlCells
<1>3. type \in DOMAIN SqliteCells => Fine(SqliteCells)
  BY DEF SqliteCells
<1>4. type \in DOMAIN DuckdbCells => Fine(DuckdbCells)
  BY DEF DuckdbCells
<1>5. kind = "sqlserver" /\ type \in DOMAIN MssqlCells => Fine(MssqlCells)
  BY DEF MssqlCells
<1>6. kind \in {"cassandra", "scylla"} /\ type \in DOMAIN CqlCells => Fine(CqlCells)
  BY DEF CqlCells
<1>7. type \in DOMAIN FirebirdCells => Fine(FirebirdCells)
  BY DEF FirebirdCells
<1>8. kind = "clickhouse" /\ type \in DOMAIN ClickhouseCells => Fine(ClickhouseCells)
  BY DEF ClickhouseCells
<1>9. type \in DOMAIN MongoCells => Fine(MongoCells)
  BY DEF MongoCells
<1>10. type \in DOMAIN RedisCells => Fine(RedisCells)
  BY DEF RedisCells
<1> HIDE DEF Fine
<1>11. Fine(CellsOf(kind))
  BY <1>1, <1>2, <1>3, <1>4, <1>5, <1>6, <1>7, <1>8, <1>9, <1>10 DEF CellsOf, SnowflakeCells
<1> QED BY <1>11 DEF Fine

\* A NULL is written as null, and so is a double that is no JSON number; nothing
\* else is.
LEMMA WireNull ==
  \A cell : Decoded(Serialize(cell)).json = "null" <=> cell.as \in {"Null", "NotFinite"}
BY DEF Decoded, Serialize

\* A number survives the wire and the client's double, unless it is a float's or
\* stands inside a nested value.
LEMMA WireNumber ==
  ASSUME NEW n \in Int, NEW as,
         as \in {"Null", "NotFinite", "Float", "Json"} => n = 0
  PROVE  Decoded(Serialize([as |-> as, n |-> n])).n = n
<1> DEFINE cell == [as |-> as, n |-> n]
<1>1. Double(0) = 0
  BY WidthsAssumption DEF Double, Abs
<1>2. as = "Int" => Decoded(Serialize(cell)).n = n
  BY IntegersSurvive
<1>3. as \in {"Null", "NotFinite"} => Decoded(Serialize(cell)).n = n
  BY DEF Decoded, Serialize
<1>4. as \in {"Float", "Json"} => Decoded(Serialize(cell)).n = n
  BY <1>1 DEF Decoded, Serialize
<1>5. as \notin {"Int", "Null", "NotFinite", "Float", "Json"} => Decoded(Serialize(cell)).n = n
  BY DEF Decoded, Serialize
<1> QED BY <1>2, <1>3, <1>4, <1>5

\* Every cell: its number, and whether it looks like a NULL.
LEMMA CellExact ==
  ASSUME NEW kind, NEW type \in DOMAIN CellsOf(kind), NEW n \in Numbers(type)
  PROVE  LET got == Arrives(kind, type, n)
         IN /\ \/ got.n = n
               \/ type = "nested"
               \/ kind = "clickhouse" /\ type \in {"decimal", "uint"}
               \/ kind \in {"cassandra", "scylla"} /\ type \in {"decimal", "big"}
            /\ got.json = "null" => \/ type \in {"null", "nan", "missing"}
                                    \/ kind = "sqlserver" /\ type = "other"
<1> DEFINE variant == CellsOf(kind)[type]
           cell == Cell(kind, type, n)
           got == Decoded(Serialize(cell))
<1>1. n \in Int /\ (type \notin {"int", "uint", "decimal", "big", "nested"} => n = 0)
  BY WidthsAssumption, SessionAssumption DEF Numbers, Int64, UInt64
<1>2. Spelled(numeric_text(n, Base), Base) = n
  BY <1>1, NumericTextExact, WidthsAssumption
<1>3. /\ variant = "Unsigned" => cell \in {[as |-> "Int", n |-> n], [as |-> "Text", n |-> n]}
      /\ variant = "Lossy" => cell.as \in {"Int", "Float"}
      /\ variant = "Numeric" => cell = [as |-> "Text", n |-> n]
      /\ variant = "Float" => cell = [as |-> "Float", n |-> Double(n)]
      /\ variant = "Literal" => cell = [as |-> "Text", n |-> 0]
      /\ variant \notin {"Unsigned", "Lossy", "Numeric", "Float", "Literal"}
           => cell = [as |-> variant, n |-> n]
  BY <1>2 DEF Cell
<1>4. /\ variant \in {"Null", "NotFinite"} => \/ type \in {"null", "nan", "missing"}
                                              \/ kind = "sqlserver" /\ type = "other"
      /\ type = "int" => variant \in {"Int", "Text"}
      /\ type = "big" => variant \in {"Text", "Literal"}
      /\ type = "decimal" => variant \in {"Text", "Numeric", "Ext", "Literal"} \/ kind = "clickhouse"
      /\ variant = "Literal" => kind \in {"cassandra", "scylla"} /\ type \in {"decimal", "big"}
      /\ type = "uint" => variant = "Unsigned" \/ kind = "clickhouse"
      /\ variant = "Unsigned" => type = "uint"
      /\ variant = "Numeric" => type = "decimal"
      /\ variant = "Lossy" => type = "uint"
  BY Variants
<1>5. Double(0) = 0
  BY WidthsAssumption DEF Double, Abs
<1> HIDE DEF variant, cell
<1>6. got.json = "null" => variant \in {"Null", "NotFinite"}
  <2>1. cell.as \in {"Null", "NotFinite"} => variant \in {"Null", "NotFinite"}
    BY <1>3
  <2> QED BY <2>1, WireNull
<1>7. ASSUME type # "nested", ~(kind = "clickhouse" /\ type \in {"decimal", "uint"}),
             ~(kind \in {"cassandra", "scylla"} /\ type \in {"decimal", "big"})
      PROVE  got.n = n
  <2>1. variant \in {"Null", "NotFinite", "Float", "Json"} => n = 0
    BY <1>1, <1>4, <1>7
  <2>2. \E as : cell = [as |-> as, n |-> n] /\ (as \in {"Null", "NotFinite", "Float", "Json"} => n = 0)
    <3>1. variant \notin {"Lossy", "Literal"}
      BY <1>4, <1>7
    <3>2. CASE variant = "Unsigned"
      BY <1>3, <3>2
    <3>3. CASE variant = "Numeric"
      BY <1>3, <3>3
    <3>4. CASE variant = "Float"
      BY <1>3, <1>5, <2>1, <3>4
    <3>5. CASE variant \notin {"Unsigned", "Lossy", "Numeric", "Float", "Literal"}
      BY <1>3, <2>1, <3>5
    <3> QED BY <3>1, <3>2, <3>3, <3>4, <3>5
  <2> QED BY <1>1, <2>2, WireNumber
<1>8. Arrives(kind, type, n) = got
  BY DEF Arrives, cell
<1> QED BY <1>4, <1>6, <1>7, <1>8

---------------------------------------------------------------------------
(* The session's answers.                                                  *)

\* What is said of an answer holds from the request to Forget: the link, and so
\* the driver, does not change while an answer is looked at.
Statement == answer.what = "batch" => Sound(Kind, answer.batch, answer.got)

Value ==
  answer.what = "cell" =>
    /\ \/ answer.got.n = answer.n
       \/ answer.type = "nested"
       \/ Kind = "clickhouse" /\ answer.type \in {"decimal", "uint"}
       \/ Kind \in {"cassandra", "scylla"} /\ answer.type \in {"decimal", "big"}
    /\ answer.got.json = "null" => \/ answer.type \in {"null", "nan", "missing"}
                                   \/ Kind = "sqlserver" /\ answer.type = "other"

\* A fresh session has no answer, and neither has one whose link moves.
LEMMA NothingAnswered ==
  /\ SessionInit => answer = NoAnswer
  /\ LinkStep \/ Forget => answer' = NoAnswer
  /\ NoAnswer.what = "nothing"
BY DEF SessionInit, LinkStep, Forget, sessionVars, NoAnswer

\* The schema requests answer neither a text nor a cell.
LEMMA OtherAnswers ==
  /\ ShowTree => answer'.what = "tree"
  /\ ListColumns => answer'.what \in {"columns", "refused"}
  /\ ListIndexes => answer'.what = "indexes"
  /\ ShowDdl => answer'.what = "ddl"
BY DEF ShowTree, ListColumns, ListIndexes, ShowDdl, Ask

\* A step that leaves the answer leaves the link.
LEMMA SameAnswer ==
  UseDatabase \/ UNCHANGED allVars => UNCHANGED <<answer, spec>>
BY DEF UseDatabase, allVars, vars, sessionVars

\* No step makes an answer to a text unsound.
LEMMA StatementStep == Statement /\ [SessionNext]_allVars => Statement'
<1> SUFFICES ASSUME Statement, [SessionNext]_allVars PROVE Statement'
  OBVIOUS
<1>1. CASE RunBatch
  <2>1. PICK b \in Batches : \E got \in Execute(Kind, b, changes) :
          answer' = [what |-> "batch", batch |-> b, got |-> got]
    BY <1>1 DEF RunBatch
  <2>2. PICK got \in Execute(Kind, b, changes) : answer'.batch = b /\ answer'.got = got
    BY <2>1
  <2>3. Sound(Kind, b, got)
    <3>1. Kind \in Kinds
      BY <1>1, SessionAssumption, SpecsAssumption DEF RunBatch, Idle, Kind, ConnSpec
    <3> QED BY <3>1, ExecuteSound
  <2>4. Kind' = Kind
    BY <1>1 DEF RunBatch, vars, Kind
  <2> QED BY <2>2, <2>3, <2>4 DEF Statement
<1>2. CASE ReadCell
  <2>1. answer'.what = "cell"
    BY <1>2 DEF ReadCell
  <2> QED BY <2>1 DEF Statement
<1>3. CASE ShowTree \/ ListColumns \/ ListIndexes \/ ShowDdl
  BY <1>3, OtherAnswers DEF Statement
<1>4. CASE LinkStep \/ Forget
  BY <1>4, NothingAnswered DEF Statement
<1>5. CASE UseDatabase \/ UNCHANGED allVars
  BY <1>5, SameAnswer DEF Statement, Kind
<1> QED BY <1>1, <1>2, <1>3, <1>4, <1>5 DEF SessionNext, Use

\* No step makes a value inexact.
LEMMA ValueStep == Value /\ [SessionNext]_allVars => Value'
<1> SUFFICES ASSUME Value, [SessionNext]_allVars PROVE Value'
  OBVIOUS
<1>1. CASE ReadCell
  <2>1. PICK type \in DOMAIN CellsOf(Kind) : \E n \in Numbers(type) :
          answer' = [what |-> "cell", type |-> type, n |-> n, got |-> Arrives(Kind, type, n)]
    BY <1>1 DEF ReadCell
  <2>2. PICK n \in Numbers(type) :
          answer' = [what |-> "cell", type |-> type, n |-> n, got |-> Arrives(Kind, type, n)]
    BY <2>1
  <2> DEFINE got == Arrives(Kind, type, n)
  <2>3. /\ \/ got.n = n
           \/ type = "nested"
           \/ Kind = "clickhouse" /\ type \in {"decimal", "uint"}
           \/ Kind \in {"cassandra", "scylla"} /\ type \in {"decimal", "big"}
        /\ got.json = "null" => \/ type \in {"null", "nan", "missing"}
                                \/ Kind = "sqlserver" /\ type = "other"
    BY CellExact
  <2>4. answer'.type = type /\ answer'.n = n /\ answer'.got = got
    BY <2>2
  <2>5. Kind' = Kind
    BY <1>1 DEF ReadCell, vars, Kind
  <2> QED BY <2>3, <2>4, <2>5 DEF Value
<1>2. CASE RunBatch
  <2>1. answer'.what = "batch"
    BY <1>2 DEF RunBatch
  <2> QED BY <2>1 DEF Value
<1>3. CASE ShowTree \/ ListColumns \/ ListIndexes \/ ShowDdl
  BY <1>3, OtherAnswers DEF Value
<1>4. CASE LinkStep \/ Forget
  BY <1>4, NothingAnswered DEF Value
<1>5. CASE UseDatabase \/ UNCHANGED allVars
  BY <1>5, SameAnswer DEF Value, Kind
<1> QED BY <1>1, <1>2, <1>3, <1>4, <1>5 DEF SessionNext, Use

\* However long the text, no driver answers it without an error and leaves a
\* statement out, but for sqlite behind a first query, mysql behind a failure and
\* redis, which makes one command of several lines.
THEOREM TextsRunWhole == SessionSpec => []NothingDroppedSilently
<1>1. SessionInit => Statement
  BY NothingAnswered DEF Statement
<1>2. Statement => NothingDroppedSilently
  BY DEF Statement, NothingDroppedSilently, Sound, Whole
<1> QED BY <1>1, <1>2, StatementStep, PTL DEF SessionSpec

\* A grid shows one statement's rows, all of them (snowflake: the first of them),
\* and a count is a statement's count (postgres.rs 286, mysql.rs, sqlite.rs 112,
\* duckdb.rs 266, mssql.rs); of several lines for redis nothing is said.
THEOREM AnswersHonest == SessionSpec => []AnswerIsHonest
<1>1. SessionInit => Statement
  BY NothingAnswered DEF Statement
<1>2. Statement => AnswerIsHonest
  BY DEF Statement, AnswerIsHonest, Sound, Honest
<1> QED BY <1>1, <1>2, StatementStep, PTL DEF SessionSpec

\* Whatever the widths, every integer and decimal reaches the client with its value
\* (but for ClickHouse's decimals and unsigned integers and CQL's decimals and
\* varints), and only a NULL, or a double that is no number, looks like a NULL.
THEOREM ValuesArrive == SessionSpec => []ValuesAreExact
<1>1. SessionInit => Value
  BY NothingAnswered DEF Value
<1>2. Value => ValuesAreExact
  BY DEF Value, ValuesAreExact
<1> QED BY <1>1, <1>2, ValueStep, PTL DEF SessionSpec

---------------------------------------------------------------------------
(* The answers of the schema requests.                                     *)

\* What a schema request is answered with, as long as the answer is looked at:
\* neither the link nor the current database moves meanwhile.
Inquiry ==
  /\ answer.what \in {"tree", "columns", "indexes", "ddl"} => answer.world \in Worlds
  /\ answer.what = "tree" =>
       \E scanned : answer.got = Structure(R, answer.world, db, scanned)
  /\ answer.what = "columns" =>
       \E answered : answer.got = Columns(R, answer.world, answer.obj, db, answered)
  /\ answer.what = "indexes" => answer.got = Indexes(R, answer.world, answer.obj, db)
  /\ answer.what = "ddl" => answer.got = Ddl(R, answer.world, answer.obj, db)

\* A request leaves the link and the database, and notes what it was answered.
LEMMA Asked ==
  ASSUME NEW what, NEW w, NEW obj, NEW got, Ask(what, w, obj, got)
  PROVE  /\ answer'.what = what /\ answer'.world = w
         /\ answer'.obj = obj /\ answer'.got = got
         /\ R' = R /\ db' = db
BY DEF Ask, R, Kind, vars

\* No step parts a schema answer from the catalog it was read of.
LEMMA InquiryStep == Inquiry /\ [SessionNext]_allVars => Inquiry'
<1> SUFFICES ASSUME Inquiry, [SessionNext]_allVars PROVE Inquiry'
  OBVIOUS
<1>1. CASE ShowTree
  <2>1. PICK w, scanned : w \in Worlds /\ Ask("tree", w, NoObject, Structure(R, w, db, scanned))
    BY <1>1 DEF ShowTree
  <2> DEFINE got == Structure(R, w, db, scanned)
  <2>2. PICK g : g = got
    OBVIOUS
  <2>3. /\ answer'.what = "tree" /\ answer'.world = w /\ answer'.got = g
        /\ R' = R /\ db' = db
    BY <2>1, <2>2, Asked
  <2> QED BY <2>1, <2>2, <2>3 DEF Inquiry
<1>2. CASE ListColumns
  <2>1. \/ \E w, obj, answered : w \in Worlds /\ Ask("columns", w, obj, Columns(R, w, obj, db, answered))
        \/ answer'.what = "refused"
    BY <1>2, Asked DEF ListColumns
  <2>2. CASE \E w, obj, answered :
               w \in Worlds /\ Ask("columns", w, obj, Columns(R, w, obj, db, answered))
    <3>1. PICK w, obj, answered :
                 w \in Worlds /\ Ask("columns", w, obj, Columns(R, w, obj, db, answered))
      BY <2>2
    <3>2. PICK g : g = Columns(R, w, obj, db, answered)
      OBVIOUS
    <3>3. /\ answer'.what = "columns" /\ answer'.world = w /\ answer'.obj = obj
          /\ answer'.got = g /\ R' = R /\ db' = db
      BY <3>1, <3>2, Asked
    <3> QED BY <3>1, <3>2, <3>3 DEF Inquiry
  <2>3. CASE answer'.what = "refused"
    BY <2>3 DEF Inquiry
  <2> QED BY <2>1, <2>2, <2>3
<1>3. CASE ListIndexes
  <2>1. PICK w, obj : w \in Worlds /\ Ask("indexes", w, obj, Indexes(R, w, obj, db))
    BY <1>3 DEF ListIndexes
  <2>2. PICK g : g = Indexes(R, w, obj, db)
    OBVIOUS
  <2>3. /\ answer'.what = "indexes" /\ answer'.world = w /\ answer'.obj = obj
        /\ answer'.got = g /\ R' = R /\ db' = db
    BY <2>1, <2>2, Asked
  <2> QED BY <2>1, <2>2, <2>3 DEF Inquiry
<1>4. CASE ShowDdl
  <2>1. PICK w, obj : w \in Worlds /\ Ask("ddl", w, obj, Ddl(R, w, obj, db))
    BY <1>4 DEF ShowDdl
  <2>2. PICK g : g = Ddl(R, w, obj, db)
    OBVIOUS
  <2>3. /\ answer'.what = "ddl" /\ answer'.world = w /\ answer'.obj = obj
        /\ answer'.got = g /\ R' = R /\ db' = db
    BY <2>1, <2>2, Asked
  <2> QED BY <2>1, <2>2, <2>3 DEF Inquiry
<1>5. CASE RunBatch \/ ReadCell
  <2>1. answer'.what \in {"batch", "cell"}
    BY <1>5 DEF RunBatch, ReadCell
  <2> QED BY <2>1 DEF Inquiry
<1>6. CASE LinkStep \/ Forget
  BY <1>6, NothingAnswered DEF Inquiry
<1>7. CASE UseDatabase
  <2>1. answer' = NoAnswer
    BY <1>7 DEF UseDatabase, Idle
  <2> QED BY <2>1, NothingAnswered DEF Inquiry
<1>8. CASE UNCHANGED allVars
  BY <1>8 DEF Inquiry, allVars, vars, sessionVars, R, Kind
<1> QED BY <1>1, <1>2, <1>3, <1>4, <1>5, <1>6, <1>7, <1>8 DEF SessionNext, Use

\* So it is in every session.
LEMMA Inquired == SessionSpec => []Inquiry
<1>1. SessionInit => Inquiry
  BY NothingAnswered DEF Inquiry
<1> QED BY <1>1, InquiryStep, PTL DEF SessionSpec

\* The catalogs an engine holds.
LEMMA World ==
  ASSUME NEW w \in Worlds
  PROVE  w \in Seq(Object) /\ \A o \in Range(w) : Plainly(o)
<1>1. w \in Seq(Object) /\ \A i \in DOMAIN w : Consistent(w[i])
  BY WorldsAssumption
<1>2. \A i \in DOMAIN w : w[i] \in Object
  BY <1>1
<1> QED BY <1>1, <1>2 DEF Range, Plainly

\* The object that is meant, and how the requests find it.
LEMMA MeantFound ==
  ASSUME answer.world \in Worlds, Unmistakable
  PROVE  \E o \in Range(answer.world) :
           /\ Plainly(o)
           /\ Meant = <<o>>
           /\ \A scope : (scope = "only" <=> R.unnamed = "only") /\ (scope = "held" => Kind = "mongodb")
                           => Matching(scope, answer.world, answer.obj, db) = <<o>>
<1> DEFINE w == answer.world
<1>1. w \in Seq(Object) /\ \A o \in Range(w) : Plainly(o)
  BY World
<1>2. Meant = Called(R, w, answer.obj)
  BY DEF Meant, Called
<1>3. Len(Meant) = 1 /\ (Kind = "mongodb" => answer.obj.schema = db)
  BY DEF Unmistakable
<1> HIDE DEF w
<1>4. Len(Called(R, w, answer.obj)) = 1
  BY <1>2, <1>3
<1>5. PICK o \in Range(w) : Found(Kind, R, w, answer.obj, db, o)
  BY <1>1, <1>4, OneMeant
<1> QED BY <1>1, <1>2, <1>3, <1>5 DEF Found, Scoped, w

\* The kind of a session is one of the drivers'.
LEMMA KindKnown == TypeOK => Kind \in Kinds
BY DEF TypeOK, Kind, ConnSpec

LEMMA SessionTyped == SessionSpec => []TypeOK
BY SessionKeepsLink, LinkTypeCorrect

\* Whatever the catalog holds, the tree names every schema once, with its objects
\* in the catalog's order (postgres.rs 320 and its kin), but for the materialized
\* views of PostgreSQL and CQL.
THEOREM TreesComplete == SessionSpec => []TreeIsComplete
<1>1. Inquiry /\ TypeOK => TreeIsComplete
  <2> SUFFICES ASSUME Inquiry, TypeOK, answer.what = "tree", R.tree # "keyspace"
               PROVE  TreeIsComplete
    BY DEF TreeIsComplete
  <2>1. answer.world \in Seq(Object)
    BY World DEF Inquiry
  <2>2. PICK scanned : answer.got = Structure(R, answer.world, db, scanned)
    BY DEF Inquiry
  <2>3. R.tree \in {"schemas", "main", "current"}
    <3>1. R.tree \in {"schemas", "main", "current", "keyspace"}
      BY Readers DEF Regular, R
    <3> QED BY <3>1
  <2>4. WholeTree(R, Visible(R, answer.world), db, answer.got)
    BY <2>1, <2>2, <2>3, TreeComplete
  <2>5. Visible(R, answer.world) = Listable
    <3>1. Kind # "redis"
      BY DEF R, Reader, RedisReader, PgReader
    <3>2. R.listed = Types \ Unlisted
      BY <3>1, KindKnown, KindsAre, ReaderGaps DEF R, Gaps, NotListed, Unlisted
    <3>3. \A o \in Range(answer.world) : o.type \in Types
      <4>1. \A o \in Object : o.type \in Types
        BY DEF Object
      <4> QED BY <2>1, <4>1 DEF Range
    <3>4. {o \in Range(answer.world) : o.type \in R.listed}
            = {o \in Range(answer.world) : o.type \notin Unlisted}
      BY <3>2, <3>3
    <3> QED BY <3>4 DEF Visible, Listable
  <2> QED BY <2>4, <2>5 DEF TreeIsComplete, WholeTree, TopNames, Names
<1> QED BY <1>1, Inquired, SessionTyped, PTL

\* Whatever other objects have its name, an object named with its schema answers
\* with its own columns, its own key and its own CREATE (postgres.rs 377-384), but
\* for the types of objects a driver finds no columns of.
THEOREM ObjectsDescribed == SessionSpec => []DescribedByItself
<1>1. Inquiry /\ TypeOK => DescribedByItself
  <2> SUFFICES ASSUME Inquiry, TypeOK, answer.what \in {"columns", "ddl"}, Unmistakable
               PROVE  DescribedByItself
    BY DEF DescribedByItself
  <2>1. PICK o \in Range(answer.world) :
          /\ Plainly(o)
          /\ Meant = <<o>>
          /\ \A scope : (scope = "only" <=> R.unnamed = "only") /\ (scope = "held" => Kind = "mongodb")
                          => Matching(scope, answer.world, answer.obj, db) = <<o>>
    BY MeantFound DEF Inquiry
  <2>2. Regular(Kind, R)
    BY Readers DEF R
  <2>3. Meant[1] = o
    BY <2>1
  <2>4. CASE answer.what = "columns"
    <3>1. PICK answered : answer.got = Columns(R, answer.world, answer.obj, db, answered)
      BY <2>4 DEF Inquiry
    <3>2. Matching(R.unnamed, answer.world, answer.obj, db) = <<o>>
      <4>1. R.unnamed = "held" => Kind = "mongodb"
        BY <2>2 DEF Regular
      <4> QED BY <2>1, <4>1
    <3>3. R.keys \in {"current", "asked"}
            => Matching("current", answer.world, answer.obj, db) = <<o>>
      <4>1. R.keys \in {"current", "asked"} => R.unnamed # "only"
        BY <2>2 DEF Regular
      <4> QED BY <2>1, <4>1
    <3>4. Itself(R, o, answer.got)
      BY <2>1, <2>2, <3>1, <3>2, <3>3, ColumnsOfOne
    <3>5. o.type \notin R.described => o.type \in Undescribed
      <4>1. R.described = Types \ Undescribed
        BY KindKnown, KindsAre, ReaderGaps DEF R, Gaps, NotDescribed, Undescribed
      <4>2. o.type \in Types
        BY <2>1 DEF Plainly, Object
      <4> QED BY <4>1, <4>2
    <3> QED BY <2>3, <2>4, <3>4, <3>5 DEF DescribedByItself, Itself, Names, Flagged, Covered
  <2>5. CASE answer.what = "ddl"
    <3>1. answer.got = Ddl(R, answer.world, answer.obj, db)
      BY <2>5 DEF Inquiry
    <3>2. Kind = "duckdb" \/ R.ddl = "never" \/ answer.got = <<o>>
      <4>1. CASE R.ddl = "named"
        <5>1. R.unnamed # "only"
          BY <2>2, <4>1 DEF Regular
        <5>2. Matching("current", answer.world, answer.obj, db) = <<o>>
          BY <2>1, <5>1
        <5> QED BY <3>1, <4>1, <5>2 DEF Ddl
      <4>2. CASE R.ddl = "by name" /\ Kind # "duckdb"
        <5>1. R.unnamed = "only"
          BY <2>2, <4>2 DEF Regular
        <5>2. Matching("only", answer.world, answer.obj, db) = <<o>>
          BY <2>1, <5>1
        <5> QED BY <3>1, <4>2, <5>2 DEF Ddl
      <4> QED BY <2>2, <4>1, <4>2 DEF Regular
    <3> QED BY <2>3, <2>5, <3>2 DEF DescribedByItself
  <2> QED BY <2>4, <2>5
<1> QED BY <1>1, Inquired, SessionTyped, PTL

\* An object named with its schema answers with its own indexes, each with its key
\* columns in the order of its definition (postgres.rs 416-419, group_indexes).
THEOREM IndexesInOrder == SessionSpec => []IndexColumnsInOrder
<1>1. Inquiry => IndexColumnsInOrder
  <2> SUFFICES ASSUME Inquiry, answer.what = "indexes", Unmistakable, R.indexes # "never"
               PROVE  IndexColumnsInOrder
    BY DEF IndexColumnsInOrder
  <2>1. PICK o \in Range(answer.world) :
          /\ Plainly(o)
          /\ Meant = <<o>>
          /\ \A scope : (scope = "only" <=> R.unnamed = "only") /\ (scope = "held" => Kind = "mongodb")
                          => Matching(scope, answer.world, answer.obj, db) = <<o>>
    BY MeantFound DEF Inquiry
  <2>2. Regular(Kind, R)
    BY Readers DEF R
  <2>3. Meant[1] = o
    BY <2>1
  <2>4. Matching(R.unnamedIndex, answer.world, answer.obj, db) = <<o>>
    <3>1. R.unnamedIndex = "only" <=> R.unnamed = "only"
      BY <2>2 DEF Regular
    <3>2. R.unnamedIndex = "held" => Kind = "mongodb"
      BY <2>2 DEF Regular
    <3> QED BY <2>1, <3>1, <3>2
  <2>5. answer.got = Indexes(R, answer.world, answer.obj, db)
    BY DEF Inquiry
  <2>6. /\ Len(answer.got) = Len(o.indexes)
        /\ \A i \in DOMAIN o.indexes : Shows(R, answer.got[i], o.indexes[i])
    BY <2>1, <2>2, <2>4, <2>5, IndexesOfOne
  <2> QED BY <2>3, <2>6 DEF IndexColumnsInOrder, Shows
<1> QED BY <1>1, Inquired, PTL
================================================================================
