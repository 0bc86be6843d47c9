--------------------------- MODULE DriverSession ---------------------------
(***************************************************************************)
(* A connection from its specification (Connecting) to its use: statements *)
(* (Statements), the schema requests (Catalog) and the values of a grid    *)
(* (Cells), through the handlers of src/native/src/server.rs 376-448 and   *)
(* the Connection of the driver.  One request at a time: the connection's  *)
(* mutex is DbServer's subject.                                            *)
(*                                                                         *)
(* The engine's catalog is chosen anew for every request, so it may change *)
(* between any two of them.                                                *)
(***************************************************************************)
EXTENDS Connecting, Statements, Catalog, Cells

CONSTANTS SessionSpecs,  \* bound: the specifications whose links are used
          Worlds,        \* bound: the catalogs an engine may hold
          MaxUnits       \* bound: decimals and big integers, in their last digit

ASSUME SessionAssumption == SessionSpecs \subseteq Specs /\ MaxUnits \in Nat

ASSUME WorldsAssumption ==
  \A w \in Worlds : w \in Seq(Object) /\ \A i \in DOMAIN w : Consistent(w[i])

VARIABLES
  changes,   \* sqlite's memory of the last change (Statements)
  db,        \* the current database, the current schema for lack of one
  answer     \* the last request with what came back

sessionVars == <<changes, db, answer>>
allVars == <<vars, sessionVars>>

Schemas == {"a", "b"}
NoAnswer == [what |-> "nothing"]

SessionInit == /\ Init
               /\ changes = 0 /\ db = "a" /\ answer = NoAnswer

Kind == spec.driver
R == Reader(Kind)

\* The link is up and nobody waits for an answer of it.
Idle == status = "live" /\ spec \in SessionSpecs /\ answer = NoAnswer

\* query.execute, the statement with its result.
RunBatch ==
  /\ Idle
  /\ \E b \in Batches : \E got \in Execute(Kind, b, changes) :
       /\ answer' = [what |-> "batch", batch |-> b, got |-> got]
       /\ changes' = IF Kind = "sqlite" THEN SqliteChanges(b, got.ran, changes) ELSE changes
  /\ UNCHANGED <<vars, db>>

\* The types of object an engine has.
TypesOf(kind) ==
  CASE kind \in {"cassandra", "scylla"} -> {"table", "materialized"}
    [] kind \in {"postgres", "cockroachdb", "clickhouse", "snowflake"} -> Types
    [] OTHER -> {"table", "view"}

\* An engine without schemas has one, and no catalog of CQL, SQL Server or
\* mongo indexes an expression.
Fits(w) ==
  /\ R.unnamed = "only" => \A i \in DOMAIN w : w[i].schema = "a"
  /\ \A i \in DOMAIN w : w[i].type \in TypesOf(Kind)
  /\ Kind \in {"sqlserver", "cassandra", "scylla", "mongodb"} =>
       \A i \in DOMAIN w : \A x \in Range(w[i].indexes) : Expression \notin Range(x.parts)

Ask(what, w, obj, got) ==
  /\ answer' = [what |-> what, world |-> w, obj |-> obj, got |-> got]
  /\ UNCHANGED <<vars, changes, db>>

NoObject == [schema |-> None, name |-> None]

Objects(w) == [schema : {None} \cup Schemas, name : {w[i].name : i \in DOMAIN w}]

\* conn.structure; a SCAN returns what it likes of the keys.
ShowTree ==
  /\ Idle
  /\ \E w \in {v \in Worlds : Fits(v)} :
       \E scanned \in IF R.tree = "keyspace" THEN SUBSET Range(w) ELSE {Range(w)} :
         Ask("tree", w, NoObject, Structure(R, w, db, scanned))

\* conn.columns.
ListColumns ==
  /\ Idle
  /\ \E w \in {v \in Worlds : Fits(v)} : \E obj \in Objects(w), answered \in BOOLEAN :
       \/ /\ Resolves(R, w, obj, db)
          /\ Ask("columns", w, obj, Columns(R, w, obj, db, answered))
       \/ /\ ~Resolves(R, w, obj, db)
          /\ Ask("refused", w, obj, <<>>)

\* conn.indexes and conn.ddl.
ListIndexes ==
  /\ Idle
  /\ \E w \in {v \in Worlds : Fits(v)} : \E obj \in Objects(w) :
       Ask("indexes", w, obj, Indexes(R, w, obj, db))

ShowDdl ==
  /\ Idle
  /\ \E w \in {v \in Worlds : Fits(v)} : \E obj \in Objects(w) :
       Ask("ddl", w, obj, Ddl(R, w, obj, db))

\* conn.switch_database, of the drivers that keep their link over it.  (That a
\* server refuses changes nothing; PostgreSQL's is Connecting's SwitchDatabase.)
UseDatabase ==
  /\ Idle
  /\ CanSwitch(R)
  /\ db' \in Schemas \ {db}
  /\ UNCHANGED <<vars, changes, answer>>

Numbers(type) == CASE type = "int" -> Int64
                   [] type = "uint" -> UInt64
                   [] type \in {"decimal", "big", "nested"} -> -MaxUnits..MaxUnits
                   [] OTHER -> {0}

\* One value of a result, from the engine to the client.
ReadCell ==
  /\ Idle
  /\ \E type \in DOMAIN CellsOf(Kind) : \E n \in Numbers(type) :
       answer' = [what |-> "cell", type |-> type, n |-> n, got |-> Arrives(Kind, type, n)]
  /\ UNCHANGED <<vars, changes, db>>

\* The client is through with the answer.
Forget ==
  /\ answer # NoAnswer
  /\ answer' = NoAnswer
  /\ UNCHANGED <<vars, changes, db>>

Use == RunBatch \/ ShowTree \/ ListColumns \/ ListIndexes \/ ShowDdl \/ UseDatabase \/ ReadCell
         \/ Forget

\* What happens to the link goes on beside it.
LinkStep == Next /\ answer = NoAnswer /\ UNCHANGED sessionVars

SessionNext == LinkStep \/ Use

SessionSpec == SessionInit /\ [][SessionNext]_allVars /\ WF_vars(BridgeEnds)

-----------------------------------------------------------------------------
(* Statements.                                                              *)

\* A text that is answered without an error was run to its end: no statement is
\* dropped silently (sqlite.rs 112-114).  Three drivers are excepted where they do
\* drop some: sqlite behind a first statement with columns, mysql behind one
\* that fails, redis behind the first, whose arguments the others become.
NothingDroppedSilently ==
  answer.what = "batch" =>
    LET b == answer.batch
    IN \/ ~answer.got.ok
       \/ answer.got.ran = DOMAIN b
       \/ Kind = "sqlite" /\ b[1].does \in Queries
       \/ Kind \in {"mysql", "mariadb"} /\ Bad(b) # {}
       \/ Kind = "redis" /\ Len(b) > 1

\* A grid holds the rows of one statement under that statement's columns, all of
\* them, and a count is shown only for a text that brought no rows and changed
\* that many with one of its statements (postgres.rs 286).  Excepted: postgres
\* mixes several results in one grid, redis makes one command of a text of
\* several, snowflake shows the first rows only, sqlite counts changes of an
\* earlier text, duckdb takes a user's "Count" behind a change for a count.
AnswerIsHonest ==
  answer.what = "batch" /\ answer.got.ok =>
    LET b == answer.batch
        got == answer.got
    IN /\ got.rows # <<>> /\ Kind \notin {"postgres", "cockroachdb"}
                          /\ (Kind = "redis" => Len(b) = 1)
            => /\ got.of > 0
               /\ b[got.of].does \in Queries
                    => \/ got.rows = RowsOf(b, got.of)
                       \/ Kind = "snowflake" /\ IsPrefix(got.rows, RowsOf(b, got.of))
       /\ got.affected # {} => got.rows = <<>>
       /\ got.affected # {} /\ Kind # "sqlite"
            => \/ \E i \in DOMAIN b : got.affected = {Count(b, i)}
               \/ /\ Kind = "duckdb"
                  /\ b[1].does = "count" /\ b[Len(b)].does = "tally"

-----------------------------------------------------------------------------
(* The catalog.                                                             *)

\* What a driver's catalog queries hold nothing of: information_schema has no
\* materialized views, system_schema.tables no views of either sort.
Unlisted ==
  CASE Kind \in {"postgres", "cockroachdb"} -> {"materialized"}
    [] Kind \in {"cassandra", "scylla"} -> {"view", "materialized"}
    [] OTHER -> {}

Listable == Kept(answer.world, {o \in Range(answer.world) : o.type \notin Unlisted})

\* The tree leaves nothing out that the queries could see and shows nothing twice:
\* every schema is one node with its objects in the catalog's order (postgres.rs
\* 320).  Excepted are the materialized views of postgres and CQL, and with them a
\* schema that holds nothing else; a SCAN of redis promises no such thing.
TreeIsComplete ==
  answer.what = "tree" /\ R.tree # "keyspace" =>
    LET w == Listable
        tree == answer.got
        names(s) == [i \in DOMAIN s |-> s[i].name]
        of(top) == IF R.tree = "main" THEN w ELSE Kept(w, {o \in Range(w) : o.schema = top})
        tops == CASE R.tree = "main" -> {"main"}
                  [] R.tree = "current" -> {db}
                  [] OTHER -> {w[i].schema : i \in DOMAIN w}
    IN /\ {tree[i].name : i \in DOMAIN tree} = tops
       /\ Len(tree) = Cardinality(tops)
       /\ \A i \in DOMAIN tree : names(tree[i].children) = names(of(tree[i].name))

\* The object a client named, where the name says which one is meant.
Meant == Kept(answer.world,
              {o \in Range(answer.world) : /\ o.name = answer.obj.name
                                           /\ R.unnamed = "only" \/ o.schema = answer.obj.schema})

Unmistakable == /\ Len(Meant) = 1
                /\ Kind = "mongodb" => answer.obj.schema = db

\* The types whose columns a driver does not find.
Undescribed ==
  CASE Kind \in {"postgres", "cockroachdb"} -> {"materialized"}
    [] Kind = "sqlserver" -> {"view", "materialized"}
    [] Kind = "redis" -> Types
    [] OTHER -> {}

\* An object that is named with its schema is described by itself: its columns,
\* its key and its CREATE, though another schema has an object of that name
\* (postgres.rs 377-384: a wrong key makes the grid write to the wrong rows).
\* Excepted are the gaps: mongo's key is _id, snowflake may know none, redis
\* describes nothing, sqlserver no views, PostgreSQL no materialized ones; it flags
\* included columns, and duckdb's ddl looks at the bare name.
DescribedByItself ==
  answer.what \in {"columns", "ddl"} /\ Unmistakable =>
    LET o == Meant[1]
        cols == answer.got
        flagged == {cols[i].name : i \in {j \in DOMAIN cols : cols[j].primary}}
        covered == UNION {Range(x.included) : x \in {y \in Range(o.indexes) : y.primary}}
    IN \/ /\ answer.what = "ddl"
          /\ Kind = "duckdb" \/ R.ddl = "never" \/ answer.got = <<o>>
       \/ /\ answer.what = "columns"
          /\ \/ o.type \in Undescribed /\ cols = <<>>
             \/ R.keys = "_id"
             \/ /\ [i \in DOMAIN cols |-> cols[i].name] = o.cols
                /\ \/ flagged = Range(o.pk)
                   \/ R.keys = "asked" /\ flagged = {}
                   \/ R = PgReader /\ flagged = Range(o.pk) \cup covered

\* An index on (a, b) is not one on (b, a) (postgres.rs 416-419): the indexes of
\* an object named with its schema are exactly its own, each with its key columns
\* in their order; what shows of included columns stands apart from them.
\* Excepted are the engines whose catalog names no columns.
IndexColumnsInOrder ==
  answer.what = "indexes" /\ Unmistakable /\ R.indexes # "never" =>
    LET mine == Meant[1].indexes
        shown == answer.got
    IN /\ Len(shown) = Len(mine)
       /\ \A i \in DOMAIN mine :
            /\ shown[i].name = mine[i].name
            /\ R.segments \notin {"none", "whole"} =>
                 Without(shown[i].columns, Range(mine[i].included))
                   = Without(mine[i].parts, {Expression})
            /\ R.indexes # "target" /\ R.segments # "whole" =>
                 /\ shown[i].unique = mine[i].unique
                 /\ shown[i].primary = mine[i].primary

-----------------------------------------------------------------------------
(* Values.                                                                  *)

\* Integers and decimals arrive digit by digit (spec.rs 380-385, mssql.rs
\* 139-142), and only a NULL looks like one (mssql.rs 163-166).  Excepted:
\* numbers inside nested values, ClickHouse's unquoted decimals and unsigned
\* integers, CQL's decimals and varints, which arrive as an expression over their
\* bytes; of what looks like a NULL, doubles that are no number or infinite,
\* fields a document of mongo lacks, and types sqlserver's ladder has no rung for.
ValuesAreExact ==
  answer.what = "cell" =>
    /\ \/ answer.got.n = answer.n
       \/ answer.type = "nested"
       \/ Kind = "clickhouse" /\ answer.type \in {"decimal", "uint"}
       \/ Kind \in {"cassandra", "scylla"} /\ answer.type \in {"decimal", "big"}
    /\ answer.got.json = "null" => \/ answer.type \in {"null", "nan", "missing"}
                                   \/ Kind = "sqlserver" /\ answer.type = "other"
=============================================================================
