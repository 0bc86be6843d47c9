------------------------------ MODULE Catalog ------------------------------
(***************************************************************************)
(* How the drivers read an engine's catalog (structure, columns, indexes,  *)
(* switch_database in src/native/src/drivers/, group_indexes in mod.rs).   *)
(* What the engine holds is a WORLD: the user's tables and views in the    *)
(* order its catalog lists them.  A driver is a READER: where its queries  *)
(* look, what an unnamed schema means to them, how the engine spells a     *)
(* truth value and which spellings the driver takes for one.               *)
(***************************************************************************)
EXTENDS Naturals, Sequences, SequencesExt, Functions

(* A world is a sequence of objects                                         *)
(*   [schema, name, type, cols, pk, indexes]                                *)
(* pk is the columns of the primary key, indexes a sequence of              *)
(*   [name, unique, primary, parts, included]                               *)
(* where a part is a column or Expression, and included columns are stored  *)
(* beside the key without belonging to it.  Names are as the engine stores  *)
(* an unquoted one.                                                         *)
Expression == "expression"

\* An unnamed schema, an absent cell.
None == "none"

Column == STRING \ {None, Expression}

Types == {"table", "view", "materialized"}

Index == [name : STRING, unique : BOOLEAN, primary : BOOLEAN,
          parts : Seq(Column \cup {Expression}), included : Seq(Column)]

Object == [schema : STRING \ {None}, name : STRING, type : Types,
           cols : Seq(Column), pk : Seq(Column), indexes : Seq(Index)]

\* What an engine sees to: keys and indexes are over the object's own columns,
\* and index names are its own.  A column is not both part of an index and
\* included in it.
Consistent(o) ==
  /\ Range(o.pk) \subseteq Range(o.cols)
  /\ \A x \in Range(o.indexes) : /\ Range(x.included) \subseteq Range(o.cols)
                                 /\ Range(x.parts) \cap Range(x.included) = {}
  /\ \A i, j \in DOMAIN o.indexes : o.indexes[i].name = o.indexes[j].name => i = j

\* The members of s that are in S, or are not, in their order.  (As folds: of
\* SelectSeq the proof system knows nothing.)
Kept(s, S) == FoldLeft(LAMBDA out, x : IF x \in S THEN Append(out, x) ELSE out, <<>>, s)

Without(s, S) == Kept(s, Range(s) \ S)

-----------------------------------------------------------------------------
(* The readers.                                                             *)
(*   tree     the tree's top: every schema, or one node of that name        *)
(*   listed   the types the tree's query answers with                       *)
(*   views    the types shown as a view                                     *)
(*   unnamed  what columns (and indexes) read when no schema is named:      *)
(*            every schema, or the current one; "only": schemas are not     *)
(*            looked at                                                     *)
(*   keys     where the primary flag comes from: the object's own key, the  *)
(*            key of the current schema's object of that name, a second     *)
(*            query that may fail, the name _id, or nowhere                 *)
(*   spells   how the engine spells true; reads: what columns takes for it  *)
(*   indexes  "folded" by group_indexes, "own" or a single "target"         *)
(*   segments the rows an index of the catalog comes in                     *)
(*   described  the types the columns query answers for                     *)
(*   ddl      the object SHOW CREATE means: as named, or by its bare name   *)
(*   switch   another database: asked of the server, or only remembered     *)

\* information_schema holds no materialized views: its tables do not list them,
\* its columns do not describe them.
PgReader == [tree |-> "schemas", listed |-> {"table", "view"}, views |-> {"view"},
             unnamed |-> "every", keys |-> "current", spells |-> "t", reads |-> {"t", "true"},
             indexes |-> "folded", segments |-> "key first", unnamedIndex |-> "every",
             described |-> {"table", "view"}, ddl |-> "never",
             switch |-> "reconnect"]

MysqlReader == [PgReader EXCEPT !.listed = Types, !.described = Types,
                                !.views = {"view", "materialized"},
                                !.keys = "own", !.spells = "1", !.reads = {"1"},
                                !.ddl = "named", !.switch = "server"]

\* sys.tables holds no views, and included columns have key_ordinal 0.
MssqlReader == [MysqlReader EXCEPT !.segments = "included first",
                                   !.described = {"table"}, !.ddl = "never"]

\* Its catalog of indexes names no columns.
DuckdbReader == [PgReader EXCEPT !.listed = Types, !.described = Types,
                                 !.views = {"view", "materialized"},
                                 !.unnamed = "current", !.keys = "own",
                                 !.spells = "true", !.reads = {"true"},
                                 !.segments = "none", !.ddl = "by name", !.switch = "never"]

SnowflakeReader == [MysqlReader EXCEPT !.keys = "asked", !.indexes = "never",
                                       !.switch = "remembered"]

\* Its indexes are over an expression, shown whole; none is unique or primary.
ClickhouseReader == [MysqlReader EXCEPT !.unnamed = "current", !.unnamedIndex = "current",
                                        !.segments = "whole", !.switch = "remembered"]

\* system_schema keeps tables and materialized views apart, the columns of both in
\* one place.  Key columns are marked partition_key or clustering.
CqlReader == [PgReader EXCEPT !.listed = {"table"}, !.described = Types,
                              !.views = {}, !.unnamed = "current", !.keys = "own",
                              !.spells = "clustering",
                              !.reads = {"partition_key", "clustering"},
                              !.indexes = "target", !.unnamedIndex = "nothing",
                              !.switch = "server"]

SqliteReader == [PgReader EXCEPT !.listed = Types, !.described = Types,
                                 !.tree = "main", !.unnamed = "only", !.unnamedIndex = "only",
                                 !.keys = "own", !.spells = "1", !.reads = {"1", "2"},
                                 !.indexes = "own", !.ddl = "by name", !.switch = "never"]

FirebirdReader == [MysqlReader EXCEPT !.tree = "main", !.views = {"view"},
                                      !.unnamed = "only", !.unnamedIndex = "only",
                                      !.ddl = "never", !.switch = "never"]

\* One pass of SCAN: some of the keys.
RedisReader == [PgReader EXCEPT !.tree = "keyspace", !.views = {},
                                !.keys = "nowhere", !.described = {},
                                !.indexes = "never", !.switch = "server"]

MongoReader == [PgReader EXCEPT !.listed = Types, !.described = Types,
                                !.tree = "current", !.views = {}, !.unnamed = "held",
                                !.keys = "_id", !.indexes = "own", !.unnamedIndex = "held",
                                !.switch = "remembered"]

Reader(kind) ==
  CASE kind \in {"postgres", "cockroachdb"} -> PgReader
    [] kind \in {"mysql", "mariadb"} -> MysqlReader
    [] kind = "sqlserver" -> MssqlReader
    [] kind = "duckdb" -> DuckdbReader
    [] kind = "snowflake" -> SnowflakeReader
    [] kind = "clickhouse" -> ClickhouseReader
    [] kind \in {"cassandra", "scylla"} -> CqlReader
    [] kind = "sqlite" -> SqliteReader
    [] kind = "firebird" -> FirebirdReader
    [] kind = "mongodb" -> MongoReader
    [] OTHER -> RedisReader

-----------------------------------------------------------------------------
(* The tree.  db is the current database (or schema, for lack of one).      *)

Node(reader, o) == [name |-> o.name, view |-> o.type \in reader.views]

\* Bug: the schema's node is never found again.
AddToTree_Anew(tree, schema, node) ==
  Append(tree, [name |-> schema, children |-> <<node>>])

\* One more row: under its schema's node, or under a new one.
AddToTree(tree, schema, node) ==
  LET at == {i \in DOMAIN tree : tree[i].name = schema}
  IN IF at = {} THEN Append(tree, [name |-> schema, children |-> <<node>>])
     ELSE [i \in DOMAIN tree |->
             IF i = Min(at) THEN [tree[i] EXCEPT !.children = Append(@, node)] ELSE tree[i]]

\* The one node that holds everything, or what is of the current database.
Top(reader, db) == IF reader.tree = "current" THEN db ELSE reader.tree

\* What of the catalog the driver's query is over.
Visible(reader, world) == Kept(world, {o \in Range(world) : o.type \in reader.listed})

\* The rows the driver gets to see; a SCAN returns some of them.
Listed(reader, world, db, scanned) ==
  LET seen == Visible(reader, world)
  IN Kept(seen, CASE reader.tree = "current" -> {o \in Range(seen) : o.schema = db}
                  [] reader.tree = "keyspace" -> scanned
                  [] OTHER -> Range(seen))

Structure(reader, world, db, scanned) ==
  LET rows == Listed(reader, world, db, scanned)
      under(o) == IF reader.tree = "schemas" THEN o.schema ELSE Top(reader, db)
      start == IF reader.tree = "schemas" THEN <<>>
               ELSE <<[name |-> Top(reader, db), children |-> <<>>]>>
  IN FoldLeft(LAMBDA tree, o : AddToTree(tree, under(o), Node(reader, o)), start, rows)

-----------------------------------------------------------------------------
(* One object, as a client names it: [schema, name], the schema maybe None. *)

\* Bug: the schema predicate is left out.
InScope_NameOnly(scope, o, obj, db) ==
  /\ o.name = obj.name
  /\ scope = "held" => o.schema = db

InScope(scope, o, obj, db) ==
  /\ o.name = obj.name
  /\ CASE scope = "only" -> TRUE
       [] scope = "held" -> o.schema = db
       [] OTHER -> IF obj.schema # None THEN o.schema = obj.schema
                   ELSE scope = "every" \/ (scope = "current" /\ o.schema = db)

Matching(scope, world, obj, db) ==
  Kept(world, {o \in Range(world) : InScope(scope, o, obj, db)})

\* PostgreSQL's key query and its DuckDB kin fail on a name that stands for
\* nothing; the others answer with no columns.
Resolves(reader, world, obj, db) ==
  reader \in {PgReader, DuckdbReader} => Matching("current", world, obj, db) # <<>>

\* The columns the key query answers with: the object's own, or those of the
\* object the name alone stands for; asked for separately it may be refused.
\* PostgreSQL's indkey holds the included columns too.
KeyColumns(reader, world, o, obj, db, answered) ==
  LET path == Matching("current", world, obj, db)
      included(t) == UNION {Range(t.indexes[i].included) : i \in {j \in DOMAIN t.indexes :
                                                                  t.indexes[j].primary}}
      key(t) == Range(t.pk) \cup (IF reader = PgReader THEN included(t) ELSE {})
  IN CASE reader.keys = "own" -> key(o)
       [] reader.keys = "_id" -> {"_id"}
       [] reader.keys = "nowhere" -> {}
       [] reader.keys = "asked" /\ ~answered -> {}
       [] OTHER -> UNION {key(path[i]) : i \in DOMAIN path}

\* mongo: the fields of one sampled document, and the whole document.
DocumentColumn == [name |-> "_document", primary |-> FALSE]

\* Columns(obj): name and primary flag, the flag through its spelling.
Columns(reader, world, obj, db, answered) ==
  LET objects == Kept(Matching(reader.unnamed, world, obj, db),
                      {o \in Range(world) : o.type \in reader.described})
      flag(o, c) == /\ c \in KeyColumns(reader, world, o, obj, db, answered)
                    /\ reader.keys \in {"own", "current"} => reader.spells \in reader.reads
      of(o) == [i \in DOMAIN o.cols |-> [name |-> o.cols[i], primary |-> flag(o, o.cols[i])]]
                 \o (IF reader.keys = "_id" /\ o.cols # <<>> THEN <<DocumentColumn>> ELSE <<>>)
  IN FlattenSeq([i \in DOMAIN objects |-> of(objects[i])])

-----------------------------------------------------------------------------
(* Indexes.                                                                 *)

\* An expression has no column to name; a catalog reports it as NULL.
PartNames(parts) == [i \in DOMAIN parts |-> IF parts[i] = Expression THEN None ELSE parts[i]]

\* The rows of one index in the catalog query's answer: one per column, and
\* one without a column where there is none (LEFT JOIN).
Segments(reader, x) ==
  LET cells == CASE reader.segments = "included first" -> x.included \o PartNames(x.parts)
                 [] reader.segments = "none" -> <<None>>
                 [] OTHER -> PartNames(x.parts) \o x.included
      said(b) == IF b /\ reader.segments # "whole" THEN reader.spells ELSE "0"
      row(c) == [name |-> x.name, col |-> c, primary |-> said(x.primary), unique |-> said(x.unique)]
  IN IF reader.segments = "whole" THEN <<row(Expression)>>
     ELSE IF cells = <<>> THEN <<row(None)>>
     ELSE [i \in DOMAIN cells |-> row(cells[i])]

\* group_indexes' idea of a truth value.
Truthy(cell) == cell \in {"1", "t", "true", "yes"}

\* Bug: a further column is put before the others.
AddIndexRow_Front(out, r) ==
  LET at == {i \in DOMAIN out : out[i].name = r.name}
      col == IF r.col = None THEN <<>> ELSE <<r.col>>
  IN IF at = {}
     THEN Append(out, [name |-> r.name, columns |-> col,
                       unique |-> Truthy(r.unique), primary |-> Truthy(r.primary)])
     ELSE [i \in DOMAIN out |->
             IF i = Min(at) THEN [out[i] EXCEPT !.columns = col \o @] ELSE out[i]]

AddIndexRow(out, r) ==
  LET at == {i \in DOMAIN out : out[i].name = r.name}
      col == IF r.col = None THEN <<>> ELSE <<r.col>>
  IN IF at = {}
     THEN Append(out, [name |-> r.name, columns |-> col,
                       unique |-> Truthy(r.unique), primary |-> Truthy(r.primary)])
     ELSE [i \in DOMAIN out |->
             IF i = Min(at) THEN [out[i] EXCEPT !.columns = @ \o col] ELSE out[i]]

group_indexes(rows) == FoldLeft(AddIndexRow, <<>>, rows)

\* sqlite and mongo ask index by index, CQL reads its one target out of a map.
OwnIndex(x) == [name |-> x.name, columns |-> Without(PartNames(x.parts), {None}),
                unique |-> x.unique, primary |-> x.primary]

TargetIndex(x) == [OwnIndex(x) EXCEPT !.unique = FALSE, !.primary = FALSE]

\* With no schema named, indexes of one name in several schemas are folded into
\* one (their rows alternate in the catalog's order; here they follow).
Indexes(reader, world, obj, db) ==
  LET objects == Matching(reader.unnamedIndex, world, obj, db)
      all == FlattenSeq([i \in DOMAIN objects |-> objects[i].indexes])
  IN CASE reader.indexes = "folded" ->
            group_indexes(FlattenSeq([i \in DOMAIN all |-> Segments(reader, all[i])]))
       [] reader.indexes = "own" -> [i \in DOMAIN all |-> OwnIndex(all[i])]
       [] reader.indexes = "target" -> [i \in DOMAIN all |-> TargetIndex(all[i])]
       [] OTHER -> <<>>
-----------------------------------------------------------------------------
(* The CREATE statement: the first row of the engine's answer, if any.      *)
Ddl(reader, world, obj, db) ==
  CASE reader.ddl = "named" -> Matching("current", world, obj, db)
    [] reader.ddl = "by name" -> Matching("only", world, obj, db)
    [] OTHER -> <<>>

(* Another database: asked of the server, or only remembered.               *)
CanSwitch(reader) == reader.switch \in {"server", "remembered"}
=============================================================================
