------------------------------- MODULE Cells -------------------------------
(***************************************************************************)
(* One value of an engine on its way to the grid: the cell functions of    *)
(* src/native/src/drivers/ turn it into a spec::Value, Serialize for Value *)
(* (spec.rs) into JSON, and the client reads a JSON number as a double.    *)
(*                                                                         *)
(* Widths are small here: IntMax stands for i64::MAX, Exact for 2^53 (the  *)
(* integers a double holds), Base for ten.  A text of digits is the number *)
(* it spells, so whether a number arrives is an equation.                  *)
(***************************************************************************)
EXTENDS Integers

CONSTANTS Exact, IntMax, Base

ASSUME WidthsAssumption == /\ Exact \in Nat \ {0} /\ IntMax \in Nat /\ Base \in Nat \ {0, 1}
                           /\ Exact <= IntMax

Int64 == (-IntMax - 1)..IntMax
UInt64 == 0..(2 * IntMax + 1)

-----------------------------------------------------------------------------
(* The cell functions: for each type of an engine the variant of Value its  *)
(* values become.  "Unsigned" is Int where it fits and Text beyond, "Lossy" *)
(* is Int where it fits and Float beyond, "Literal" a Text that spells no   *)
(* number.  nan is a double that is no number or infinite, which stays a    *)
(* Float ("NotFinite"); mysql, sqlserver and snowflake's text have none.    *)

\* The text protocol: every cell that is not NULL.
PgCells == [null |-> "Null", text |-> "Text", int |-> "Text", decimal |-> "Text",
            time |-> "Text", nested |-> "Text"]

MysqlCells == [null |-> "Null", int |-> "Int", uint |-> "Unsigned", float |-> "Float",
               text |-> "Text", decimal |-> "Text", bytes |-> "Bytes", time |-> "Text"]

SqliteCells == [null |-> "Null", int |-> "Int", float |-> "Float", nan |-> "NotFinite",
                text |-> "Text", bytes |-> "Bytes"]

DuckdbCells == [null |-> "Null", bool |-> "Bool", int |-> "Int", uint |-> "Unsigned",
                float |-> "Float", nan |-> "NotFinite", text |-> "Text",
                bytes |-> "Bytes", big |-> "Text", decimal |-> "Text", time |-> "Text",
                nested |-> "Text"]

\* A ladder of conversions; what no rung takes is Null.
MssqlCells == [null |-> "Null", int |-> "Int", float |-> "Float", bool |-> "Bool",
               decimal |-> "Numeric", text |-> "Text", time |-> "Timestamp",
               bytes |-> "Bytes", other |-> "Null"]

\* A varint or decimal is shown as blobAsVarint(0x...), blobAsDecimal(0x...).
CqlCells == [null |-> "Null", text |-> "Text", bool |-> "Bool", int |-> "Int",
             float |-> "Float", nan |-> "NotFinite", bytes |-> "Bytes",
             big |-> "Literal", decimal |-> "Literal", time |-> "Text", nested |-> "Text"]

FirebirdCells == [null |-> "Null", text |-> "Text", int |-> "Int", float |-> "Float",
                  nan |-> "NotFinite", bool |-> "Bool", time |-> "Timestamp", bytes |-> "Bytes"]

\* JSON numbers: what is no i64 is read as a double, and the server itself writes
\* null for a double that is no number.
ClickhouseCells == [null |-> "Null", bool |-> "Bool", int |-> "Int", uint |-> "Lossy",
                    float |-> "Float", nan |-> "Null", decimal |-> "Float",
                    text |-> "Text", time |-> "Text", nested |-> "Json"]

SnowflakeCells == PgCells

\* A field that a document of the result lacks is Null too.
MongoCells == [null |-> "Null", missing |-> "Null", bool |-> "Bool", int |-> "Int",
               float |-> "Float", nan |-> "NotFinite", text |-> "Text", oid |-> "Oid",
               time |-> "Ext", decimal |-> "Ext", bytes |-> "Bytes", nested |-> "Json"]

RedisCells == [null |-> "Null", int |-> "Int", float |-> "Float", nan |-> "NotFinite",
               bool |-> "Bool", text |-> "Text", bytes |-> "Bytes", nested |-> "Json"]

CellsOf(kind) ==
  CASE kind \in {"postgres", "cockroachdb"} -> PgCells
    [] kind \in {"mysql", "mariadb"} -> MysqlCells
    [] kind = "sqlite" -> SqliteCells
    [] kind = "duckdb" -> DuckdbCells
    [] kind = "sqlserver" -> MssqlCells
    [] kind \in {"cassandra", "scylla"} -> CqlCells
    [] kind = "firebird" -> FirebirdCells
    [] kind = "clickhouse" -> ClickhouseCells
    [] kind = "snowflake" -> SnowflakeCells
    [] kind = "mongodb" -> MongoCells
    [] OTHER -> RedisCells

-----------------------------------------------------------------------------
(* Numbers as text.                                                         *)

Abs(n) == IF n < 0 THEN -n ELSE n

\* Rust's / and % truncate towards zero, div_euclid and rem_euclid do not.
Quot(n, d) == IF n < 0 THEN -(Abs(n) \div d) ELSE n \div d
Rem(n, d) == n - Quot(n, d) * d

\* numeric_text: sign, whole part and fraction of n / unit, where unit is ten to
\* the scale.
numeric_text(n, unit) ==
  [neg |-> Quot(n, unit) < 0 \/ (Quot(n, unit) = 0 /\ Rem(n, unit) < 0),
   whole |-> Abs(Quot(n, unit)),
   frac |-> Abs(Rem(n, unit))]

\* The number such a text spells, in units of its last digit.
Spelled(t, unit) == LET n == t.whole * unit + t.frac IN IF t.neg THEN -n ELSE n

\* duck_split: a count of perSec-ths of a second as seconds and nanoseconds.
duck_split(v, perSec, nanosPer) ==
  [secs |-> v \div perSec, nanos |-> (v % perSec) * nanosPer]

\* An interval's clock part: sign, seconds and the rest are written apart.
duck_interval(nanos, perSec) ==
  [secs |-> Quot(nanos, perSec), sub |-> Abs(Rem(nanos, perSec))]

-----------------------------------------------------------------------------
(* The way of a value v (its number, or 0 for a value that is none).        *)

\* A double keeps an integer up to Exact, and every second one beyond.
Double(n) == IF Abs(n) <= Exact THEN n ELSE 2 * Quot(n, 2)

Cell(kind, type, n) ==
  LET variant == CellsOf(kind)[type]
      fits == n \in Int64
  IN CASE variant = "Unsigned" -> [as |-> IF fits THEN "Int" ELSE "Text", n |-> n]
       [] variant = "Lossy" -> [as |-> IF fits THEN "Int" ELSE "Float",
                                n |-> IF fits THEN n ELSE Double(n)]
       [] variant = "Numeric" -> [as |-> "Text", n |-> Spelled(numeric_text(n, Base), Base)]
       [] variant = "Literal" -> [as |-> "Text", n |-> 0]
       [] variant = "Float" -> [as |-> "Float", n |-> Double(n)]
       [] OTHER -> [as |-> variant, n |-> n]

\* Bug: every integer is a plain number.
Serialize_Plain(cell) ==
  CASE cell.as \in {"Null", "NotFinite"} -> [json |-> "null", n |-> 0]
    [] cell.as \in {"Int", "Float"} -> [json |-> "number", n |-> cell.n]
    [] OTHER -> [json |-> "string", n |-> cell.n]

\* Serialize for Value: an integer is a plain number only where it survives; for a
\* double that is no JSON number serde_json writes null.
Serialize(cell) ==
  CASE cell.as \in {"Null", "NotFinite"} -> [json |-> "null", n |-> 0]
    [] cell.as = "Int" -> [json |-> IF Abs(cell.n) < Exact THEN "number" ELSE "__int",
                           n |-> cell.n]
    [] cell.as = "Float" -> [json |-> "number", n |-> cell.n]
    [] cell.as \in {"Text", "Timestamp"} -> [json |-> "string", n |-> cell.n]
    [] cell.as = "Bool" -> [json |-> "bool", n |-> cell.n]
    [] cell.as = "Json" -> [json |-> "json", n |-> cell.n]
    [] cell.as = "Bytes" -> [json |-> "__bytes", n |-> cell.n]
    [] cell.as = "Oid" -> [json |-> "__oid", n |-> cell.n]
    [] OTHER -> [json |-> "__ext", n |-> cell.n]

\* What the client decodes: numbers, at any depth, as doubles.
Decoded(wire) ==
  [wire EXCEPT !.n = IF wire.json \in {"number", "json"} THEN Double(@) ELSE @]

Arrives(kind, type, n) == Decoded(Serialize(Cell(kind, type, n)))
=============================================================================
