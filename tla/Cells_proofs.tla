---------------------------- MODULE Cells_proofs ----------------------------
(***************************************************************************)
(* What Cells computes, for every width and every number: the texts of     *)
(* decimals and timestamps are exact, and Serialize loses no integer.      *)
(***************************************************************************)
EXTENDS Cells, TLAPS

\* A quotient with the remainder that belongs to it: what the provers know of
\* \div, put the way Quot and Rem use it.
LEMMA Division ==
  ASSUME NEW n \in Nat, NEW d \in Nat \ {0}
  PROVE  /\ n \div d \in Nat
         /\ n - (n \div d) * d \in 0..(d - 1)
         /\ n = (n \div d) * d + (n - (n \div d) * d)
  <1>1. n \div d \in Nat
    BY SMT
  <1>2. n % d \in 0..(d - 1) /\ n = (n \div d) * d + (n % d)
    BY SMT
  <1> QED BY <1>1, <1>2, SMT

\* Truncating division (Rust's / and %) splits a number into two parts of its own
\* sign that add up to it.
LEMMA Truncation ==
  ASSUME NEW n \in Int, NEW d \in Nat \ {0}
  PROVE  /\ Quot(n, d) \in Int /\ Rem(n, d) \in Int
         /\ n = Quot(n, d) * d + Rem(n, d)
         /\ n >= 0 => Quot(n, d) >= 0 /\ Rem(n, d) \in 0..(d - 1)
         /\ n < 0 => Quot(n, d) <= 0 /\ -Rem(n, d) \in 0..(d - 1)
  <1>1. CASE n >= 0
    <2> DEFINE q == n \div d
    <2>1. Quot(n, d) = q /\ Rem(n, d) = n - q * d
      BY <1>1 DEF Quot, Rem
    <2>2. q \in Nat /\ n - q * d \in 0..(d - 1)
      <3>1. n \in Nat
        BY <1>1
      <3> QED BY <3>1, Division, Zenon
    <2> HIDE DEF q
    <2>3. q * d \in Int
      BY <2>2
    <2> QED BY <1>1, <2>1, <2>2, <2>3
  <1>2. CASE n < 0
    <2> DEFINE a == -n
               q == a \div d
    <2>1. /\ a \in Nat /\ Abs(n) = a
          /\ Quot(n, d) = -q /\ Rem(n, d) = n - (-q) * d
      BY <1>2 DEF Abs, Quot, Rem
    <2>2. q \in Nat /\ a - q * d \in 0..(d - 1)
      BY <2>1, Division
    <2> HIDE DEF q
    <2>3. q * d \in Int /\ (-q) * d = -(q * d)
      BY <2>2
    <2>4. Rem(n, d) = -(a - q * d)
      BY <2>1, <2>3
    <2> QED BY <1>2, <2>1, <2>2, <2>3, <2>4
  <1> QED BY <1>1, <1>2

\* A decimal of SQL Server is shown with every digit and with its sign, also
\* between minus one and zero, where the whole part has none (mssql.rs 139-160).
THEOREM NumericTextExact ==
  ASSUME NEW n \in Int, NEW unit \in Nat \ {0}
  PROVE  /\ Spelled(numeric_text(n, unit), unit) = n
         /\ numeric_text(n, unit).frac \in 0..(unit - 1)
  <1> DEFINE q == Quot(n, unit)
             r == Rem(n, unit)
  <1>1. /\ q \in Int /\ r \in Int /\ n = q * unit + r
        /\ n >= 0 => q >= 0 /\ r \in 0..(unit - 1)
        /\ n < 0 => q <= 0 /\ -r \in 0..(unit - 1)
    BY Truncation
  <1>2. numeric_text(n, unit) = [neg |-> q < 0 \/ (q = 0 /\ r < 0),
                                 whole |-> Abs(q), frac |-> Abs(r)]
    BY DEF numeric_text
  <1> HIDE DEF q, r
  <1>3. CASE n >= 0
    <2>1. ~(q < 0 \/ (q = 0 /\ r < 0)) /\ Abs(q) = q /\ Abs(r) = r
      BY <1>1, <1>3 DEF Abs
    <2>2. numeric_text(n, unit) = [neg |-> FALSE, whole |-> q, frac |-> r]
      BY <1>2, <2>1
    <2>3. Spelled(numeric_text(n, unit), unit) = q * unit + r
      BY <2>2 DEF Spelled
    <2> QED BY <1>1, <1>3, <2>2, <2>3
  <1>4. CASE n < 0
    <2>1. q * unit \in Int /\ (-q) * unit = -(q * unit) /\ (q = 0 => q * unit = 0)
      BY <1>1
    <2>2. q < 0 \/ (q = 0 /\ r < 0)
      BY <1>1, <1>4, <2>1
    <2>3. Abs(q) = -q /\ Abs(r) = -r
      BY <1>1, <1>4 DEF Abs
    <2>4. numeric_text(n, unit) = [neg |-> TRUE, whole |-> -q, frac |-> -r]
      BY <1>2, <2>2, <2>3
    <2>5. Spelled(numeric_text(n, unit), unit) = -((-q) * unit + (-r))
      BY <2>4 DEF Spelled
    <2> QED BY <1>1, <1>4, <2>1, <2>4, <2>5
  <1> QED BY <1>3, <1>4

\* A count of fractions of a second since the epoch becomes whole seconds and a
\* remainder of nanoseconds below one second, before 1970 too: the two add up to
\* the instant (duckdb.rs 82-92).
THEOREM DuckSplitExact ==
  ASSUME NEW v \in Int, NEW perSec \in Nat \ {0}, NEW nanosPer \in Nat \ {0}
  PROVE  LET t == duck_split(v, perSec, nanosPer)
         IN /\ t.secs \in Int
            /\ t.nanos \in 0..(perSec * nanosPer - nanosPer)
            /\ v * nanosPer = t.secs * (perSec * nanosPer) + t.nanos
  <1> DEFINE q == v \div perSec
             r == v % perSec
  <1>1. q \in Int /\ r \in 0..(perSec - 1) /\ v = q * perSec + r
    BY SMT
  <1>2. duck_split(v, perSec, nanosPer) = [secs |-> q, nanos |-> r * nanosPer]
    BY DEF duck_split
  <1> HIDE DEF q, r
  <1>3. r * nanosPer \in 0..(perSec * nanosPer - nanosPer)
    <2>1. r * nanosPer \in Int /\ r * nanosPer >= 0
      BY <1>1, SMT
    <2>2. (perSec - 1 - r) * nanosPer >= 0
      BY <1>1, SMT
    <2>3. (perSec - 1 - r) * nanosPer = perSec * nanosPer - nanosPer - r * nanosPer
      BY <1>1, SMT
    <2> QED BY <2>1, <2>2, <2>3, SMT
  <1>4. v * nanosPer = q * (perSec * nanosPer) + r * nanosPer
    BY <1>1, SMT
  <1> QED BY <1>1, <1>2, <1>3, <1>4

\* The clock part of an interval adds up for a span that is not negative; a
\* negative one loses its sign in the fraction (duckdb.rs 140-148).
THEOREM IntervalExactForward ==
  ASSUME NEW nanos \in Nat, NEW perSec \in Nat \ {0}
  PROVE  LET t == duck_interval(nanos, perSec)
         IN nanos = t.secs * perSec + t.sub
  <1> DEFINE q == Quot(nanos, perSec)
             r == Rem(nanos, perSec)
  <1>1. q \in Int /\ r \in Int /\ nanos = q * perSec + r /\ r >= 0
    BY Truncation
  <1>2. duck_interval(nanos, perSec) = [secs |-> q, sub |-> Abs(r)]
    BY DEF duck_interval
  <1> HIDE DEF q, r
  <1> QED BY <1>1, <1>2 DEF Abs

\* An integer cell arrives with its value, whatever its size: as a plain number
\* only below Exact, where a double holds it, and as tagged text from there on
\* (spec.rs 380-391).
THEOREM IntegersSurvive ==
  ASSUME NEW n \in Int
  PROVE  LET wire == Serialize([as |-> "Int", n |-> n])
         IN /\ Decoded(wire).n = n
            /\ wire.json = "number" <=> Abs(n) < Exact
  <1> DEFINE wire == Serialize([as |-> "Int", n |-> n])
  <1>1. wire = [json |-> IF Abs(n) < Exact THEN "number" ELSE "__int", n |-> n]
    BY DEF Serialize
  <1> HIDE DEF wire
  <1>2. CASE Abs(n) < Exact
    <2>1. wire = [json |-> "number", n |-> n]
      BY <1>1, <1>2
    <2>2. Double(n) = n
      BY <1>2, WidthsAssumption DEF Double, Abs
    <2>3. Decoded(wire).n = n
      BY <2>1, <2>2 DEF Decoded
    <2> QED BY <1>2, <2>1, <2>3 DEF wire
  <1>3. CASE ~(Abs(n) < Exact)
    <2>1. wire = [json |-> "__int", n |-> n]
      BY <1>1, <1>3
    <2>2. Decoded(wire).n = n
      BY <2>1 DEF Decoded
    <2> QED BY <1>3, <2>1, <2>2 DEF wire
  <1> QED BY <1>2, <1>3
=============================================================================
