----------------------------- MODULE Catalog_proofs -----------------------------
(***************************************************************************)
(* What the drivers' readings of a catalog do, for a catalog of any size:  *)
(* the tree built row by row (BuiltComplete, TreeComplete), the columns    *)
(* and the key of one object (ColumnsOfOne), the rows of its indexes       *)
(* folded by group_indexes (GroupAll, IndexesOfOne).                       *)
(*                                                                         *)
(* The folds work on sequences of any length.  A property of one is proved *)
(* as a set of sequences that contains the empty one and is closed under   *)
(* Append (SeqInduction), from the value the fold takes on each prefix     *)
(* (FoldExists, StepsAgree).                                               *)
(***************************************************************************)
EXTENDS Catalog, Integers, SequenceTheorems, FiniteSetTheorems, WellFoundedInduction, TLAPS

---------------------------------------------------------------------------
(* Numbers.                                                                *)

\* Some numbers have a least one.
LEMMA LeastOf ==
  ASSUME NEW S \in SUBSET Nat, S # {}
  PROVE  \E i \in S : \A j \in S : i <= j
<1> DEFINE R == {ss \in Nat \X Nat : ss[1] < ss[2]}
<1>1. IsWellFoundedOn(R, Nat)
  BY NatLessThanWellFounded DEF OpToRel
<1>2. PICK i \in S : \A j \in S : ~(<<j, i>> \in R)
  BY <1>1, WFMin
<1>3. ASSUME NEW j \in S PROVE i <= j
  <2>1. j \in Nat /\ i \in Nat
    OBVIOUS
  <2>2. <<j, i>> \in Nat \X Nat /\ <<j, i>>[1] = j /\ <<j, i>>[2] = i
    BY <2>1
  <2>3. ~(j < i)
    BY <1>2, <2>2
  <2> QED BY <2>1, <2>3
<1> QED BY <1>3

\* Induction, for a set of numbers.
LEMMA Induction ==
  ASSUME NEW S \in SUBSET Nat, 0 \in S, \A k \in S : k + 1 \in S
  PROVE  S = Nat
<1> SUFFICES ASSUME Nat \ S # {} PROVE FALSE
  OBVIOUS
<1>1. PICK i \in Nat \ S : \A j \in Nat \ S : i <= j
  BY LeastOf
<1>2. i # 0 /\ i - 1 \in Nat /\ (i - 1) + 1 = i
  OBVIOUS
<1>3. i - 1 \in S
  BY <1>1, <1>2
<1> QED BY <1>2, <1>3

\* Of some places there is a last.
LEMMA LastOf ==
  ASSUME NEW n \in Nat, NEW S \in SUBSET (1..n), S # {}
  PROVE  \E i \in S : \A j \in S : j <= i
<1> DEFINE T == {n - i : i \in S}
<1>1. T \in SUBSET Nat /\ T # {}
  <2>1. \A i \in S : n - i \in Nat
    OBVIOUS
  <2> QED BY <2>1
<1>2. PICK t \in T : \A u \in T : t <= u
  BY <1>1, LeastOf
<1>3. PICK i \in S : t = n - i
  BY <1>2
<1>4. ASSUME NEW j \in S PROVE j <= i
  <2>1. n - i <= n - j
    BY <1>2, <1>3
  <2> QED BY <2>1
<1> QED BY <1>3, <1>4

---------------------------------------------------------------------------
(* Folds.  FoldLeft works through the places of a sequence from the last;  *)
(* what it comes to is shown here of step functions, as the prover takes   *)
(* no operator, and below of each fold of Catalog.                         *)

\* The greatest of some places is found, and what is left without it.
LEMMA MaxOf ==
  ASSUME NEW n \in Nat, NEW s \in SUBSET (1..(n + 1)), n + 1 \in s
  PROVE  Max(s) = n + 1 /\ s \ {Max(s)} \in SUBSET (1..n)
<1> DEFINE m == CHOOSE x \in s : \A y \in s : y <= x
<1>1. \A y \in s : y <= n + 1
  OBVIOUS
<1>2. m \in s /\ \A y \in s : y <= m
  <2>1. \E x \in s : \A y \in s : y <= x
    BY <1>1
  <2> QED BY <2>1
<1>3. Max(s) = m
  BY DEF Max
<1> HIDE DEF m
<1>4. m = n + 1
  <2>1. m \in 1..(n + 1) /\ n + 1 <= m
    BY <1>2
  <2> QED BY <2>1
<1>5. \A y \in 1..(n + 1) : y # n + 1 => y \in 1..n
  OBVIOUS
<1> QED BY <1>3, <1>4, <1>5

\* The places up to k, which the fold comes to in its turn.
LEMMA UpTo ==
  ASSUME NEW n \in Nat, NEW k \in 1..n
  PROVE  /\ 1..k \in SUBSET (1..n) /\ 1..k # {}
         /\ Max(1..k) = k /\ (1..k) \ {Max(1..k)} = 1..(k - 1)
<1>1. k - 1 \in Nat /\ (k - 1) + 1 = k /\ k \in 1..k
  OBVIOUS
<1>2. Max(1..k) = k
  BY <1>1, MaxOf
<1>3. (1..k) \ {k} = 1..(k - 1)
  OBVIOUS
<1> QED BY <1>1, <1>2, <1>3

\* f is the recursive function of a fold over n places whose steps stay in V.
IsFold(f, V, base, n, step) ==
  /\ f \in [SUBSET (1..n) -> V]
  /\ \A s \in SUBSET (1..n) :
       /\ s = {} => f[s] = base
       /\ s # {} => /\ Max(s) \in 1..n /\ s \ {Max(s)} \in SUBSET (1..n)
                    /\ f[s] = step[Max(s)][f[s \ {Max(s)}]]

\* There is one.
LEMMA FoldExists ==
  ASSUME NEW V, NEW base \in V, NEW n \in Nat, NEW step \in [1..n -> [V -> V]]
  PROVE  \E f : IsFold(f, V, base, n, step)
<1> DEFINE Claim(m) == \E f \in [SUBSET (1..m) -> V] : \A s \in SUBSET (1..m) :
                          f[s] = IF s = {} THEN base ELSE step[Max(s)][f[s \ {Max(s)}]]
           S == {m \in Nat : m <= n => Claim(m)}
<1>1. 0 \in S
  <2> DEFINE f == [s \in SUBSET (1..0) |-> base]
  <2>1. \A s \in SUBSET (1..0) : s = {}
    OBVIOUS
  <2>2. f \in [SUBSET (1..0) -> V] /\ \A s \in SUBSET (1..0) : f[s] = base
    OBVIOUS
  <2> HIDE DEF f
  <2>3. Claim(0)
    BY <2>1, <2>2
  <2> HIDE DEF Claim
  <2> QED BY <2>3
<1> HIDE DEF Claim
<1>2. ASSUME NEW m \in S PROVE m + 1 \in S
  <2> SUFFICES ASSUME m + 1 <= n PROVE Claim(m + 1)
    OBVIOUS
  <2>1. m \in Nat /\ m <= n /\ Claim(m)
    OBVIOUS
  <2>2. PICK f \in [SUBSET (1..m) -> V] : \A s \in SUBSET (1..m) :
               f[s] = IF s = {} THEN base ELSE step[Max(s)][f[s \ {Max(s)}]]
    BY <2>1 DEF Claim
  <2> DEFINE g == [s \in SUBSET (1..(m + 1)) |->
                     IF m + 1 \in s THEN step[m + 1][f[s \ {m + 1}]] ELSE f[s]]
  <2>3. \A s \in SUBSET (1..(m + 1)) : m + 1 \notin s => s \in SUBSET (1..m)
    BY <2>1
  <2>4. \A s \in SUBSET (1..(m + 1)) : s \ {m + 1} \in SUBSET (1..m)
    BY <2>1
  <2>5. m + 1 \in 1..n /\ step[m + 1] \in [V -> V]
    BY <2>1
  <2>6. ASSUME NEW s \in SUBSET (1..(m + 1)) PROVE g[s] \in V
    BY <2>2, <2>3, <2>4, <2>5
  <2>7. ASSUME NEW s \in SUBSET (1..(m + 1))
        PROVE  g[s] = IF s = {} THEN base ELSE step[Max(s)][g[s \ {Max(s)}]]
    <3>1. CASE m + 1 \in s
      <4>1. Max(s) = m + 1 /\ s # {}
        BY <2>1, <3>1, MaxOf
      <4>2. s \ {m + 1} \in SUBSET (1..(m + 1)) /\ m + 1 \notin s \ {m + 1}
        OBVIOUS
      <4>3. g[s \ {m + 1}] = f[s \ {m + 1}]
        BY <4>2
      <4>4. g[s] = step[m + 1][f[s \ {m + 1}]]
        BY <3>1
      <4> QED BY <4>1, <4>3, <4>4
    <3>2. CASE m + 1 \notin s
      <4>1. s \in SUBSET (1..m) /\ g[s] = f[s]
        BY <2>3, <3>2
      <4>2. s \ {Max(s)} \in SUBSET (1..(m + 1)) /\ m + 1 \notin s \ {Max(s)}
        BY <3>2
      <4>3. g[s \ {Max(s)}] = f[s \ {Max(s)}]
        BY <4>2
      <4> QED BY <2>2, <4>1, <4>3
    <3> QED BY <3>1, <3>2
  <2>8. g \in [SUBSET (1..(m + 1)) -> V]
    BY <2>6
  <2> HIDE DEF g
  <2> QED BY <2>7, <2>8 DEF Claim
<1>3. S = Nat
  <2> HIDE DEF S
  <2>1. S \in SUBSET Nat
    BY DEF S
  <2> QED BY <1>1, <1>2, <2>1, Induction
<1>4. Claim(n)
  <2>1. n \in S /\ n <= n
    BY <1>3
  <2> QED BY <2>1
<1>5. PICK f \in [SUBSET (1..n) -> V] : \A s \in SUBSET (1..n) :
             f[s] = IF s = {} THEN base ELSE step[Max(s)][f[s \ {Max(s)}]]
  BY <1>4 DEF Claim
<1>6. ASSUME NEW s \in SUBSET (1..n), s # {}
      PROVE  Max(s) \in 1..n /\ s \ {Max(s)} \in SUBSET (1..n)
  <2>1. \E x \in s : \A y \in s : y <= x
    BY <1>6, LastOf
  <2> QED BY <2>1 DEF Max
<1> QED BY <1>5, <1>6 DEF IsFold

\* What agrees at the start and from place to place agrees in the end.
LEMMA StepsAgree ==
  ASSUME NEW n \in Nat, NEW g, NEW h, g[0] = h[0],
         \A k \in 1..n : g[k - 1] = h[k - 1] => g[k] = h[k]
  PROVE  g[n] = h[n]
<1> DEFINE S == {k \in Nat : k <= n => g[k] = h[k]}
<1>1. S \in SUBSET Nat /\ 0 \in S
  OBVIOUS
<1>2. ASSUME NEW k \in S PROVE k + 1 \in S
  <2>1. k \in Nat /\ (k <= n => g[k] = h[k]) /\ (k + 1) - 1 = k
    OBVIOUS
  <2>2. k + 1 <= n => k + 1 \in 1..n /\ k <= n
    BY <2>1
  <2>3. k + 1 <= n => g[k + 1] = h[k + 1]
    BY <2>1, <2>2
  <2> QED BY <2>1, <2>3
<1> HIDE DEF S
<1>3. S = Nat
  BY <1>1, <1>2, Induction
<1>4. n \in S /\ n <= n
  BY <1>3
<1> QED BY <1>4 DEF S

\* Every sequence is made by appending.
LEMMA SeqInduction ==
  ASSUME NEW T, NEW P \in SUBSET Seq(T), <<>> \in P,
         \A s \in P : \A x \in T : Append(s, x) \in P
  PROVE  P = Seq(T)
<1> DEFINE S == {k \in Nat : \A s \in Seq(T) : Len(s) = k => s \in P}
<1>1. S \in SUBSET Nat /\ 0 \in S
  <2>1. \A s \in Seq(T) : Len(s) = 0 => s = <<>>
    BY EmptySeq
  <2> QED BY <2>1
<1>2. ASSUME NEW k \in S PROVE k + 1 \in S
  <2>1. k \in Nat /\ \A s \in Seq(T) : Len(s) = k => s \in P
    OBVIOUS
  <2>2. ASSUME NEW s \in Seq(T), Len(s) = k + 1 PROVE s \in P
    <3> DEFINE f == SubSeq(s, 1, k)
               x == s[k + 1]
    <3>1. /\ f \in Seq(T) /\ Len(f) = k /\ x \in T
          /\ \A i \in 1..k : f[i] = s[i]
      <4> HIDE DEF S
      <4>1. k + 1 \in 1..Len(s)
        BY <2>1, <2>2
      <4>2. f \in Seq(T) /\ Len(f) = k /\ \A i \in 1..k : f[i] = s[i]
        <5>1. \A i \in 1..k : s[i] \in T
          BY <2>1, <2>2, ElementOfSeq
        <5>2. /\ SubSeq(s, 1, k) \in Seq(T)
              /\ Len(SubSeq(s, 1, k)) = IF 1 <= k THEN k - 1 + 1 ELSE 0
              /\ \A i \in 1..(k - 1 + 1) : SubSeq(s, 1, k)[i] = s[1 + i - 1]
          BY <2>1, <5>1, SubSeqProperties
        <5>3. (IF 1 <= k THEN k - 1 + 1 ELSE 0) = k /\ k - 1 + 1 = k
          BY <2>1
        <5>4. \A i \in 1..k : 1 + i - 1 = i
          BY <2>1
        <5> QED BY <5>2, <5>3, <5>4
      <4>3. x \in T
        BY <4>1, ElementOfSeq
      <4> QED BY <4>2, <4>3
    <3> HIDE DEF f, x, S
    <3>2. s = Append(f, x)
      <4>1. /\ Append(f, x) \in Seq(T) /\ Len(Append(f, x)) = k + 1
            /\ \A i \in 1..k : Append(f, x)[i] = f[i]
            /\ Append(f, x)[k + 1] = x
        <5>1. Append(f, x) \in Seq(T) /\ Len(Append(f, x)) = Len(f) + 1
          BY <3>1, AppendProperties
        <5>2. \A i \in 1..Len(f) : Append(f, x)[i] = f[i]
          BY <3>1, AppendProperties
        <5>3. Append(f, x)[Len(f) + 1] = x
          BY <3>1, AppendProperties
        <5> QED BY <3>1, <5>1, <5>2, <5>3
      <4>2. \A i \in 1..(k + 1) : i \in 1..k \/ i = k + 1
        BY <2>1
      <4>3. \A i \in 1..(k + 1) : Append(f, x)[i] = s[i]
        BY <3>1, <4>1, <4>2 DEF x
      <4> QED BY <2>2, <4>1, <4>3, SeqEqual
    <3>3. f \in P
      BY <2>1, <3>1
    <3> QED BY <3>1, <3>2, <3>3
  <2> QED BY <2>1, <2>2
<1> HIDE DEF S
<1>3. S = Nat
  BY <1>1, <1>2, Induction
<1>4. ASSUME NEW s \in Seq(T) PROVE s \in P
  <2>1. Len(s) \in S
    BY <1>3
  <2> QED BY <2>1 DEF S
<1> QED BY <1>4

\* The steps of Kept.
LEMMA KeptSteps ==
  ASSUME NEW T, NEW s \in Seq(T), NEW S
  PROVE  \E g : /\ g[0] = <<>>
                /\ \A k \in 1..Len(s) :
                     g[k] = IF s[k] \in S THEN Append(g[k - 1], s[k]) ELSE g[k - 1]
                /\ Kept(s, S) = g[Len(s)]
<1> DEFINE n == Len(s)
           V == Seq(T)
           step == [i \in 1..n |-> [v \in V |-> IF s[i] \in S THEN Append(v, s[i]) ELSE v]]
           Is(f) == f = [p \in SUBSET (1..n) |->
                           IF p = {} THEN <<>>
                           ELSE IF s[Max(p)] \in S THEN Append(f[p \ {Max(p)}], s[Max(p)])
                                                   ELSE f[p \ {Max(p)}]]
           F == CHOOSE f : Is(f)
           g == [k \in 0..n |-> F[1..k]]
<1>1. n \in Nat /\ DOMAIN s = 1..n /\ \A i \in 1..n : s[i] \in T
  OBVIOUS
<1>2. Kept(s, S) = F[1..n]
  BY <1>1 DEF Kept, FoldLeft, MapThenFoldSet
<1> HIDE DEF n, V
<1>3. step \in [1..n -> [V -> V]] /\ <<>> \in V
  BY <1>1 DEF V
<1>4. \A i \in 1..n, v \in V : step[i][v] = IF s[i] \in S THEN Append(v, s[i]) ELSE v
  OBVIOUS
<1> HIDE DEF step
<1>5. PICK f : IsFold(f, V, <<>>, n, step)
  BY <1>1, <1>3, FoldExists
<1>6. Is(f)
  <2>1. f = [p \in SUBSET (1..n) |-> f[p]]
    BY <1>5 DEF IsFold
  <2>2. ASSUME NEW p \in SUBSET (1..n)
        PROVE  f[p] = IF p = {} THEN <<>>
                      ELSE IF s[Max(p)] \in S THEN Append(f[p \ {Max(p)}], s[Max(p)])
                                              ELSE f[p \ {Max(p)}]
    <3>1. p = {} => f[p] = <<>>
      BY <1>5 DEF IsFold
    <3>2. p # {} => /\ Max(p) \in 1..n /\ f[p \ {Max(p)}] \in V
                    /\ f[p] = step[Max(p)][f[p \ {Max(p)}]]
      BY <1>5 DEF IsFold
    <3> QED BY <1>4, <3>1, <3>2
  <2> QED BY <2>1, <2>2
<1>7. Is(F)
  BY <1>6, Zenon
<1> HIDE DEF F
<1>8. F[1..0] = <<>>
  <2>1. 1..0 = {} /\ {} \in SUBSET (1..n)
    OBVIOUS
  <2> QED BY <1>7, <2>1
<1>9. ASSUME NEW k \in 1..n
      PROVE  F[1..k] = IF s[k] \in S THEN Append(F[1..(k - 1)], s[k]) ELSE F[1..(k - 1)]
  BY <1>1, <1>7, UpTo
<1>10. /\ g[0] = <<>> /\ g[n] = F[1..n]
       /\ \A k \in 1..n : g[k] = F[1..k] /\ g[k - 1] = F[1..(k - 1)]
  BY <1>1, <1>8
<1> HIDE DEF g
<1>11. \A k \in 1..n : g[k] = IF s[k] \in S THEN Append(g[k - 1], s[k]) ELSE g[k - 1]
  BY <1>9, <1>10
<1> QED BY <1>2, <1>10, <1>11 DEF n

\* What appending does.
LEMMA Appended ==
  ASSUME NEW T, NEW s \in Seq(T), NEW x \in T
  PROVE  /\ Append(s, x) \in Seq(T) /\ Len(s) \in Nat
         /\ Len(Append(s, x)) = Len(s) + 1
         /\ \A i \in 1..Len(s) : Append(s, x)[i] = s[i] /\ i \in 1..Len(Append(s, x))
         /\ Append(s, x)[Len(s) + 1] = x
         /\ Range(Append(s, x)) = Range(s) \cup {x}
<1>1. /\ Append(s, x) \in Seq(T) /\ Len(s) \in Nat
      /\ Len(Append(s, x)) = Len(s) + 1
      /\ \A i \in 1..Len(s) : Append(s, x)[i] = s[i]
      /\ Append(s, x)[Len(s) + 1] = x
  BY AppendProperties
<1>2. DOMAIN s = 1..Len(s) /\ DOMAIN Append(s, x) = 1..(Len(s) + 1)
  BY <1>1
<1>3. \A i : i \in 1..(Len(s) + 1) <=> i \in 1..Len(s) \/ i = Len(s) + 1
  BY <1>1
<1>4. Range(Append(s, x)) = Range(s) \cup {x}
  BY <1>1, <1>2, <1>3 DEF Range
<1> QED BY <1>1, <1>3, <1>4

\* Kept, of nothing.
LEMMA KeptEmpty == \A S : Kept(<<>>, S) = <<>>
<1> TAKE S
<1>1. PICK g : g[0] = <<>> /\ Kept(<<>>, S) = g[Len(<<>>)]
  <2>1. <<>> \in Seq({})
    OBVIOUS
  <2> QED BY <2>1, KeptSteps
<1> QED BY <1>1

\* And with one member more.
LEMMA KeptAppend ==
  ASSUME NEW T, NEW s \in Seq(T), NEW x \in T, NEW S
  PROVE  Kept(Append(s, x), S) = IF x \in S THEN Append(Kept(s, S), x) ELSE Kept(s, S)
<1> DEFINE t == Append(s, x)
           n == Len(s)
<1>1. /\ t \in Seq(T) /\ n \in Nat /\ Len(t) = n + 1
      /\ \A i \in 1..n : t[i] = s[i] /\ i \in 1..Len(t)
      /\ t[n + 1] = x
  BY Appended
<1> HIDE DEF t
<1>2. PICK g : /\ g[0] = <<>>
               /\ \A k \in 1..Len(s) :
                    g[k] = IF s[k] \in S THEN Append(g[k - 1], s[k]) ELSE g[k - 1]
               /\ Kept(s, S) = g[Len(s)]
  BY KeptSteps
<1>3. PICK h : /\ h[0] = <<>>
               /\ \A k \in 1..Len(t) :
                    h[k] = IF t[k] \in S THEN Append(h[k - 1], t[k]) ELSE h[k - 1]
               /\ Kept(t, S) = h[Len(t)]
  BY <1>1, KeptSteps
<1>4. \A k \in 1..n : g[k - 1] = h[k - 1] => g[k] = h[k]
  BY <1>1, <1>2, <1>3
<1>5. g[n] = h[n]
  <2>1. g[0] = h[0] /\ n \in Nat
    BY <1>1, <1>2, <1>3
  <2> HIDE DEF n
  <2> QED BY <1>4, <2>1, StepsAgree
<1>6. n + 1 \in 1..Len(t) /\ (n + 1) - 1 = n
  BY <1>1
<1>7. h[n + 1] = IF x \in S THEN Append(h[n], x) ELSE h[n]
  BY <1>1, <1>3, <1>6
<1> QED BY <1>1, <1>2, <1>3, <1>5, <1>7 DEF t

\* What Kept keeps.
LEMMA KeptMembers ==
  ASSUME NEW T, NEW S, NEW s \in Seq(T)
  PROVE  /\ Kept(s, S) \in Seq(T)
         /\ Range(Kept(s, S)) = Range(s) \cap S
<1> DEFINE P == {r \in Seq(T) : Kept(r, S) \in Seq(T) /\ Range(Kept(r, S)) = Range(r) \cap S}
<1>1. P \in SUBSET Seq(T)
  OBVIOUS
<1>2. <<>> \in P
  <2>1. <<>> \in Seq(T) /\ Range(<<>>) = {}
    BY DEF Range
  <2> QED BY <2>1, KeptEmpty
<1>3. ASSUME NEW r \in P, NEW x \in T PROVE Append(r, x) \in P
  <2>1. r \in Seq(T) /\ Kept(r, S) \in Seq(T) /\ Range(Kept(r, S)) = Range(r) \cap S
    OBVIOUS
  <2> HIDE DEF P
  <2>2. Append(r, x) \in Seq(T) /\ Range(Append(r, x)) = Range(r) \cup {x}
    BY <2>1, Appended
  <2>3. Kept(Append(r, x), S) = IF x \in S THEN Append(Kept(r, S), x) ELSE Kept(r, S)
    BY <2>1, KeptAppend
  <2>4. Append(Kept(r, S), x) \in Seq(T) /\ Range(Append(Kept(r, S), x)) = Range(Kept(r, S)) \cup {x}
    BY <2>1, Appended
  <2>5. Kept(Append(r, x), S) \in Seq(T) /\ Range(Kept(Append(r, x), S)) = Range(Append(r, x)) \cap S
    BY <2>1, <2>2, <2>3, <2>4
  <2> QED BY <2>2, <2>5 DEF P
<1> HIDE DEF P
<1>4. P = Seq(T)
  BY <1>1, <1>2, <1>3, SeqInduction
<1>5. s \in P
  BY <1>4
<1> QED BY <1>5 DEF P

\* It depends on the members of s only.
LEMMA KeptSame ==
  ASSUME NEW T, NEW S, NEW R, NEW s \in Seq(T), Range(s) \cap S = Range(s) \cap R
  PROVE  Kept(s, S) = Kept(s, R)
<1> DEFINE P == {r \in Seq(T) : Range(r) \cap S = Range(r) \cap R => Kept(r, S) = Kept(r, R)}
<1>1. P \in SUBSET Seq(T)
  OBVIOUS
<1>2. <<>> \in P
  BY KeptEmpty
<1>3. ASSUME NEW r \in P, NEW x \in T PROVE Append(r, x) \in P
  <2>1. r \in Seq(T) /\ (Range(r) \cap S = Range(r) \cap R => Kept(r, S) = Kept(r, R))
    OBVIOUS
  <2> HIDE DEF P
  <2>2. Append(r, x) \in Seq(T) /\ Range(Append(r, x)) = Range(r) \cup {x}
    BY <2>1, Appended
  <2>3. /\ Kept(Append(r, x), S) = IF x \in S THEN Append(Kept(r, S), x) ELSE Kept(r, S)
        /\ Kept(Append(r, x), R) = IF x \in R THEN Append(Kept(r, R), x) ELSE Kept(r, R)
    BY <2>1, KeptAppend
  <2>4. ASSUME Range(Append(r, x)) \cap S = Range(Append(r, x)) \cap R
        PROVE  Kept(Append(r, x), S) = Kept(Append(r, x), R)
    <3>1. Range(r) \cap S = Range(r) \cap R /\ (x \in S <=> x \in R)
      BY <2>2, <2>4
    <3> QED BY <2>1, <2>3, <3>1
  <2> QED BY <2>2, <2>4 DEF P
<1> HIDE DEF P
<1>4. P = Seq(T)
  BY <1>1, <1>2, <1>3, SeqInduction
<1>5. s \in P
  BY <1>4
<1> QED BY <1>5 DEF P

\* All of s, or nothing.
LEMMA KeptAll ==
  ASSUME NEW T, NEW S, NEW s \in Seq(T), Range(s) \subseteq S
  PROVE  Kept(s, S) = s
<1> DEFINE P == {r \in Seq(T) : Range(r) \subseteq S => Kept(r, S) = r}
<1>1. P \in SUBSET Seq(T)
  OBVIOUS
<1>2. <<>> \in P
  BY KeptEmpty
<1>3. ASSUME NEW r \in P, NEW x \in T PROVE Append(r, x) \in P
  <2>1. r \in Seq(T) /\ (Range(r) \subseteq S => Kept(r, S) = r)
    OBVIOUS
  <2> HIDE DEF P
  <2>2. Append(r, x) \in Seq(T) /\ Range(Append(r, x)) = Range(r) \cup {x}
    BY <2>1, Appended
  <2>3. Kept(Append(r, x), S) = IF x \in S THEN Append(Kept(r, S), x) ELSE Kept(r, S)
    BY <2>1, KeptAppend
  <2>4. Range(Append(r, x)) \subseteq S => Kept(Append(r, x), S) = Append(r, x)
    BY <2>1, <2>2, <2>3
  <2> QED BY <2>2, <2>4 DEF P
<1> HIDE DEF P
<1>4. P = Seq(T)
  BY <1>1, <1>2, <1>3, SeqInduction
<1>5. s \in P
  BY <1>4
<1> QED BY <1>5 DEF P

\* Of members outside S it keeps none.
LEMMA KeptNone ==
  ASSUME NEW T, NEW S, NEW s \in Seq(T), Range(s) \cap S = {}
  PROVE  Kept(s, S) = <<>>
<1>1. Kept(s, S) \in Seq(T) /\ Range(Kept(s, S)) = {}
  BY KeptMembers
<1>2. Len(Kept(s, S)) = 0
  <2>1. 1..Len(Kept(s, S)) = {}
    BY <1>1 DEF Range
  <2>2. \A m \in Nat : 1..m = {} => m = 0
    OBVIOUS
  <2> QED BY <1>1, <2>1, <2>2
<1> QED BY <1>1, <1>2, EmptySeq

\* Of one member.
LEMMA KeptOne ==
  ASSUME NEW x, NEW S
  PROVE  Kept(<<x>>, S) = IF x \in S THEN <<x>> ELSE <<>>
<1> DEFINE s == <<x>>
           T == {x}
<1>1. s \in Seq(T) /\ Range(s) = {x}
  BY DEF Range
<1> HIDE DEF s, T
<1>2. CASE x \in S
  <2>1. Range(s) \subseteq S
    BY <1>1, <1>2
  <2>2. Kept(s, S) = s
    BY <1>1, <2>1, KeptAll
  <2> QED BY <1>2, <2>2 DEF s
<1>3. CASE x \notin S
  <2>1. Range(s) \cap S = {}
    BY <1>1, <1>3
  <2>2. Kept(s, S) = <<>>
    BY <1>1, <2>1, KeptNone
  <2> QED BY <1>3, <2>2 DEF s
<1> QED BY <1>2, <1>3

\* A sequence and another behind it.
LEMMA ConcatAppend ==
  ASSUME NEW T, NEW r \in Seq(T), NEW s \in Seq(T), NEW x \in T
  PROVE  /\ r \o s \in Seq(T) /\ r \o <<>> = r
         /\ r \o Append(s, x) = Append(r \o s, x)
<1>1. r \o s \in Seq(T) /\ r \o <<>> = r
  OBVIOUS
<1>2. Append(s, x) = s \o <<x>> /\ Append(r \o s, x) = (r \o s) \o <<x>>
  BY <1>1, AppendIsConcat
<1>3. <<x>> \in Seq(T)
  OBVIOUS
<1>4. (r \o s) \o <<x>> = r \o (s \o <<x>>)
  BY <1>3, ConcatAssociative
<1> QED BY <1>1, <1>2, <1>4

\* Kept, of one sequence and another behind it.
LEMMA KeptConcat ==
  ASSUME NEW T, NEW S, NEW r \in Seq(T), NEW s \in Seq(T)
  PROVE  Kept(r \o s, S) = Kept(r, S) \o Kept(s, S)
<1> DEFINE P == {t \in Seq(T) : Kept(r \o t, S) = Kept(r, S) \o Kept(t, S)}
<1>1. P \in SUBSET Seq(T)
  OBVIOUS
<1>2. Kept(r, S) \in Seq(T)
  BY KeptMembers
<1>3. <<>> \in P
  BY <1>2, KeptEmpty
<1>4. ASSUME NEW t \in P, NEW x \in T PROVE Append(t, x) \in P
  <2>1. t \in Seq(T) /\ Kept(r \o t, S) = Kept(r, S) \o Kept(t, S)
    OBVIOUS
  <2> HIDE DEF P
  <2>2. r \o t \in Seq(T) /\ r \o Append(t, x) = Append(r \o t, x) /\ Append(t, x) \in Seq(T)
    BY <2>1, ConcatAppend
  <2>3. Kept(Append(r \o t, x), S) = IF x \in S THEN Append(Kept(r \o t, S), x)
                                              ELSE Kept(r \o t, S)
    BY <2>2, KeptAppend
  <2>7. Kept(Append(t, x), S) = IF x \in S THEN Append(Kept(t, S), x) ELSE Kept(t, S)
    BY <2>1, KeptAppend
  <2>4. Kept(t, S) \in Seq(T)
    BY <2>1, KeptMembers
  <2>5. Kept(r, S) \o Append(Kept(t, S), x) = Append(Kept(r, S) \o Kept(t, S), x)
    BY <1>2, <2>4, ConcatAppend
  <2>6. Kept(r \o Append(t, x), S) = Kept(r, S) \o Kept(Append(t, x), S)
    BY <2>1, <2>2, <2>3, <2>5, <2>7
  <2> QED BY <2>2, <2>6 DEF P
<1> HIDE DEF P
<1>5. P = Seq(T)
  BY <1>1, <1>3, <1>4, SeqInduction
<1>6. s \in P
  BY <1>5
<1> QED BY <1>6 DEF P

\* Kept, twice.
LEMMA KeptKept ==
  ASSUME NEW T, NEW S, NEW R, NEW s \in Seq(T)
  PROVE  Kept(Kept(s, S), R) = Kept(s, S \cap R)
<1> DEFINE P == {t \in Seq(T) : Kept(Kept(t, S), R) = Kept(t, S \cap R)}
<1>1. P \in SUBSET Seq(T)
  OBVIOUS
<1>2. <<>> \in P
  BY KeptEmpty
<1>3. ASSUME NEW t \in P, NEW x \in T PROVE Append(t, x) \in P
  <2>1. t \in Seq(T) /\ Kept(Kept(t, S), R) = Kept(t, S \cap R)
    OBVIOUS
  <2> HIDE DEF P
  <2>2. Kept(t, S) \in Seq(T)
    BY <2>1, KeptMembers
  <2>3. Kept(Append(t, x), S) = IF x \in S THEN Append(Kept(t, S), x) ELSE Kept(t, S)
    BY <2>1, KeptAppend
  <2>6. Kept(Append(t, x), S \cap R) = IF x \in S \cap R THEN Append(Kept(t, S \cap R), x)
                                                         ELSE Kept(t, S \cap R)
    BY <2>1, KeptAppend
  <2>7. Kept(Append(Kept(t, S), x), R) = IF x \in R THEN Append(Kept(Kept(t, S), R), x)
                                                    ELSE Kept(Kept(t, S), R)
    BY <2>2, KeptAppend
  <2>4. Kept(Kept(Append(t, x), S), R) = Kept(Append(t, x), S \cap R)
    <3>1. CASE x \in S
      <4>1. x \in S \cap R <=> x \in R
        BY <3>1
      <4>2. Kept(Append(t, x), S) = Append(Kept(t, S), x)
        BY <2>3, <3>1
      <4> QED BY <2>1, <2>6, <2>7, <4>1, <4>2
    <3>2. CASE x \notin S
      BY <2>1, <2>3, <2>6, <3>2
    <3> QED BY <3>1, <3>2
  <2>5. Append(t, x) \in Seq(T)
    BY <2>1, Appended
  <2> QED BY <2>4, <2>5 DEF P
<1> HIDE DEF P
<1>4. P = Seq(T)
  BY <1>1, <1>2, <1>3, SeqInduction
<1>5. s \in P
  BY <1>4
<1> QED BY <1>5 DEF P

\* FlattenSeq, of nothing, of one sequence, and with one more at the end.
LEMMA FlattenEmpty == FlattenSeq(<<>>) = <<>>
BY DEF FlattenSeq

\* Of one sequence alone, that sequence.
LEMMA FlattenOne ==
  ASSUME NEW T, NEW t \in Seq(T)
  PROVE  FlattenSeq(<<t>>) = t
<1> DEFINE ss == <<t>>
           Is(f) == f = [i \in 1..Len(ss) |-> IF i = 1 THEN ss[i] ELSE f[i - 1] \o ss[i]]
           F == CHOOSE f : Is(f)
           g == [i \in 1..1 |-> t]
<1>1. Len(ss) = 1 /\ ss[1] = t
  OBVIOUS
<1>2. FlattenSeq(ss) = F[Len(ss)]
  BY <1>1 DEF FlattenSeq
<1> HIDE DEF ss
<1>3. g = [i \in 1..1 |-> IF i = 1 THEN ss[i] ELSE g[i - 1] \o ss[i]]
  BY <1>1
<1>4. Is(g)
  BY <1>1, <1>3
<1>5. Is(F)
  BY <1>4, Zenon
<1> HIDE DEF F
<1>6. F[1] = ss[1]
  BY <1>1, <1>5
<1> QED BY <1>1, <1>2, <1>6 DEF ss

\* The steps of FlattenSeq.
LEMMA FlattenSteps ==
  ASSUME NEW T, NEW ss \in Seq(Seq(T))
  PROVE  \E g : /\ g[0] = <<>>
                /\ \A k \in 1..Len(ss) : g[k] = g[k - 1] \o ss[k]
                /\ FlattenSeq(ss) = g[Len(ss)]
<1> DEFINE n == Len(ss)
           V == Seq(T)
           step == [i \in 1..n |-> [v \in V |-> v \o ss[i]]]
           Is(f) == f = [i \in 1..n |-> IF i = 1 THEN ss[i] ELSE f[i - 1] \o ss[i]]
           F == CHOOSE f : Is(f)
<1>1. n \in Nat /\ \A i \in 1..n : ss[i] \in V
  OBVIOUS
<1>2. FlattenSeq(ss) = IF n = 0 THEN ss ELSE F[n]
  BY DEF FlattenSeq
<1>3. n = 0 => ss = <<>>
  BY EmptySeq
<1> HIDE DEF n
<1>4. step \in [1..n -> [V -> V]] /\ <<>> \in V
  <2>1. \A v, w \in V : v \o w \in V
    OBVIOUS
  <2> HIDE DEF V
  <2>2. <<>> \in V
    BY DEF V
  <2> QED BY <1>1, <2>1, <2>2
<1>5. \A i \in 1..n, v \in V : step[i][v] = v \o ss[i]
  OBVIOUS
<1>6. \A v \in V : <<>> \o v = v
  OBVIOUS
<1> HIDE DEF step, V
<1>7. PICK f : IsFold(f, V, <<>>, n, step)
  BY <1>1, <1>4, FoldExists
<1> DEFINE g == [k \in 0..n |-> f[1..k]]
           h == [k \in 1..n |-> g[k]]
<1>8. g[0] = <<>>
  <2>1. 1..0 = {} /\ {} \in SUBSET (1..n) /\ 0 \in 0..n
    BY <1>1
  <2> QED BY <1>7, <2>1 DEF IsFold
<1>9. ASSUME NEW k \in 1..n PROVE g[k] = g[k - 1] \o ss[k] /\ g[k - 1] \in V
  <2>1. /\ 1..k \in SUBSET (1..n) /\ 1..k # {}
        /\ Max(1..k) = k /\ (1..k) \ {Max(1..k)} = 1..(k - 1)
    BY <1>1, UpTo
  <2>2. k \in 0..n /\ k - 1 \in 0..n
    BY <1>1
  <2>3. g[k] = f[1..k] /\ g[k - 1] = f[1..(k - 1)]
    BY <2>2
  <2>4. f[1..k] = step[k][f[1..(k - 1)]] /\ 1..(k - 1) \in SUBSET (1..n)
    BY <1>7, <2>1 DEF IsFold
  <2>5. f[1..(k - 1)] \in V
    BY <1>7, <2>4 DEF IsFold
  <2> HIDE DEF g
  <2> QED BY <1>5, <2>3, <2>4, <2>5
<1> HIDE DEF g
<1>10. h = [i \in 1..n |-> IF i = 1 THEN ss[i] ELSE h[i - 1] \o ss[i]]
  <2>1. ASSUME NEW i \in 1..n PROVE h[i] = IF i = 1 THEN ss[i] ELSE h[i - 1] \o ss[i]
    <3>1. CASE i = 1
      <4>1. i - 1 = 0 /\ h[i] = g[i]
        BY <3>1
      <4> QED BY <1>1, <1>6, <1>8, <1>9, <3>1, <4>1
    <3>2. CASE i # 1
      <4>1. i - 1 \in 1..n /\ h[i] = g[i] /\ h[i - 1] = g[i - 1]
        BY <1>1, <3>2
      <4> HIDE DEF h
      <4> QED BY <1>9, <3>2, <4>1
    <3> QED BY <3>1, <3>2
  <2> QED BY <2>1
<1>11. \A i \in 1..n : h[i] = g[i]
  OBVIOUS
<1> HIDE DEF h
<1>12. Is(h)
  BY <1>10
<1>13. Is(F)
  BY <1>12, Zenon
<1> HIDE DEF F
<1>14. \A i \in 1..n : F[i] = IF i = 1 THEN ss[i] ELSE F[i - 1] \o ss[i]
  BY <1>13
<1>15. \A i \in 1..n : h[i] = IF i = 1 THEN ss[i] ELSE h[i - 1] \o ss[i]
  BY <1>12
<1>16. FlattenSeq(ss) = g[n]
  <2>1. CASE n = 0
    BY <1>2, <1>3, <1>8, <2>1
  <2>2. CASE n # 0
    <3>1. ASSUME NEW k \in 1..(n - 1), F[(k - 1) + 1] = h[(k - 1) + 1] PROVE F[k + 1] = h[k + 1]
      <4>1. k + 1 \in 1..n /\ (k + 1) - 1 = k /\ k + 1 # 1 /\ (k - 1) + 1 = k
        BY <1>1
      <4> QED BY <1>14, <1>15, <3>1, <4>1
    <3> DEFINE u == [k \in 0..(n - 1) |-> F[k + 1]]
               v == [k \in 0..(n - 1) |-> h[k + 1]]
    <3>2. \A k \in 0..(n - 1) : u[k] = F[k + 1] /\ v[k] = h[k + 1]
      OBVIOUS
    <3> HIDE DEF u, v
    <3>3. n - 1 \in Nat /\ 0 \in 0..(n - 1) /\ n - 1 \in 0..(n - 1) /\ (n - 1) + 1 = n /\ 0 + 1 = 1
          /\ 1 \in 1..n /\ n \in 1..n
      BY <1>1, <2>2
    <3>4. u[0] = v[0]
      BY <1>14, <1>15, <3>2, <3>3
    <3>5. \A k \in 1..(n - 1) : u[k - 1] = v[k - 1] => u[k] = v[k]
      <4>1. \A k \in 1..(n - 1) : k \in 0..(n - 1) /\ k - 1 \in 0..(n - 1)
        BY <3>3
      <4> QED BY <3>1, <3>2, <4>1
    <3>6. u[n - 1] = v[n - 1]
      BY <3>3, <3>4, <3>5, StepsAgree
    <3> QED BY <1>2, <1>11, <2>2, <3>2, <3>3, <3>6
  <2> QED BY <2>1, <2>2
<1> QED BY <1>8, <1>9, <1>16 DEF n

\* And with one sequence more.
LEMMA FlattenAppend ==
  ASSUME NEW T, NEW ss \in Seq(Seq(T)), NEW t \in Seq(T)
  PROVE  FlattenSeq(Append(ss, t)) = FlattenSeq(ss) \o t
<1> DEFINE rr == Append(ss, t)
           n == Len(ss)
<1>1. /\ rr \in Seq(Seq(T)) /\ n \in Nat /\ Len(rr) = n + 1
      /\ \A i \in 1..n : rr[i] = ss[i] /\ i \in 1..Len(rr)
      /\ rr[n + 1] = t
  BY Appended
<1> HIDE DEF rr
<1>2. PICK g : /\ g[0] = <<>>
               /\ \A k \in 1..Len(ss) : g[k] = g[k - 1] \o ss[k]
               /\ FlattenSeq(ss) = g[Len(ss)]
  BY FlattenSteps
<1>3. PICK h : /\ h[0] = <<>>
               /\ \A k \in 1..Len(rr) : h[k] = h[k - 1] \o rr[k]
               /\ FlattenSeq(rr) = h[Len(rr)]
  BY <1>1, FlattenSteps
<1>4. \A k \in 1..n : g[k - 1] = h[k - 1] => g[k] = h[k]
  BY <1>1, <1>2, <1>3
<1>5. g[n] = h[n]
  <2>1. g[0] = h[0] /\ n \in Nat
    BY <1>1, <1>2, <1>3
  <2> HIDE DEF n
  <2> QED BY <1>4, <2>1, StepsAgree
<1>6. n + 1 \in 1..Len(rr) /\ (n + 1) - 1 = n
  BY <1>1
<1>7. h[n + 1] = h[n] \o t
  BY <1>1, <1>3, <1>6
<1> QED BY <1>1, <1>2, <1>3, <1>5, <1>7 DEF rr


---------------------------------------------------------------------------
(* group_indexes: the rows of a catalog's indexes, folded.                 *)

\* A row of names N, columns C and spellings U, and what they are folded into.
IndexRow(N, C, U) == [name : N, col : C \cup {None}, primary : U, unique : U]

IndexEntry(N, C) == [name : N, columns : Seq(C), unique : BOOLEAN, primary : BOOLEAN]

\* The first of some places.
LEMMA FirstOf ==
  ASSUME NEW n \in Nat, NEW S \in SUBSET (1..n), S # {}
  PROVE  Min(S) \in S
<1>1. \E x \in S : \A y \in S : x <= y
  <2>1. S \in SUBSET Nat
    OBVIOUS
  <2> QED BY <2>1, LeastOf
<1> QED BY <1>1 DEF Min

\* A row folded in leaves a list of entries.
LEMMA AddIndexRowType ==
  ASSUME NEW N, NEW C, NEW U, NEW out \in Seq(IndexEntry(N, C)), NEW r \in IndexRow(N, C, U)
  PROVE  AddIndexRow(out, r) \in Seq(IndexEntry(N, C))
<1> DEFINE at == {i \in DOMAIN out : out[i].name = r.name}
           col == IF r.col = None THEN <<>> ELSE <<r.col>>
           new == [name |-> r.name, columns |-> col,
                   unique |-> Truthy(r.unique), primary |-> Truthy(r.primary)]
<1>1. r.name \in N /\ col \in Seq(C)
  BY DEF IndexRow
<1>2. AddIndexRow(out, r) =
        IF at = {} THEN Append(out, new)
        ELSE [i \in DOMAIN out |->
                IF i = Min(at) THEN [out[i] EXCEPT !.columns = @ \o col] ELSE out[i]]
  BY DEF AddIndexRow
<1> HIDE DEF col
<1>3. new \in IndexEntry(N, C)
  <2>1. Truthy(r.unique) \in BOOLEAN /\ Truthy(r.primary) \in BOOLEAN
    BY DEF Truthy
  <2> QED BY <1>1, <2>1 DEF IndexEntry
<1> HIDE DEF new
<1>4. ASSUME NEW i \in DOMAIN out
      PROVE  [out[i] EXCEPT !.columns = @ \o col] \in IndexEntry(N, C)
  <2>1. out[i] \in IndexEntry(N, C)
    OBVIOUS
  <2>2. out[i].columns \in Seq(C)
    BY <2>1 DEF IndexEntry
  <2>3. out[i].columns \o col \in Seq(C)
    BY <1>1, <2>2
  <2> QED BY <2>1, <2>3 DEF IndexEntry
<1>5. ASSUME NEW m
      PROVE  [i \in DOMAIN out |-> IF i = m THEN [out[i] EXCEPT !.columns = @ \o col] ELSE out[i]]
               \in Seq(IndexEntry(N, C))
  <2> DEFINE E == IndexEntry(N, C)
             f == [i \in DOMAIN out |-> IF i = m THEN [out[i] EXCEPT !.columns = @ \o col] ELSE out[i]]
  <2>1. DOMAIN out = 1..Len(out) /\ Len(out) \in Nat /\ \A i \in DOMAIN out : out[i] \in E
    OBVIOUS
  <2>2. \A i \in DOMAIN out : [out[i] EXCEPT !.columns = @ \o col] \in E
    BY <1>4
  <2> HIDE DEF E
  <2>3. f \in [1..Len(out) -> E]
    BY <2>1, <2>2
  <2> HIDE DEF f
  <2>4. f \in Seq(E)
    BY <2>1, <2>3
  <2> QED BY <2>4 DEF E, f
<1>6. Append(out, new) \in Seq(IndexEntry(N, C))
  BY <1>3
<1> HIDE DEF at
<1>7. [i \in DOMAIN out |-> IF i = Min(at) THEN [out[i] EXCEPT !.columns = @ \o col] ELSE out[i]]
        \in Seq(IndexEntry(N, C))
  BY <1>5
<1> QED BY <1>2, <1>6, <1>7

\* The steps of group_indexes.
LEMMA GroupSteps ==
  ASSUME NEW N, NEW C, NEW U, NEW rows \in Seq(IndexRow(N, C, U))
  PROVE  \E g : /\ g[0] = <<>>
                /\ \A k \in 1..Len(rows) : g[k] = AddIndexRow(g[k - 1], rows[k])
                /\ \A k \in 0..Len(rows) : g[k] \in Seq(IndexEntry(N, C))
                /\ group_indexes(rows) = g[Len(rows)]
<1> DEFINE n == Len(rows)
           V == Seq(IndexEntry(N, C))
           step == [i \in 1..n |-> [v \in V |-> AddIndexRow(v, rows[i])]]
           Is(f) == f = [p \in SUBSET (1..n) |->
                           IF p = {} THEN <<>> ELSE AddIndexRow(f[p \ {Max(p)}], rows[Max(p)])]
           F == CHOOSE f : Is(f)
           g == [k \in 0..n |-> F[1..k]]
<1>1. n \in Nat /\ DOMAIN rows = 1..n /\ \A i \in 1..n : rows[i] \in IndexRow(N, C, U)
  OBVIOUS
<1>2. group_indexes(rows) = F[1..n]
  BY <1>1 DEF group_indexes, FoldLeft, MapThenFoldSet
<1>3. step \in [1..n -> [V -> V]] /\ <<>> \in V
  BY <1>1, AddIndexRowType
<1> HIDE DEF n, V
<1>4. \A i \in 1..n, v \in V : step[i][v] = AddIndexRow(v, rows[i])
  OBVIOUS
<1> HIDE DEF step
<1>5. PICK f : IsFold(f, V, <<>>, n, step)
  BY <1>1, <1>3, FoldExists
<1>6. Is(f)
  <2>1. f = [p \in SUBSET (1..n) |-> f[p]]
    BY <1>5 DEF IsFold
  <2>2. ASSUME NEW p \in SUBSET (1..n)
        PROVE  f[p] = IF p = {} THEN <<>> ELSE AddIndexRow(f[p \ {Max(p)}], rows[Max(p)])
    <3>1. p = {} => f[p] = <<>>
      BY <1>5 DEF IsFold
    <3>2. p # {} => /\ Max(p) \in 1..n /\ f[p \ {Max(p)}] \in V
                    /\ f[p] = step[Max(p)][f[p \ {Max(p)}]]
      BY <1>5 DEF IsFold
    <3> QED BY <1>4, <3>1, <3>2
  <2> QED BY <2>1, <2>2
<1>7. Is(F)
  BY <1>6, Zenon
<1> HIDE DEF F
<1>8. F[1..0] = <<>>
  <2>1. 1..0 = {} /\ {} \in SUBSET (1..n)
    OBVIOUS
  <2> QED BY <1>7, <2>1
<1>9. ASSUME NEW k \in 1..n PROVE F[1..k] = AddIndexRow(F[1..(k - 1)], rows[k])
  <2>1. /\ 1..k \in SUBSET (1..n) /\ 1..k # {}
        /\ Max(1..k) = k /\ (1..k) \ {Max(1..k)} = 1..(k - 1)
    BY <1>1, UpTo
  <2> DEFINE p == 1..k
  <2>2. F[p] = IF p = {} THEN <<>> ELSE AddIndexRow(F[p \ {Max(p)}], rows[Max(p)])
    BY <1>7, <2>1
  <2> QED BY <2>1, <2>2
<1>10. /\ g[0] = <<>> /\ g[n] = F[1..n]
       /\ \A k \in 1..n : g[k] = F[1..k] /\ g[k - 1] = F[1..(k - 1)]
  BY <1>1, <1>8
<1> HIDE DEF g
<1>11. \A k \in 1..n : g[k] = AddIndexRow(g[k - 1], rows[k])
  BY <1>9, <1>10
<1>12. \A k \in 0..n : g[k] \in V
  <2> DEFINE S == {k \in Nat : k <= n => g[k] \in V}
  <2>1. S \in SUBSET Nat /\ 0 \in S
    BY <1>3, <1>10
  <2>2. ASSUME NEW k \in S PROVE k + 1 \in S
    <3>1. k \in Nat /\ (k <= n => g[k] \in V) /\ (k + 1) - 1 = k
      OBVIOUS
    <3>2. k + 1 <= n => k + 1 \in 1..n /\ k <= n
      BY <1>1, <3>1
    <3>3. k + 1 <= n => g[k + 1] = AddIndexRow(g[k], rows[k + 1]) /\ g[k] \in V
      BY <1>11, <3>1, <3>2
    <3>4. k + 1 <= n => g[k + 1] \in V
      BY <1>1, <3>2, <3>3, AddIndexRowType DEF V
    <3> QED BY <3>1, <3>4
  <2> HIDE DEF S
  <2>3. S = Nat
    BY <2>1, <2>2, Induction
  <2> QED BY <1>1, <2>3 DEF S
<1> QED BY <1>2, <1>10, <1>11, <1>12 DEF n, V

\* group_indexes of nothing, and with one row more.
LEMMA GroupEmpty == group_indexes(<<>>) = <<>>
<1>1. ASSUME NEW N, NEW rows \in Seq(IndexRow(N, N, N)), Len(rows) = 0
      PROVE  group_indexes(rows) = <<>>
  <2>1. PICK g : /\ g[0] = <<>>
                 /\ \A k \in 1..Len(rows) : g[k] = AddIndexRow(g[k - 1], rows[k])
                 /\ \A k \in 0..Len(rows) : g[k] \in Seq(IndexEntry(N, N))
                 /\ group_indexes(rows) = g[Len(rows)]
    BY GroupSteps
  <2> QED BY <1>1, <2>1
<1>2. <<>> \in Seq(IndexRow({}, {}, {})) /\ Len(<<>>) = 0
  OBVIOUS
<1> QED BY <1>1, <1>2

\* What group_indexes answers with is a list of entries.
LEMMA GroupType ==
  ASSUME NEW N, NEW C, NEW U, NEW rows \in Seq(IndexRow(N, C, U))
  PROVE  group_indexes(rows) \in Seq(IndexEntry(N, C))
<1>1. PICK g : /\ g[0] = <<>>
               /\ \A k \in 1..Len(rows) : g[k] = AddIndexRow(g[k - 1], rows[k])
               /\ \A k \in 0..Len(rows) : g[k] \in Seq(IndexEntry(N, C))
               /\ group_indexes(rows) = g[Len(rows)]
  BY GroupSteps
<1>2. Len(rows) \in 0..Len(rows)
  OBVIOUS
<1> QED BY <1>1, <1>2

\* One row more is one AddIndexRow more.
LEMMA GroupAppend ==
  \A N, C, U : \A rows \in Seq(IndexRow(N, C, U)), r \in IndexRow(N, C, U) :
    group_indexes(Append(rows, r)) = AddIndexRow(group_indexes(rows), r)
<1> SUFFICES ASSUME NEW N, NEW C, NEW U, NEW rows \in Seq(IndexRow(N, C, U)),
                    NEW r \in IndexRow(N, C, U)
             PROVE  group_indexes(Append(rows, r)) = AddIndexRow(group_indexes(rows), r)
  OBVIOUS
<1> DEFINE T == IndexRow(N, C, U)
           t == Append(rows, r)
           n == Len(rows)
<1>1. /\ t \in Seq(T) /\ n \in Nat /\ Len(t) = n + 1
      /\ \A i \in 1..n : t[i] = rows[i] /\ i \in 1..Len(t)
      /\ t[n + 1] = r
  BY Appended
<1> HIDE DEF t
<1>2. PICK g : /\ g[0] = <<>>
               /\ \A k \in 1..Len(rows) : g[k] = AddIndexRow(g[k - 1], rows[k])
               /\ \A k \in 0..Len(rows) : g[k] \in Seq(IndexEntry(N, C))
               /\ group_indexes(rows) = g[Len(rows)]
  BY GroupSteps
<1>3. PICK h : /\ h[0] = <<>>
               /\ \A k \in 1..Len(t) : h[k] = AddIndexRow(h[k - 1], t[k])
               /\ \A k \in 0..Len(t) : h[k] \in Seq(IndexEntry(N, C))
               /\ group_indexes(t) = h[Len(t)]
  BY <1>1, GroupSteps
<1>4. \A k \in 1..n : g[k - 1] = h[k - 1] => g[k] = h[k]
  BY <1>1, <1>2, <1>3
<1>5. g[n] = h[n]
  <2>1. g[0] = h[0] /\ n \in Nat
    BY <1>1, <1>2, <1>3
  <2> HIDE DEF n
  <2> QED BY <1>4, <2>1, StepsAgree
<1>6. n + 1 \in 1..Len(t) /\ (n + 1) - 1 = n /\ n \in 0..n
  BY <1>1
<1>7. h[n + 1] = AddIndexRow(h[n], r)
  BY <1>1, <1>3, <1>6
<1> QED BY <1>1, <1>2, <1>3, <1>5, <1>6, <1>7 DEF t

\* The column a row brings, and the entry of an index with columns cols.
ColOf(r) == IF r.col = None THEN <<>> ELSE <<r.col>>

EntryOf(name, p, u, cols) == [name |-> name, columns |-> cols,
                              unique |-> Truthy(u), primary |-> Truthy(p)]

\* Concatenation under a name of its own, to be opened where it is looked into.
Joined(s, t) == s \o t

\* Joined, with nothing.
LEMMA JoinedEmpty ==
  ASSUME NEW T, NEW s \in Seq(T)
  PROVE  Joined(s, <<>>) = s /\ Joined(<<>>, s) = s
BY DEF Joined

\* Joined, of two sequences of one kind.
LEMMA JoinedType ==
  ASSUME NEW T, NEW r \in Seq(T), NEW s \in Seq(T)
  PROVE  Joined(r, s) \in Seq(T)
BY DEF Joined

\* Joined, with one member more.
LEMMA JoinedAppend ==
  ASSUME NEW T, NEW r \in Seq(T), NEW s \in Seq(T), NEW x \in T
  PROVE  Joined(r, Append(s, x)) = Append(Joined(r, s), x)
BY ConcatAppend DEF Joined

\* An entry is one, whatever truth values its rows spell.
LEMMA EntryType ==
  ASSUME NEW N, NEW C, NEW name \in N, NEW p, NEW u, NEW cols \in Seq(C)
  PROVE  EntryOf(name, p, u, cols) \in IndexEntry(N, C)
<1>1. Truthy(u) \in BOOLEAN /\ Truthy(p) \in BOOLEAN
  BY DEF Truthy
<1> QED BY <1>1 DEF EntryOf, IndexEntry

\* Its fields, and its columns replaced.
LEMMA EntryFields ==
  ASSUME NEW name, NEW p, NEW u, NEW cols
  PROVE  /\ EntryOf(name, p, u, cols).name = name
         /\ EntryOf(name, p, u, cols).columns = cols
         /\ \A z : [EntryOf(name, p, u, cols) EXCEPT !.columns = z] = EntryOf(name, p, u, z)
<1>1. EntryOf(name, p, u, cols).name = name /\ EntryOf(name, p, u, cols).columns = cols
  BY DEF EntryOf
<1>2. ASSUME NEW z
      PROVE  [EntryOf(name, p, u, cols) EXCEPT !.columns = z] = EntryOf(name, p, u, z)
  <2> DEFINE a == Truthy(u)
             b == Truthy(p)
             e == EntryOf(name, p, u, cols)
  <2>1. /\ e = [name |-> name, columns |-> cols, unique |-> a, primary |-> b]
        /\ EntryOf(name, p, u, z) = [name |-> name, columns |-> z, unique |-> a, primary |-> b]
    BY DEF EntryOf
  <2> HIDE DEF a, b, e
  <2>2. [e EXCEPT !.columns = z] = [name |-> name, columns |-> z, unique |-> a, primary |-> b]
    BY <2>1
  <2> QED BY <2>1, <2>2 DEF e
<1> QED BY <1>1, <1>2

\* A row of an index not seen yet begins it; a further row of the last index
\* goes into that one.
LEMMA AddNew ==
  ASSUME NEW out, NEW r, \A i \in DOMAIN out : out[i].name # r.name
  PROVE  AddIndexRow(out, r) = Append(out, EntryOf(r.name, r.primary, r.unique, ColOf(r)))
<1>1. {i \in DOMAIN out : out[i].name = r.name} = {}
  OBVIOUS
<1> QED BY <1>1 DEF AddIndexRow, ColOf, EntryOf

\* k are the columns so far of row r's index, which is not among G.
Begins(N, C, G, k, r) ==
  /\ G \in Seq(IndexEntry(N, C)) /\ k \in Seq(C)
  /\ r.name \in N /\ ColOf(r) \in Seq(C)
  /\ \A i \in DOMAIN G : G[i].name # r.name

Entry(r, k) == EntryOf(r.name, r.primary, r.unique, k)

\* A further row of the last index appends its column to that entry.
LEMMA AddAgain ==
  ASSUME NEW N, NEW C, NEW out, NEW cols, NEW r, Begins(N, C, out, cols, r)
  PROVE  AddIndexRow(Append(out, Entry(r, cols)), r) = Append(out, Entry(r, Joined(cols, ColOf(r))))
<1> DEFINE more == Joined(cols, ColOf(r))
           name == r.name
           p == r.primary
           u == r.unique
<1>14. /\ out \in Seq(IndexEntry(N, C)) /\ cols \in Seq(C)
       /\ name \in N /\ ColOf(r) \in Seq(C) /\ name = r.name
       /\ \A i \in DOMAIN out : out[i].name # r.name
  BY DEF Begins
<1>15. more \in Seq(C) /\ more = Joined(cols, ColOf(r))
  BY <1>14, JoinedType
<1>16. Entry(r, cols) = EntryOf(name, p, u, cols) /\ Entry(r, more) = EntryOf(name, p, u, more)
  BY DEF Entry
<1> HIDE DEF more, name, p, u
<1> DEFINE E == IndexEntry(N, C)
           n == Len(out)
           e == EntryOf(name, p, u, cols)
           f == EntryOf(name, p, u, more)
           big == Append(out, e)
           at == {i \in DOMAIN big : big[i].name = r.name}
           got == [i \in DOMAIN big |->
                     IF i = n + 1 THEN [big[i] EXCEPT !.columns = @ \o ColOf(r)] ELSE big[i]]
<1>12. e \in E
  BY <1>14, EntryType
<1>13. f \in E
  BY <1>14, <1>15, EntryType
<1>1. e.name = r.name
  BY <1>14, EntryFields
<1>2. [e EXCEPT !.columns = @ \o ColOf(r)] = f
  <2>1. e.columns = cols
    BY EntryFields
  <2>2. [e EXCEPT !.columns = more] = f
    BY EntryFields
  <2>3. more = cols \o ColOf(r)
    BY <1>15 DEF Joined
  <2> HIDE DEF e, f
  <2> QED BY <2>1, <2>2, <2>3
<1> HIDE DEF e, f, E
<1>3. /\ big \in Seq(E) /\ n \in Nat /\ Len(big) = n + 1
      /\ \A i \in 1..n : big[i] = out[i]
      /\ big[n + 1] = e
  BY <1>12, <1>13, <1>14, Appended DEF E
<1>4. DOMAIN big = 1..(n + 1) /\ DOMAIN out = 1..n
  BY <1>3, <1>14 DEF E
<1> HIDE DEF big
<1>5. at = {n + 1}
  <2>1. \A i \in 1..(n + 1) : i \in 1..n \/ i = n + 1
    BY <1>3
  <2>2. n + 1 \in 1..(n + 1)
    BY <1>3
  <2> QED BY <1>1, <1>3, <1>4, <1>14, <2>1, <2>2
<1>6. Min(at) = n + 1
  <2>1. n + 1 \in Nat /\ {n + 1} \in SUBSET (1..(n + 1)) /\ {n + 1} # {}
    BY <1>3
  <2>2. Min({n + 1}) \in {n + 1}
    BY <2>1, FirstOf
  <2> QED BY <1>5, <2>2
<1>7. AddIndexRow(big, r) = got
  <2>1. at # {}
    BY <1>5
  <2>2. AddIndexRow(big, r) =
          IF at = {} THEN Append(big, EntryOf(r.name, r.primary, r.unique, ColOf(r)))
          ELSE [i \in DOMAIN big |->
                  IF i = Min(at) THEN [big[i] EXCEPT !.columns = @ \o ColOf(r)] ELSE big[i]]
    BY DEF AddIndexRow, ColOf, EntryOf
  <2> HIDE DEF at
  <2> QED BY <1>6, <2>1, <2>2
<1> DEFINE want == Append(out, f)
<1>8. /\ want \in Seq(E) /\ Len(want) = n + 1
      /\ \A i \in 1..n : want[i] = out[i]
      /\ want[n + 1] = f
  BY <1>12, <1>13, <1>14, Appended DEF E
<1> HIDE DEF want
<1>9. ASSUME NEW i \in 1..(n + 1) PROVE got[i] = want[i]
  <2>1. CASE i = n + 1
    <3>1. got[i] = [big[n + 1] EXCEPT !.columns = @ \o ColOf(r)]
      BY <1>4, <2>1
    <3>2. got[i] = f
      BY <1>2, <1>3, <3>1
    <3> QED BY <1>8, <2>1, <3>2
  <2>2. CASE i # n + 1
    <3>1. i \in 1..n
      BY <1>3, <2>2
    <3>2. got[i] = big[i]
      BY <1>4, <2>2
    <3> QED BY <1>3, <1>8, <3>1, <3>2
  <2> QED BY <2>1, <2>2
<1>10. got \in Seq(E) /\ Len(got) = n + 1
  <2>1. DOMAIN got = 1..(n + 1) /\ got = [i \in 1..(n + 1) |-> got[i]]
    BY <1>4
  <2> HIDE DEF got
  <2>2. \A i \in 1..(n + 1) : got[i] \in E
    BY <1>3, <1>8, <1>9
  <2>3. n + 1 \in Nat
    BY <1>3
  <2>4. got \in [1..(n + 1) -> E]
    BY <2>1, <2>2
  <2> QED BY <2>1, <2>3, <2>4
<1> HIDE DEF got
<1>11. got = want
  BY <1>8, <1>9, <1>10, SeqEqual
<1> QED BY <1>7, <1>11, <1>16 DEF big, e, want, f, more

\* The columns of some rows.
ColsOf(t) == [i \in DOMAIN t |-> t[i].col]

\* The columns of some rows, each a column or None.
LEMMA ColsType ==
  ASSUME NEW N, NEW C, NEW U, NEW t \in Seq(IndexRow(N, C, U))
  PROVE  ColsOf(t) \in Seq(C \cup {None})
<1> DEFINE D == C \cup {None}
           T == IndexRow(N, C, U)
<1>1. \A y \in T : y.col \in D
  BY DEF IndexRow
<1>2. t \in Seq(T)
  OBVIOUS
<1> HIDE DEF D, T
<1>3. DOMAIN t = 1..Len(t) /\ Len(t) \in Nat /\ \A i \in 1..Len(t) : t[i] \in T
  BY <1>2
<1>4. ColsOf(t) \in [1..Len(t) -> D]
  BY <1>1, <1>3 DEF ColsOf
<1>5. ColsOf(t) \in Seq(D)
  BY <1>3, <1>4
<1> QED BY <1>5 DEF D

\* And with one row more.
LEMMA ColsAppend ==
  \A N, C, U : \A t \in Seq(IndexRow(N, C, U)), x \in IndexRow(N, C, U) :
    ColsOf(Append(t, x)) = Append(ColsOf(t), x.col)
<1> SUFFICES ASSUME NEW N, NEW C, NEW U, NEW t \in Seq(IndexRow(N, C, U)),
                    NEW x \in IndexRow(N, C, U)
             PROVE  ColsOf(Append(t, x)) = Append(ColsOf(t), x.col)
  OBVIOUS
<1> DEFINE D == C \cup {None}
           T == IndexRow(N, C, U)
           n == Len(t)
           u == Append(t, x)
<1>1. /\ u \in Seq(T) /\ n \in Nat /\ Len(u) = n + 1
      /\ \A i \in 1..n : u[i] = t[i]
      /\ u[n + 1] = x
  BY Appended
<1>2. \A y \in T : y.col \in D
  BY DEF IndexRow
<1> HIDE DEF D, T, u
<1>3. ASSUME NEW s \in Seq(T)
      PROVE  /\ ColsOf(s) \in Seq(D) /\ Len(ColsOf(s)) = Len(s)
             /\ \A i \in 1..Len(s) : ColsOf(s)[i] = s[i].col
  <2>1. DOMAIN s = 1..Len(s) /\ Len(s) \in Nat /\ \A i \in 1..Len(s) : s[i] \in T
    OBVIOUS
  <2>2. ColsOf(s) \in [1..Len(s) -> D]
    BY <1>2, <2>1 DEF ColsOf
  <2> QED BY <2>1, <2>2 DEF ColsOf
<1>4. t \in Seq(T) /\ x \in T
  BY DEF T
<1>5. ColsOf(t) \in Seq(D) /\ x.col \in D /\ Len(ColsOf(t)) = n
  BY <1>2, <1>3, <1>4
<1>6. /\ Append(ColsOf(t), x.col) \in Seq(D)
      /\ Len(Append(ColsOf(t), x.col)) = n + 1
      /\ \A i \in 1..n : Append(ColsOf(t), x.col)[i] = ColsOf(t)[i]
      /\ Append(ColsOf(t), x.col)[n + 1] = x.col
  BY <1>5, Appended
<1>7. ColsOf(u) \in Seq(D) /\ Len(ColsOf(u)) = n + 1 /\ \A i \in 1..(n + 1) : ColsOf(u)[i] = u[i].col
  BY <1>1, <1>3
<1>8. \A i \in 1..(n + 1) : ColsOf(u)[i] = Append(ColsOf(t), x.col)[i]
  <2>1. \A i \in 1..(n + 1) : i \in 1..n \/ i = n + 1
    BY <1>1
  <2>2. \A i \in 1..n : ColsOf(t)[i] = t[i].col /\ i \in 1..(n + 1)
    BY <1>1, <1>3, <1>4
  <2> QED BY <1>1, <1>6, <1>7, <2>1, <2>2
<1>9. ColsOf(u) = Append(ColsOf(t), x.col)
  BY <1>6, <1>7, <1>8, SeqEqual
<1> QED BY <1>9 DEF u

\* The column of a row, as a sequence of none or one.
LEMMA ColOfType ==
  ASSUME NEW N, NEW C, NEW U, NEW r \in IndexRow(N, C, U), None \notin C
  PROVE  /\ ColOf(r) \in Seq(C)
         /\ ColOf(r) = IF r.col \in C THEN <<r.col>> ELSE <<>>
<1>1. r.col \in C \/ r.col = None
  BY DEF IndexRow
<1> QED BY <1>1 DEF ColOf

\* A further column of the rows of an index.
LEMMA ColsKept ==
  ASSUME NEW N, NEW C, NEW U, NEW s \in Seq(IndexRow(N, C, U)), NEW x \in IndexRow(N, C, U),
         None \notin C
  PROVE  /\ Kept(ColsOf(s), C) \in Seq(C)
         /\ Kept(ColsOf(Append(s, x)), C) = Joined(Kept(ColsOf(s), C), ColOf(x))
<1> DEFINE cols == ColsOf(s)
           col == x.col
           D == C \cup {None}
<1>1. cols \in Seq(D)
  BY ColsType
<1>8. ColsOf(Append(s, x)) = Append(cols, col)
  BY ColsAppend
<1>2. col \in D
  BY DEF IndexRow
<1>3. ColOf(x) = IF col \in C THEN <<col>> ELSE <<>>
  BY ColOfType
<1> HIDE DEF cols, col, D
<1>4. Kept(Append(cols, col), C) = IF col \in C THEN Append(Kept(cols, C), col) ELSE Kept(cols, C)
  BY <1>1, <1>2, KeptAppend
<1>5. Kept(cols, C) \in Seq(C)
  <2>1. Kept(cols, C) \in Seq(D) /\ Range(Kept(cols, C)) \subseteq C
    BY <1>1, KeptMembers
  <2> QED BY <2>1 DEF Range
<1>6. CASE col \in C
  <2>1. Append(Kept(cols, C), col) = Kept(cols, C) \o <<col>>
    BY <1>5, <1>6, AppendIsConcat
  <2> QED BY <1>3, <1>4, <1>5, <1>6, <1>8, <2>1 DEF cols, Joined
<1>7. CASE col \notin C
  <2>1. Kept(cols, C) \o <<>> = Kept(cols, C)
    BY <1>5
  <2> QED BY <1>3, <1>4, <1>5, <1>7, <1>8, <2>1 DEF cols, Joined
<1> QED BY <1>6, <1>7

\* The rows of one index: all say the same of it.
RowOf(name, C, p, u) == [name : {name}, col : C \cup {None}, primary : {p}, unique : {u}]

\* They are rows of a catalog, and agree on name and truth values.
LEMMA RowOfType ==
  ASSUME NEW N, NEW C, NEW U, NEW name \in N, NEW p \in U, NEW u \in U
  PROVE  /\ RowOf(name, C, p, u) \subseteq IndexRow(N, C, U)
         /\ \A x \in RowOf(name, C, p, u) : x.name = name /\ x.primary = p /\ x.unique = u
BY DEF RowOf, IndexRow

\* What a row does where its index is not begun, or is the last one.
LEMMA AddRow ==
  ASSUME NEW N, NEW C, NEW G, NEW k, NEW r, Begins(N, C, G, k, r), NEW out,
         (out = G /\ k = <<>>) \/ out = Append(G, Entry(r, k))
  PROVE  AddIndexRow(out, r) = Append(G, Entry(r, Joined(k, ColOf(r))))
<1>1. CASE out = G /\ k = <<>>
  <2>1. Joined(k, ColOf(r)) = ColOf(r)
    BY <1>1, JoinedEmpty DEF Begins
  <2>2. \A i \in DOMAIN out : out[i].name # r.name
    BY <1>1 DEF Begins
  <2>3. AddIndexRow(out, r) = Append(out, Entry(r, ColOf(r)))
    BY <2>2, AddNew DEF Entry
  <2> QED BY <1>1, <2>1, <2>3
<1>2. CASE out = Append(G, Entry(r, k))
  BY <1>2, AddAgain
<1> QED BY <1>1, <1>2

\* The rows of one index, behind those of others: one entry more, of its
\* columns in their order.
LEMMA GroupIndex ==
  ASSUME NEW N, NEW C, NEW U, None \notin C,
         NEW rows \in Seq(IndexRow(N, C, U)),
         NEW name \in N, NEW p \in U, NEW u \in U,
         NEW t \in Seq(RowOf(name, C, p, u)), t # <<>>,
         \A i \in DOMAIN group_indexes(rows) : group_indexes(rows)[i].name # name
  PROVE  group_indexes(Joined(rows, t))
           = Append(group_indexes(rows), EntryOf(name, p, u, Kept(ColsOf(t), C)))
<1> DEFINE T == RowOf(name, C, p, u)
           B == IndexRow(N, C, U)
           G == group_indexes(rows)
           Done(s) == group_indexes(Joined(rows, s)) = Append(G, EntryOf(name, p, u, Kept(ColsOf(s), C)))
           P == {s \in Seq(T) : s # <<>> => Done(s)}
<1>1. P \in SUBSET Seq(T) /\ <<>> \in P
  OBVIOUS
<1>2. T \subseteq B /\ \A x \in T : x.name = name /\ x.primary = p /\ x.unique = u
  BY RowOfType
<1>6. G \in Seq(IndexEntry(N, C))
  BY GroupType
<1>3. ASSUME NEW s \in P, NEW x \in T PROVE Append(s, x) \in P
  <2> DEFINE k == Kept(ColsOf(s), C)
             rs == Joined(rows, s)
             out == group_indexes(rs)
  <2>1. s \in Seq(T) /\ (s # <<>> => out = Append(G, EntryOf(name, p, u, k)))
    OBVIOUS
  <2>2. name = x.name /\ p = x.primary /\ u = x.unique /\ x \in B
    BY <1>2
  <2>3. s \in Seq(B) /\ Append(s, x) \in Seq(T) /\ rows \in Seq(B)
    <3>1. rows \in Seq(B)
      OBVIOUS
    <3> HIDE DEF T, B
    <3> QED BY <1>2, <2>1, <3>1
  <2>4. k \in Seq(C)
    BY <2>2, <2>3, ColsKept
  <2>5. Kept(ColsOf(Append(s, x)), C) = Joined(k, ColOf(x))
    BY <2>2, <2>3, ColsKept
  <2>6. ColOf(x) \in Seq(C)
    BY <2>2, ColOfType
  <2>7. rs \in Seq(B)
    <3> HIDE DEF B
    <3> QED BY <2>3, JoinedType
  <2>8. Joined(rows, Append(s, x)) = Append(rs, x)
    <3> HIDE DEF B
    <3> QED BY <2>2, <2>3, JoinedAppend
  <2>9. group_indexes(Append(rs, x)) = AddIndexRow(out, x)
    <3> HIDE DEF rs
    <3> QED BY <2>2, <2>7, GroupAppend
  <2>10. s = <<>> => out = G /\ k = <<>>
    <3>1. ColsOf(<<>>) = <<>>
      BY DEF ColsOf
    <3>2. s = <<>> => rs = rows
      <4> HIDE DEF B
      <4> QED BY <2>3, JoinedEmpty
    <3> QED BY <3>1, <3>2, KeptEmpty
  <2>11. \A i \in DOMAIN G : G[i].name # x.name
    BY <2>2
  <2>12. AddIndexRow(out, x) = Append(G, EntryOf(name, p, u, Joined(k, ColOf(x))))
    <3>2. (out = G /\ k = <<>>) \/ out = Append(G, EntryOf(name, p, u, k))
      BY <2>1, <2>10
    <3>3. Begins(N, C, G, k, x)
      BY <1>6, <2>2, <2>4, <2>6, <2>11 DEF Begins
    <3>4. \A z : Entry(x, z) = EntryOf(name, p, u, z)
      BY <2>2 DEF Entry
    <3> HIDE DEF out, k, G
    <3>5. AddIndexRow(out, x) = Append(G, Entry(x, Joined(k, ColOf(x))))
      BY <3>2, <3>3, <3>4, AddRow
    <3> QED BY <3>4, <3>5
  <2>13. Done(Append(s, x))
    BY <2>5, <2>8, <2>9, <2>12
  <2> HIDE DEF Done
  <2> QED BY <2>3, <2>13
<1> HIDE DEF P, T
<1>4. P = Seq(T)
  BY <1>1, <1>3, SeqInduction
<1>5. t \in P
  BY <1>4 DEF T
<1> QED BY <1>5 DEF P

\* A function, of each member of a sequence.
Mapped(f, m) == [i \in DOMAIN m |-> f[m[i]]]

Into(f, I, V) == \A x \in I : f[x] \in V

\* A function of each member: one value for each, in their order.
LEMMA MappedType ==
  ASSUME NEW I, NEW V, NEW f, Into(f, I, V), NEW m \in Seq(I)
  PROVE  /\ Mapped(f, m) \in Seq(V) /\ Len(Mapped(f, m)) = Len(m)
         /\ DOMAIN Mapped(f, m) = DOMAIN m
         /\ \A i \in DOMAIN m : Mapped(f, m)[i] = f[m[i]]
<1>1. DOMAIN m = 1..Len(m) /\ Len(m) \in Nat /\ \A i \in 1..Len(m) : m[i] \in I
  OBVIOUS
<1>2. Mapped(f, m) \in [1..Len(m) -> V] /\ DOMAIN Mapped(f, m) = DOMAIN m
  BY <1>1 DEF Mapped, Into
<1>3. \A i \in DOMAIN m : Mapped(f, m)[i] = f[m[i]]
  BY DEF Mapped
<1> DEFINE t == Mapped(f, m)
<1>4. t \in [1..Len(m) -> V]
  BY <1>2
<1> HIDE DEF t
<1>5. t \in Seq(V) /\ Len(t) = Len(m)
  BY <1>1, <1>4
<1> QED BY <1>2, <1>3, <1>5 DEF t

\* Of no member.
LEMMA MappedEmpty == \A f : Mapped(f, <<>>) = <<>>
BY DEF Mapped

\* And with one member more.
LEMMA MappedAppend ==
  ASSUME NEW I, NEW f, NEW m \in Seq(I), NEW x \in I
  PROVE  Mapped(f, Append(m, x)) = Append(Mapped(f, m), f[x])
<1> DEFINE V == {f[y] : y \in I}
           n == Len(m)
           t == Append(m, x)
           want == Append(Mapped(f, m), f[x])
<1>1. Into(f, I, V) /\ f[x] \in V
  BY DEF Into
<1>2. /\ t \in Seq(I) /\ n \in Nat /\ Len(t) = n + 1
      /\ \A i \in 1..n : t[i] = m[i]
      /\ t[n + 1] = x
  BY Appended
<1> HIDE DEF V, t
<1>3. /\ Mapped(f, t) \in Seq(V) /\ Len(Mapped(f, t)) = n + 1
      /\ \A i \in 1..(n + 1) : Mapped(f, t)[i] = f[t[i]]
  <2>1. DOMAIN t = 1..(n + 1)
    BY <1>2
  <2>2. /\ Mapped(f, t) \in Seq(V) /\ Len(Mapped(f, t)) = Len(t)
        /\ DOMAIN Mapped(f, t) = DOMAIN t
        /\ \A i \in DOMAIN t : Mapped(f, t)[i] = f[t[i]]
    BY <1>1, <1>2, MappedType
  <2> QED BY <1>2, <2>1, <2>2
<1>4. /\ Mapped(f, m) \in Seq(V) /\ Len(Mapped(f, m)) = n
      /\ \A i \in 1..n : Mapped(f, m)[i] = f[m[i]]
  <2>1. DOMAIN m = 1..n
    OBVIOUS
  <2>2. /\ Mapped(f, m) \in Seq(V) /\ Len(Mapped(f, m)) = Len(m)
        /\ DOMAIN Mapped(f, m) = DOMAIN m
        /\ \A i \in DOMAIN m : Mapped(f, m)[i] = f[m[i]]
    BY <1>1, MappedType
  <2> QED BY <2>1, <2>2
<1>5. /\ want \in Seq(V) /\ Len(want) = n + 1
      /\ \A i \in 1..n : want[i] = Mapped(f, m)[i]
      /\ want[n + 1] = f[x]
  BY <1>1, <1>4, Appended
<1> HIDE DEF want
<1>6. \A i \in 1..(n + 1) : i \in 1..n \/ i = n + 1
  BY <1>2
<1>7. \A i \in 1..(n + 1) : want[i] = Mapped(f, t)[i]
  BY <1>2, <1>3, <1>4, <1>5, <1>6
<1>8. want = Mapped(f, t)
  BY <1>3, <1>5, <1>7, SeqEqual
<1> QED BY <1>8 DEF want, t

\* No two members have the same name.
Distinct(m) == \A i, j \in DOMAIN m : m[i].name = m[j].name => i = j

\* Distinct with one more at the end, distinct without it.
LEMMA DistinctAppend ==
  ASSUME NEW I, NEW m \in Seq(I), NEW x \in I, Distinct(Append(m, x))
  PROVE  Distinct(m) /\ \A i \in DOMAIN m : m[i].name # x.name
<1> DEFINE t == Append(m, x)
           n == Len(m)
<1>1. /\ t \in Seq(I) /\ n \in Nat /\ Len(t) = n + 1
      /\ \A i \in 1..n : t[i] = m[i]
      /\ t[n + 1] = x
  BY Appended
<1>2. \A i, j \in DOMAIN t : t[i].name = t[j].name => i = j
  BY DEF Distinct
<1> HIDE DEF t
<1>3. DOMAIN t = 1..(n + 1) /\ DOMAIN m = 1..n
  BY <1>1
<1>4. \A i \in 1..n : i \in 1..(n + 1) /\ n + 1 \in 1..(n + 1) /\ i # n + 1
  BY <1>1
<1>5. \A i \in DOMAIN m : m[i].name # x.name
  BY <1>1, <1>2, <1>3, <1>4
<1>6. \A i, j \in DOMAIN m : m[i].name = m[j].name => i = j
  BY <1>1, <1>2, <1>3, <1>4
<1> QED BY <1>5, <1>6 DEF Distinct

\* The rows seg of some indexes, and the entries ent they are to become.
Foldable(N, C, U, I, seg, ent, p, u) ==
  \A x \in I : /\ x.name \in N /\ p[x] \in U /\ u[x] \in U
               /\ seg[x] \in Seq(RowOf(x.name, C, p[x], u[x])) /\ seg[x] # <<>>
               /\ ent[x] = EntryOf(x.name, p[x], u[x], Kept(ColsOf(seg[x]), C))

\* One index after the other, they fold into one entry each.
LEMMA GroupAll ==
  ASSUME NEW N, NEW C, NEW U, None \notin C, NEW I, NEW seg, NEW ent, NEW p, NEW u,
         Foldable(N, C, U, I, seg, ent, p, u), NEW m \in Seq(I), Distinct(m)
  PROVE  group_indexes(FlattenSeq(Mapped(seg, m))) = Mapped(ent, m)
<1> USE DEF Foldable
<1> DEFINE B == IndexRow(N, C, U)
           rows(t) == FlattenSeq(Mapped(seg, t))
           Done(t) == /\ rows(t) \in Seq(B)
                      /\ Distinct(t) => group_indexes(rows(t)) = Mapped(ent, t)
           P == {t \in Seq(I) : Done(t)}
<1>1. P \in SUBSET Seq(I)
  OBVIOUS
<1>2. <<>> \in P
  <2>1. rows(<<>>) = <<>>
    BY MappedEmpty, FlattenEmpty
  <2>3. <<>> \in Seq(B) /\ Mapped(ent, <<>>) = <<>>
    BY MappedEmpty
  <2>2. Done(<<>>)
    <3> HIDE DEF B, rows
    <3> QED BY <2>1, <2>3, GroupEmpty
  <2> HIDE DEF Done
  <2> QED BY <2>2
<1>3. ASSUME NEW x \in I
      PROVE  seg[x] \in Seq(B) /\ RowOf(x.name, C, p[x], u[x]) \subseteq B
  <2> DEFINE S == RowOf(x.name, C, p[x], u[x])
  <2>1. S \subseteq B /\ seg[x] \in Seq(S)
    BY RowOfType
  <2> HIDE DEF S, B
  <2>2. seg[x] \in Seq(B)
    BY <2>1
  <2> QED BY <2>1, <2>2 DEF S
<1>4. ASSUME NEW t \in P, NEW x \in I PROVE Append(t, x) \in P
  <2>1. t \in Seq(I) /\ Append(t, x) \in Seq(I)
    OBVIOUS
  <2>2. rows(t) \in Seq(B) /\ (Distinct(t) => group_indexes(rows(t)) = Mapped(ent, t))
    OBVIOUS
  <2>3. rows(Append(t, x)) = rows(t) \o seg[x]
    <3>1. Mapped(seg, t) \in Seq(Seq(B))
      <4> HIDE DEF B
      <4>1. Into(seg, I, Seq(B))
        BY <1>3 DEF Into
      <4> QED BY <2>1, <4>1, MappedType
    <3>2. seg[x] \in Seq(B)
      BY <1>3
    <3>3. Mapped(seg, Append(t, x)) = Append(Mapped(seg, t), seg[x])
      BY <2>1, MappedAppend
    <3>4. FlattenSeq(Append(Mapped(seg, t), seg[x])) = FlattenSeq(Mapped(seg, t)) \o seg[x]
      <4> HIDE DEF B
      <4> QED BY <3>1, <3>2, FlattenAppend
    <3> QED BY <3>3, <3>4
  <2> DEFINE rs == rows(t)
             sx == seg[x]
             rsx == rows(Append(t, x))
  <2>4. rsx = Joined(rs, sx) /\ rs \in Seq(B) /\ sx \in Seq(B)
    BY <1>3, <2>2, <2>3 DEF Joined
  <2>5. Distinct(t) => group_indexes(rs) = Mapped(ent, t)
    BY <2>2
  <2> HIDE DEF rs, rsx
  <2>6. rsx \in Seq(B)
    <3> HIDE DEF B, sx
    <3> QED BY <2>4, JoinedType
  <2>7. ASSUME Distinct(Append(t, x)) PROVE group_indexes(rsx) = Mapped(ent, Append(t, x))
    <3>1. Distinct(t) /\ \A i \in DOMAIN t : t[i].name # x.name
      BY <2>1, <2>7, DistinctAppend
    <3>2. group_indexes(rs) = Mapped(ent, t)
      BY <2>5, <3>1
    <3>3. \A i \in DOMAIN group_indexes(rs) : group_indexes(rs)[i].name # x.name
      <4>1. DOMAIN Mapped(ent, t) = DOMAIN t /\ \A i \in DOMAIN t : Mapped(ent, t)[i] = ent[t[i]]
        BY DEF Mapped
      <4>2. \A i \in DOMAIN t : t[i] \in I
        BY <2>1
      <4>3. \A y \in I : ent[y].name = y.name
        BY EntryFields
      <4> QED BY <3>1, <3>2, <4>1, <4>2, <4>3
    <3>4. /\ x.name \in N /\ p[x] \in U /\ u[x] \in U
          /\ sx \in Seq(RowOf(x.name, C, p[x], u[x])) /\ sx # <<>>
          /\ ent[x] = EntryOf(x.name, p[x], u[x], Kept(ColsOf(sx), C))
      OBVIOUS
    <3> DEFINE name == x.name
               q == p[x]
               v == u[x]
    <3> HIDE DEF sx, name, q, v
    <3>5. group_indexes(Joined(rs, sx))
            = Append(group_indexes(rs), EntryOf(name, q, v, Kept(ColsOf(sx), C)))
      <4>1. /\ name \in N /\ q \in U /\ v \in U
            /\ sx \in Seq(RowOf(name, C, q, v)) /\ sx # <<>>
        BY <3>4 DEF name, q, v
      <4>2. \A i \in DOMAIN group_indexes(rs) : group_indexes(rs)[i].name # name
        BY <3>3 DEF name
      <4>3. rs \in Seq(IndexRow(N, C, U))
        BY <2>4
      <4> QED BY <4>1, <4>2, <4>3, GroupIndex
    <3>6. Mapped(ent, Append(t, x)) = Append(Mapped(ent, t), ent[x])
      BY <2>1, MappedAppend
    <3> QED BY <2>4, <3>2, <3>4, <3>5, <3>6 DEF name, q, v
  <2>8. Done(Append(t, x))
    BY <2>6, <2>7 DEF rsx
  <2> HIDE DEF Done
  <2> QED BY <2>1, <2>8
<1> HIDE DEF P
<1>5. P = Seq(I)
  BY <1>1, <1>2, <1>4, SeqInduction
<1>6. m \in P
  BY <1>5
<1> QED BY <1>6 DEF P


---------------------------------------------------------------------------
(* Structure: the rows of the catalog, put under their nodes.              *)

UnderOf(reader, db, o) == IF reader.tree = "schemas" THEN o.schema ELSE Top(reader, db)

StartOf(reader, db) == IF reader.tree = "schemas" THEN <<>>
                       ELSE <<[name |-> Top(reader, db), children |-> <<>>]>>

Built(reader, db, rows) ==
  FoldLeft(LAMBDA tree, o : AddToTree(tree, UnderOf(reader, db, o), Node(reader, o)),
           StartOf(reader, db), rows)

\* The tree of Structure is that of the rows the driver is listed.
LEMMA StructureIsBuilt ==
  \A reader, world, db, scanned :
    Structure(reader, world, db, scanned) = Built(reader, db, Listed(reader, world, db, scanned))
BY DEF Structure, Built, UnderOf, StartOf

\* A tree of branches N with leaves K, and those of a reader and objects T.
Branch(N, K) == [name : N, children : Seq(K)]

BranchNames(reader, db, T) == {UnderOf(reader, db, o) : o \in T} \cup {Top(reader, db)}

Leaves(reader, T) == {Node(reader, o) : o \in T}

Tree(reader, db, T) == Seq(Branch(BranchNames(reader, db, T), Leaves(reader, T)))

\* A row put into a tree leaves a tree.
LEMMA AddToTreeType ==
  ASSUME NEW N, NEW K, NEW tree \in Seq(Branch(N, K)), NEW schema \in N, NEW node \in K
  PROVE  AddToTree(tree, schema, node) \in Seq(Branch(N, K))
<1> DEFINE at == {i \in DOMAIN tree : tree[i].name = schema}
           new == [name |-> schema, children |-> <<node>>]
           E == Branch(N, K)
           f(m) == [i \in DOMAIN tree |->
                      IF i = m THEN [tree[i] EXCEPT !.children = Append(@, node)] ELSE tree[i]]
<1>1. AddToTree(tree, schema, node) = IF at = {} THEN Append(tree, new) ELSE f(Min(at))
  BY DEF AddToTree
<1>2. new \in E
  BY DEF Branch
<1>3. ASSUME NEW e \in E PROVE [e EXCEPT !.children = Append(@, node)] \in E
  <2>1. e.children \in Seq(K)
    BY DEF Branch
  <2>2. Append(e.children, node) \in Seq(K)
    BY <2>1
  <2> QED BY <2>2 DEF Branch
<1>4. DOMAIN tree = 1..Len(tree) /\ Len(tree) \in Nat /\ \A i \in DOMAIN tree : tree[i] \in E
  OBVIOUS
<1> HIDE DEF E
<1>5. ASSUME NEW m PROVE f(m) \in Seq(E)
  <2>1. f(m) \in [1..Len(tree) -> E]
    BY <1>3, <1>4
  <2> HIDE DEF f
  <2> QED BY <1>4, <2>1
<1> HIDE DEF f, at, new
<1>6. Append(tree, new) \in Seq(E)
  BY <1>2 DEF E
<1> QED BY <1>1, <1>5, <1>6 DEF E

\* And so does a row of the reader's own.
LEMMA PutType ==
  ASSUME NEW reader, NEW db, NEW T, NEW tree \in Tree(reader, db, T), NEW o \in T
  PROVE  AddToTree(tree, UnderOf(reader, db, o), Node(reader, o)) \in Tree(reader, db, T)
<1> DEFINE N == BranchNames(reader, db, T)
           K == Leaves(reader, T)
           u == UnderOf(reader, db, o)
           node == Node(reader, o)
<1>1. u \in N /\ node \in K
  BY DEF BranchNames, Leaves
<1>2. tree \in Seq(Branch(N, K))
  BY DEF Tree
<1> HIDE DEF N, K, u, node
<1>3. AddToTree(tree, u, node) \in Seq(Branch(N, K))
  BY <1>1, <1>2, AddToTreeType
<1> QED BY <1>3 DEF N, K, u, node, Tree

\* The tree it starts from.
LEMMA StartType ==
  ASSUME NEW reader, NEW db, NEW T
  PROVE  StartOf(reader, db) \in Tree(reader, db, T)
<1> DEFINE N == BranchNames(reader, db, T)
           K == Leaves(reader, T)
           top == Top(reader, db)
<1>1. top \in N /\ <<>> \in Seq(K)
  BY DEF BranchNames
<1> HIDE DEF N, K, top
<1>2. [name |-> top, children |-> <<>>] \in Branch(N, K)
  BY <1>1 DEF Branch
<1>3. <<[name |-> top, children |-> <<>>]>> \in Seq(Branch(N, K)) /\ <<>> \in Seq(Branch(N, K))
  BY <1>2
<1> QED BY <1>3 DEF StartOf, Tree, N, K, top

\* The steps of Built.
Put(reader, db, tree, o) == AddToTree(tree, UnderOf(reader, db, o), Node(reader, o))

IsRun(g, reader, db, T, rows) ==
  /\ g[0] = StartOf(reader, db)
  /\ \A k \in 1..Len(rows) : g[k] = Put(reader, db, g[k - 1], rows[k])
  /\ \A k \in 0..Len(rows) : g[k] \in Tree(reader, db, T)
  /\ Built(reader, db, rows) = g[Len(rows)]

\* The trees on the way to the last one.
LEMMA BuiltSteps ==
  ASSUME NEW reader, NEW db, NEW T, NEW rows \in Seq(T)
  PROVE  \E g : IsRun(g, reader, db, T, rows)
<1> DEFINE n == Len(rows)
           V == Tree(reader, db, T)
           base == StartOf(reader, db)
           step == [i \in 1..n |-> [v \in V |-> Put(reader, db, v, rows[i])]]
           Is(f) == f = [p \in SUBSET (1..n) |->
                           IF p = {} THEN base ELSE Put(reader, db, f[p \ {Max(p)}], rows[Max(p)])]
           F == CHOOSE f : Is(f)
           g == [k \in 0..n |-> F[1..k]]
<1>1. n \in Nat /\ DOMAIN rows = 1..n /\ \A i \in 1..n : rows[i] \in T
  OBVIOUS
<1>2. Built(reader, db, rows) = F[1..n]
  BY <1>1 DEF Built, FoldLeft, MapThenFoldSet, Put
<1>3. step \in [1..n -> [V -> V]]
  <2>1. \A v \in V, i \in 1..n : Put(reader, db, v, rows[i]) \in V
    BY <1>1, PutType DEF Put
  <2> HIDE DEF V, n
  <2> QED BY <2>1
<1>13. base \in V
  BY StartType
<1> HIDE DEF n, V, base
<1>4. \A i \in 1..n, v \in V : step[i][v] = Put(reader, db, v, rows[i])
  OBVIOUS
<1> HIDE DEF step
<1>5. PICK f : IsFold(f, V, base, n, step)
  BY <1>1, <1>3, <1>13, FoldExists
<1>6. Is(f)
  <2>1. f = [p \in SUBSET (1..n) |-> f[p]]
    BY <1>5 DEF IsFold
  <2>2. ASSUME NEW p \in SUBSET (1..n)
        PROVE  f[p] = IF p = {} THEN base ELSE Put(reader, db, f[p \ {Max(p)}], rows[Max(p)])
    <3>1. p = {} => f[p] = base
      BY <1>5 DEF IsFold
    <3>2. p # {} => /\ Max(p) \in 1..n /\ f[p \ {Max(p)}] \in V
                    /\ f[p] = step[Max(p)][f[p \ {Max(p)}]]
      BY <1>5 DEF IsFold
    <3> QED BY <1>4, <3>1, <3>2
  <2> QED BY <2>1, <2>2
<1>7. Is(F)
  BY <1>6, Zenon
<1> HIDE DEF F
<1>8. F[1..0] = base
  <2>1. 1..0 = {} /\ {} \in SUBSET (1..n)
    OBVIOUS
  <2> QED BY <1>7, <2>1
<1>9. ASSUME NEW k \in 1..n PROVE F[1..k] = Put(reader, db, F[1..(k - 1)], rows[k])
  <2>1. /\ 1..k \in SUBSET (1..n) /\ 1..k # {}
        /\ Max(1..k) = k /\ (1..k) \ {Max(1..k)} = 1..(k - 1)
    BY <1>1, UpTo
  <2> DEFINE p == 1..k
  <2>2. F[p] = IF p = {} THEN base ELSE Put(reader, db, F[p \ {Max(p)}], rows[Max(p)])
    BY <1>7, <2>1
  <2> QED BY <2>1, <2>2
<1>10. /\ g[0] = base /\ g[n] = F[1..n]
       /\ \A k \in 1..n : g[k] = F[1..k] /\ g[k - 1] = F[1..(k - 1)]
  BY <1>1, <1>8
<1> HIDE DEF g
<1>11. \A k \in 1..n : g[k] = Put(reader, db, g[k - 1], rows[k])
  BY <1>9, <1>10
<1>12. \A k \in 0..n : g[k] \in V
  <2> DEFINE S == {k \in Nat : k <= n => g[k] \in V}
  <2>1. S \in SUBSET Nat /\ 0 \in S
    BY <1>10, <1>13
  <2>2. ASSUME NEW k \in S PROVE k + 1 \in S
    <3>1. k \in Nat /\ (k <= n => g[k] \in V) /\ (k + 1) - 1 = k
      OBVIOUS
    <3>2. k + 1 <= n => k + 1 \in 1..n /\ k <= n
      BY <1>1, <3>1
    <3>3. k + 1 <= n => g[k + 1] = step[k + 1][g[k]] /\ g[k] \in V
      BY <1>4, <1>11, <3>1, <3>2
    <3>4. k + 1 <= n => g[k + 1] \in V
      BY <1>3, <3>2, <3>3
    <3> QED BY <3>1, <3>4
  <2> HIDE DEF S
  <2>3. S = Nat
    BY <2>1, <2>2, Induction
  <2> QED BY <1>1, <2>3 DEF S
<1> QED BY <1>2, <1>10, <1>11, <1>12 DEF n, V, base, IsRun

\* What is built of nothing, and of one row more.
LEMMA BuiltEmpty ==
  ASSUME NEW reader, NEW db
  PROVE  Built(reader, db, <<>>) = StartOf(reader, db)
<1>1. ASSUME NEW T, NEW rows \in Seq(T), Len(rows) = 0
      PROVE  Built(reader, db, rows) = StartOf(reader, db)
  <2>1. PICK g : IsRun(g, reader, db, T, rows)
    BY BuiltSteps
  <2> QED BY <1>1, <2>1 DEF IsRun
<1>2. <<>> \in Seq({}) /\ Len(<<>>) = 0
  OBVIOUS
<1> QED BY <1>1, <1>2

\* One row more is one Put more.
LEMMA BuiltAppend ==
  ASSUME NEW reader, NEW db, NEW T, NEW rows \in Seq(T), NEW o \in T
  PROVE  /\ Built(reader, db, rows) \in Tree(reader, db, T)
         /\ Built(reader, db, Append(rows, o)) = Put(reader, db, Built(reader, db, rows), o)
<1> DEFINE t == Append(rows, o)
           n == Len(rows)
<1>1. /\ t \in Seq(T) /\ n \in Nat /\ Len(t) = n + 1
      /\ \A i \in 1..n : t[i] = rows[i] /\ i \in 1..Len(t)
      /\ t[n + 1] = o
  BY Appended
<1> HIDE DEF t
<1>2. PICK g : IsRun(g, reader, db, T, rows)
  BY BuiltSteps
<1>3. PICK h : IsRun(h, reader, db, T, t)
  BY <1>1, BuiltSteps
<1>4. \A k \in 1..n : g[k - 1] = h[k - 1] => g[k] = h[k]
  BY <1>1, <1>2, <1>3 DEF IsRun
<1>5. g[n] = h[n]
  <2>1. g[0] = h[0] /\ n \in Nat
    BY <1>1, <1>2, <1>3 DEF IsRun
  <2> HIDE DEF n
  <2> QED BY <1>4, <2>1, StepsAgree
<1>6. n + 1 \in 1..Len(t) /\ (n + 1) - 1 = n /\ n \in 0..n
  BY <1>1
<1>7. h[n + 1] = Put(reader, db, h[n], o)
  BY <1>1, <1>3, <1>6 DEF IsRun
<1>8. /\ Built(reader, db, rows) = g[n] /\ g[n] \in Tree(reader, db, T)
      /\ Built(reader, db, t) = h[n + 1]
  BY <1>1, <1>2, <1>3, <1>6 DEF IsRun
<1> QED BY <1>5, <1>7, <1>8 DEF t

\* The names of some objects, or of some leaves.
Names(s) == [i \in DOMAIN s |-> s[i].name]

\* The names of nothing.
LEMMA NamesEmpty == Names(<<>>) = <<>>
BY DEF Names

\* And with one more.
LEMMA NamesAppend ==
  ASSUME NEW T, NEW s \in Seq(T), NEW x \in T
  PROVE  /\ Names(s) \in Seq({y.name : y \in T})
         /\ Names(Append(s, x)) = Append(Names(s), x.name)
<1> DEFINE f == [y \in T |-> y.name]
           V == {y.name : y \in T}
<1>1. Into(f, T, V) /\ f[x] = x.name
  BY DEF Into
<1>2. ASSUME NEW t \in Seq(T) PROVE Names(t) = Mapped(f, t)
  <2>1. \A i \in DOMAIN t : t[i] \in T
    OBVIOUS
  <2> QED BY <2>1 DEF Names, Mapped
<1> HIDE DEF f, V
<1>3. Mapped(f, s) \in Seq(V)
  BY <1>1, MappedType
<1>4. Mapped(f, Append(s, x)) = Append(Mapped(f, s), f[x])
  BY MappedAppend
<1>5. Append(s, x) \in Seq(T)
  BY Appended
<1> QED BY <1>1, <1>2, <1>3, <1>4, <1>5 DEF V

\* What AddToTree does: a new branch, or a further leaf of the one there is.
LEMMA PutNew ==
  ASSUME NEW tree, NEW schema, NEW node, \A i \in DOMAIN tree : tree[i].name # schema
  PROVE  AddToTree(tree, schema, node)
           = Append(tree, [name |-> schema, children |-> <<node>>])
<1>1. {i \in DOMAIN tree : tree[i].name = schema} = {}
  OBVIOUS
<1> QED BY <1>1 DEF AddToTree

PutAt(tree, j, node) ==
  [i \in DOMAIN tree |->
     IF i = j THEN [tree[i] EXCEPT !.children = Append(@, node)] ELSE tree[i]]

\* A schema that has its branch gets a further leaf there.
LEMMA PutAgain ==
  ASSUME NEW E, NEW tree \in Seq(E), Distinct(tree), NEW j \in DOMAIN tree,
         NEW schema, schema = tree[j].name, NEW node
  PROVE  AddToTree(tree, schema, node)
           = PutAt(tree, j, node)
<1> DEFINE at == {i \in DOMAIN tree : tree[i].name = schema}
           f(m) == [i \in DOMAIN tree |->
                      IF i = m THEN [tree[i] EXCEPT !.children = Append(@, node)] ELSE tree[i]]
<1>1. at = {j}
  BY DEF Distinct
<1>2. Min(at) = j
  <2>1. {j} \in SUBSET (1..Len(tree)) /\ {j} # {} /\ Len(tree) \in Nat
    OBVIOUS
  <2>2. Min({j}) \in {j}
    BY <2>1, FirstOf
  <2> QED BY <1>1, <2>2
<1>3. at # {}
  BY <1>1
<1>4. AddToTree(tree, schema, node)
        = IF at = {} THEN Append(tree, [name |-> schema, children |-> <<node>>])
          ELSE f(Min(at))
  BY DEF AddToTree
<1> HIDE DEF at, f
<1>5. AddToTree(tree, schema, node) = f(j)
  BY <1>2, <1>3, <1>4
<1> QED BY <1>5 DEF f, PutAt

\* The name of one.
LEMMA NamesOne == ASSUME NEW x PROVE Names(<<x>>) = <<x.name>>
<1>1. x \in {x} /\ <<>> \in Seq({x}) /\ <<x>> = Append(<<>>, x)
  OBVIOUS
<1>2. Names(<<x>>) = Append(Names(<<>>), x.name)
  BY <1>1, NamesAppend
<1> QED BY <1>2, NamesEmpty

\* The tree stands for the rows so far: a node for each of their schemas, once,
\* its leaves the objects under it in their order.
Of(reader, db, T, top) == {o \in T : UnderOf(reader, db, o) = top}

Starts(reader, db) == IF reader.tree = "schemas" THEN {} ELSE {Top(reader, db)}

TopNames(tree) == {tree[i].name : i \in DOMAIN tree}

Complete(reader, db, T, rows, tree) ==
  /\ Distinct(tree)
  /\ TopNames(tree) = Starts(reader, db) \cup {UnderOf(reader, db, o) : o \in Range(rows)}
  /\ \A i \in DOMAIN tree :
       Names(tree[i].children) = Names(Kept(rows, Of(reader, db, T, tree[i].name)))

\* One more row, under a node that is there or not.
LEMMA CompletePut ==
  ASSUME NEW reader, NEW db, NEW T, NEW rows \in Seq(T), NEW o \in T,
         NEW tree \in Tree(reader, db, T), Complete(reader, db, T, rows, tree)
  PROVE  Complete(reader, db, T, Append(rows, o), Put(reader, db, tree, o))
<1> DEFINE N == BranchNames(reader, db, T)
           K == Leaves(reader, T)
           E == Branch(N, K)
           u == UnderOf(reader, db, o)
           node == Node(reader, o)
           more == Append(rows, o)
           of(top) == Of(reader, db, T, top)
           n == Len(tree)
           got == Put(reader, db, tree, o)
<1>1. /\ tree \in Seq(E) /\ n \in Nat /\ DOMAIN tree = 1..n
      /\ \A i \in DOMAIN tree : tree[i] \in E
  BY DEF Tree
<1>2. node \in K /\ node.name = o.name
  BY DEF Leaves, Node
<1>3. \A e \in E : e.children \in Seq(K)
  BY DEF Branch
<1>4. got = AddToTree(tree, u, node)
  BY DEF Put
<1>5. /\ \A i, j \in DOMAIN tree : tree[i].name = tree[j].name => i = j
      /\ TopNames(tree) = Starts(reader, db) \cup {UnderOf(reader, db, x) : x \in Range(rows)}
      /\ \A i \in DOMAIN tree : Names(tree[i].children) = Names(Kept(rows, of(tree[i].name)))
  BY DEF Complete, Distinct
<1>6. /\ more \in Seq(T) /\ Range(more) = Range(rows) \cup {o}
      /\ {UnderOf(reader, db, x) : x \in Range(more)}
           = {UnderOf(reader, db, x) : x \in Range(rows)} \cup {u}
  BY Appended
<1>7. ASSUME NEW top
      PROVE  Kept(more, of(top)) = IF u = top THEN Append(Kept(rows, of(top)), o)
                                             ELSE Kept(rows, of(top))
  <2>1. o \in of(top) <=> u = top
    BY DEF Of
  <2> HIDE DEF of, u
  <2> QED BY <2>1, KeptAppend
<1>8. ASSUME NEW top
      PROVE  Names(Kept(more, of(top))) = IF u = top THEN Append(Names(Kept(rows, of(top))), o.name)
                                                    ELSE Names(Kept(rows, of(top)))
  <2>1. Kept(rows, of(top)) \in Seq(T)
    BY KeptMembers
  <2>2. Names(Append(Kept(rows, of(top)), o)) = Append(Names(Kept(rows, of(top))), o.name)
    <3> HIDE DEF of
    <3> QED BY <2>1, NamesAppend
  <2> QED BY <1>7, <2>2
<1>9. Distinct(tree)
  BY DEF Complete
<1> HIDE DEF E, node, more, u, of, got
<1>10. /\ Distinct(got)
       /\ TopNames(got) = TopNames(tree) \cup {u}
       /\ \A i \in DOMAIN got : Names(got[i].children) = Names(Kept(more, of(got[i].name)))
  <2>1. CASE \A i \in DOMAIN tree : tree[i].name # u
    <3> DEFINE new == [name |-> u, children |-> <<node>>]
    <3>1. got = Append(tree, new) /\ new.name = u /\ new.children = <<node>>
      BY <1>4, <2>1, PutNew
    <3> HIDE DEF new
    <3>2. DOMAIN got = 1..(n + 1) /\ got[n + 1] = new /\ \A i \in 1..n : got[i] = tree[i]
      <4>1. tree \in Seq(E \cup {new}) /\ new \in E \cup {new}
        BY <1>1
      <4>2. /\ Append(tree, new) \in Seq(E \cup {new}) /\ Len(Append(tree, new)) = n + 1
            /\ \A i \in 1..n : Append(tree, new)[i] = tree[i]
            /\ Append(tree, new)[n + 1] = new
        BY <4>1, Appended
      <4> QED BY <3>1, <4>2
    <3>3. \A i \in 1..(n + 1) : i \in 1..n \/ i = n + 1
      BY <1>1
    <3>4. \A i \in 1..n : i \in 1..(n + 1) /\ i # n + 1 /\ n + 1 \in 1..(n + 1)
      BY <1>1
    <3>5. Distinct(got)
      <4>1. \A i, j \in DOMAIN got : got[i].name = got[j].name => i = j
        BY <1>1, <1>5, <2>1, <3>1, <3>2, <3>3
      <4> QED BY <4>1 DEF Distinct
    <3>6. TopNames(got) = TopNames(tree) \cup {u}
      <4>1. n + 1 \in 1..(n + 1)
        BY <1>1
      <4> QED BY <1>1, <3>1, <3>2, <3>3, <3>4, <4>1 DEF TopNames
    <3>7. ASSUME NEW i \in 1..n PROVE Names(got[i].children) = Names(Kept(more, of(got[i].name)))
      BY <1>1, <1>5, <1>8, <2>1, <3>2
    <3>8. Names(got[n + 1].children) = Names(Kept(more, of(got[n + 1].name)))
      <4>1. Kept(rows, of(u)) = <<>>
        <5>1. Range(rows) \cap of(u) = {}
          <6>1. \A x \in Range(rows) : UnderOf(reader, db, x) # u
            BY <1>5, <2>1 DEF TopNames
          <6> QED BY <6>1 DEF of, Of
        <5> QED BY <5>1, KeptNone
      <4>2. Names(Kept(more, of(u))) = Append(<<>>, o.name)
        BY <1>8, <4>1, NamesEmpty
      <4>3. Names(<<node>>) = <<node.name>>
        BY NamesOne
      <4> QED BY <1>2, <3>1, <3>2, <4>2, <4>3
    <3> QED BY <3>2, <3>3, <3>5, <3>6, <3>7, <3>8
  <2>2. CASE \E j \in DOMAIN tree : tree[j].name = u
    <3>1. PICK j \in DOMAIN tree : tree[j].name = u
      BY <2>2
    <3>2. got = [i \in DOMAIN tree |->
                   IF i = j THEN [tree[i] EXCEPT !.children = Append(@, node)] ELSE tree[i]]
      <4>1. u = tree[j].name
        BY <3>1
      <4>2. tree \in Seq(E)
        BY <1>1
      <4>3. AddToTree(tree, u, node) = PutAt(tree, j, node)
        BY <1>9, <4>1, <4>2, PutAgain
      <4> QED BY <1>4, <4>3 DEF PutAt
    <3>3. DOMAIN got = DOMAIN tree /\ \A i \in DOMAIN tree : i # j => got[i] = tree[i]
      BY <3>2
    <3>4. got[j] = [tree[j] EXCEPT !.children = Append(@, node)]
      BY <3>2
    <3>5. got[j].name = u /\ got[j].children = Append(tree[j].children, node)
      <4>1. tree[j] \in E
        BY <1>1
      <4>2. \A e \in E : /\ [e EXCEPT !.children = Append(@, node)].name = e.name
                         /\ [e EXCEPT !.children = Append(@, node)].children
                              = Append(e.children, node)
        BY DEF E, Branch
      <4> QED BY <3>1, <3>4, <4>1, <4>2
    <3>6. \A i \in DOMAIN tree : got[i].name = tree[i].name
      BY <3>1, <3>3, <3>5
    <3>7. Distinct(got) /\ TopNames(got) = TopNames(tree)
      BY <1>5, <3>3, <3>6 DEF Distinct, TopNames
    <3>8. u \in TopNames(tree)
      BY <3>1 DEF TopNames
    <3>9. ASSUME NEW i \in DOMAIN tree
          PROVE  Names(got[i].children) = Names(Kept(more, of(got[i].name)))
      <4>1. CASE i = j
        <5>1. tree[j].children \in Seq(K)
          BY <1>1, <1>3
        <5>2. Names(got[j].children) = Append(Names(tree[j].children), node.name)
          <6> HIDE DEF K
          <6> QED BY <1>2, <3>5, <5>1, NamesAppend
        <5>3. Names(tree[j].children) = Names(Kept(rows, of(u)))
          BY <1>5, <3>1
        <5> QED BY <1>2, <1>8, <3>5, <4>1, <5>2, <5>3
      <4>2. CASE i # j
        <5>1. tree[i].name # u
          BY <1>5, <3>1, <4>2
        <5> QED BY <1>5, <1>8, <3>3, <4>2, <5>1
      <4> QED BY <4>1, <4>2
    <3> QED BY <3>3, <3>7, <3>8, <3>9
  <2> QED BY <2>1, <2>2
<1>11. TopNames(got) = Starts(reader, db) \cup {UnderOf(reader, db, x) : x \in Range(more)}
  BY <1>5, <1>6, <1>10
<1> QED BY <1>10, <1>11 DEF Complete, got, more, of

\* Whatever the rows: the tree built of them is complete.
LEMMA BuiltComplete ==
  ASSUME NEW reader, NEW db, NEW T, NEW rows \in Seq(T)
  PROVE  /\ Built(reader, db, rows) \in Tree(reader, db, T)
         /\ Complete(reader, db, T, rows, Built(reader, db, rows))
<1> DEFINE Done(r) == /\ Built(reader, db, r) \in Tree(reader, db, T)
                      /\ Complete(reader, db, T, r, Built(reader, db, r))
           P == {r \in Seq(T) : Done(r)}
<1>1. P \in SUBSET Seq(T)
  OBVIOUS
<1>2. <<>> \in P
  <2> DEFINE tree == StartOf(reader, db)
  <2>1. Built(reader, db, <<>>) = tree /\ tree \in Tree(reader, db, T)
    BY BuiltEmpty, StartType
  <2>2. \A S : Kept(<<>>, S) = <<>>
    BY KeptEmpty
  <2>3. Range(<<>>) = {}
    BY DEF Range
  <2>4. Complete(reader, db, T, <<>>, tree)
    <3>1. CASE reader.tree = "schemas"
      <4>1. tree = <<>> /\ Starts(reader, db) = {} /\ DOMAIN tree = {}
        BY <3>1 DEF StartOf, Starts
      <4> QED BY <2>3, <4>1 DEF Complete, Distinct, TopNames
    <3>2. CASE reader.tree # "schemas"
      <4> DEFINE top == Top(reader, db)
                 b == [name |-> top, children |-> <<>>]
      <4>1. tree = <<b>> /\ Starts(reader, db) = {top}
        BY <3>2 DEF StartOf, Starts
      <4>2. b.name = top /\ b.children = <<>>
        OBVIOUS
      <4> HIDE DEF b, tree, top
      <4>3. DOMAIN tree = {1} /\ tree[1] = b
        BY <4>1
      <4>4. Distinct(tree) /\ TopNames(tree) = {top}
        BY <4>2, <4>3 DEF Distinct, TopNames
      <4>5. \A i \in DOMAIN tree :
              Names(tree[i].children) = Names(Kept(<<>>, Of(reader, db, T, tree[i].name)))
        BY <2>2, <4>2, <4>3
      <4> QED BY <2>3, <4>1, <4>4, <4>5 DEF Complete
    <3> QED BY <3>1, <3>2
  <2>5. Done(<<>>)
    BY <2>1, <2>4
  <2> HIDE DEF Done
  <2> QED BY <2>5
<1>3. ASSUME NEW r \in P, NEW o \in T PROVE Append(r, o) \in P
  <2>1. r \in Seq(T) /\ Done(r)
    OBVIOUS
  <2>2. Append(r, o) \in Seq(T)
    BY <2>1
  <2>3. Built(reader, db, Append(r, o)) = Put(reader, db, Built(reader, db, r), o)
    BY <2>1, BuiltAppend
  <2>4. Complete(reader, db, T, Append(r, o), Put(reader, db, Built(reader, db, r), o))
    BY <2>1, CompletePut
  <2>5. Built(reader, db, Append(r, o)) \in Tree(reader, db, T)
    BY <2>1, <2>3, PutType DEF Put
  <2>6. Done(Append(r, o))
    BY <2>3, <2>4, <2>5
  <2> HIDE DEF Done
  <2> QED BY <2>2, <2>6
<1> HIDE DEF P
<1>4. P = Seq(T)
  BY <1>1, <1>2, <1>3, SeqInduction
<1>5. rows \in P
  BY <1>4
<1> QED BY <1>5 DEF P

\* Distinct names are as many as there are members.
LEMMA DistinctCount ==
  ASSUME NEW E, NEW tree \in Seq(E), Distinct(tree)
  PROVE  Len(tree) = Cardinality(TopNames(tree))
<1> DEFINE n == Len(tree)
           f == [i \in 1..n |-> tree[i].name]
<1>1. n \in Nat /\ DOMAIN tree = 1..n
  OBVIOUS
<1>2. f \in Bijection(1..n, TopNames(tree))
  <2>1. \A i \in 1..n : f[i] \in TopNames(tree)
    BY <1>1 DEF TopNames
  <2>2. \A i, j \in 1..n : f[i] = f[j] => i = j
    BY <1>1 DEF Distinct
  <2>3. \A t \in TopNames(tree) : \E i \in 1..n : f[i] = t
    BY <1>1 DEF TopNames
  <2> QED BY <2>1, <2>2, <2>3 DEF Bijection, Injection, Surjection, IsInjective
<1> HIDE DEF f
<1>3. IsFiniteSet(1..n) /\ Cardinality(1..n) = n
  <2>1. \A m \in Nat : IsFiniteSet(1..m) /\ Cardinality(1..m) = IF 1 > m THEN 0 ELSE m - 1 + 1
    BY FS_Interval
  <2>2. \A m \in Nat : (IF 1 > m THEN 0 ELSE m - 1 + 1) = m
    OBVIOUS
  <2> QED BY <1>1, <2>1, <2>2
<1>4. ExistsBijection(1..n, TopNames(tree))
  BY <1>2 DEF ExistsBijection
<1> QED BY <1>3, <1>4, FS_Bijection

\* What TreeIsComplete says of a tree.
WholeTree(reader, w, db0, tree) ==
  LET of(top) == IF reader.tree = "main" THEN w ELSE Kept(w, {o \in Range(w) : o.schema = top})
      tops == CASE reader.tree = "main" -> {"main"}
                [] reader.tree = "current" -> {db0}
                [] OTHER -> {w[i].schema : i \in DOMAIN w}
  IN /\ TopNames(tree) = tops
     /\ Len(tree) = Cardinality(tops)
     /\ \A i \in DOMAIN tree : Names(tree[i].children) = Names(of(tree[i].name))

\* A tree, of whatever catalog, is complete: of what the query is over.
LEMMA TreeComplete ==
  ASSUME NEW reader, NEW db0, NEW world \in Seq(Object), NEW scanned,
         reader.tree \in {"schemas", "main", "current"}
  PROVE  WholeTree(reader, Visible(reader, world), db0, Structure(reader, world, db0, scanned))
<1> DEFINE w == Visible(reader, world)
           rows == Listed(reader, world, db0, scanned)
           tree == Structure(reader, world, db0, scanned)
           own == {o \in Range(w) : o.schema = db0}
           in(top) == Of(reader, db0, Object, top)
<1>0. w \in Seq(Object)
  BY KeptMembers DEF Visible
<1>a. rows = Kept(w, CASE reader.tree = "current" -> own
                       [] reader.tree = "keyspace" -> scanned
                       [] OTHER -> Range(w))
  BY DEF Listed
<1> HIDE DEF w
<1>1. rows \in Seq(Object)
  BY <1>0, <1>a, KeptMembers
<1>2. tree = Built(reader, db0, rows)
  BY StructureIsBuilt
<1>3. tree \in Tree(reader, db0, Object) /\ Complete(reader, db0, Object, rows, tree)
  BY <1>1, <1>2, BuiltComplete
<1>4. Len(tree) = Cardinality(TopNames(tree))
  <2>1. PICK E : tree \in Seq(E)
    BY <1>3 DEF Tree
  <2> HIDE DEF tree
  <2> QED BY <1>3, <2>1, DistinctCount DEF Complete
<1>5. Range(w) \subseteq Object /\ Range(w) = {w[i] : i \in DOMAIN w}
  BY <1>0 DEF Range
<1>6. /\ TopNames(tree) = Starts(reader, db0) \cup {UnderOf(reader, db0, o) : o \in Range(rows)}
      /\ \A i \in DOMAIN tree : /\ tree[i].name \in TopNames(tree)
                                /\ Names(tree[i].children) = Names(Kept(rows, in(tree[i].name)))
  BY <1>3 DEF Complete, TopNames
<1> HIDE DEF tree, rows, in
<1>7. CASE reader.tree = "schemas"
  <2>1. rows = w
    <3>1. rows = Kept(w, Range(w))
      BY <1>7, <1>a
    <3> QED BY <1>0, <3>1, KeptAll
  <2>2. TopNames(tree) = {w[i].schema : i \in DOMAIN w}
    <3>1. Starts(reader, db0) = {} /\ \A o : UnderOf(reader, db0, o) = o.schema
      BY <1>7 DEF Starts, UnderOf
    <3> QED BY <1>5, <1>6, <2>1, <3>1
  <2>3. ASSUME NEW top PROVE Kept(rows, in(top)) = Kept(w, {o \in Range(w) : o.schema = top})
    <3>1. in(top) = {o \in Object : o.schema = top}
      BY <1>7 DEF in, Of, UnderOf
    <3>2. Range(w) \cap in(top) = Range(w) \cap {o \in Range(w) : o.schema = top}
      BY <1>5, <3>1
    <3> QED BY <1>0, <2>1, <3>2, KeptSame
  <2> QED BY <1>4, <1>6, <1>7, <2>2, <2>3 DEF tree, w, WholeTree
<1>8. CASE reader.tree = "main"
  <2>1. rows = w
    <3>1. rows = Kept(w, Range(w))
      BY <1>8, <1>a
    <3> QED BY <1>0, <3>1, KeptAll
  <2>2. Starts(reader, db0) = {"main"} /\ \A o : UnderOf(reader, db0, o) = "main"
    BY <1>8 DEF Starts, UnderOf, Top
  <2>3. TopNames(tree) = {"main"}
    BY <1>6, <2>2
  <2>4. Kept(rows, in("main")) = w
    <3>1. in("main") = Object
      BY <2>2 DEF in, Of
    <3> QED BY <1>0, <1>5, <2>1, <3>1, KeptAll
  <2>5. \A i \in DOMAIN tree : Names(tree[i].children) = Names(w)
    BY <1>6, <2>3, <2>4
  <2> QED BY <1>4, <1>8, <2>3, <2>5 DEF tree, w, WholeTree
<1>9. CASE reader.tree = "current"
  <2>1. rows = Kept(w, own)
    BY <1>9, <1>a
  <2>2. Starts(reader, db0) = {db0} /\ \A o : UnderOf(reader, db0, o) = db0
    BY <1>9 DEF Starts, UnderOf, Top
  <2>3. TopNames(tree) = {db0}
    BY <1>6, <2>2
  <2>4. Kept(rows, in(db0)) = rows
    <3>1. in(db0) = Object
      BY <2>2 DEF in, Of
    <3>2. Range(rows) \subseteq Object
      BY <1>1 DEF Range
    <3> QED BY <1>1, <3>1, <3>2, KeptAll
  <2>5. \A i \in DOMAIN tree : tree[i].name = db0 /\ Names(tree[i].children) = Names(Kept(w, own))
    BY <1>6, <2>1, <2>3, <2>4
  <2> QED BY <1>4, <1>9, <2>3, <2>5 DEF tree, w, WholeTree
<1> QED BY <1>7, <1>8, <1>9

---------------------------------------------------------------------------
(* The drivers' readers, and the object a name means.                       *)

\* What the drivers' readers have in common.
Regular(kind, r) ==
  /\ r.tree \in {"schemas", "main", "current", "keyspace"}
  /\ r.keys \in {"own", "current", "_id", "nowhere", "asked"}
  /\ r.keys \in {"own", "current"} => r.spells \in r.reads
  /\ r.keys = "nowhere" => r.described = {}
  /\ r.keys = "own" => r # PgReader
  /\ r.keys = "current" => r = PgReader
  /\ r.keys = "asked" => r # PgReader
  /\ r.unnamed = "only" => r.unnamedIndex = "only" /\ r.keys = "own"
  /\ r.unnamedIndex = "only" => r.unnamed = "only"
  /\ r.unnamed = "held" \/ r.unnamedIndex = "held" => kind = "mongodb"
  /\ r.unnamed = "only" => r.ddl # "named"
  /\ r.ddl \in {"never", "named", "by name"}
  /\ r.ddl = "by name" => kind = "duckdb" \/ r.unnamed = "only"
  /\ r.indexes \in {"folded", "own", "target", "never"}
  /\ r.segments \in {"key first", "included first", "whole", "none"}
  /\ r.segments \in {"whole", "none"} => r.indexes = "folded"
  /\ Truthy(r.spells) \/ r.indexes # "folded"

\* Every driver is such a reader.
LEMMA Readers == \A kind : Regular(kind, Reader(kind))
<1>1. \A kind : Regular(kind, PgReader)
  BY DEF Regular, PgReader, Truthy
<1>2. \A kind : Regular(kind, MysqlReader)
  BY DEF Regular, MysqlReader, PgReader, Truthy
<1>3. \A kind : Regular(kind, MssqlReader)
  BY DEF Regular, MssqlReader, MysqlReader, PgReader, Truthy
<1>4. Regular("duckdb", DuckdbReader)
  BY DEF Regular, DuckdbReader, PgReader, Truthy
<1>5. \A kind : Regular(kind, SnowflakeReader)
  BY DEF Regular, SnowflakeReader, MysqlReader, PgReader, Truthy
<1>6. \A kind : Regular(kind, ClickhouseReader)
  BY DEF Regular, ClickhouseReader, MysqlReader, PgReader, Truthy
<1>7. \A kind : Regular(kind, CqlReader)
  BY DEF Regular, CqlReader, PgReader, Truthy
<1>8. \A kind : Regular(kind, SqliteReader)
  BY DEF Regular, SqliteReader, PgReader, Truthy
<1>9. \A kind : Regular(kind, FirebirdReader)
  BY DEF Regular, FirebirdReader, MysqlReader, PgReader, Truthy
<1>10. \A kind : Regular(kind, RedisReader)
  BY DEF Regular, RedisReader, PgReader, Truthy
<1>11. Regular("mongodb", MongoReader)
  BY DEF Regular, MongoReader, PgReader, Truthy
<1> QED BY <1>1, <1>2, <1>3, <1>4, <1>5, <1>6, <1>7, <1>8, <1>9, <1>10, <1>11 DEF Reader

\* The types a driver's tree leaves out, and those it finds no columns of.
NotListed(kind) ==
  CASE kind \in {"postgres", "cockroachdb"} -> {"materialized"}
    [] kind \in {"cassandra", "scylla"} -> {"view", "materialized"}
    [] OTHER -> {}

NotDescribed(kind) ==
  CASE kind \in {"postgres", "cockroachdb"} -> {"materialized"}
    [] kind = "sqlserver" -> {"view", "materialized"}
    [] kind = "redis" -> Types
    [] OTHER -> {}

Gaps(kind, r) ==
  /\ kind # "redis" => r.listed = Types \ NotListed(kind)
  /\ r.described = Types \ NotDescribed(kind)

\* Every driver lists and describes everything else.
LEMMA ReaderGaps ==
  ASSUME NEW kind,
         kind \in {"postgres", "cockroachdb", "mysql", "mariadb", "mongodb", "redis", "clickhouse",
                   "sqlserver", "cassandra", "scylla", "firebird", "snowflake", "sqlite", "duckdb"}
  PROVE  Gaps(kind, Reader(kind))
<1>1. CASE kind \in {"postgres", "cockroachdb"}
  BY <1>1 DEF Gaps, NotListed, NotDescribed, Types, Reader, PgReader
<1>2. CASE kind \in {"mysql", "mariadb"}
  BY <1>2 DEF Gaps, NotListed, NotDescribed, Types, Reader, MysqlReader, PgReader
<1>3. CASE kind = "sqlserver"
  BY <1>3 DEF Gaps, NotListed, NotDescribed, Types, Reader, MssqlReader, MysqlReader, PgReader
<1>4. CASE kind = "duckdb"
  BY <1>4 DEF Gaps, NotListed, NotDescribed, Types, Reader, DuckdbReader, PgReader
<1>5. CASE kind = "snowflake"
  BY <1>5 DEF Gaps, NotListed, NotDescribed, Types, Reader, SnowflakeReader, MysqlReader, PgReader
<1>6. CASE kind = "clickhouse"
  BY <1>6 DEF Gaps, NotListed, NotDescribed, Types, Reader, ClickhouseReader, MysqlReader, PgReader
<1>7. CASE kind \in {"cassandra", "scylla"}
  BY <1>7 DEF Gaps, NotListed, NotDescribed, Types, Reader, CqlReader, PgReader
<1>8. CASE kind = "sqlite"
  BY <1>8 DEF Gaps, NotListed, NotDescribed, Types, Reader, SqliteReader, PgReader
<1>9. CASE kind = "firebird"
  BY <1>9 DEF Gaps, NotListed, NotDescribed, Types, Reader, FirebirdReader, MysqlReader, PgReader
<1>10. CASE kind = "mongodb"
  BY <1>10 DEF Gaps, NotListed, NotDescribed, Types, Reader, MongoReader, PgReader
<1>11. CASE kind = "redis"
  BY <1>11 DEF Gaps, NotListed, NotDescribed, Types, Reader, RedisReader, PgReader
<1> QED BY <1>1, <1>2, <1>3, <1>4, <1>5, <1>6, <1>7, <1>8, <1>9, <1>10, <1>11

\* The objects a name means: those of the schema it says, or of any where the
\* engine has none.
Called(reader, w, obj) ==
  Kept(w, {o \in Range(w) : /\ o.name = obj.name
                            /\ reader.unnamed = "only" \/ o.schema = obj.schema})

\* How a reader looks the object up, once its schema is named.
Scoped(kind, reader, scope, obj, db0) ==
  /\ scope = "only" <=> reader.unnamed = "only"
  /\ scope = "held" => obj.schema = db0

Found(kind, reader, w, obj, db0, o) ==
  /\ o \in Object
  /\ Called(reader, w, obj) = <<o>>
  /\ \A scope : Scoped(kind, reader, scope, obj, db0) => Matching(scope, w, obj, db0) = <<o>>

\* Every way of looking finds that one object.
LEMMA OneMeant ==
  ASSUME NEW kind, NEW reader, NEW w \in Seq(Object), NEW obj, NEW db0,
         Len(Called(reader, w, obj)) = 1
  PROVE  \E o \in Range(w) : Found(kind, reader, w, obj, db0, o)
<1> DEFINE S == {o \in Range(w) : /\ o.name = obj.name
                                  /\ reader.unnamed = "only" \/ o.schema = obj.schema}
           s == Kept(w, S)
<1>1. s = Called(reader, w, obj)
  BY DEF Called
<1>2. Range(w) \subseteq Object
  BY DEF Range
<1>3. S \subseteq Range(w)
  OBVIOUS
<1> HIDE DEF S
<1>4. s \in Seq(Object) /\ Range(s) = Range(w) \cap S
  BY KeptMembers
<1> HIDE DEF s
<1>5. s = <<s[1]>> /\ s[1] \in Range(w) /\ s[1] \in S
  <2>1. Len(s) = 1
    BY <1>1
  <2>2. 1 \in DOMAIN s
    BY <1>4, <2>1
  <2>3. s[1] \in Range(s)
    BY <2>2 DEF Range
  <2>4. s = <<s[1]>>
    <3>1. <<s[1]>> \in Seq(Object) /\ Len(<<s[1]>>) = 1 /\ <<s[1]>>[1] = s[1]
      BY <1>4, <2>2
    <3> QED BY <1>4, <2>1, <3>1, SeqEqual
  <2> QED BY <1>4, <2>3, <2>4
<1>6. PICK o : o = s[1]
  OBVIOUS
<1>7. o \in Range(w) /\ o \in Object /\ o \in S /\ s = <<o>>
  BY <1>2, <1>5, <1>6
<1>8. reader.unnamed # "only" => obj.schema # None
  <2>1. \A x \in Object : x.schema # None
    BY DEF Object
  <2> QED BY <1>7, <2>1 DEF S
<1>9. ASSUME NEW scope, Scoped(kind, reader, scope, obj, db0)
      PROVE  Matching(scope, w, obj, db0) = <<o>>
  <2> DEFINE M == {x \in Range(w) : InScope(scope, x, obj, db0)}
  <2>1. M = S
    <3>1. ASSUME NEW x \in Range(w)
          PROVE  InScope(scope, x, obj, db0)
                   <=> /\ x.name = obj.name
                       /\ reader.unnamed = "only" \/ x.schema = obj.schema
      <4>1. CASE scope = "only"
        BY <1>9, <4>1 DEF Scoped, InScope
      <4>2. CASE scope = "held"
        BY <1>9, <4>2 DEF Scoped, InScope
      <4>3. CASE scope \notin {"only", "held"}
        BY <1>8, <1>9, <4>3 DEF Scoped, InScope
      <4> QED BY <4>1, <4>2, <4>3
    <3> QED BY <3>1 DEF S
  <2>2. Matching(scope, w, obj, db0) = Kept(w, M)
    BY DEF Matching
  <2> HIDE DEF M
  <2> QED BY <1>7, <2>1, <2>2 DEF s
<1> QED BY <1>1, <1>7, <1>9 DEF Found

---------------------------------------------------------------------------
(* Columns.                                                                *)

\* The columns of one object that is found.
Plainly(o) == o \in Object /\ Consistent(o)

Covered(o) == UNION {Range(x.included) : x \in {y \in Range(o.indexes) : y.primary}}

Flagged(cols) == {cols[i].name : i \in {j \in DOMAIN cols : cols[j].primary}}

\* What DescribedByItself says of them.
Itself(reader, o, cols) ==
  \/ o.type \notin reader.described /\ cols = <<>>
  \/ reader.keys = "_id"
  \/ /\ Names(cols) = o.cols
     /\ \/ Flagged(cols) = Range(o.pk)
        \/ reader.keys = "asked" /\ Flagged(cols) = {}
        \/ reader = PgReader /\ Flagged(cols) = Range(o.pk) \cup Covered(o)

\* The key that is flagged.
LEMMA KeyOfOne ==
  ASSUME NEW kind, NEW reader, Regular(kind, reader), NEW w, NEW obj, NEW db0, NEW answered,
         NEW o, Plainly(o), reader.keys \notin {"_id", "nowhere"},
         reader.keys \in {"current", "asked"} => Matching("current", w, obj, db0) = <<o>>
  PROVE  LET key == KeyColumns(reader, w, o, obj, db0, answered)
         IN /\ key \subseteq Range(o.cols)
            /\ \/ key = Range(o.pk)
               \/ reader.keys = "asked" /\ key = {}
               \/ reader = PgReader /\ key = Range(o.pk) \cup Covered(o)
<1> DEFINE included(t) == UNION {Range(t.indexes[i].included) : i \in {j \in DOMAIN t.indexes :
                                                                  t.indexes[j].primary}}
           k(t) == Range(t.pk) \cup (IF reader = PgReader THEN included(t) ELSE {})
           path == Matching("current", w, obj, db0)
           key == KeyColumns(reader, w, o, obj, db0, answered)
<1>1. included(o) = Covered(o)
  BY DEF Covered, Range
<1>2. Covered(o) \subseteq Range(o.cols) /\ Range(o.pk) \subseteq Range(o.cols)
  BY DEF Plainly, Consistent, Covered
<1> HIDE DEF included
<1>3. k(o) = Range(o.pk) \cup (IF reader = PgReader THEN Covered(o) ELSE {})
  BY <1>1
<1>4. key = CASE reader.keys = "own" -> k(o)
              [] reader.keys = "_id" -> {"_id"}
              [] reader.keys = "nowhere" -> {}
              [] reader.keys = "asked" /\ ~answered -> {}
              [] OTHER -> UNION {k(path[i]) : i \in DOMAIN path}
  BY DEF KeyColumns, included
<1> HIDE DEF k, key
<1>5. path = <<o>> => UNION {k(path[i]) : i \in DOMAIN path} = k(o)
  <2> SUFFICES ASSUME path = <<o>> PROVE UNION {k(path[i]) : i \in DOMAIN path} = k(o)
    OBVIOUS
  <2>1. DOMAIN path = {1} /\ path[1] = o
    OBVIOUS
  <2> HIDE DEF path
  <2> QED BY <2>1
<1> HIDE DEF path
<1>6. key = k(o) \/ (reader.keys = "asked" /\ key = {})
  <2>1. reader.keys \in {"own", "current", "asked"}
    BY DEF Regular
  <2> QED BY <1>4, <1>5, <2>1 DEF path
<1>7. k(o) = Range(o.pk) \/ (reader = PgReader /\ k(o) = Range(o.pk) \cup Covered(o))
  BY <1>3
<1> QED BY <1>2, <1>3, <1>6, <1>7 DEF key

\* The columns themselves.
LEMMA ColumnsOfOne ==
  ASSUME NEW kind, NEW reader, Regular(kind, reader), NEW w, NEW obj, NEW db0, NEW answered,
         NEW o \in Range(w), Plainly(o),
         Matching(reader.unnamed, w, obj, db0) = <<o>>,
         reader.keys \in {"current", "asked"} => Matching("current", w, obj, db0) = <<o>>
  PROVE  Itself(reader, o, Columns(reader, w, obj, db0, answered))
<1> DEFINE D == {x \in Range(w) : x.type \in reader.described}
           objects == Kept(Matching(reader.unnamed, w, obj, db0), D)
           flag(x, c) == /\ c \in KeyColumns(reader, w, x, obj, db0, answered)
                         /\ reader.keys \in {"own", "current"} => reader.spells \in reader.reads
           plain(x) == [i \in DOMAIN x.cols |-> [name |-> x.cols[i], primary |-> flag(x, x.cols[i])]]
           of(x) == plain(x) \o (IF reader.keys = "_id" /\ x.cols # <<>> THEN <<DocumentColumn>>
                                                                     ELSE <<>>)
           cols == Columns(reader, w, obj, db0, answered)
           key == KeyColumns(reader, w, o, obj, db0, answered)
<1>1. cols = FlattenSeq([i \in DOMAIN objects |-> of(objects[i])])
  BY DEF Columns
<1>2. objects = IF o \in D THEN <<o>> ELSE <<>>
  BY KeptOne
<1> HIDE DEF objects, of, cols
<1>3. CASE o.type \notin reader.described
  <2>1. objects = <<>>
    BY <1>2, <1>3
  <2>2. [i \in DOMAIN objects |-> of(objects[i])] = <<>>
    BY <2>1
  <2> QED BY <1>1, <1>3, <2>2, FlattenEmpty DEF Itself, cols
<1>4. CASE reader.keys = "_id"
  BY <1>4 DEF Itself
<1>5. CASE o.type \in reader.described /\ reader.keys # "_id"
  <2>1. objects = <<o>>
    BY <1>2, <1>5
  <2>2. [i \in DOMAIN objects |-> of(objects[i])] = <<of(o)>>
    <3>1. \A f : [i \in DOMAIN <<f>> |-> of(<<f>>[i])] = <<of(f)>>
      OBVIOUS
    <3> QED BY <2>1, <3>1
  <2>3. o.cols \in Seq(Column) /\ reader.keys # "nowhere"
    <3>1. \A x \in Object : x.cols \in Seq(Column)
      BY DEF Object
    <3> QED BY <1>5, <3>1 DEF Plainly, Regular
  <2> DEFINE n == Len(o.cols)
             E == [name : Column, primary : BOOLEAN]
  <2>4. n \in Nat /\ DOMAIN o.cols = 1..n
    BY <2>3
  <2>5. /\ key \subseteq Range(o.cols)
        /\ \/ key = Range(o.pk)
           \/ reader.keys = "asked" /\ key = {}
           \/ reader = PgReader /\ key = Range(o.pk) \cup Covered(o)
    BY <1>5, <2>3, KeyOfOne
  <2>6. \A c : flag(o, c) <=> c \in key
    BY DEF Regular
  <2> HIDE DEF flag, key
  <2>7. plain(o) \in Seq(E)
    <3>1. \A c : flag(o, c) \in BOOLEAN
      BY DEF flag
    <3>2. \A i \in 1..n : [name |-> o.cols[i], primary |-> flag(o, o.cols[i])] \in E
      BY <2>3, <2>4, <3>1
    <3> HIDE DEF E
    <3> QED BY <2>4, <3>2
  <2>8. of(o) = plain(o)
    <3>1. of(o) = plain(o) \o <<>>
      BY <1>5 DEF of
    <3> HIDE DEF plain, E
    <3> QED BY <2>7, <3>1
  <2>9. cols = plain(o)
    <3> HIDE DEF plain, E
    <3> QED BY <1>1, <2>2, <2>7, <2>8, FlattenOne
  <2>10. /\ DOMAIN cols = 1..n
         /\ \A i \in 1..n : cols[i].name = o.cols[i] /\ (cols[i].primary <=> o.cols[i] \in key)
    BY <2>4, <2>6, <2>9
  <2> HIDE DEF plain
  <2>11. Names(cols) = o.cols
    BY <2>3, <2>4, <2>10 DEF Names
  <2>12. Flagged(cols) = key
    <3>1. Range(o.cols) = {o.cols[i] : i \in 1..n}
      BY <2>4 DEF Range
    <3>2. \A i \in 1..n : cols[i].primary <=> o.cols[i] \in key
      BY <2>10
    <3>3. Flagged(cols) = {o.cols[i] : i \in {j \in 1..n : o.cols[j] \in key}}
      BY <2>10 DEF Flagged
    <3> QED BY <2>5, <3>1, <3>3
  <2> QED BY <2>5, <2>11, <2>12 DEF Itself, cols
<1> QED BY <1>3, <1>4, <1>5

---------------------------------------------------------------------------
(* Indexes.                                                                *)

\* A part's name is the part, if it is a column.
LEMMA PartsKept ==
  ASSUME NEW q \in Seq(Column \cup {Expression})
  PROVE  /\ PartNames(q) \in Seq(Column \cup {None})
         /\ Kept(PartNames(q), Column) = Kept(q, Column)
<1> DEFINE V == Column \cup {Expression}
           W == Column \cup {None}
           f == [y \in V |-> IF y = Expression THEN None ELSE y]
           Alike(t) == /\ Mapped(f, t) \in Seq(W)
                      /\ Kept(Mapped(f, t), Column) = Kept(t, Column)
           P == {t \in Seq(V) : Alike(t)}
<1>1. /\ Into(f, V, W)
      /\ \A y \in V : /\ y \in Column <=> f[y] \in Column
                      /\ y \in Column => f[y] = y
  BY DEF Into, Column
<1>2. ASSUME NEW t \in Seq(V) PROVE PartNames(t) = Mapped(f, t)
  <2>1. \A i \in DOMAIN t : t[i] \in V
    OBVIOUS
  <2> QED BY <2>1 DEF PartNames, Mapped
<1> HIDE DEF V, W, f
<1>3. P \in SUBSET Seq(V)
  OBVIOUS
<1>4. <<>> \in P
  <2>1. Mapped(f, <<>>) = <<>> /\ <<>> \in Seq(W) /\ <<>> \in Seq(V)
    BY MappedEmpty
  <2>2. Alike(<<>>)
    BY <2>1
  <2> HIDE DEF Alike
  <2> QED BY <2>1, <2>2
<1>5. ASSUME NEW t \in P, NEW y \in V PROVE Append(t, y) \in P
  <2>1. t \in Seq(V) /\ Alike(t)
    OBVIOUS
  <2>2. Append(t, y) \in Seq(V)
    BY <2>1, Appended
  <2>3. Mapped(f, Append(t, y)) = Append(Mapped(f, t), f[y])
    BY <2>1, MappedAppend
  <2>4. Mapped(f, Append(t, y)) \in Seq(W)
    BY <1>1, <2>2, MappedType
  <2>5. f[y] \in W
    BY <1>1 DEF Into
  <2>6. Kept(Append(Mapped(f, t), f[y]), Column)
          = IF f[y] \in Column THEN Append(Kept(Mapped(f, t), Column), f[y])
                               ELSE Kept(Mapped(f, t), Column)
    <3>1. \A s \in Seq(W) : \A z \in W :
            Kept(Append(s, z), Column) = IF z \in Column THEN Append(Kept(s, Column), z)
                                                         ELSE Kept(s, Column)
      BY KeptAppend
    <3>2. Mapped(f, t) \in Seq(W)
      BY <2>1
    <3> QED BY <2>5, <3>1, <3>2
  <2>7. Kept(Append(t, y), Column) = IF y \in Column THEN Append(Kept(t, Column), y)
                                                     ELSE Kept(t, Column)
    BY <2>1, KeptAppend
  <2>8. Alike(Append(t, y))
    BY <1>1, <2>1, <2>3, <2>4, <2>6, <2>7
  <2> HIDE DEF Alike
  <2> QED BY <2>2, <2>8
<1> HIDE DEF P
<1>6. P = Seq(V)
  BY <1>3, <1>4, <1>5, SeqInduction
<1>7. q \in P
  BY <1>6 DEF V
<1> QED BY <1>2, <1>7 DEF P, V, W

\* The columns a client is shown, without the included ones, are the key's.
KeyParts(x) == Kept(x.parts, Column)

Proper(x) == x \in Index /\ Range(x.parts) \cap Range(x.included) = {}

\* What is said of an index.
LEMMA IndexFields ==
  \A x \in Index : /\ x.name \in STRING /\ x.unique \in BOOLEAN /\ x.primary \in BOOLEAN
                   /\ x.parts \in Seq(Column \cup {Expression})
                   /\ x.included \in Seq(Column)
BY DEF Index

\* They are columns, none of them included, and the parts without expressions.
LEMMA KeyPartsType ==
  ASSUME NEW x, Proper(x)
  PROVE  /\ KeyParts(x) \in Seq(Column)
         /\ Range(KeyParts(x)) \cap Range(x.included) = {}
         /\ Without(x.parts, {Expression}) = KeyParts(x)
<1> DEFINE q == x.parts
<1>1. q \in Seq(Column \cup {Expression}) /\ Range(q) \cap Range(x.included) = {}
  BY IndexFields DEF Proper
<1> HIDE DEF q
<1>2. /\ Kept(q, Column) \in Seq(Column \cup {Expression})
      /\ Range(Kept(q, Column)) = Range(q) \cap Column
  BY <1>1, KeptMembers
<1>3. Kept(q, Column) \in Seq(Column)
  <2> DEFINE k == Kept(q, Column)
  <2> HIDE DEF k
  <2>1. \A i \in 1..Len(k) : k[i] \in Column
    <3>1. k \in Seq(Column \cup {Expression}) /\ Range(k) \subseteq Column
      BY <1>2 DEF k
    <3> QED BY <3>1 DEF Range
  <2>2. k \in Seq(Column \cup {Expression})
    BY <1>2 DEF k
  <2>3. k \in Seq(Column)
    BY <2>1, <2>2
  <2> QED BY <2>3 DEF k
<1>4. Without(q, {Expression}) = Kept(q, Column)
  <2>1. Range(q) \subseteq Column \cup {Expression} /\ Expression \notin Column
    BY <1>1 DEF Range, Column
  <2>2. Range(q) \cap (Range(q) \ {Expression}) = Range(q) \cap Column
    BY <2>1
  <2>3. Kept(q, Range(q) \ {Expression}) = Kept(q, Column)
    BY <1>1, <2>2, KeptSame
  <2> QED BY <2>3 DEF Without
<1> QED BY <1>1, <1>2, <1>3, <1>4 DEF KeyParts, q

\* Columns shown with the included ones before or behind them, or without.
LEMMA IncludedApart ==
  ASSUME NEW k \in Seq(Column), NEW inc \in Seq(Column), Range(k) \cap Range(inc) = {},
         NEW cols, cols \in {k, k \o inc, inc \o k}
  PROVE  Without(cols, Range(inc)) = k
<1> DEFINE S == Column \ Range(inc)
<1>1. Range(k) \subseteq Column /\ Range(inc) \subseteq Column
  BY DEF Range
<1>2. Kept(k, S) = k /\ Kept(inc, S) = <<>>
  <2>1. Range(k) \subseteq S /\ Range(inc) \cap S = {}
    BY <1>1
  <2> HIDE DEF S
  <2> QED BY <2>1, KeptAll, KeptNone
<1>3. k \o inc \in Seq(Column) /\ inc \o k \in Seq(Column) /\ k \o <<>> = k /\ <<>> \o k = k
  OBVIOUS
<1>4. \A r, s \in Seq(Column) : Kept(r \o s, S) = Kept(r, S) \o Kept(s, S)
  <2> HIDE DEF S
  <2> QED BY KeptConcat
<1>5. Kept(cols, S) = k /\ cols \in Seq(Column)
  <2> HIDE DEF S
  <2>1. Kept(k \o inc, S) = Kept(k, S) \o Kept(inc, S)
    BY <1>4
  <2>2. Kept(inc \o k, S) = Kept(inc, S) \o Kept(k, S)
    BY <1>4
  <2> QED BY <1>2, <1>3, <2>1, <2>2
<1>6. Kept(cols, Range(cols) \ Range(inc)) = Kept(cols, S)
  <2>1. Range(cols) \subseteq Column
    BY <1>5 DEF Range
  <2>2. Range(cols) \cap (Range(cols) \ Range(inc)) = Range(cols) \cap S
    BY <2>1
  <2> HIDE DEF S
  <2> QED BY <1>5, <2>2, KeptSame
<1> QED BY <1>5, <1>6 DEF Without

\* The rows of an index: its cells, what is said of each, and never none.
Shape == Column \cup {Expression}

CellsIn(reader, x) ==
  CASE reader.segments = "included first" -> x.included \o PartNames(x.parts)
    [] reader.segments = "none" -> <<None>>
    [] OTHER -> PartNames(x.parts) \o x.included

Truth(reader, b) == IF b /\ reader.segments # "whole" THEN reader.spells ELSE "0"

RowsOfIndex(reader, x) == RowOf(x.name, Shape, Truth(reader, x.primary), Truth(reader, x.unique))

RowIn(reader, x, c) == [name |-> x.name, col |-> c, primary |-> Truth(reader, x.primary),
                        unique |-> Truth(reader, x.unique)]

\* The rows of an index, one for each cell.
LEMMA SegmentsAre ==
  ASSUME NEW reader, NEW x
  PROVE  Segments(reader, x)
           = IF reader.segments = "whole" THEN <<RowIn(reader, x, Expression)>>
             ELSE IF CellsIn(reader, x) = <<>> THEN <<RowIn(reader, x, None)>>
             ELSE [i \in DOMAIN CellsIn(reader, x) |-> RowIn(reader, x, CellsIn(reader, x)[i])]
BY DEF Segments, CellsIn, RowIn, Truth

\* A cell is a column or None.
LEMMA CellsType ==
  ASSUME NEW reader, NEW x \in Index
  PROVE  CellsIn(reader, x) \in Seq(Column \cup {None})
<1> DEFINE D == Column \cup {None}
           q == PartNames(x.parts)
<1>1. q \in Seq(D)
  BY IndexFields, PartsKept
<1>2. x.included \in Seq(D) /\ <<None>> \in Seq(D)
  <2>1. x.included \in Seq(Column)
    BY IndexFields
  <2> QED BY <2>1
<1> HIDE DEF D, q
<1>3. q \o x.included \in Seq(D) /\ x.included \o q \in Seq(D)
  BY <1>1, <1>2
<1> QED BY <1>2, <1>3 DEF CellsIn, D, q

\* All of them speak of that index; there is one at least.
LEMMA SegmentRows ==
  ASSUME NEW reader, NEW x \in Index
  PROVE  /\ Segments(reader, x) \in Seq(RowsOfIndex(reader, x))
         /\ Segments(reader, x) # <<>>
         /\ ColsOf(Segments(reader, x))
              = IF reader.segments = "whole" THEN <<Expression>>
                ELSE IF CellsIn(reader, x) = <<>> THEN <<None>>
                ELSE CellsIn(reader, x)
<1> DEFINE D == Column \cup {None}
           T == RowsOfIndex(reader, x)
           cells == CellsIn(reader, x)
           row(c) == RowIn(reader, x, c)
           got == Segments(reader, x)
<1>1. cells \in Seq(D) /\ Len(cells) \in Nat /\ DOMAIN cells = 1..Len(cells)
  BY CellsType
<1>2. \A c \in D \cup {Expression} : row(c) \in T /\ row(c).col = c
  BY DEF RowIn, RowsOfIndex, RowOf, Shape
<1>3. got = IF reader.segments = "whole" THEN <<row(Expression)>>
            ELSE IF cells = <<>> THEN <<row(None)>>
            ELSE [i \in DOMAIN cells |-> row(cells[i])]
  BY SegmentsAre
<1>4. Expression \in D \cup {Expression} /\ None \in D \cup {Expression}
  OBVIOUS
<1>5. \A i \in 1..Len(cells) : cells[i] \in D \cup {Expression}
  BY <1>1
<1> HIDE DEF D, T, cells, row, got
<1>6. ASSUME NEW c \in D \cup {Expression}
      PROVE  <<row(c)>> \in Seq(T) /\ <<row(c)>> # <<>> /\ ColsOf(<<row(c)>>) = <<c>>
  <2> DEFINE y == row(c)
  <2>1. y \in T /\ y.col = c
    BY <1>2
  <2> HIDE DEF y
  <2>2. <<y>> \in Seq(T) /\ <<y>> # <<>> /\ ColsOf(<<y>>) = <<c>>
    BY <2>1 DEF ColsOf
  <2> QED BY <2>2 DEF y
<1>7. CASE reader.segments = "whole"
  <2>1. got = <<row(Expression)>>
    BY <1>3, <1>7
  <2> QED BY <1>4, <1>6, <1>7, <2>1 DEF got, T, cells
<1>8. CASE reader.segments # "whole" /\ cells = <<>>
  <2>1. got = <<row(None)>>
    BY <1>3, <1>8
  <2> QED BY <1>4, <1>6, <1>8, <2>1 DEF got, T, cells
<1>9. CASE reader.segments # "whole" /\ cells # <<>>
  <2> DEFINE n == Len(cells)
  <2>1. got = [i \in 1..n |-> row(cells[i])]
    BY <1>1, <1>3, <1>9
  <2>2. \A i \in 1..n : row(cells[i]) \in T /\ row(cells[i]).col = cells[i]
    BY <1>2, <1>5
  <2>3. got \in Seq(T) /\ DOMAIN got = 1..n
    BY <1>1, <2>1, <2>2
  <2>4. n # 0
    BY <1>1, <1>9, EmptySeq
  <2>5. got # <<>>
    BY <1>1, <2>3, <2>4
  <2>6. ColsOf(got) = [i \in 1..n |-> cells[i]]
    BY <2>1, <2>2 DEF ColsOf
  <2>7. ColsOf(got) = cells
    BY <1>1, <2>6
  <2> QED BY <1>9, <2>3, <2>5, <2>7 DEF got, T, cells
<1> QED BY <1>7, <1>8, <1>9

\* A catalog of indexes that names their columns.
Columnar(reader) == reader.segments \notin {"none", "whole"}

\* Its key columns in their order, with the included ones before or behind.
LEMMA SegmentColumns ==
  ASSUME NEW reader, Columnar(reader), NEW x, Proper(x)
  PROVE  Without(Kept(ColsOf(Segments(reader, x)), Shape), Range(x.included)) = KeyParts(x)
<1> DEFINE q == PartNames(x.parts)
           inc == x.included
           k == KeyParts(x)
           cells == CellsIn(reader, x)
           cols == Kept(ColsOf(Segments(reader, x)), Shape)
           W == Column \cup {None}
<1>1. x \in Index
  BY DEF Proper
<1>2. q \in Seq(W) /\ Kept(q, Column) = k
  BY <1>1, IndexFields, PartsKept DEF KeyParts
<1>3. inc \in Seq(Column) /\ inc \in Seq(W)
  <2>1. inc \in Seq(Column)
    BY <1>1, IndexFields
  <2> QED BY <2>1
<1>4. k \in Seq(Column) /\ Range(k) \cap Range(inc) = {}
  BY KeyPartsType
<1>5. cells = inc \o q \/ cells = q \o inc
  BY DEF CellsIn, Columnar
<1>6. ColsOf(Segments(reader, x)) = IF cells = <<>> THEN <<None>> ELSE cells
  BY <1>1, SegmentRows DEF Columnar
<1>7. None \notin Shape
  BY DEF Shape, Column, None, Expression
<1> HIDE DEF q, inc, k, cells
<1>8. Kept(q, Shape) = k
  <2>1. Range(q) \subseteq W
    BY <1>2 DEF Range
  <2>2. Range(q) \cap Shape = Range(q) \cap Column
    BY <2>1 DEF Shape, Column, None, Expression
  <2> HIDE DEF W
  <2> QED BY <1>2, <2>2, KeptSame
<1>9. Kept(inc, Shape) = inc
  <2>1. Range(inc) \subseteq Shape
    BY <1>3 DEF Range, Shape
  <2> HIDE DEF W
  <2> QED BY <1>3, <2>1, KeptAll
<1>10. Kept(cells, Shape) = k \o inc \/ Kept(cells, Shape) = inc \o k
  <2> HIDE DEF W
  <2>1. \A r, s \in Seq(W) : Kept(r \o s, Shape) = Kept(r, Shape) \o Kept(s, Shape)
    BY KeptConcat
  <2>2. Kept(q \o inc, Shape) = k \o inc
    BY <1>2, <1>3, <1>8, <1>9, <2>1
  <2>3. Kept(inc \o q, Shape) = inc \o k
    BY <1>2, <1>3, <1>8, <1>9, <2>1
  <2> QED BY <1>5, <2>2, <2>3
<1>11. cols = Kept(cells, Shape)
  <2>1. CASE cells = <<>>
    <3>1. Kept(<<None>>, Shape) = <<>>
      BY <1>7, KeptOne
    <3> QED BY <1>6, <2>1, <3>1, KeptEmpty
  <2>2. CASE cells # <<>>
    BY <1>6, <2>2
  <2> QED BY <2>1, <2>2
<1> HIDE DEF cols
<1>12. cols \in {k, k \o inc, inc \o k}
  BY <1>10, <1>11
<1>13. Without(cols, Range(inc)) = k
  BY <1>3, <1>4, <1>12, IncludedApart
<1> QED BY <1>13 DEF cols, inc, k

\* What IndexColumnsInOrder says of one index as it is shown.
Shows(reader, e, x) ==
  /\ e.name = x.name
  /\ reader.segments \notin {"none", "whole"} =>
       Without(e.columns, Range(x.included)) = Without(x.parts, {Expression})
  /\ reader.indexes # "target" /\ reader.segments # "whole" =>
       e.unique = x.unique /\ e.primary = x.primary

\* An index asked for by itself.
LEMMA OwnShown ==
  ASSUME NEW reader, NEW x, Proper(x)
  PROVE  /\ Shows(reader, OwnIndex(x), x)
         /\ reader.indexes = "target" => Shows(reader, TargetIndex(x), x)
<1> DEFINE q == PartNames(x.parts)
           cols == Without(q, {None})
           k == KeyParts(x)
           W == Column \cup {None}
<1>1. x \in Index /\ k \in Seq(Column) /\ x.included \in Seq(Column)
  BY IndexFields, KeyPartsType DEF Proper
<1>2. q \in Seq(W) /\ Kept(q, Column) = k
  BY <1>1, IndexFields, PartsKept DEF KeyParts
<1> HIDE DEF q, k
<1>3. cols = k
  <2>1. Range(q) \subseteq W
    BY <1>2 DEF Range
  <2>2. Range(q) \cap (Range(q) \ {None}) = Range(q) \cap Column
    BY <2>1 DEF Column
  <2> HIDE DEF W
  <2>3. Kept(q, Range(q) \ {None}) = Kept(q, Column)
    BY <1>2, <2>2, KeptSame
  <2> QED BY <1>2, <2>3 DEF Without
<1>4. Range(k) \cap Range(x.included) = {} /\ Without(x.parts, {Expression}) = k
  BY KeyPartsType DEF k
<1>5. Without(k, Range(x.included)) = k
  BY <1>1, <1>4, IncludedApart
<1>6. /\ OwnIndex(x).name = x.name /\ OwnIndex(x).columns = cols
      /\ OwnIndex(x).unique = x.unique /\ OwnIndex(x).primary = x.primary
  BY DEF OwnIndex, q
<1>7. TargetIndex(x).name = x.name /\ TargetIndex(x).columns = cols
  BY DEF TargetIndex, OwnIndex, q
<1> HIDE DEF cols
<1>8. Shows(reader, OwnIndex(x), x)
  BY <1>3, <1>4, <1>5, <1>6 DEF Shows
<1>9. reader.indexes = "target" => Shows(reader, TargetIndex(x), x)
  BY <1>3, <1>4, <1>5, <1>7 DEF Shows
<1> QED BY <1>8, <1>9

\* An index folded out of its rows.
Folded(reader, x) == EntryOf(x.name, Truth(reader, x.primary), Truth(reader, x.unique),
                             Kept(ColsOf(Segments(reader, x)), Shape))

\* Folded, it keeps its name, its columns and its truth values.
LEMMA FoldedShown ==
  ASSUME NEW kind, NEW reader, Regular(kind, reader), reader.indexes = "folded",
         NEW x, Proper(x)
  PROVE  Shows(reader, Folded(reader, x), x)
<1> DEFINE e == Folded(reader, x)
           cols == Kept(ColsOf(Segments(reader, x)), Shape)
<1>1. Columnar(reader) => Without(cols, Range(x.included)) = Without(x.parts, {Expression})
  BY SegmentColumns, KeyPartsType
<1>2. x.unique \in BOOLEAN /\ x.primary \in BOOLEAN
  BY IndexFields DEF Proper
<1>3. Truthy(reader.spells) /\ ~Truthy("0")
  BY DEF Regular, Truthy
<1>4. reader.segments # "whole" => \A b \in BOOLEAN : Truthy(Truth(reader, b)) = b
  <2>1. ASSUME reader.segments # "whole", NEW b \in BOOLEAN PROVE Truthy(Truth(reader, b)) = b
    <3>1. b = TRUE \/ b = FALSE
      OBVIOUS
    <3>2. CASE b = TRUE
      <4>1. Truthy(reader.spells) = TRUE
        BY <1>3 DEF Truthy
      <4>2. Truth(reader, b) = reader.spells
        BY <2>1, <3>2 DEF Truth
      <4> QED BY <3>2, <4>1, <4>2
    <3>3. CASE b = FALSE
      <4>1. Truthy("0") = FALSE
        BY <1>3 DEF Truthy
      <4>2. Truth(reader, b) = "0"
        BY <3>3 DEF Truth
      <4> QED BY <3>3, <4>1, <4>2
    <3> QED BY <3>1, <3>2, <3>3
  <2> QED BY <2>1
<1>5. /\ e.name = x.name /\ e.columns = cols
      /\ e.unique = Truthy(Truth(reader, x.unique)) /\ e.primary = Truthy(Truth(reader, x.primary))
  BY DEF Folded, EntryOf
<1> HIDE DEF e, cols
<1>6. Columnar(reader) <=> reader.segments \notin {"none", "whole"}
  BY DEF Columnar
<1>7. reader.segments # "whole" => e.unique = x.unique /\ e.primary = x.primary
  BY <1>2, <1>4, <1>5
<1> QED BY <1>1, <1>5, <1>6, <1>7 DEF Shows, e

\* All indexes of an object.
LEMMA IndexesOfOne ==
  ASSUME NEW kind, NEW reader, Regular(kind, reader), reader.indexes # "never",
         NEW w, NEW obj, NEW db0, NEW o, Plainly(o),
         Matching(reader.unnamedIndex, w, obj, db0) = <<o>>
  PROVE  LET shown == Indexes(reader, w, obj, db0)
         IN /\ Len(shown) = Len(o.indexes)
            /\ \A i \in DOMAIN o.indexes : Shows(reader, shown[i], o.indexes[i])
<1> DEFINE objects == Matching(reader.unnamedIndex, w, obj, db0)
           all == FlattenSeq([i \in DOMAIN objects |-> objects[i].indexes])
           m == o.indexes
           n == Len(m)
           shown == Indexes(reader, w, obj, db0)
<1>1. m \in Seq(Index) /\ n \in Nat /\ DOMAIN m = 1..n
  <2>1. \A x \in Object : x.indexes \in Seq(Index)
    BY DEF Object
  <2>2. m \in Seq(Index)
    BY <2>1 DEF Plainly
  <2> QED BY <2>2
<1>2. all = m
  <2>1. [i \in DOMAIN objects |-> objects[i].indexes] = <<m>>
    <3>1. \A f : [i \in DOMAIN <<f>> |-> <<f>>[i].indexes] = <<f.indexes>>
      OBVIOUS
    <3> QED BY <3>1
  <2> QED BY <1>1, <2>1, FlattenOne
<1>3. \A i \in 1..n : Proper(m[i])
  <2>1. Consistent(o)
    BY DEF Plainly
  <2>2. \A i \in 1..n : m[i] \in Range(m) /\ m[i] \in Index
    BY <1>1 DEF Range
  <2> QED BY <2>1, <2>2 DEF Consistent, Proper
<1>4. Distinct(m)
  BY DEF Plainly, Consistent, Distinct
<1>5. shown = CASE reader.indexes = "folded" ->
                     group_indexes(FlattenSeq([i \in DOMAIN all |-> Segments(reader, all[i])]))
                [] reader.indexes = "own" -> [i \in DOMAIN all |-> OwnIndex(all[i])]
                [] reader.indexes = "target" -> [i \in DOMAIN all |-> TargetIndex(all[i])]
                [] OTHER -> <<>>
  BY DEF Indexes
<1> HIDE DEF all, m, shown
<1>6. CASE reader.indexes = "own"
  <2>1. shown = [i \in 1..n |-> OwnIndex(m[i])]
    BY <1>1, <1>2, <1>5, <1>6
  <2>2. Len(shown) = n /\ \A i \in 1..n : shown[i] = OwnIndex(m[i])
    BY <1>1, <2>1
  <2> QED BY <1>1, <1>3, <2>2, OwnShown DEF m, shown
<1>7. CASE reader.indexes = "target"
  <2>1. shown = [i \in 1..n |-> TargetIndex(m[i])]
    BY <1>1, <1>2, <1>5, <1>7
  <2>2. Len(shown) = n /\ \A i \in 1..n : shown[i] = TargetIndex(m[i])
    BY <1>1, <2>1
  <2> QED BY <1>1, <1>3, <1>7, <2>2, OwnShown DEF m, shown
<1>8. CASE reader.indexes = "folded"
  <2> DEFINE seg == [x \in Index |-> Segments(reader, x)]
             ent == [x \in Index |-> Folded(reader, x)]
             p == [x \in Index |-> Truth(reader, x.primary)]
             u == [x \in Index |-> Truth(reader, x.unique)]
             U == {reader.spells, "0"}
  <2>1. None \notin Shape
    BY DEF Shape, Column, None, Expression
  <2>2. ASSUME NEW x \in Index
        PROVE  /\ x.name \in STRING /\ p[x] \in U /\ u[x] \in U
               /\ seg[x] \in Seq(RowOf(x.name, Shape, p[x], u[x])) /\ seg[x] # <<>>
               /\ ent[x] = EntryOf(x.name, p[x], u[x], Kept(ColsOf(seg[x]), Shape))
    <3>1. /\ Segments(reader, x) \in Seq(RowsOfIndex(reader, x))
          /\ Segments(reader, x) # <<>>
      BY SegmentRows
    <3>2. x.name \in STRING
      BY IndexFields
    <3>3. \A b : Truth(reader, b) \in U
      BY DEF Truth
    <3>4. /\ p[x] = Truth(reader, x.primary) /\ u[x] = Truth(reader, x.unique)
          /\ seg[x] = Segments(reader, x) /\ ent[x] = Folded(reader, x)
      OBVIOUS
    <3> HIDE DEF p, u, seg, ent, U
    <3> QED BY <3>1, <3>2, <3>3, <3>4 DEF RowsOfIndex, Folded
  <2>3. [i \in DOMAIN m |-> Segments(reader, m[i])] = Mapped(seg, m)
    <3>1. \A i \in DOMAIN m : m[i] \in Index
      BY <1>1
    <3> QED BY <3>1 DEF Mapped
  <2>4. \A x \in Index : ent[x] = Folded(reader, x)
    OBVIOUS
  <2> HIDE DEF seg, ent, p, u, U
  <2>5. shown = group_indexes(FlattenSeq(Mapped(seg, m)))
    BY <1>2, <1>5, <1>8, <2>3
  <2>6. Foldable(STRING, Shape, U, Index, seg, ent, p, u)
    BY <2>2 DEF Foldable
  <2>7. group_indexes(FlattenSeq(Mapped(seg, m))) = Mapped(ent, m)
    BY <1>1, <1>4, <2>1, <2>6, GroupAll
  <2>8. shown = [i \in 1..n |-> ent[m[i]]]
    BY <1>1, <2>5, <2>7 DEF Mapped
  <2>9. Len(shown) = n /\ \A i \in 1..n : shown[i] = Folded(reader, m[i])
    <3>1. \A i \in 1..n : m[i] \in Index
      BY <1>1
    <3> QED BY <1>1, <2>4, <2>8, <3>1
  <2> QED BY <1>1, <1>3, <1>8, <2>9, FoldedShown DEF m, shown
<1>9. reader.indexes \in {"folded", "own", "target"}
  <2>1. reader.indexes \in {"folded", "own", "target", "never"}
    BY DEF Regular
  <2> QED BY <2>1
<1> QED BY <1>6, <1>7, <1>8, <1>9
=================================================================================
