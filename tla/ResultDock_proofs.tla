--------------------------- MODULE ResultDock_proofs ---------------------------
(***************************************************************************)
(* What the result dock keeps to, for every set of connections and         *)
(* objects, every length of the editor's buffer and of the call log, and   *)
(* every session.                                                          *)
(*                                                                         *)
(* The argument: what a user asks for travels through requests in flight,  *)
(* scheduled functions and dialogs before it becomes a run.  Budget counts *)
(* it wherever it is: so there is a run left for all that is on its way,   *)
(* and of a buffer's statements never more than one is.  Runs says what    *)
(* the log's entry, the engine and the kept buffer of one run know of each *)
(* other, Gens whose count may still arrive, Bounded what the eviction     *)
(* leaves.                                                                 *)
(***************************************************************************)
EXTENDS ResultDock, SequenceTheorems, FiniteSetTheorems, WellFoundedInduction, TLAPS

\* What an entry of the log holds.
Query == [conn : Conn, stmt : Obj \cup {AdHoc, None}, origin : Obj \cup {None},
          k : 0..ChainLen]
Entry == [q : Query, state : {"none", "running", "done", "failed"}, call : 0..MaxRuns,
          offset : Offset, land : Offset]

Types ==
    /\ shown \in [conn : Conn \cup {None}, stmt : Obj \cup {AdHoc, None},
                  origin : Obj \cup {None}, call : 0..MaxRuns, page : 0..MaxRuns,
                  offset : Offset, gen : Gen, total : Gen]
    /\ view \in {"result", "log"} /\ open \in BOOLEAN /\ grid \in BOOLEAN
    /\ edit \in SUBSET Lock
    /\ log \in Seq(0..MaxRuns)
    /\ entry \in [Run -> Entry]
    /\ n \in 0..MaxRuns
    /\ engine \in [Run -> {"none", "asked", "refused", "running", "done", "failed"}]
    /\ held \in SUBSET Run
    /\ net \in SUBSET Message
    /\ sched \in Seq(Thunk)
    /\ dialogs \in SUBSET Dialog
    /\ spent \in 0..MaxRuns
    /\ opens \in 0..MaxOpens /\ chained \in BOOLEAN

\* How many things of P are in flight, scheduled or asked of the user.
Places(s, P) == {i \in DOMAIN s : s[i] \in P}
InSched(P)   == Cardinality(Places(sched, P))
Queued(P)    == Cardinality(net \cap P) + InSched(P) + Cardinality(dialogs \cap P)

\* What may still lead to a run, and what stands for a statement of the buffer.
Item  == Message \cup Thunk \cup Dialog
Purse == {x \in Item : x.t \in {"classify", "key", "dry", "write",
                                "start", "ask", "confirm", "refresh", "form"}}
Links == {x \in Item : x.t \in {"classify", "start", "ask"} /\ x.q.k # 0}

\* x is on its way.
OnItsWay(x) == x \in net \/ x \in dialogs \/ \E i \in DOMAIN sched : sched[i] = x

Shows(r) == InSched({Show(r)})

RunOK(r) ==
    /\ r > n => engine[r] = "none" /\ entry[r] = NoEntry
    /\ r <= n => engine[r] # "none"
    /\ engine[r] = "asked" => Exec(r) \in net
    /\ Exec(r) \in net => engine[r] # "none" /\ entry[r].call = 0
    /\ State(r) \in net => engine[r] \in {"done", "failed"}
    /\ entry[r].state = "done" => engine[r] = "done" /\ State(r) \notin net
    /\ Shows(r) <= 1 /\ (Shows(r) # 0 => entry[r].state = "done")
    /\ entry[r].call \in {0, r}
    /\ r \in held => engine[r] \in {"running", "done", "failed"}
    /\ CacheOn /\ Exec(r) \in net /\ engine[r] \in {"running", "done", "failed"} => r \in held
    /\ r \in held /\ Exec(r) \notin net => entry[r].call = r
    /\ CacheOn /\ entry[r].call # 0 => r \in held

Runs == \A r \in Run : RunOK(r)

LogOK == Len(log) <= LogMax /\ \A i \in DOMAIN log : log[i] <= n

LiveRuns == {r \in Run : entry[r].call # 0 /\ \E i \in DOMAIN log : log[i] = r}

Bounded == CacheOn => Cardinality(LiveRuns) <= CacheSize

Gens ==
    /\ shown.gen = n + opens
    /\ \A g \in Gen : Count(g) \in net =>
          /\ g # 0 /\ g <= shown.gen
          /\ g = shown.gen => shown.origin # None
    /\ shown.total # 0 => shown.total = shown.gen /\ shown.origin # None

\* Before the first run nothing is on screen, and no row of it is written.
Begun ==
    /\ n # 0 => shown.conn \in Conn
    /\ n = 0 => /\ shown.origin = None
                /\ \A p \in Plan : ~OnItsWay(DryRun(p)) /\ ~OnItsWay(Confirm(p))

Unfinished(r) == engine[r] \in {"asked", "running"} \/ State(r) \in net \/ Shows(r) # 0

\* The buffer's run has come to statement m, and pays for the ones after it.
Chain(m) ==
    /\ chained <=> m # 0
    /\ \A r \in 1..n : entry[r].q.k <= m
    /\ \A r, x \in 1..n : entry[r].q.k = entry[x].q.k /\ entry[r].q.k # 0 => r = x
    /\ \A r \in 1..n : entry[r].q.k > 1 =>
          \E x \in 1..(r - 1) : entry[x].q.k = entry[r].q.k - 1 /\ entry[x].state = "done"
    /\ \A r \in 1..n : entry[r].q.k # 0 /\ Unfinished(r) => entry[r].q.k = m
    /\ \A x \in Links : OnItsWay(x) =>
          /\ x.q.k = m
          /\ \A r \in 1..n : entry[r].q.k # m
          /\ m > 1 => \E r \in 1..n : entry[r].q.k = m - 1 /\ entry[r].state = "done"

Rest(m) == IF m = 0 THEN 0 ELSE ChainLen - m

Budget ==
    /\ IsFiniteSet(net) /\ IsFiniteSet(dialogs) /\ IsFiniteSet(edit)
    /\ Cardinality(edit) <= 1
    /\ Queued(Links) <= 1
    /\ \E m \in 0..ChainLen : Chain(m) /\ n + Queued(Purse) + Cardinality(edit) + Rest(m) <= spent

IInv == Types /\ Runs /\ LogOK /\ Bounded /\ Gens /\ Begun /\ Budget

---------------------------------------------------------------------------
(* Counting.                                                               *)

\* The constants are numbers.
LEMMA Bounds ==
    /\ Conn # {} /\ AdHoc \notin Obj /\ None \notin Obj /\ AdHoc # None
    /\ ChainLen \in Nat /\ ChainLen >= 1 /\ LogMax \in Nat /\ LogMax >= 1
    /\ CacheSize \in Nat /\ CacheOn \in BOOLEAN
    /\ MaxRuns \in Nat /\ MaxRuns >= 1 /\ MaxOpens \in Nat /\ MaxOffset \in Nat
    /\ Run = 1..MaxRuns /\ Offset = 0..MaxOffset /\ Gen = 0..(MaxRuns + MaxOpens)
BY DockAssumption DEF Run, Offset, Gen

\* Some things are taken out of a set and some others are put in.
LEMMA Swap ==
  ASSUME NEW N, IsFiniteSet(N), NEW M \in SUBSET N, NEW A, IsFiniteSet(A), NEW P
  PROVE  /\ IsFiniteSet((N \ M) \cup A)
         /\ Cardinality(N \cap P) \in Nat /\ Cardinality(A \cap P) \in Nat
         /\ Cardinality(M \cap P) \in Nat
         /\ Cardinality(((N \ M) \cup A) \cap P) \in Nat
         /\ Cardinality(((N \ M) \cup A) \cap P) + Cardinality(M \cap P)
              <= Cardinality(N \cap P) + Cardinality(A \cap P)
<1> DEFINE K == N \cap P
           G == M \cap P
           L == K \ G
           B == A \cap P
<1>1. IsFiniteSet(N \ M) /\ IsFiniteSet((N \ M) \cup A) /\ IsFiniteSet(M)
  BY FS_Difference, FS_Union, FS_Subset
<1>2. IsFiniteSet(K) /\ IsFiniteSet(G) /\ IsFiniteSet(B)
  BY <1>1, FS_Intersection
<1>3. ((N \ M) \cup A) \cap P = L \cup B
  OBVIOUS
<1>4. K \cap G = G
  OBVIOUS
<1> HIDE DEF K, G, B
<1>5. IsFiniteSet(L) /\ Cardinality(L) = Cardinality(K) - Cardinality(G)
  BY <1>2, <1>4, FS_Difference
<1> HIDE DEF L
<1>6. /\ Cardinality(K) \in Nat /\ Cardinality(L) \in Nat /\ Cardinality(B) \in Nat
      /\ Cardinality(G) \in Nat
  BY <1>2, <1>5, FS_CardinalityType
<1>7. /\ IsFiniteSet(L \cup B)
      /\ Cardinality(L \cup B) = Cardinality(L) + Cardinality(B) - Cardinality(L \cap B)
      /\ Cardinality(L \cap B) \in Nat
  BY <1>2, <1>5, FS_Union, FS_Intersection, FS_CardinalityType
<1>8. Cardinality(L \cup B) \in Nat
  BY <1>7, FS_CardinalityType
<1>9. Cardinality(L \cup B) + Cardinality(G) <= Cardinality(K) + Cardinality(B)
  BY <1>5, <1>6, <1>7, <1>8
<1> QED BY <1>1, <1>3, <1>6, <1>8, <1>9 DEF K, G, B

\* Of nothing, and of one thing.
LEMMA FewItems ==
  ASSUME NEW P
  PROVE  /\ IsFiniteSet({}) /\ Cardinality({} \cap P) = 0
         /\ \A x : /\ IsFiniteSet({x})
                   /\ Cardinality({x} \cap P) = IF x \in P THEN 1 ELSE 0
<1>1. {} \cap P = {}
  OBVIOUS
<1>2. \A x : {x} \cap P = IF x \in P THEN {x} ELSE {}
  OBVIOUS
<1> QED BY <1>1, <1>2, FS_EmptySet, FS_Singleton

\* The places of a sequence are as many before and after something is appended,
\* but for the one appended.
LEMMA Behind ==
  ASSUME NEW S, NEW s \in Seq(S), NEW x \in S, NEW P
  PROVE  /\ IsFiniteSet(Places(s, P)) /\ Cardinality(Places(s, P)) \in Nat
         /\ IsFiniteSet(Places(Append(s, x), P))
         /\ Cardinality(Places(Append(s, x), P))
              = Cardinality(Places(s, P)) + (IF x \in P THEN 1 ELSE 0)
<1>1. /\ Len(s) \in Nat /\ DOMAIN s = 1..Len(s)
      /\ DOMAIN Append(s, x) = 1..(Len(s) + 1)
      /\ \A i \in 1..Len(s) : Append(s, x)[i] = s[i]
      /\ Append(s, x)[Len(s) + 1] = x
  BY LenProperties, AppendProperties
<1>2. IsFiniteSet(1..Len(s))
  BY <1>1, FS_Interval
<1>3. Places(s, P) \subseteq 1..Len(s)
  BY <1>1 DEF Places
<1>4. IsFiniteSet(Places(s, P)) /\ Cardinality(Places(s, P)) \in Nat
  BY <1>2, <1>3, FS_Subset, FS_CardinalityType
<1>5. Len(s) + 1 \notin Places(s, P)
  BY <1>1, <1>3
<1>6. Places(Append(s, x), P) = IF x \in P THEN Places(s, P) \cup {Len(s) + 1} ELSE Places(s, P)
  <2>1. \A i : i \in 1..(Len(s) + 1) <=> i \in 1..Len(s) \/ i = Len(s) + 1
    BY <1>1
  <2> QED BY <1>1, <1>5, <2>1 DEF Places
<1> QED BY <1>4, <1>5, <1>6, FS_AddElement

\* And when the first is taken.
LEMMA Ahead ==
  ASSUME NEW S, NEW s \in Seq(S), s # <<>>, NEW P
  PROVE  /\ IsFiniteSet(Places(s, P)) /\ Cardinality(Places(s, P)) \in Nat
         /\ Cardinality(Places(Tail(s), P)) \in Nat
         /\ Cardinality(Places(Tail(s), P)) + (IF Head(s) \in P THEN 1 ELSE 0)
              = Cardinality(Places(s, P))
<1> DEFINE A == Places(s, P)
           B == Places(Tail(s), P)
           C == A \ {1}
<1>1. /\ Len(s) \in Nat /\ Len(s) # 0 /\ DOMAIN s = 1..Len(s) /\ Head(s) = s[1]
      /\ Tail(s) \in Seq(S) /\ Len(Tail(s)) = Len(s) - 1
      /\ \A i \in 1..Len(Tail(s)) : Tail(s)[i] = s[i + 1]
  BY LenProperties, HeadTailProperties, EmptySeq
<1>2. DOMAIN Tail(s) = 1..(Len(s) - 1)
  BY <1>1, LenProperties
<1>3. IsFiniteSet(A)
  <2>1. IsFiniteSet(1..Len(s))
    BY <1>1, FS_Interval
  <2>2. A \subseteq 1..Len(s)
    BY <1>1 DEF Places
  <2> QED BY <2>1, <2>2, FS_Subset
<1>4. /\ \A i \in B : i + 1 \in C
      /\ \A j \in C : j - 1 \in B /\ (j - 1) + 1 = j
      /\ \A i \in B : (i + 1) - 1 = i
  <2>1. \A i \in B : i \in 1..(Len(s) - 1) /\ s[i + 1] \in P
    BY <1>1, <1>2 DEF Places
  <2>2. \A i \in B : i + 1 \in 1..Len(s) /\ i + 1 # 1
    BY <1>1, <2>1
  <2>3. \A i \in B : i + 1 \in C
    BY <1>1, <2>1, <2>2 DEF Places
  <2>4. \A j \in C : j \in 1..Len(s) /\ j # 1 /\ s[j] \in P
    BY <1>1 DEF Places
  <2>5. \A j \in C : j - 1 \in 1..(Len(s) - 1) /\ (j - 1) + 1 = j
    BY <1>1, <2>4
  <2>6. \A j \in C : j - 1 \in B
    BY <1>1, <1>2, <2>4, <2>5 DEF Places
  <2> QED BY <2>1, <2>3, <2>5, <2>6
<1>5. (1 \in A <=> Head(s) \in P)
  BY <1>1 DEF Places
<1> HIDE DEF A, B
<1>6. [j \in C |-> j - 1] \in Bijection(C, B)
  BY <1>4 DEF Bijection, Injection, Surjection, IsInjective
<1>7. ExistsBijection(C, B)
  BY <1>6 DEF ExistsBijection
<1>8. /\ IsFiniteSet(C) /\ Cardinality(A) \in Nat
      /\ Cardinality(C) = IF 1 \in A THEN Cardinality(A) - 1 ELSE Cardinality(A)
  BY <1>3, FS_RemoveElement, FS_CardinalityType
<1>9. IsFiniteSet(B) /\ Cardinality(B) = Cardinality(C) /\ Cardinality(C) \in Nat
  BY <1>7, <1>8, FS_Bijection, FS_CardinalityType
<1>10. Cardinality(B) + (IF Head(s) \in P THEN 1 ELSE 0) = Cardinality(A)
  BY <1>5, <1>8, <1>9
<1> QED BY <1>3, <1>8, <1>9, <1>10 DEF A, B

---------------------------------------------------------------------------
(* What is in flight, scheduled or asked.                                  *)

\* What a request in flight is for.
LEMMA AreMessages ==
    /\ \A q \in Request : Classify(q) \in Message
    /\ \A r \in Run : Exec(r) \in Message /\ State(r) \in Message
    /\ \A c \in Run, f \in Offset, a \in BOOLEAN : Page(c, f, a) \in Message
    /\ \A o \in Obj, r \in Run, w \in Editor \ {"insert"} : Key(o, r, w) \in Message
    /\ \A o \in Obj : Key(o, 0, "insert") \in Message
    /\ \A p \in Plan : DryRun(p) \in Message
    /\ \A c \in Conn : Write(c) \in Message
    /\ \A g \in Gen : Count(g) \in Message
BY DEF Message

\* And what it carries.
LEMMA MessageIs ==
  ASSUME NEW m \in Message
  PROVE  /\ m.t \in {"classify", "exec", "state", "page", "key", "dry", "write", "count"}
         /\ m.t = "classify" => m.q \in Request /\ m = Classify(m.q)
         /\ m.t = "page" => m.call \in Run /\ m.from \in Offset
         /\ m.t = "key" => m.obj \in Obj /\ m.what \in Editor /\ (m.what # "insert" => m.row \in Run)
         /\ m.t = "dry" => m.plan \in Plan /\ m = DryRun(m.plan)
         /\ m.t = "write" => m.conn \in Conn
         /\ m.t = "count" => m.gen \in Gen /\ m = Count(m.gen)
         /\ m.t = "exec" => m.run \in Run
         /\ m.t = "state" => m.run \in Run
<1>1. CASE m \in {Classify(q) : q \in Request}
  BY <1>1 DEF Classify
<1>2. CASE m \in {Exec(r) : r \in Run}
  BY <1>2 DEF Exec
<1>3. CASE m \in {State(r) : r \in Run}
  BY <1>3 DEF State
<1>4. CASE m \in {Page(c, f, a) : c \in Run, f \in Offset, a \in BOOLEAN}
  BY <1>4 DEF Page
<1>5. CASE m \in {Key(o, r, w) : o \in Obj, r \in Run, w \in Editor \ {"insert"}}
  BY <1>5 DEF Key
<1>9. CASE m \in {Key(o, 0, "insert") : o \in Obj}
  BY <1>9 DEF Key, Editor
<1>6. CASE m \in {DryRun(p) : p \in Plan}
  BY <1>6 DEF DryRun
<1>7. CASE m \in {Write(c) : c \in Conn}
  BY <1>7 DEF Write
<1>8. CASE m \in {Count(g) : g \in Gen}
  BY <1>8 DEF Count
<1> QED BY <1>1, <1>2, <1>3, <1>4, <1>5, <1>6, <1>7, <1>8, <1>9 DEF Message

\* What a scheduled function is.
LEMMA AreThunks ==
    /\ \A q \in Request : Start(q) \in Thunk /\ Ask(q) \in Thunk
    /\ \A r \in Run : Show(r) \in Thunk
    /\ \A k \in 0..ChainLen : Stop(k) \in Thunk
    /\ \A p \in Plan : Confirm(p) \in Thunk
    /\ \A c \in Conn : Refresh(c) \in Thunk
BY DEF Thunk

\* And what it carries.
LEMMA ThunkIs ==
  ASSUME NEW x \in Thunk
  PROVE  /\ x.t \in {"start", "ask", "show", "stop", "confirm", "refresh"}
         /\ x.t = "start" => x.q \in Request /\ x = Start(x.q)
         /\ x.t = "ask" => x.q \in Request /\ x = Ask(x.q)
         /\ x.t = "show" => x.run \in Run /\ x = Show(x.run)
         /\ x.t = "stop" => x.k \in 0..ChainLen
         /\ x.t = "confirm" => x.plan \in Plan /\ x = Confirm(x.plan)
         /\ x.t = "refresh" => x.conn \in Conn /\ x = Refresh(x.conn)
<1>1. CASE x \in {Start(q) : q \in Request}
  BY <1>1 DEF Start
<1>2. CASE x \in {Ask(q) : q \in Request}
  BY <1>2 DEF Ask
<1>3. CASE x \in {Show(r) : r \in Run}
  BY <1>3 DEF Show
<1>4. CASE x \in {Stop(k) : k \in 0..ChainLen}
  BY <1>4 DEF Stop
<1>5. CASE x \in {Confirm(p) : p \in Plan}
  BY <1>5 DEF Confirm
<1>6. CASE x \in {Refresh(c) : c \in Conn}
  BY <1>6 DEF Refresh
<1> QED BY <1>1, <1>2, <1>3, <1>4, <1>5, <1>6 DEF Thunk

\* What a dialog is.
LEMMA AreDialogs ==
    /\ \A q \in Request : Ask(q) \in Dialog
    /\ \A p \in Plan : Confirm(p) \in Dialog
    /\ \A o \in Obj \cup {None} : Form(o) \in Dialog
BY DEF Dialog

\* And what it carries.
LEMMA DialogIs ==
  ASSUME NEW x \in Dialog
  PROVE  /\ x.t \in {"ask", "confirm", "form"}
         /\ x.t = "ask" => x.q \in Request /\ x = Ask(x.q)
         /\ x.t = "confirm" => x.plan \in Plan /\ x = Confirm(x.plan)
         /\ x.t = "form" => x.lock \in Obj \cup {None}
<1>1. CASE x \in {Ask(q) : q \in Request}
  BY <1>1 DEF Ask
<1>2. CASE x \in {Confirm(p) : p \in Plan}
  BY <1>2 DEF Confirm
<1>3. CASE x \in {Form(o) : o \in Obj \cup {None}}
  BY <1>3 DEF Form
<1> QED BY <1>1, <1>2, <1>3 DEF Dialog

\* What counts for a run, and what for a statement of the buffer.
LEMMA Kinds ==
    /\ \A x \in Item : x \in Purse <=> x.t \in {"classify", "key", "dry", "write",
                                              "start", "ask", "confirm", "refresh", "form"}
    /\ \A x \in Item : x \in Links <=> x.t \in {"classify", "start", "ask"} /\ x.q.k # 0
    /\ Message \subseteq Item /\ Thunk \subseteq Item /\ Dialog \subseteq Item
BY DEF Purse, Links, Item

\* The answers of one kind are told from those of any other.
LEMMA Tags ==
    /\ \A r : Exec(r).t = "exec" /\ State(r).t = "state" /\ Show(r).t = "show"
    /\ \A r : Exec(r).run = r /\ State(r).run = r /\ Show(r).run = r
    /\ \A g : Count(g).t = "count" /\ Count(g).gen = g
    /\ \A p : DryRun(p).t = "dry" /\ Confirm(p).t = "confirm" /\ DryRun(p).plan = p
    /\ \A q : /\ Classify(q).t = "classify" /\ Start(q).t = "start" /\ Ask(q).t = "ask"
              /\ Classify(q).q = q /\ Start(q).q = q /\ Ask(q).q = q
    /\ \A c, f, a : Page(c, f, a).t = "page"
    /\ \A o, r, w : Key(o, r, w).t = "key"
    /\ \A c : Write(c).t = "write" /\ Refresh(c).t = "refresh"
    /\ \A k : Stop(k).t = "stop"
    /\ \A o : Form(o).t = "form"
BY DEF Exec, State, Show, Count, DryRun, Confirm, Classify, Start, Ask, Page, Key, Write,
       Refresh, Stop, Form

---------------------------------------------------------------------------
(* What a step may do to the queues.                                       *)

\* What is on its way can be counted.
LEMMA Countable ==
  ASSUME IInv, NEW P
  PROVE  /\ IsFiniteSet(net) /\ IsFiniteSet(dialogs) /\ IsFiniteSet(Places(sched, P))
         /\ Cardinality(net \cap P) \in Nat /\ Cardinality(dialogs \cap P) \in Nat
         /\ InSched(P) \in Nat /\ Queued(P) \in Nat
<1>1. IsFiniteSet(net) /\ IsFiniteSet(dialogs) /\ sched \in Seq(Thunk)
  BY DEF IInv, Budget, Types
<1>2. Cardinality(net \cap P) \in Nat /\ Cardinality(dialogs \cap P) \in Nat
  BY <1>1, FS_Intersection, FS_CardinalityType
<1>3. IsFiniteSet(Places(sched, P)) /\ InSched(P) \in Nat
  <2>1. DOMAIN sched = 1..Len(sched) /\ Len(sched) \in Nat
    BY <1>1, LenProperties
  <2>2. Places(sched, P) \in SUBSET (1..Len(sched)) /\ IsFiniteSet(1..Len(sched))
    BY <2>1, FS_Interval DEF Places
  <2> QED BY <2>2, FS_Subset, FS_CardinalityType DEF InSched
<1> QED BY <1>1, <1>2, <1>3 DEF Queued

\* A function is scheduled.
LEMMA Scheduled ==
  ASSUME IInv, NEW x \in Thunk, sched' = Append(sched, x), NEW P
  PROVE  /\ sched' \in Seq(Thunk)
         /\ InSched(P)' = InSched(P) + (IF x \in P THEN 1 ELSE 0)
         /\ \A i \in DOMAIN sched' : sched'[i] = x \/ \E j \in DOMAIN sched : sched'[i] = sched[j]
<1>1. sched \in Seq(Thunk)
  BY DEF IInv, Types
<1>2. /\ DOMAIN sched = 1..Len(sched) /\ Len(sched) \in Nat
      /\ sched' \in Seq(Thunk) /\ DOMAIN sched' = 1..(Len(sched) + 1)
      /\ \A i \in 1..Len(sched) : sched'[i] = sched[i]
      /\ sched'[Len(sched) + 1] = x
  BY <1>1, LenProperties, AppendProperties
<1>3. \A i \in DOMAIN sched' : i \in DOMAIN sched \/ i = Len(sched) + 1
  BY <1>2
<1>4. InSched(P)' = InSched(P) + (IF x \in P THEN 1 ELSE 0)
  BY <1>1, Behind DEF InSched
<1> QED BY <1>2, <1>3, <1>4

\* The first scheduled function is taken.
LEMMA Taken ==
  ASSUME IInv, sched # <<>>, sched' = Tail(sched), NEW P
  PROVE  /\ sched' \in Seq(Thunk) /\ Head(sched) \in Thunk /\ OnItsWay(Head(sched))
         /\ InSched(P)' \in Nat
         /\ InSched(P)' + (IF Head(sched) \in P THEN 1 ELSE 0) = InSched(P)
         /\ \A i \in DOMAIN sched' : \E j \in DOMAIN sched : sched'[i] = sched[j]
<1>1. sched \in Seq(Thunk)
  BY DEF IInv, Types
<1>2. /\ DOMAIN sched = 1..Len(sched) /\ Len(sched) \in Nat /\ Len(sched) # 0
      /\ Head(sched) \in Thunk /\ sched' \in Seq(Thunk) /\ Len(sched') = Len(sched) - 1
      /\ \A i \in 1..Len(sched') : sched'[i] = sched[i + 1]
  BY <1>1, LenProperties, HeadTailProperties, EmptySeq
<1>3. DOMAIN sched' = 1..Len(sched')
  BY <1>2, LenProperties
<1>4. \A i \in DOMAIN sched' : i + 1 \in DOMAIN sched /\ sched'[i] = sched[i + 1]
  BY <1>2, <1>3
<1>5. Head(sched) = sched[1] /\ 1 \in DOMAIN sched
  BY <1>1, <1>2
<1>6. /\ InSched(P)' \in Nat
      /\ InSched(P)' + (IF Head(sched) \in P THEN 1 ELSE 0) = InSched(P)
  BY <1>1, Ahead DEF InSched
<1> QED BY <1>2, <1>4, <1>5, <1>6 DEF OnItsWay

\* Things of M and D are taken, those of A and E put in flight and asked; out
\* and in are what the schedule loses and gains.
LEMMA Traffic ==
  ASSUME IInv, NEW P,
         NEW M \in SUBSET net, NEW A, IsFiniteSet(A), net' = (net \ M) \cup A,
         NEW D \in SUBSET dialogs, NEW E, IsFiniteSet(E), dialogs' = (dialogs \ D) \cup E,
         NEW out \in Nat, NEW in \in Nat, InSched(P)' \in Nat,
         InSched(P)' + out = InSched(P) + in
  PROVE  /\ IsFiniteSet(net') /\ IsFiniteSet(dialogs')
         /\ Queued(P) \in Nat /\ Queued(P)' \in Nat
         /\ Cardinality(M \cap P) \in Nat /\ Cardinality(D \cap P) \in Nat
         /\ Cardinality(A \cap P) \in Nat /\ Cardinality(E \cap P) \in Nat
         /\ Queued(P)' + Cardinality(M \cap P) + Cardinality(D \cap P) + out
              <= Queued(P) + Cardinality(A \cap P) + Cardinality(E \cap P) + in
<1> DEFINE a == Cardinality(net' \cap P)
           c == Cardinality(dialogs' \cap P)
           s == InSched(P)'
<1>1. IsFiniteSet(net) /\ IsFiniteSet(dialogs) /\ InSched(P) \in Nat /\ Queued(P) \in Nat
  BY Countable
<1>2. /\ IsFiniteSet(net') /\ a \in Nat
      /\ Cardinality(net \cap P) \in Nat
      /\ Cardinality(M \cap P) \in Nat /\ Cardinality(A \cap P) \in Nat
      /\ a + Cardinality(M \cap P) <= Cardinality(net \cap P) + Cardinality(A \cap P)
  BY <1>1, Swap
<1>3. /\ IsFiniteSet(dialogs') /\ c \in Nat
      /\ Cardinality(dialogs \cap P) \in Nat
      /\ Cardinality(D \cap P) \in Nat /\ Cardinality(E \cap P) \in Nat
      /\ c + Cardinality(D \cap P) <= Cardinality(dialogs \cap P) + Cardinality(E \cap P)
  BY <1>1, Swap
<1>4. Queued(P)' = a + s + c /\ s \in Nat /\ s + out = InSched(P) + in
  BY DEF Queued
<1>5. Queued(P) = Cardinality(net \cap P) + InSched(P) + Cardinality(dialogs \cap P)
  BY DEF Queued
<1> HIDE DEF a, c, s
<1>6. a + s + c \in Nat
  BY <1>2, <1>3, <1>4
<1>7. a + s + c + Cardinality(M \cap P) + Cardinality(D \cap P) + out
        <= Queued(P) + Cardinality(A \cap P) + Cardinality(E \cap P) + in
  BY <1>1, <1>2, <1>3, <1>4, <1>5
<1> QED BY <1>1, <1>2, <1>3, <1>4, <1>6, <1>7

---------------------------------------------------------------------------
(* What a step leaves alone.                                               *)

\* The sets the invariant counts with are the same in every state.
LEMMA Fixed == UNCHANGED <<Purse, Links, Run, Gen, Plan, Message, Thunk, Dialog, Offset, Lock, Entry>>
BY DEF Purse, Links, Item, Message, Thunk, Dialog, Run, Gen, Plan, Offset, Lock, Entry

\* What a step leaves to each variable is of its type.
LEMMA Typed ==
  ASSUME shown' \in [conn : Conn \cup {None}, stmt : Obj \cup {AdHoc, None},
                     origin : Obj \cup {None}, call : 0..MaxRuns, page : 0..MaxRuns,
                     offset : Offset, gen : Gen, total : Gen],
         view' \in {"result", "log"}, open' \in BOOLEAN, grid' \in BOOLEAN,
         edit' \in SUBSET Lock, log' \in Seq(0..MaxRuns), entry' \in [Run -> Entry],
         n' \in 0..MaxRuns,
         engine' \in [Run -> {"none", "asked", "refused", "running", "done", "failed"}],
         held' \in SUBSET Run, net' \in SUBSET Message, sched' \in Seq(Thunk),
         dialogs' \in SUBSET Dialog, spent' \in 0..MaxRuns, opens' \in 0..MaxOpens,
         chained' \in BOOLEAN
  PROVE  Types'
BY Fixed DEF Types

\* No run, no answer about one and no scheduled Show is touched.
LEMMA RunsKept ==
  ASSUME IInv, UNCHANGED <<n, engine, held>>,
         \A r \in Run : r > n => entry'[r] = entry[r],
         \A r \in Run : entry'[r].state = entry[r].state /\ entry'[r].call = entry[r].call,
         \A r \in Run : (Exec(r) \in net' <=> Exec(r) \in net)
                         /\ (State(r) \in net' <=> State(r) \in net),
         \A r \in Run : Shows(r)' \in Nat /\ Shows(r)' <= Shows(r)
  PROVE  Runs'
<1> SUFFICES ASSUME NEW r \in Run PROVE RunOK(r)'
  BY DEF Runs
<1>1. RunOK(r)
  BY DEF IInv, Runs
<1>2. Shows(r)' <= 1 /\ (Shows(r)' # 0 => Shows(r) # 0)
  <2>1. Shows(r) \in Nat /\ Shows(r) <= 1 /\ Shows(r)' \in Nat /\ Shows(r)' <= Shows(r)
    BY <1>1, Countable DEF RunOK, Shows
  <2>2. \A a, b \in Nat : a <= b /\ b <= 1 => a <= 1 /\ (a # 0 => b # 0)
    OBVIOUS
  <2> QED BY <2>1, <2>2
<1>3. Exec(r)' = Exec(r) /\ State(r)' = State(r)
  BY DEF Exec, State
<1> QED BY <1>1, <1>2, <1>3 DEF RunOK

\* The log takes an entry.
LEMMA LogTakes ==
  ASSUME IInv, NEW id \in 0..MaxRuns, id <= n', n' \in Nat, n <= n', Logged(id)
  PROVE  /\ log' \in Seq(0..MaxRuns) /\ LogOK'
         /\ \A i \in DOMAIN log' : log'[i] = id \/ \E j \in DOMAIN log : log'[i] = log[j]
<1>1. /\ log \in Seq(0..MaxRuns) /\ Len(log) \in Nat /\ DOMAIN log = 1..Len(log)
      /\ Len(log) <= LogMax /\ LogMax \in Nat /\ LogMax >= 1
      /\ \A i \in DOMAIN log : log[i] <= n
  BY Bounds, LenProperties DEF IInv, Types, LogOK
<1>2. PICK s \in Seq(0..MaxRuns) :
         /\ log' = Append(s, id) /\ Len(s) < LogMax
         /\ \A i \in DOMAIN s : \E j \in DOMAIN log : s[i] = log[j]
  <2>1. CASE Len(log) = LogMax
    <3>1. log # <<>>
      BY <1>1, <2>1
    <3>2. /\ Tail(log) \in Seq(0..MaxRuns) /\ Len(Tail(log)) = Len(log) - 1
          /\ \A i \in 1..Len(Tail(log)) : Tail(log)[i] = log[i + 1]
      BY <1>1, <3>1, HeadTailProperties
    <3>3. DOMAIN Tail(log) = 1..(Len(log) - 1)
      BY <3>2, LenProperties
    <3>4. \A i \in DOMAIN Tail(log) : i + 1 \in DOMAIN log /\ Tail(log)[i] = log[i + 1]
      BY <1>1, <3>2, <3>3
    <3>5. Len(Tail(log)) < LogMax
      BY <1>1, <2>1, <3>2
    <3>6. log' = Append(Tail(log), id)
      BY <2>1 DEF Logged
    <3> QED BY <3>2, <3>4, <3>5, <3>6
  <2>2. CASE Len(log) # LogMax
    <3>0. \A a, b \in Nat : a <= b /\ a # b => a < b
      OBVIOUS
    <3>1. Len(log) < LogMax
      BY <1>1, <2>2, <3>0
    <3>2. log' = Append(log, id)
      BY <2>2 DEF Logged
    <3> QED BY <1>1, <3>1, <3>2
  <2> QED BY <2>1, <2>2
<1>3. /\ Len(s) \in Nat /\ DOMAIN s = 1..Len(s)
      /\ log' \in Seq(0..MaxRuns) /\ Len(log') = Len(s) + 1 /\ DOMAIN log' = 1..(Len(s) + 1)
      /\ \A i \in 1..Len(s) : log'[i] = s[i]
      /\ log'[Len(s) + 1] = id
  BY <1>2, LenProperties, AppendProperties
<1>4. \A i \in DOMAIN log' : i \in DOMAIN s \/ i = Len(s) + 1
  BY <1>3
<1>5. \A i \in DOMAIN log' : log'[i] = id \/ \E j \in DOMAIN log : log'[i] = log[j]
  BY <1>2, <1>3, <1>4
<1>6. Len(s) + 1 <= LogMax
  BY <1>1, <1>2, <1>3
<1>7. \A i \in DOMAIN log' : log'[i] <= n'
  <2> SUFFICES ASSUME NEW i \in DOMAIN log' PROVE log'[i] <= n'
    OBVIOUS
  <2>1. CASE log'[i] = id
    BY <2>1
  <2>2. CASE log'[i] # id
    <3>1. PICK j \in DOMAIN log : log'[i] = log[j]
      BY <1>5, <2>2
    <3>2. log[j] \in Nat /\ log[j] <= n /\ n \in Nat
      <4>1. log[j] \in 0..MaxRuns
        BY <1>1, ElementOfSeq
      <4>2. n \in 0..MaxRuns
        BY DEF IInv, Types
      <4> QED BY <1>1, <4>1, <4>2, Bounds
    <3>3. \A a, b, c \in Nat : a <= b /\ b <= c => a <= c
      OBVIOUS
    <3> QED BY <3>1, <3>2, <3>3
  <2> QED BY <2>1, <2>2
<1> QED BY <1>3, <1>5, <1>6, <1>7 DEF LogOK

\* The log is left alone.
LEMMA LogKept ==
  ASSUME IInv, UNCHANGED <<log, n>>
  PROVE  log' \in Seq(0..MaxRuns) /\ LogOK'
BY DEF IInv, Types, LogOK

\* No run gets a call or an entry.
LEMMA BoundedKept ==
  ASSUME IInv, LiveRuns' \subseteq LiveRuns
  PROVE  Bounded'
<1>1. CASE CacheOn
  <2>1. IsFiniteSet(Run)
    BY Bounds, FS_Interval
  <2>2. LiveRuns \in SUBSET Run
    BY DEF LiveRuns
  <2>3. IsFiniteSet(LiveRuns)
    BY <2>1, <2>2, FS_Subset
  <2>4. Cardinality(LiveRuns') <= Cardinality(LiveRuns) /\ IsFiniteSet(LiveRuns')
    BY <2>3, FS_Subset
  <2>5. Cardinality(LiveRuns) \in Nat /\ Cardinality(LiveRuns') \in Nat
    BY <2>3, <2>4, FS_CardinalityType
  <2>6. Cardinality(LiveRuns) <= CacheSize /\ CacheSize \in Nat
    BY <1>1, Bounds DEF IInv, Bounded
  <2>7. \A a, b, c \in Nat : a <= b /\ b <= c => a <= c
    OBVIOUS
  <2>8. Cardinality(LiveRuns') <= CacheSize
    BY <2>4, <2>5, <2>6, <2>7
  <2> QED BY <2>8 DEF Bounded
<1>2. CASE ~CacheOn
  BY <1>2 DEF Bounded
<1> QED BY <1>1, <1>2

\* Nobody's call and no place of the log changes for the better.
LEMMA LiveKept ==
  ASSUME IInv, \A r \in Run : entry'[r].call # 0 => entry[r].call # 0,
         \A i \in DOMAIN log' : log'[i] = 0 \/ \E j \in DOMAIN log : log'[i] = log[j]
  PROVE  Bounded'
<1>1. LiveRuns' \subseteq LiveRuns
  <2> SUFFICES ASSUME NEW r \in LiveRuns' PROVE r \in LiveRuns
    OBVIOUS
  <2>1. r \in Run /\ entry'[r].call # 0 /\ \E i \in DOMAIN log' : log'[i] = r
    BY DEF LiveRuns
  <2>2. r # 0
    BY <2>1, Bounds
  <2> QED BY <2>1, <2>2 DEF LiveRuns
<1> QED BY <1>1, BoundedKept

\* Nothing moves on in the buffer, and what may lead to a run is paid for.
LEMMA BudgetKept ==
  ASSUME IInv, Types',
         IsFiniteSet(net'), IsFiniteSet(dialogs'), IsFiniteSet(edit'), Cardinality(edit') <= 1,
         UNCHANGED <<n, chained>>,
         \A r \in Run : /\ entry'[r].q = entry[r].q
                        /\ entry[r].state = "done" => entry'[r].state = "done"
                        /\ Unfinished(r)' => Unfinished(r),
         Queued(Links)' \in Nat, Queued(Links)' <= Queued(Links),
         \A x \in Links : OnItsWay(x)' => \E y \in Links : OnItsWay(y) /\ y.q.k = x.q.k,
         Queued(Purse)' \in Nat,
         Queued(Purse)' + Cardinality(edit') + spent <= Queued(Purse) + Cardinality(edit) + spent'
  PROVE  Budget'
<1>1. PICK m \in 0..ChainLen : Chain(m) /\ n + Queued(Purse) + Cardinality(edit) + Rest(m) <= spent
  BY DEF IInv, Budget
<1>2. n \in 0..MaxRuns /\ \A r \in 1..n : r \in Run
  BY Bounds DEF IInv, Types
<1>3. Chain(m)'
  <2>1. chained' <=> m # 0
    BY <1>1 DEF Chain
  <2>2. \A r \in 1..n : entry'[r].q.k <= m
    BY <1>1, <1>2 DEF Chain
  <2>3. \A r, x \in 1..n : entry'[r].q.k = entry'[x].q.k /\ entry'[r].q.k # 0 => r = x
    BY <1>1, <1>2 DEF Chain
  <2>4. ASSUME NEW r \in 1..n, entry'[r].q.k > 1
        PROVE  \E x \in 1..(r - 1) : entry'[x].q.k = entry'[r].q.k - 1 /\ entry'[x].state = "done"
    <3>1. entry'[r].q = entry[r].q
      BY <1>2
    <3>2. PICK x \in 1..(r - 1) : entry[x].q.k = entry[r].q.k - 1 /\ entry[x].state = "done"
      BY <1>1, <2>4, <3>1 DEF Chain
    <3>3. x \in Run
      BY <1>2, Bounds
    <3> QED BY <3>1, <3>2, <3>3
  <2>5. \A r \in 1..n : entry'[r].q.k # 0 /\ Unfinished(r)' => entry'[r].q.k = m
    BY <1>1, <1>2 DEF Chain
  <2>6. ASSUME NEW x \in Links, OnItsWay(x)'
        PROVE  /\ x.q.k = m
               /\ \A r \in 1..n : entry'[r].q.k # m
               /\ m > 1 => \E r \in 1..n : entry'[r].q.k = m - 1 /\ entry'[r].state = "done"
    <3>1. PICK y \in Links : OnItsWay(y) /\ y.q.k = x.q.k
      BY <2>6
    <3>2. /\ y.q.k = m
          /\ \A r \in 1..n : entry[r].q.k # m
          /\ m > 1 => \E r \in 1..n : entry[r].q.k = m - 1 /\ entry[r].state = "done"
      BY <1>1, <3>1 DEF Chain
    <3>3. m > 1 => \E r \in 1..n : entry'[r].q.k = m - 1 /\ entry'[r].state = "done"
      BY <1>2, <3>2
    <3> QED BY <1>2, <3>1, <3>2, <3>3
  <2>7. n' = n
    OBVIOUS
  <2> QED BY <2>1, <2>2, <2>3, <2>4, <2>5, <2>6, <2>7, Fixed DEF Chain
<1>4. /\ Queued(Links) \in Nat /\ Queued(Purse) \in Nat /\ Queued(Links) <= 1
      /\ Cardinality(edit) \in Nat /\ Cardinality(edit') \in Nat
      /\ spent \in Nat /\ spent' \in Nat /\ n \in Nat /\ Rest(m) \in Nat
  <2>1. Cardinality(edit) \in Nat /\ Cardinality(edit') \in Nat
    BY FS_CardinalityType DEF IInv, Budget
  <2>2. spent \in Nat /\ spent' \in Nat /\ n \in Nat
    BY Bounds DEF IInv, Types
  <2>3. Rest(m) \in Nat
    BY Bounds DEF Rest
  <2> QED BY <2>1, <2>2, <2>3, Countable DEF IInv, Budget
<1>5. Queued(Links)' <= 1
  <2>1. \A a, b \in Nat : a <= b /\ b <= 1 => a <= 1
    OBVIOUS
  <2> QED BY <1>4, <2>1
<1>6. n + Queued(Purse)' + Cardinality(edit') + Rest(m) <= spent'
  <2>1. \A a, b, c, d, e, f, g, h \in Nat :
           a + b + c <= d + e + f /\ g + d + e + h <= c => g + a + b + h <= f
    OBVIOUS
  <2> QED BY <1>1, <1>4, <2>1
<1> QED BY <1>3, <1>5, <1>6 DEF Budget, Rest

---------------------------------------------------------------------------
(* Steps that move what is on its way.                                     *)

\* M is taken from what is in flight, D from the dialogs and T from the
\* schedule; A is put in flight, E is asked and S is scheduled.
Moves(M, A, D, E, T, S) ==
    /\ M \subseteq net /\ D \subseteq dialogs /\ \A x \in T : OnItsWay(x)
    /\ IsFiniteSet(A) /\ IsFiniteSet(E) /\ IsFiniteSet(T) /\ IsFiniteSet(S)
    /\ net' = (net \ M) \cup A
    /\ dialogs' = (dialogs \ D) \cup E
    /\ \A P : InSched(P)' \in Nat
    /\ \A P : InSched(P)' + Cardinality(T \cap P) = InSched(P) + Cardinality(S \cap P)
    /\ \A i \in DOMAIN sched' : sched'[i] \in S \/ \E j \in DOMAIN sched : sched'[i] = sched[j]

\* The schedule is left alone.
LEMMA MovesIdle ==
  ASSUME IInv, UNCHANGED sched, NEW M \in SUBSET net, NEW A, IsFiniteSet(A),
         NEW D \in SUBSET dialogs, NEW E, IsFiniteSet(E),
         net' = (net \ M) \cup A, dialogs' = (dialogs \ D) \cup E
  PROVE  Moves(M, A, D, E, {}, {})
<1>1. \A P : InSched(P)' = InSched(P) /\ InSched(P) \in Nat
  BY Countable DEF InSched
<1>2. \A P : Cardinality({} \cap P) = 0 /\ IsFiniteSet({})
  BY FewItems
<1>3. \A P : InSched(P)' \in Nat /\ InSched(P)' + Cardinality({} \cap P) = InSched(P) + Cardinality({} \cap P)
  BY <1>1, <1>2
<1> QED BY <1>2, <1>3 DEF Moves

\* A function is scheduled.
LEMMA MovesLater ==
  ASSUME IInv, NEW x \in Thunk, sched' = Append(sched, x), NEW M \in SUBSET net,
         NEW A, IsFiniteSet(A), NEW D \in SUBSET dialogs, NEW E, IsFiniteSet(E),
         net' = (net \ M) \cup A, dialogs' = (dialogs \ D) \cup E
  PROVE  Moves(M, A, D, E, {}, {x}) /\ sched' \in Seq(Thunk)
<1>1. \A P : InSched(P)' = InSched(P) + (IF x \in P THEN 1 ELSE 0) /\ InSched(P) \in Nat
  BY Scheduled, Countable
<1>2. \A P : /\ Cardinality({} \cap P) = 0 /\ IsFiniteSet({}) /\ IsFiniteSet({x})
             /\ Cardinality({x} \cap P) = IF x \in P THEN 1 ELSE 0
  BY FewItems
<1>3. \A P : InSched(P)' \in Nat /\ InSched(P)' + Cardinality({} \cap P) = InSched(P) + Cardinality({x} \cap P)
  <2> SUFFICES ASSUME NEW P
               PROVE  InSched(P)' \in Nat /\ InSched(P)' + Cardinality({} \cap P) = InSched(P) + Cardinality({x} \cap P)
    OBVIOUS
  <2>1. \A a \in Nat, b \in {0, 1} : a + b \in Nat /\ (a + b) + 0 = a + b
    OBVIOUS
  <2> QED BY <1>1, <1>2, <2>1
<1>4. /\ sched' \in Seq(Thunk)
      /\ \A i \in DOMAIN sched' : sched'[i] = x \/ \E j \in DOMAIN sched : sched'[i] = sched[j]
  BY Scheduled
<1> QED BY <1>2, <1>3, <1>4 DEF Moves

\* The first scheduled function is called.
LEMMA MovesDue ==
  ASSUME IInv, sched # <<>>, sched' = Tail(sched), NEW M \in SUBSET net,
         NEW A, IsFiniteSet(A), NEW D \in SUBSET dialogs, NEW E, IsFiniteSet(E),
         net' = (net \ M) \cup A, dialogs' = (dialogs \ D) \cup E
  PROVE  Moves(M, A, D, E, {Head(sched)}, {}) /\ sched' \in Seq(Thunk)
<1> DEFINE x == Head(sched)
<1>1. \A P : /\ InSched(P)' \in Nat /\ InSched(P) \in Nat
             /\ InSched(P)' + (IF x \in P THEN 1 ELSE 0) = InSched(P)
  BY Taken, Countable
<1>2. \A P : /\ Cardinality({} \cap P) = 0 /\ IsFiniteSet({}) /\ IsFiniteSet({x})
             /\ Cardinality({x} \cap P) = IF x \in P THEN 1 ELSE 0
  BY FewItems
<1>3. /\ sched' \in Seq(Thunk) /\ OnItsWay(x)
      /\ \A i \in DOMAIN sched' : \E j \in DOMAIN sched : sched'[i] = sched[j]
  BY Taken
<1> HIDE DEF x
<1>4. \A P : InSched(P)' \in Nat /\ InSched(P)' + Cardinality({x} \cap P) = InSched(P) + Cardinality({} \cap P)
  <2> SUFFICES ASSUME NEW P
               PROVE  InSched(P)' + Cardinality({x} \cap P) = InSched(P) + Cardinality({} \cap P)
    BY <1>1
  <2>1. \A a \in Nat : a = a + 0
    OBVIOUS
  <2> QED BY <1>1, <1>2, <2>1
<1>5. Moves(M, A, D, E, {x}, {})
  BY <1>2, <1>3, <1>4 DEF Moves
<1> QED BY <1>3, <1>5 DEF x

\* What was on its way stays so or was put there.
LEMMA MovesWay ==
  ASSUME NEW M, NEW A, NEW D, NEW E, NEW T, NEW S, Moves(M, A, D, E, T, S)
  PROVE  /\ \A x : OnItsWay(x)' => OnItsWay(x) \/ x \in A \/ x \in E \/ x \in S
         /\ \A x : x \in M \/ x \in D \/ x \in T => OnItsWay(x)
BY DEF Moves, OnItsWay

\* The counts follow.
LEMMA MovesCount ==
  ASSUME IInv, NEW M, NEW A, NEW D, NEW E, NEW T, NEW S, Moves(M, A, D, E, T, S), NEW P
  PROVE  /\ IsFiniteSet(net') /\ IsFiniteSet(dialogs')
         /\ Queued(P) \in Nat /\ Queued(P)' \in Nat
         /\ Cardinality(M \cap P) \in Nat /\ Cardinality(D \cap P) \in Nat
         /\ Cardinality(A \cap P) \in Nat /\ Cardinality(E \cap P) \in Nat
         /\ Cardinality(T \cap P) \in Nat /\ Cardinality(S \cap P) \in Nat
         /\ Queued(P)' + Cardinality(M \cap P) + Cardinality(D \cap P) + Cardinality(T \cap P)
              <= Queued(P) + Cardinality(A \cap P) + Cardinality(E \cap P) + Cardinality(S \cap P)
<1>1. Cardinality(T \cap P) \in Nat /\ Cardinality(S \cap P) \in Nat
  BY FS_Intersection, FS_CardinalityType DEF Moves
<1>2. /\ M \in SUBSET net /\ IsFiniteSet(A) /\ net' = (net \ M) \cup A
      /\ D \in SUBSET dialogs /\ IsFiniteSet(E) /\ dialogs' = (dialogs \ D) \cup E
      /\ InSched(P)' \in Nat
      /\ InSched(P)' + Cardinality(T \cap P) = InSched(P) + Cardinality(S \cap P)
  BY DEF Moves
<1> QED BY <1>1, <1>2, Traffic

\* A step that only moves things: nothing is answered about a run and no row of
\* a run is scheduled to be shown, a statement of the buffer only changes its
\* place, and what may lead to a run is paid for.
LEMMA Quiet ==
  ASSUME IInv, Types', NEW M, NEW A, NEW D, NEW E, NEW T, NEW S, Moves(M, A, D, E, T, S),
         UNCHANGED <<n, engine, held, chained>>,
         \A r \in Run : r > n => entry'[r] = entry[r],
         \A r \in Run : /\ entry'[r].q = entry[r].q /\ entry'[r].state = entry[r].state
                        /\ entry'[r].call = entry[r].call,
         \A x \in M \cup A : x.t # "exec" /\ x.t # "state",
         \A x \in S : x.t # "show",
         IsFiniteSet(edit'), Cardinality(edit') <= 1,
         \A x \in Links : x \in A \/ x \in E \/ x \in S =>
            \E y \in Links : (y \in M \/ y \in D \/ y \in T) /\ y.q.k = x.q.k,
         Cardinality(A \cap Links) + Cardinality(E \cap Links) + Cardinality(S \cap Links)
            <= Cardinality(M \cap Links) + Cardinality(D \cap Links) + Cardinality(T \cap Links),
         Cardinality(A \cap Purse) + Cardinality(E \cap Purse) + Cardinality(S \cap Purse)
            + Cardinality(edit') + spent
            <= Cardinality(M \cap Purse) + Cardinality(D \cap Purse) + Cardinality(T \cap Purse)
               + Cardinality(edit) + spent'
  PROVE  Runs' /\ Budget'
<1>1. ASSUME NEW r \in Run
      PROVE  /\ Exec(r) \in net' <=> Exec(r) \in net
             /\ State(r) \in net' <=> State(r) \in net
             /\ Shows(r) \in Nat /\ Shows(r)' \in Nat /\ Shows(r)' <= Shows(r)
  <2>1. Exec(r) \notin M \cup A /\ State(r) \notin M \cup A /\ Show(r) \notin S
    BY Tags
  <2>2. net' = (net \ M) \cup A
    BY DEF Moves
  <2>3. Shows(r) \in Nat /\ Shows(r)' \in Nat /\ Shows(r)' <= Shows(r)
    <3> DEFINE P == {Show(r)}
               a == InSched(P)'
               b == Cardinality(T \cap P)
    <3>1. InSched(P) \in Nat
      BY Countable
    <3>2. a \in Nat /\ b \in Nat /\ a + b = InSched(P) + Cardinality(S \cap P)
      <4>1. b \in Nat
        BY FS_Intersection, FS_CardinalityType DEF Moves
      <4>2. \A Q : InSched(Q)' \in Nat
        BY DEF Moves
      <4>3. \A Q : InSched(Q)' + Cardinality(T \cap Q) = InSched(Q) + Cardinality(S \cap Q)
        BY DEF Moves
      <4>4. InSched(P)' \in Nat /\ InSched(P)' + Cardinality(T \cap P) = InSched(P) + Cardinality(S \cap P)
        BY <4>2, <4>3
      <4> QED BY <4>1, <4>4
    <3>3. Cardinality(S \cap P) = 0
      <4>1. S \cap P = {}
        BY <2>1
      <4> QED BY <4>1, FS_EmptySet
    <3>4. Shows(r)' = a /\ Shows(r) = InSched(P)
      BY Fixed DEF Shows, Show
    <3> HIDE DEF a, b, P
    <3>5. \A u, v, w \in Nat : u + v = w + 0 => u <= w
      OBVIOUS
    <3> QED BY <3>1, <3>2, <3>3, <3>4, <3>5
  <2> QED BY <2>1, <2>2, <2>3
<1>2. Runs'
  BY <1>1, RunsKept
<1>3. \A r \in Run : Unfinished(r)' => Unfinished(r)
  <2> SUFFICES ASSUME NEW r \in Run, Unfinished(r)' PROVE Unfinished(r)
    OBVIOUS
  <2>1. State(r)' = State(r) /\ engine' = engine
    BY DEF State
  <2>2. Shows(r)' # 0 => Shows(r) # 0
    <3>1. \A a, b \in Nat : a <= b /\ a # 0 => b # 0
      OBVIOUS
    <3> QED BY <1>1, <3>1
  <2> QED BY <1>1, <2>1, <2>2 DEF Unfinished
<1>4. \A x \in Links : OnItsWay(x)' => \E y \in Links : OnItsWay(y) /\ y.q.k = x.q.k
  BY MovesWay
<1>5. IsFiniteSet(net') /\ IsFiniteSet(dialogs')
  BY MovesCount
<1>6. Queued(Links)' \in Nat /\ Queued(Links)' <= Queued(Links)
  <2> DEFINE z == Queued(Links)'
  <2>1. /\ z \in Nat /\ Queued(Links) \in Nat
        /\ Cardinality(M \cap Links) \in Nat /\ Cardinality(D \cap Links) \in Nat
        /\ Cardinality(A \cap Links) \in Nat /\ Cardinality(E \cap Links) \in Nat
        /\ Cardinality(T \cap Links) \in Nat /\ Cardinality(S \cap Links) \in Nat
        /\ z + Cardinality(M \cap Links) + Cardinality(D \cap Links) + Cardinality(T \cap Links)
              <= Queued(Links) + Cardinality(A \cap Links) + Cardinality(E \cap Links)
                   + Cardinality(S \cap Links)
    BY MovesCount, Fixed
  <2> HIDE DEF z
  <2>2. \A a, b, c, d, e, f, g, h \in Nat :
           a + b + c + d <= e + f + g + h /\ f + g + h <= b + c + d => a <= e
    OBVIOUS
  <2>3. z <= Queued(Links)
    BY <2>1, <2>2
  <2> QED BY <2>1, <2>3 DEF z
<1>7. /\ Queued(Purse)' \in Nat
      /\ Queued(Purse)' + Cardinality(edit') + spent <= Queued(Purse) + Cardinality(edit) + spent'
  <2> DEFINE z == Queued(Purse)'
             u == Cardinality(edit')
             w == spent'
  <2>1. /\ z \in Nat /\ Queued(Purse) \in Nat
        /\ Cardinality(M \cap Purse) \in Nat /\ Cardinality(D \cap Purse) \in Nat
        /\ Cardinality(A \cap Purse) \in Nat /\ Cardinality(E \cap Purse) \in Nat
        /\ Cardinality(T \cap Purse) \in Nat /\ Cardinality(S \cap Purse) \in Nat
        /\ z + Cardinality(M \cap Purse) + Cardinality(D \cap Purse) + Cardinality(T \cap Purse)
              <= Queued(Purse) + Cardinality(A \cap Purse) + Cardinality(E \cap Purse)
                   + Cardinality(S \cap Purse)
    BY MovesCount, Fixed
  <2>2. Cardinality(edit) \in Nat /\ u \in Nat
    BY FS_CardinalityType DEF IInv, Budget
  <2>3. spent \in Nat /\ w \in Nat
    BY Bounds DEF IInv, Types
  <2> HIDE DEF z, u, w
  <2>4. \A a, b, c, d, e, f, g, h, i, j, k, l \in Nat :
           /\ a + b + c + d <= e + f + g + h
           /\ f + g + h + i + j <= b + c + d + k + l
           => a + i + j <= e + k + l
    OBVIOUS
  <2>5. /\ Cardinality(A \cap Purse) + Cardinality(E \cap Purse) + Cardinality(S \cap Purse) + u + spent
            <= Cardinality(M \cap Purse) + Cardinality(D \cap Purse) + Cardinality(T \cap Purse)
               + Cardinality(edit) + w
    BY DEF u, w
  <2>6. z + u + spent <= Queued(Purse) + Cardinality(edit) + w
    BY <2>1, <2>2, <2>3, <2>4, <2>5
  <2> QED BY <2>1, <2>6 DEF z, u, w
<1> QED BY <1>2, <1>3, <1>4, <1>5, <1>6, <1>7, BudgetKept

\* The schedule's functions and what is in flight and asked are of their kinds,
\* and nothing that would write a row appears before the first run.
LEMMA Calm ==
  ASSUME IInv, NEW M, NEW A, NEW D, NEW E, NEW T, NEW S, Moves(M, A, D, E, T, S),
         UNCHANGED <<shown, entry, log, n, engine, held, opens, chained>>,
         A \subseteq Message, E \subseteq Dialog, sched' \in Seq(Thunk),
         view' \in {"result", "log"}, open' \in BOOLEAN, grid' \in BOOLEAN,
         edit' \in SUBSET Lock, spent' \in 0..MaxRuns,
         \A x \in M \cup A : x.t # "exec" /\ x.t # "state",
         \A x \in A : x.t # "count",
         \A x \in S : x.t # "show",
         \A x \in A \cup E \cup S : x.t \in {"dry", "confirm"} => n # 0,
         IsFiniteSet(edit'), Cardinality(edit') <= 1,
         \A x \in Links : x \in A \/ x \in E \/ x \in S =>
            \E y \in Links : (y \in M \/ y \in D \/ y \in T) /\ y.q.k = x.q.k,
         Cardinality(A \cap Links) + Cardinality(E \cap Links) + Cardinality(S \cap Links)
            <= Cardinality(M \cap Links) + Cardinality(D \cap Links) + Cardinality(T \cap Links),
         Cardinality(A \cap Purse) + Cardinality(E \cap Purse) + Cardinality(S \cap Purse)
            + Cardinality(edit') + spent
            <= Cardinality(M \cap Purse) + Cardinality(D \cap Purse) + Cardinality(T \cap Purse)
               + Cardinality(edit) + spent'
  PROVE  IInv'
<1>1. Types'
  <2>1. net' \in SUBSET Message /\ dialogs' \in SUBSET Dialog
    BY DEF IInv, Types, Moves
  <2>2. Types
    BY DEF IInv
  <2>3. /\ shown' \in [conn : Conn \cup {None}, stmt : Obj \cup {AdHoc, None},
                       origin : Obj \cup {None}, call : 0..MaxRuns, page : 0..MaxRuns,
                       offset : Offset, gen : Gen, total : Gen]
        /\ log' \in Seq(0..MaxRuns) /\ entry' \in [Run -> Entry]
    BY <2>2 DEF Types
  <2>4. /\ n' \in 0..MaxRuns
        /\ engine' \in [Run -> {"none", "asked", "refused", "running", "done", "failed"}]
        /\ held' \in SUBSET Run /\ opens' \in 0..MaxOpens /\ chained' \in BOOLEAN
    BY <2>2 DEF Types
  <2> QED BY <2>1, <2>3, <2>4, Typed
<1>2. Runs' /\ Budget'
  <2>1. UNCHANGED <<n, engine, held, chained>>
    OBVIOUS
  <2>2. \A r \in Run : r > n => entry'[r] = entry[r]
    OBVIOUS
  <2>3. \A r \in Run : /\ entry'[r].q = entry[r].q /\ entry'[r].state = entry[r].state
                       /\ entry'[r].call = entry[r].call
    OBVIOUS
  <2> QED BY <1>1, <2>1, <2>2, <2>3, Quiet
<1>3. LogOK' /\ Bounded'
  BY LogKept, LiveKept
<1>4. Gens'
  <2>1. ASSUME NEW g \in Gen, Count(g) \in net'
        PROVE  Count(g) \in net
    BY <2>1, Tags DEF Moves
  <2> QED BY <2>1, Fixed DEF IInv, Gens, Count
<1>5. Begun'
  <2>1. ASSUME n = 0, NEW p \in Plan
        PROVE  ~OnItsWay(DryRun(p))' /\ ~OnItsWay(Confirm(p))'
    <3>1. \A x \in A \cup E \cup S : x # DryRun(p) /\ x # Confirm(p)
      BY <2>1, Tags
    <3>2. ~OnItsWay(DryRun(p)) /\ ~OnItsWay(Confirm(p))
      BY <2>1 DEF IInv, Begun
    <3>3. \A x : OnItsWay(x)' => OnItsWay(x) \/ x \in A \/ x \in E \/ x \in S
      BY MovesWay
    <3>4. ~OnItsWay(DryRun(p))' /\ ~OnItsWay(Confirm(p))'
      BY <3>1, <3>2, <3>3 DEF OnItsWay, DryRun, Confirm
    <3> QED BY <3>4
  <2> QED BY <2>1, Fixed DEF IInv, Begun
<1> QED BY <1>1, <1>2, <1>3, <1>4, <1>5 DEF IInv

\* The same, when none of what is put on its way stands for a statement of the
\* buffer.
LEMMA Plain ==
  ASSUME IInv, NEW M, NEW A, NEW D, NEW E, NEW T, NEW S, Moves(M, A, D, E, T, S),
         UNCHANGED <<shown, entry, log, n, engine, held, opens, chained>>,
         A \subseteq Message, E \subseteq Dialog, sched' \in Seq(Thunk),
         view' \in {"result", "log"}, open' \in BOOLEAN, grid' \in BOOLEAN,
         edit' \in SUBSET Lock, spent' \in 0..MaxRuns,
         \A x \in M \cup A : x.t # "exec" /\ x.t # "state",
         \A x \in A : x.t # "count",
         \A x \in S : x.t # "show",
         \A x \in A \cup E \cup S : x.t \in {"dry", "confirm"} => n # 0,
         IsFiniteSet(edit'), Cardinality(edit') <= 1,
         \A x \in A \cup E \cup S : x \notin Links,
         Cardinality(A \cap Purse) + Cardinality(E \cap Purse) + Cardinality(S \cap Purse)
            + Cardinality(edit') + spent
            <= Cardinality(M \cap Purse) + Cardinality(D \cap Purse) + Cardinality(T \cap Purse)
               + Cardinality(edit) + spent'
  PROVE  IInv'
<1>1. A \cap Links = {} /\ E \cap Links = {} /\ S \cap Links = {}
  OBVIOUS
<1>2. Cardinality({}) = 0
  BY FS_EmptySet
<1>3. /\ Cardinality(M \cap Links) \in Nat /\ Cardinality(D \cap Links) \in Nat
      /\ Cardinality(T \cap Links) \in Nat
  BY MovesCount
<1>4. Cardinality(A \cap Links) + Cardinality(E \cap Links) + Cardinality(S \cap Links)
        <= Cardinality(M \cap Links) + Cardinality(D \cap Links) + Cardinality(T \cap Links)
  <2>1. \A a, b, c \in Nat : 0 + 0 + 0 <= a + b + c
    OBVIOUS
  <2>2. Cardinality(A \cap Links) = 0 /\ Cardinality(E \cap Links) = 0 /\ Cardinality(S \cap Links) = 0
    BY <1>1, <1>2
  <2> QED BY <1>3, <2>1, <2>2
<1>5. \A x \in Links : x \in A \/ x \in E \/ x \in S =>
         \E y \in Links : (y \in M \/ y \in D \/ y \in T) /\ y.q.k = x.q.k
  OBVIOUS
<1> QED BY <1>4, <1>5, Calm

\* What the invariant counts is a number.
LEMMA Numbers ==
  ASSUME IInv
  PROVE  /\ Cardinality(edit) \in Nat /\ Cardinality(edit) <= 1 /\ IsFiniteSet(edit)
         /\ spent \in Nat /\ n \in Nat /\ opens \in Nat
         /\ edit # {} => Cardinality(edit) = 1
<1>1. IsFiniteSet(edit) /\ Cardinality(edit) <= 1 /\ Cardinality(edit) \in Nat
  BY FS_CardinalityType DEF IInv, Budget
<1>2. edit # {} => Cardinality(edit) # 0
  BY <1>1, FS_EmptySet
<1>3. spent \in Nat /\ n \in Nat /\ opens \in Nat
  BY Bounds DEF IInv, Types
<1> QED BY <1>1, <1>2, <1>3

\* A key press that only changes what is drawn, or gives up the lock.
LEMMA Idle ==
  ASSUME IInv,
         UNCHANGED <<shown, entry, log, n, engine, held, opens, chained, net, sched, dialogs, spent>>,
         view' \in {"result", "log"}, open' \in BOOLEAN, grid' \in BOOLEAN,
         edit' = edit \/ edit' = {}
  PROVE  IInv'
<1>1. Moves({}, {}, {}, {}, {}, {})
  <2>1. IsFiniteSet({})
    BY FS_EmptySet
  <2>2. net' = (net \ {}) \cup {} /\ dialogs' = (dialogs \ {}) \cup {}
    OBVIOUS
  <2> QED BY <2>1, <2>2, MovesIdle
<1>2. /\ Cardinality(edit) \in Nat /\ Cardinality(edit) <= 1 /\ IsFiniteSet(edit)
      /\ spent \in Nat
  BY Numbers
<1>3. IsFiniteSet({}) /\ Cardinality({}) = 0 /\ Cardinality({} \cap Purse) = 0
  BY FewItems, FS_EmptySet
<1>4. /\ IsFiniteSet(edit') /\ Cardinality(edit') \in Nat
      /\ Cardinality(edit') <= 1 /\ Cardinality(edit') <= Cardinality(edit)
  BY <1>2, <1>3
<1>5. Types
  BY DEF IInv
<1>6. sched' \in Seq(Thunk) /\ edit' \in SUBSET Lock /\ spent' \in 0..MaxRuns
  BY <1>5 DEF Types
<1>7. Cardinality({} \cap Purse) + Cardinality({} \cap Purse) + Cardinality({} \cap Purse)
        + Cardinality(edit') + spent
        <= Cardinality({} \cap Purse) + Cardinality({} \cap Purse) + Cardinality({} \cap Purse)
           + Cardinality(edit) + spent'
  <2>1. \A a, b, c \in Nat : a <= b => 0 + 0 + 0 + a + c <= 0 + 0 + 0 + b + c
    OBVIOUS
  <2>2. spent' = spent
    OBVIOUS
  <2> QED BY <1>2, <1>3, <1>4, <2>1, <2>2
<1> QED BY <1>1, <1>4, <1>6, <1>7, Plain

\* The lock is left alone, or one step of it is paid by a request of the user:
\* something that is no statement of the buffer is put in flight.
LEMMA Asked ==
  ASSUME IInv, NEW x \in Message, net' = net \cup {x}, spent' = spent + 1, spent < MaxRuns,
         x.t \in {"classify", "page", "key"}, x \notin Links,
         UNCHANGED <<shown, view, open, grid, edit, log, entry, n, engine, held, sched, dialogs,
                     opens, chained>>
  PROVE  IInv'
<1>1. Moves({}, {x}, {}, {}, {}, {})
  <2>1. IsFiniteSet({}) /\ IsFiniteSet({x})
    BY FewItems
  <2>2. net' = (net \ {}) \cup {x} /\ dialogs' = (dialogs \ {}) \cup {}
    OBVIOUS
  <2> QED BY <2>1, <2>2, MovesIdle
<1>2. /\ Cardinality(edit) \in Nat /\ Cardinality(edit) <= 1 /\ IsFiniteSet(edit)
      /\ spent \in Nat
  BY Numbers
<1>3. /\ Cardinality({} \cap Purse) = 0 /\ Cardinality({x} \cap Purse) \in {0, 1}
  BY FewItems
<1>4. Types
  BY DEF IInv
<1>5. /\ sched' \in Seq(Thunk) /\ edit' \in SUBSET Lock /\ spent' \in 0..MaxRuns
      /\ view' \in {"result", "log"} /\ open' \in BOOLEAN /\ grid' \in BOOLEAN
      /\ IsFiniteSet(edit') /\ Cardinality(edit') <= 1
  BY <1>2, <1>4, Bounds DEF Types
<1>6. Cardinality({x} \cap Purse) + Cardinality({} \cap Purse) + Cardinality({} \cap Purse)
        + Cardinality(edit') + spent
        <= Cardinality({} \cap Purse) + Cardinality({} \cap Purse) + Cardinality({} \cap Purse)
           + Cardinality(edit) + spent'
  <2>1. \A a, c \in Nat, b \in {0, 1} : b + 0 + 0 + a + c <= 0 + 0 + 0 + a + (c + 1)
    OBVIOUS
  <2>2. edit' = edit /\ spent' = spent + 1
    OBVIOUS
  <2> QED BY <1>2, <1>3, <2>1, <2>2
<1>7. /\ {x} \subseteq Message /\ {} \subseteq Dialog
      /\ \A y \in {} \cup {x} : y.t # "exec" /\ y.t # "state"
      /\ \A y \in {x} : y.t # "count"
      /\ \A y \in {} : y.t # "show"
      /\ \A y \in {x} \cup {} \cup {} : y.t \in {"dry", "confirm"} => n # 0
      /\ \A y \in {x} \cup {} \cup {} : y \notin Links
  OBVIOUS
<1>8. UNCHANGED <<shown, entry, log, n, engine, held, opens, chained>>
  OBVIOUS
<1> QED BY <1>1, <1>5, <1>6, <1>7, <1>8, Plain

---------------------------------------------------------------------------
(* The user's keys.                                                        *)

\* A statement is asked about.
LEMMA RunGuardedStep ==
  ASSUME IInv, NEW q \in Request, q.k = 0, RunGuarded(q)
  PROVE  IInv'
<1>1. Classify(q) \in Message /\ Classify(q).t = "classify" /\ Classify(q).q = q
  BY AreMessages, Tags
<1>2. Classify(q) \notin Links
  BY <1>1, Kinds
<1>3. /\ spent < MaxRuns /\ spent' = spent + 1 /\ net' = net \cup {Classify(q)}
      /\ UNCHANGED <<shown, view, open, grid, edit, log, entry, n, engine, held, sched, dialogs,
                     opens, chained>>
  BY DEF RunGuarded
<1> QED BY <1>1, <1>2, <1>3, Asked

\* A row is to be edited, removed or made.
LEMMA EditRowStep ==
  ASSUME IInv, NEW what \in Editor, EditRow(what)
  PROVE  IInv'
<1> DEFINE x == Key(shown.origin, IF what = "insert" THEN 0 ELSE shown.page, what)
<1>1. /\ shown.origin \in Obj /\ shown.page \in 0..MaxRuns
      /\ what # "insert" => shown.page # 0
  BY DEF IInv, Types, EditRow
<1>2. x \in Message /\ x.t = "key"
  <2>1. x.t = "key"
    BY Tags
  <2>2. CASE what = "insert"
    <3>1. x = Key(shown.origin, 0, "insert")
      BY <2>2
    <3> QED BY <1>1, <2>1, <3>1, AreMessages
  <2>3. CASE what # "insert"
    <3>1. x = Key(shown.origin, shown.page, what) /\ shown.page \in Run /\ what \in Editor \ {"insert"}
      BY <1>1, <2>3, Bounds
    <3> QED BY <1>1, <2>1, <3>1, AreMessages
  <2> QED BY <2>2, <2>3
<1>3. x \notin Links
  BY <1>2, Kinds
<1>4. /\ spent < MaxRuns /\ spent' = spent + 1 /\ net' = net \cup {x}
      /\ UNCHANGED <<shown, view, open, grid, edit, log, entry, n, engine, held, sched, dialogs,
                     opens, chained>>
  BY DEF EditRow
<1> HIDE DEF x
<1> QED BY <1>2, <1>3, <1>4, Asked

\* The tab, the window and the lock.
LEMMA SetViewStep ==
  ASSUME IInv, NEW v \in {"result", "log"}, SetView(v)
  PROVE  IInv'
<1>1. Types
  BY DEF IInv
<1>2. view' = v /\ open' = open /\ open \in BOOLEAN
  BY <1>1 DEF SetView, Types
<1>3. grid' \in BOOLEAN
  BY <1>1 DEF SetView, Drawn, Types
<1>4. UNCHANGED <<shown, edit, log, entry, n, engine, held, net, sched, dialogs, spent, opens, chained>>
  BY DEF SetView
<1> QED BY <1>2, <1>3, <1>4, Idle

LEMMA CloseDockStep ==
  ASSUME IInv, CloseDock
  PROVE  IInv'
<1>1. Types
  BY DEF IInv
<1>2. /\ open' = FALSE /\ grid' = FALSE /\ edit' = {}
      /\ UNCHANGED <<shown, view, log, entry, n, engine, held, net, sched, dialogs, spent, opens, chained>>
  BY DEF CloseDock
<1>3. view' \in {"result", "log"}
  BY <1>1, <1>2 DEF Types
<1> QED BY <1>2, <1>3, Idle

LEMMA ReopenStep ==
  ASSUME IInv, Reopen
  PROVE  IInv'
<1>1. Types
  BY DEF IInv
<1>2. /\ open' = TRUE
      /\ UNCHANGED <<shown, view, edit, log, entry, n, engine, held, net, sched, dialogs, spent,
                     opens, chained>>
  BY DEF Reopen
<1>3. grid' \in BOOLEAN
  BY <1>1 DEF Reopen, Drawn, Types
<1>4. view' \in {"result", "log"}
  BY <1>1, <1>2 DEF Types
<1> QED BY <1>2, <1>3, <1>4, Idle

LEMMA CancelEditStep ==
  ASSUME IInv, CancelEdit
  PROVE  IInv'
<1>1. Types
  BY DEF IInv
<1>2. /\ open' = open /\ edit' = {}
      /\ UNCHANGED <<shown, view, log, entry, n, engine, held, net, sched, dialogs, spent, opens, chained>>
  BY DEF CancelEdit
<1>3. grid' \in BOOLEAN
  BY <1>1 DEF CancelEdit, Drawn, Types
<1>4. view' \in {"result", "log"} /\ open' \in BOOLEAN
  BY <1>1, <1>2 DEF Types
<1> QED BY <1>2, <1>3, <1>4, Idle

\* Things are passed on: the dock and the lock stay as they are.
LEMMA PassedOn ==
  ASSUME IInv, NEW M, NEW A, NEW D, NEW E, NEW T, NEW S, Moves(M, A, D, E, T, S),
         UNCHANGED <<shown, view, open, grid, edit, entry, log, n, engine, held, spent, opens, chained>>,
         A \subseteq Message, E \subseteq Dialog, sched' \in Seq(Thunk),
         \A x \in M \cup A : x.t # "exec" /\ x.t # "state",
         \A x \in A : x.t # "count",
         \A x \in S : x.t # "show",
         \A x \in A \cup E \cup S : x.t \in {"dry", "confirm"} => n # 0,
         \A x \in A \cup E \cup S : x \notin Links,
         Cardinality(A \cap Purse) + Cardinality(E \cap Purse) + Cardinality(S \cap Purse)
            <= Cardinality(M \cap Purse) + Cardinality(D \cap Purse) + Cardinality(T \cap Purse)
  PROVE  IInv'
<1>1. /\ Cardinality(edit) \in Nat /\ Cardinality(edit) <= 1 /\ IsFiniteSet(edit)
      /\ spent \in Nat
  BY Numbers
<1>2. /\ Cardinality(M \cap Purse) \in Nat /\ Cardinality(D \cap Purse) \in Nat
      /\ Cardinality(A \cap Purse) \in Nat /\ Cardinality(E \cap Purse) \in Nat
      /\ Cardinality(T \cap Purse) \in Nat /\ Cardinality(S \cap Purse) \in Nat
  BY MovesCount
<1>3. Types
  BY DEF IInv
<1>4. /\ edit' \in SUBSET Lock /\ spent' \in 0..MaxRuns
      /\ view' \in {"result", "log"} /\ open' \in BOOLEAN /\ grid' \in BOOLEAN
      /\ IsFiniteSet(edit') /\ Cardinality(edit') <= 1
  BY <1>1, <1>3 DEF Types
<1>5. Cardinality(A \cap Purse) + Cardinality(E \cap Purse) + Cardinality(S \cap Purse)
        + Cardinality(edit') + spent
        <= Cardinality(M \cap Purse) + Cardinality(D \cap Purse) + Cardinality(T \cap Purse)
           + Cardinality(edit) + spent'
  <2>1. \A a, b, c, d, e, f, g, h \in Nat :
           a + b + c <= d + e + f => a + b + c + g + h <= d + e + f + g + h
    OBVIOUS
  <2>2. edit' = edit /\ spent' = spent
    OBVIOUS
  <2> QED BY <1>1, <1>2, <2>1, <2>2
<1>6. UNCHANGED <<shown, entry, log, n, engine, held, opens, chained>>
  OBVIOUS
<1> QED BY <1>4, <1>5, <1>6, Plain

\* Another page of the call is asked for.
LEMMA TurnPageStep ==
  ASSUME IInv, NEW f \in Offset, TurnPage(f)
  PROVE  IInv'
<1> DEFINE b == shown.call \in held
           x == Page(shown.call, f, b)
<1>1. shown.call \in Run
  BY Bounds DEF IInv, Types, TurnPage
<1>2. b \in BOOLEAN
  OBVIOUS
<1>3. /\ net' = (net \ {}) \cup {x} /\ dialogs' = (dialogs \ {}) \cup {}
      /\ UNCHANGED <<shown, view, open, grid, edit, log, entry, n, engine, held, sched, dialogs,
                     spent, opens, chained>>
  BY <1>1 DEF TurnPage, GotoPage
<1> HIDE DEF b
<1>4. x \in Message /\ x.t = "page"
  BY <1>1, <1>2, AreMessages, Tags
<1> HIDE DEF x
<1>5. Moves({}, {x}, {}, {}, {}, {})
  BY <1>3, FewItems, MovesIdle
<1>6. x \notin Purse /\ x \notin Links
  BY <1>4, Kinds
<1>7. Cardinality({} \cap Purse) = 0 /\ Cardinality({x} \cap Purse) = 0
  BY <1>6, FewItems
<1>8. Cardinality({x} \cap Purse) + Cardinality({} \cap Purse) + Cardinality({} \cap Purse)
        <= Cardinality({} \cap Purse) + Cardinality({} \cap Purse) + Cardinality({} \cap Purse)
  BY <1>7
<1>9. sched' \in Seq(Thunk)
  BY <1>3 DEF IInv, Types
<1>10. /\ {x} \subseteq Message /\ {} \subseteq Dialog
       /\ \A y \in {} \cup {x} : y.t # "exec" /\ y.t # "state"
       /\ \A y \in {x} : y.t # "count"
       /\ \A y \in {} : y.t # "show"
       /\ \A y \in {x} \cup {} \cup {} : y.t \in {"dry", "confirm"} => n # 0
       /\ \A y \in {x} \cup {} \cup {} : y \notin Links
  BY <1>4, <1>6
<1>11. UNCHANGED <<shown, view, open, grid, edit, entry, log, n, engine, held, spent, opens, chained>>
  BY <1>3
<1> QED BY <1>5, <1>8, <1>9, <1>10, <1>11, PassedOn

---------------------------------------------------------------------------
(* Answers that only pass something on.                                    *)

\* The same for what may stand for a statement of the buffer.
LEMMA HandedOn ==
  ASSUME IInv, NEW M, NEW A, NEW D, NEW E, NEW T, NEW S, Moves(M, A, D, E, T, S),
         UNCHANGED <<shown, view, open, grid, edit, entry, log, n, engine, held, spent, opens, chained>>,
         A \subseteq Message, E \subseteq Dialog, sched' \in Seq(Thunk),
         \A x \in M \cup A : x.t # "exec" /\ x.t # "state",
         \A x \in A : x.t # "count",
         \A x \in S : x.t # "show",
         \A x \in A \cup E \cup S : x.t \in {"dry", "confirm"} => n # 0,
         \A x \in Links : x \in A \/ x \in E \/ x \in S =>
            \E y \in Links : (y \in M \/ y \in D \/ y \in T) /\ y.q.k = x.q.k,
         Cardinality(A \cap Links) + Cardinality(E \cap Links) + Cardinality(S \cap Links)
            <= Cardinality(M \cap Links) + Cardinality(D \cap Links) + Cardinality(T \cap Links),
         Cardinality(A \cap Purse) + Cardinality(E \cap Purse) + Cardinality(S \cap Purse)
            <= Cardinality(M \cap Purse) + Cardinality(D \cap Purse) + Cardinality(T \cap Purse)
  PROVE  IInv'
<1>1. /\ Cardinality(edit) \in Nat /\ Cardinality(edit) <= 1 /\ IsFiniteSet(edit)
      /\ spent \in Nat
  BY Numbers
<1>2. /\ Cardinality(M \cap Purse) \in Nat /\ Cardinality(D \cap Purse) \in Nat
      /\ Cardinality(A \cap Purse) \in Nat /\ Cardinality(E \cap Purse) \in Nat
      /\ Cardinality(T \cap Purse) \in Nat /\ Cardinality(S \cap Purse) \in Nat
  BY MovesCount
<1>3. Types
  BY DEF IInv
<1>4. /\ edit' \in SUBSET Lock /\ spent' \in 0..MaxRuns
      /\ view' \in {"result", "log"} /\ open' \in BOOLEAN /\ grid' \in BOOLEAN
      /\ IsFiniteSet(edit') /\ Cardinality(edit') <= 1
  BY <1>1, <1>3 DEF Types
<1>5. Cardinality(A \cap Purse) + Cardinality(E \cap Purse) + Cardinality(S \cap Purse)
        + Cardinality(edit') + spent
        <= Cardinality(M \cap Purse) + Cardinality(D \cap Purse) + Cardinality(T \cap Purse)
           + Cardinality(edit) + spent'
  <2>1. \A a, b, c, d, e, f, g, h \in Nat :
           a + b + c <= d + e + f => a + b + c + g + h <= d + e + f + g + h
    OBVIOUS
  <2>2. edit' = edit /\ spent' = spent
    OBVIOUS
  <2> QED BY <1>1, <1>2, <2>1, <2>2
<1>6. UNCHANGED <<shown, entry, log, n, engine, held, opens, chained>>
  OBVIOUS
<1> QED BY <1>4, <1>5, <1>6, Calm

\* One thing is taken and another one, for the same statement, is put on its
\* way.
LEMMA SameStatement ==
  ASSUME NEW x \in Item, NEW y \in Item, x.t \in {"classify", "start", "ask"},
         y.t \in {"classify", "start", "ask"}, x.q = y.q
  PROVE  /\ x \in Purse /\ y \in Purse /\ (x \in Links <=> y \in Links)
         /\ \A P : Cardinality({} \cap P) = 0
         /\ Cardinality({x} \cap Purse) = 1 /\ Cardinality({y} \cap Purse) = 1
         /\ Cardinality({x} \cap Links) = Cardinality({y} \cap Links)
         /\ Cardinality({x} \cap Links) \in {0, 1} /\ Cardinality({y} \cap Links) \in {0, 1}
<1>1. x \in Purse /\ y \in Purse /\ (x \in Links <=> y \in Links)
  BY Kinds
<1>2. \A P : /\ Cardinality({} \cap P) = 0
             /\ Cardinality({x} \cap P) = IF x \in P THEN 1 ELSE 0
             /\ Cardinality({y} \cap P) = IF y \in P THEN 1 ELSE 0
  BY FewItems
<1> QED BY <1>1, <1>2

\* The engine said whether a statement is destructive.
LEMMA HandleClassifyStep ==
  ASSUME IInv, NEW m \in net, NEW dangerous \in BOOLEAN, HandleClassify(m, dangerous)
  PROVE  IInv'
<1> DEFINE x == IF dangerous THEN Ask(m.q) ELSE Start(m.q)
<1>1. /\ m \in net /\ m.t = "classify" /\ net' = (net \ {m}) \cup {} /\ sched' = Append(sched, x)
      /\ dialogs' = (dialogs \ {}) \cup {}
      /\ UNCHANGED <<shown, view, open, grid, edit, log, entry, n, engine, held, dialogs, spent,
                     opens, chained>>
  BY DEF HandleClassify
<1>2. m \in Message
  BY DEF IInv, Types
<1>3. m.q \in Request
  BY <1>1, <1>2, MessageIs
<1>4. x \in Thunk /\ x.t \in {"start", "ask"} /\ x.q = m.q
  BY <1>3, AreThunks, Tags
<1> HIDE DEF x
<1>5. /\ m \in Purse /\ x \in Purse /\ (m \in Links <=> x \in Links)
      /\ \A P : Cardinality({} \cap P) = 0
      /\ Cardinality({m} \cap Purse) = 1 /\ Cardinality({x} \cap Purse) = 1
      /\ Cardinality({m} \cap Links) = Cardinality({x} \cap Links)
      /\ Cardinality({m} \cap Links) \in {0, 1} /\ Cardinality({x} \cap Links) \in {0, 1}
  <2>1. m \in Item /\ x \in Item
    BY <1>2, <1>4, Kinds
  <2> QED BY <1>1, <1>4, <2>1, SameStatement
<1>6. Moves({m}, {}, {}, {}, {}, {x}) /\ sched' \in Seq(Thunk)
  BY <1>1, <1>4, FewItems, MovesLater
<1>7. /\ {} \subseteq Message /\ {} \subseteq Dialog
      /\ \A y \in {m} \cup {} : y.t # "exec" /\ y.t # "state"
      /\ \A y \in {} : y.t # "count"
      /\ \A y \in {x} : y.t # "show"
      /\ \A y \in {} \cup {} \cup {x} : y.t \in {"dry", "confirm"} => n # 0
  BY <1>1, <1>4
<1>8. \A y \in Links : y \in {} \/ y \in {} \/ y \in {x} =>
         \E z \in Links : (z \in {m} \/ z \in {} \/ z \in {}) /\ z.q.k = y.q.k
  BY <1>4, <1>5
<1>9. /\ Cardinality({} \cap Links) + Cardinality({} \cap Links) + Cardinality({x} \cap Links)
           <= Cardinality({m} \cap Links) + Cardinality({} \cap Links) + Cardinality({} \cap Links)
      /\ Cardinality({} \cap Purse) + Cardinality({} \cap Purse) + Cardinality({x} \cap Purse)
           <= Cardinality({m} \cap Purse) + Cardinality({} \cap Purse) + Cardinality({} \cap Purse)
  BY <1>5
<1>10. UNCHANGED <<shown, view, open, grid, edit, entry, log, n, engine, held, spent, opens, chained>>
  BY <1>1
<1> QED BY <1>6, <1>7, <1>8, <1>9, <1>10, HandedOn

\* Something is taken, and nothing comes of it.
LEMMA Dropped ==
  ASSUME IInv, NEW M, NEW D, NEW T, Moves(M, {}, D, {}, T, {}), sched' \in Seq(Thunk),
         UNCHANGED <<shown, view, open, grid, edit, entry, log, n, engine, held, spent, opens, chained>>,
         \A x \in M : x.t # "exec" /\ x.t # "state"
  PROVE  IInv'
<1>1. Cardinality({} \cap Purse) = 0
  BY FewItems
<1>2. /\ Cardinality(M \cap Purse) \in Nat /\ Cardinality(D \cap Purse) \in Nat
      /\ Cardinality(T \cap Purse) \in Nat
  BY MovesCount
<1>3. Cardinality({} \cap Purse) + Cardinality({} \cap Purse) + Cardinality({} \cap Purse)
        <= Cardinality(M \cap Purse) + Cardinality(D \cap Purse) + Cardinality(T \cap Purse)
  <2>1. \A a, b, c \in Nat : 0 + 0 + 0 <= a + b + c
    OBVIOUS
  <2> QED BY <1>1, <1>2, <2>1
<1>4. /\ {} \subseteq Message /\ {} \subseteq Dialog
      /\ \A y \in M \cup {} : y.t # "exec" /\ y.t # "state"
      /\ \A y \in {} : y.t # "count"
      /\ \A y \in {} : y.t # "show"
      /\ \A y \in {} \cup {} \cup {} : y.t \in {"dry", "confirm"} => n # 0
      /\ \A y \in {} \cup {} \cup {} : y \notin Links
  OBVIOUS
<1> QED BY <1>3, <1>4, PassedOn

\* The user answers "Run it anyway?" with no.
LEMMA AnswerNoStep ==
  ASSUME IInv, NEW d \in dialogs, AnswerAsk(d, FALSE)
  PROVE  IInv'
<1>1. \A k, c : OnDone(k, FALSE, c) = {}
  BY DEF OnDone
<1>2. /\ net' = (net \ {}) \cup {} /\ dialogs' = (dialogs \ {d}) \cup {}
      /\ UNCHANGED <<shown, view, open, grid, edit, entry, log, n, engine, held, sched, spent,
                     opens, chained>>
  BY <1>1 DEF AnswerAsk
<1>3. Moves({}, {}, {d}, {}, {}, {})
  BY <1>2, FewItems, MovesIdle
<1>4. sched' \in Seq(Thunk)
  BY <1>2 DEF IInv, Types
<1>5. UNCHANGED <<shown, view, open, grid, edit, entry, log, n, engine, held, spent, opens, chained>>
  BY <1>2
<1> QED BY <1>3, <1>4, <1>5, Dropped

\* A statement that failed ends its buffer's run.
LEMMA DueStopStep ==
  ASSUME IInv, DueStop
  PROVE  IInv'
<1>1. \A k, c : OnDone(k, FALSE, c) = {}
  BY DEF OnDone
<1>2. /\ net' = (net \ {}) \cup {} /\ dialogs' = (dialogs \ {}) \cup {}
      /\ sched # <<>> /\ sched' = Tail(sched)
      /\ UNCHANGED <<shown, view, open, grid, edit, entry, log, n, engine, held, spent, opens, chained>>
  BY <1>1 DEF DueStop, Due
<1>3. Moves({}, {}, {}, {}, {Head(sched)}, {}) /\ sched' \in Seq(Thunk)
  BY <1>2, FewItems, MovesDue
<1> QED BY <1>2, <1>3, Dropped

\* A row write is on its way, or an object is shown, only after a run.
LEMMA Started ==
  ASSUME IInv
  PROVE  /\ \A p \in Plan : OnItsWay(DryRun(p)) \/ OnItsWay(Confirm(p)) => n # 0
         /\ shown.origin # None => n # 0
BY DEF IInv, Begun

\* A confirm opens.
LEMMA DueDialogStep ==
  ASSUME IInv, DueDialog
  PROVE  IInv'
<1> DEFINE x == Head(sched)
<1>1. /\ sched # <<>> /\ sched' = Tail(sched) /\ x.t \in {"ask", "confirm"}
      /\ net' = (net \ {}) \cup {} /\ dialogs' = (dialogs \ {}) \cup {x}
      /\ UNCHANGED <<shown, view, open, grid, edit, entry, log, n, engine, held, spent, opens, chained>>
  BY DEF DueDialog, Due
<1>2. x \in Thunk /\ OnItsWay(x)
  BY <1>1, Taken
<1>3. Moves({}, {}, {}, {x}, {x}, {}) /\ sched' \in Seq(Thunk)
  BY <1>1, FewItems, MovesDue
<1> HIDE DEF x
<1>4. x \in Dialog
  BY <1>1, <1>2, ThunkIs, AreDialogs
<1>5. x.t = "confirm" => n # 0
  <2>1. x.t = "confirm" => x.plan \in Plan /\ x = Confirm(x.plan)
    BY <1>2, ThunkIs
  <2> QED BY <1>2, <2>1, Started
<1>6. /\ Cardinality({} \cap Links) = 0 /\ Cardinality({} \cap Purse) = 0
      /\ Cardinality({x} \cap Links) \in {0, 1} /\ Cardinality({x} \cap Purse) \in {0, 1}
  BY FewItems
<1>7. /\ Cardinality({} \cap Links) + Cardinality({x} \cap Links) + Cardinality({} \cap Links)
           <= Cardinality({} \cap Links) + Cardinality({} \cap Links) + Cardinality({x} \cap Links)
      /\ Cardinality({} \cap Purse) + Cardinality({x} \cap Purse) + Cardinality({} \cap Purse)
           <= Cardinality({} \cap Purse) + Cardinality({} \cap Purse) + Cardinality({x} \cap Purse)
  <2>1. \A a \in {0, 1} : 0 + a + 0 <= 0 + 0 + a
    OBVIOUS
  <2> QED BY <1>6, <2>1
<1>8. /\ {} \subseteq Message /\ {x} \subseteq Dialog
      /\ \A y \in {} \cup {} : y.t # "exec" /\ y.t # "state"
      /\ \A y \in {} : y.t # "count"
      /\ \A y \in {} : y.t # "show"
      /\ \A y \in {} \cup {x} \cup {} : y.t \in {"dry", "confirm"} => n # 0
  BY <1>1, <1>4, <1>5
<1>9. \A y \in Links : y \in {} \/ y \in {x} \/ y \in {} =>
         \E z \in Links : (z \in {} \/ z \in {} \/ z \in {x}) /\ z.q.k = y.q.k
  OBVIOUS
<1> QED BY <1>1, <1>3, <1>7, <1>8, <1>9, HandedOn

\* The engine said what a row write would run.
LEMMA HandleDryRunStep ==
  ASSUME IInv, NEW m \in net, NEW ok \in BOOLEAN, HandleDryRun(m, ok)
  PROVE  IInv'
<1>1. /\ m \in net /\ m.t = "dry" /\ net' = (net \ {m}) \cup {} /\ dialogs' = (dialogs \ {}) \cup {}
      /\ sched' = IF ok THEN Append(sched, Confirm(m.plan)) ELSE sched
      /\ UNCHANGED <<shown, view, open, grid, edit, entry, log, n, engine, held, spent, opens, chained>>
  BY DEF HandleDryRun
<1>2. m \in Message
  BY DEF IInv, Types
<1>3. m.plan \in Plan /\ m = DryRun(m.plan)
  BY <1>1, <1>2, MessageIs
<1>4. \A y \in {m} : y.t # "exec" /\ y.t # "state"
  BY <1>1
<1>5. CASE ~ok
  <2>1. sched' \in Seq(Thunk) /\ UNCHANGED sched
    BY <1>1, <1>5 DEF IInv, Types
  <2>2. Moves({m}, {}, {}, {}, {}, {})
    BY <1>1, <2>1, FewItems, MovesIdle
  <2> QED BY <1>1, <1>4, <2>1, <2>2, Dropped
<1>6. CASE ok
  <2> DEFINE x == Confirm(m.plan)
  <2>1. x \in Thunk /\ x.t = "confirm" /\ sched' = Append(sched, x)
    BY <1>1, <1>3, <1>6, AreThunks, Tags
  <2> HIDE DEF x
  <2>2. Moves({m}, {}, {}, {}, {}, {x}) /\ sched' \in Seq(Thunk)
    BY <1>1, <2>1, FewItems, MovesLater
  <2>3. n # 0
    BY <1>1, <1>3, Started DEF OnItsWay
  <2>4. m \in Purse /\ x \notin Links
    BY <1>1, <1>2, <2>1, Kinds
  <2>5. /\ Cardinality({} \cap Purse) = 0 /\ Cardinality({m} \cap Purse) = 1
        /\ Cardinality({x} \cap Purse) \in {0, 1}
    BY <2>4, FewItems
  <2>6. Cardinality({} \cap Purse) + Cardinality({} \cap Purse) + Cardinality({x} \cap Purse)
          <= Cardinality({m} \cap Purse) + Cardinality({} \cap Purse) + Cardinality({} \cap Purse)
    BY <2>5
  <2>7. /\ {} \subseteq Message /\ {} \subseteq Dialog
        /\ \A y \in {m} \cup {} : y.t # "exec" /\ y.t # "state"
        /\ \A y \in {} : y.t # "count"
        /\ \A y \in {x} : y.t # "show"
        /\ \A y \in {} \cup {} \cup {x} : y.t \in {"dry", "confirm"} => n # 0
        /\ \A y \in {} \cup {} \cup {x} : y \notin Links
    BY <1>4, <2>1, <2>3, <2>4
  <2> QED BY <1>1, <2>2, <2>6, <2>7, PassedOn
<1> QED BY <1>5, <1>6

\* The row was written, or not.
LEMMA HandleWriteStep ==
  ASSUME IInv, NEW m \in net, NEW ok \in BOOLEAN, HandleWrite(m, ok)
  PROVE  IInv'
<1>1. /\ m \in net /\ m.t = "write" /\ net' = (net \ {m}) \cup {} /\ dialogs' = (dialogs \ {}) \cup {}
      /\ sched' = IF ok THEN Append(sched, Refresh(m.conn)) ELSE sched
      /\ UNCHANGED <<shown, view, open, grid, edit, entry, log, n, engine, held, spent, opens, chained>>
  BY DEF HandleWrite
<1>2. m \in Message
  BY DEF IInv, Types
<1>3. m.conn \in Conn
  BY <1>1, <1>2, MessageIs
<1>4. \A y \in {m} : y.t # "exec" /\ y.t # "state"
  BY <1>1
<1>5. CASE ~ok
  <2>1. sched' \in Seq(Thunk) /\ UNCHANGED sched
    BY <1>1, <1>5 DEF IInv, Types
  <2>2. Moves({m}, {}, {}, {}, {}, {})
    BY <1>1, <2>1, FewItems, MovesIdle
  <2> QED BY <1>1, <1>4, <2>1, <2>2, Dropped
<1>6. CASE ok
  <2> DEFINE x == Refresh(m.conn)
  <2>1. x \in Thunk /\ x.t = "refresh" /\ sched' = Append(sched, x)
    BY <1>1, <1>3, <1>6, AreThunks, Tags
  <2> HIDE DEF x
  <2>2. Moves({m}, {}, {}, {}, {}, {x}) /\ sched' \in Seq(Thunk)
    BY <1>1, <2>1, FewItems, MovesLater
  <2>3. m \in Purse /\ x \notin Links
    BY <1>1, <1>2, <2>1, Kinds
  <2>4. /\ Cardinality({} \cap Purse) = 0 /\ Cardinality({m} \cap Purse) = 1
        /\ Cardinality({x} \cap Purse) \in {0, 1}
    BY <2>3, FewItems
  <2>5. Cardinality({} \cap Purse) + Cardinality({} \cap Purse) + Cardinality({x} \cap Purse)
          <= Cardinality({m} \cap Purse) + Cardinality({} \cap Purse) + Cardinality({} \cap Purse)
    BY <2>4
  <2>6. /\ {} \subseteq Message /\ {} \subseteq Dialog
        /\ \A y \in {m} \cup {} : y.t # "exec" /\ y.t # "state"
        /\ \A y \in {} : y.t # "count"
        /\ \A y \in {x} : y.t # "show"
        /\ \A y \in {} \cup {} \cup {x} : y.t \in {"dry", "confirm"} => n # 0
        /\ \A y \in {} \cup {} \cup {x} : y \notin Links
    BY <1>4, <2>1, <2>3
  <2> QED BY <1>1, <2>2, <2>5, <2>6, PassedOn
<1> QED BY <1>5, <1>6

---------------------------------------------------------------------------
(* Writing one row.                                                        *)

\* What write_row asks the engine.
LEMMA WriteRowAsks ==
  ASSUME IInv, NEW l \in Obj \cup {None}
  PROVE  /\ WriteRow(l) \subseteq Message /\ IsFiniteSet(WriteRow(l))
         /\ \A x \in WriteRow(l) : x.t = "dry" /\ n # 0 /\ x \notin Links
         /\ Cardinality(WriteRow(l) \cap Purse) \in {0, 1}
<1>1. CASE shown.origin = None
  BY <1>1, FewItems DEF WriteRow
<1>2. CASE shown.origin # None
  <2> DEFINE p == [obj |-> shown.origin, lock |-> l]
             x == DryRun(p)
  <2>1. p \in Plan
    BY <1>2 DEF IInv, Types, Plan
  <2>2. WriteRow(l) = {x}
    BY <1>2 DEF WriteRow
  <2> HIDE DEF p
  <2>3. x \in Message /\ x.t = "dry"
    BY <2>1, AreMessages, Tags
  <2>4. x \notin Links /\ n # 0
    BY <1>2, <2>3, Kinds, Started
  <2> HIDE DEF x
  <2> QED BY <2>2, <2>3, <2>4, FewItems
<1> QED BY <1>1, <1>2

\* A row's form is saved or closed.
LEMMA AnswerFormStep ==
  ASSUME IInv, NEW d \in dialogs, NEW save \in BOOLEAN, AnswerForm(d, save)
  PROVE  IInv'
<1> DEFINE A == IF save THEN WriteRow(d.lock) ELSE {}
<1>1. /\ d \in dialogs /\ d.t = "form" /\ dialogs' = (dialogs \ {d}) \cup {} /\ net' = (net \ {}) \cup A
      /\ UNCHANGED <<shown, view, open, grid, edit, entry, log, n, engine, held, sched, spent, opens, chained>>
  BY DEF AnswerForm
<1>2. d \in Dialog
  BY DEF IInv, Types
<1>3. d.lock \in Obj \cup {None}
  BY <1>1, <1>2, DialogIs
<1>4. /\ A \subseteq Message /\ IsFiniteSet(A)
      /\ \A x \in A : x.t = "dry" /\ n # 0 /\ x \notin Links
      /\ Cardinality(A \cap Purse) \in {0, 1}
  BY <1>3, WriteRowAsks, FewItems
<1> HIDE DEF A
<1>5. Moves({}, A, {d}, {}, {}, {})
  BY <1>1, <1>4, FewItems, MovesIdle
<1>6. d \in Purse
  BY <1>1, <1>2, Kinds
<1>7. Cardinality({} \cap Purse) = 0 /\ Cardinality({d} \cap Purse) = 1
  BY <1>6, FewItems
<1>8. Cardinality(A \cap Purse) + Cardinality({} \cap Purse) + Cardinality({} \cap Purse)
        <= Cardinality({} \cap Purse) + Cardinality({d} \cap Purse) + Cardinality({} \cap Purse)
  BY <1>4, <1>7
<1>9. sched' \in Seq(Thunk)
  BY <1>1 DEF IInv, Types
<1>10. /\ {} \subseteq Dialog
       /\ \A y \in {} \cup A : y.t # "exec" /\ y.t # "state"
       /\ \A y \in A : y.t # "count"
       /\ \A y \in {} : y.t # "show"
       /\ \A y \in A \cup {} \cup {} : y.t \in {"dry", "confirm"} => n # 0
       /\ \A y \in A \cup {} \cup {} : y \notin Links
  BY <1>4
<1> QED BY <1>1, <1>4, <1>5, <1>8, <1>9, <1>10, PassedOn

\* The key columns of a row arrive.
LEMMA HandleKeyStep ==
  ASSUME IInv, NEW m \in net, NEW ok \in BOOLEAN, HandleKey(m, ok)
  PROVE  IInv'
<1> DEFINE go == ok /\ (grid \/ m.what = "insert")
           A == IF go /\ m.what = "delete" THEN WriteRow(m.obj) ELSE {}
<1>1. /\ m \in net /\ m.t = "key" /\ net' = (net \ {m}) \cup A
      /\ edit' = IF go /\ m.what = "lock" THEN {[obj |-> m.obj, row |-> m.row]} ELSE edit
      /\ dialogs' = CASE go /\ m.what = "popup"  -> dialogs \cup {Form(m.obj)}
                      [] go /\ m.what = "insert" -> dialogs \cup {Form(None)}
                      [] OTHER                   -> dialogs
      /\ UNCHANGED <<shown, view, open, grid, entry, log, n, engine, held, sched, spent, opens, chained>>
  BY DEF HandleKey
<1>2. m \in Message
  BY DEF IInv, Types
<1>3. m.obj \in Obj /\ m.what \in Editor /\ (m.what # "insert" => m.row \in Run)
  BY <1>1, <1>2, MessageIs
<1>4. m \in Purse
  BY <1>1, <1>2, Kinds
<1>5. \A y \in {m} : y.t # "exec" /\ y.t # "state"
  BY <1>1
<1>6. Cardinality({} \cap Purse) = 0 /\ Cardinality({m} \cap Purse) = 1
  BY <1>4, FewItems
<1>7. sched' \in Seq(Thunk)
  BY <1>1 DEF IInv, Types
<1>8. CASE ~go
  <2>1. A = {} /\ dialogs' = (dialogs \ {}) \cup {} /\ edit' = edit
    BY <1>1, <1>8
  <2>2. Moves({m}, {}, {}, {}, {}, {})
    BY <1>1, <2>1, FewItems, MovesIdle
  <2> QED BY <1>1, <1>5, <1>7, <2>1, <2>2, Dropped
<1>9. CASE go /\ m.what = "delete"
  <2>1. A = WriteRow(m.obj) /\ dialogs' = (dialogs \ {}) \cup {} /\ edit' = edit
    BY <1>1, <1>9
  <2>2. /\ A \subseteq Message /\ IsFiniteSet(A)
        /\ \A x \in A : x.t = "dry" /\ n # 0 /\ x \notin Links
        /\ Cardinality(A \cap Purse) \in {0, 1}
    BY <1>3, <2>1, WriteRowAsks
  <2> HIDE DEF A
  <2>3. Moves({m}, A, {}, {}, {}, {})
    BY <1>1, <2>1, <2>2, FewItems, MovesIdle
  <2>4. Cardinality(A \cap Purse) + Cardinality({} \cap Purse) + Cardinality({} \cap Purse)
          <= Cardinality({m} \cap Purse) + Cardinality({} \cap Purse) + Cardinality({} \cap Purse)
    BY <1>6, <2>2
  <2>5. /\ {} \subseteq Dialog
        /\ \A y \in {m} \cup A : y.t # "exec" /\ y.t # "state"
        /\ \A y \in A : y.t # "count"
        /\ \A y \in {} : y.t # "show"
        /\ \A y \in A \cup {} \cup {} : y.t \in {"dry", "confirm"} => n # 0
        /\ \A y \in A \cup {} \cup {} : y \notin Links
    BY <1>5, <2>2
  <2> QED BY <1>1, <1>7, <2>1, <2>2, <2>3, <2>4, <2>5, PassedOn
<1>10. CASE go /\ m.what \in {"popup", "insert"}
  <2> DEFINE x == IF m.what = "popup" THEN Form(m.obj) ELSE Form(None)
  <2>1. A = {} /\ dialogs' = (dialogs \ {}) \cup {x} /\ edit' = edit
    BY <1>1, <1>10
  <2>2. x \in Dialog /\ x.t = "form"
    BY <1>3, AreDialogs, Tags
  <2> HIDE DEF x
  <2>3. x \notin Links
    BY <2>2, Kinds
  <2>4. Moves({m}, {}, {}, {x}, {}, {})
    BY <1>1, <2>1, FewItems, MovesIdle
  <2>5. Cardinality({x} \cap Purse) \in {0, 1}
    BY FewItems
  <2>6. Cardinality({} \cap Purse) + Cardinality({x} \cap Purse) + Cardinality({} \cap Purse)
          <= Cardinality({m} \cap Purse) + Cardinality({} \cap Purse) + Cardinality({} \cap Purse)
    BY <1>6, <2>5
  <2>7. /\ {} \subseteq Message /\ {x} \subseteq Dialog
        /\ \A y \in {m} \cup {} : y.t # "exec" /\ y.t # "state"
        /\ \A y \in {} : y.t # "count"
        /\ \A y \in {} : y.t # "show"
        /\ \A y \in {} \cup {x} \cup {} : y.t \in {"dry", "confirm"} => n # 0
        /\ \A y \in {} \cup {x} \cup {} : y \notin Links
    BY <1>5, <2>2, <2>3
  <2> QED BY <1>1, <1>7, <2>1, <2>4, <2>6, <2>7, PassedOn
<1>11. CASE go /\ m.what = "lock"
  <2> DEFINE l == [obj |-> m.obj, row |-> m.row]
  <2>1. A = {} /\ dialogs' = (dialogs \ {}) \cup {} /\ edit' = {l}
    BY <1>1, <1>11
  <2>2. l \in Lock
    BY <1>3, <1>11 DEF Lock
  <2> HIDE DEF l
  <2>3. Moves({m}, {}, {}, {}, {}, {})
    BY <1>1, <2>1, FewItems, MovesIdle
  <2>4. IsFiniteSet(edit') /\ Cardinality(edit') = 1 /\ edit' \in SUBSET Lock
    BY <2>1, <2>2, FS_Singleton
  <2>5. Cardinality(edit) \in Nat /\ spent \in Nat
    BY Numbers
  <2>6. Cardinality({} \cap Purse) + Cardinality({} \cap Purse) + Cardinality({} \cap Purse)
          + Cardinality(edit') + spent
          <= Cardinality({m} \cap Purse) + Cardinality({} \cap Purse) + Cardinality({} \cap Purse)
             + Cardinality(edit) + spent'
    <3>1. \A a, c \in Nat : 0 + 0 + 0 + 1 + c <= 1 + 0 + 0 + a + c
      OBVIOUS
    <3>2. spent' = spent
      BY <1>1
    <3> QED BY <1>6, <2>4, <2>5, <3>1, <3>2
  <2>7. Types
    BY DEF IInv
  <2>8. spent' \in 0..MaxRuns /\ view' \in {"result", "log"} /\ open' \in BOOLEAN /\ grid' \in BOOLEAN
    BY <1>1, <2>7 DEF Types
  <2>9. /\ {} \subseteq Message /\ {} \subseteq Dialog
        /\ \A y \in {m} \cup {} : y.t # "exec" /\ y.t # "state"
        /\ \A y \in {} : y.t # "count"
        /\ \A y \in {} : y.t # "show"
        /\ \A y \in {} \cup {} \cup {} : y.t \in {"dry", "confirm"} => n # 0
        /\ \A y \in {} \cup {} \cup {} : y \notin Links
    BY <1>5
  <2>10. UNCHANGED <<shown, entry, log, n, engine, held, opens, chained>> /\ Cardinality(edit') <= 1
    BY <1>1, <2>4
  <2> QED BY <1>7, <2>3, <2>4, <2>6, <2>8, <2>9, <2>10, Plain
<1>12. m.what \in {"lock", "delete", "popup", "insert"}
  BY <1>3 DEF Editor
<1> QED BY <1>8, <1>9, <1>10, <1>11, <1>12

\* The lock is given up for a write.
LEMMA SaveEditStep ==
  ASSUME IInv, SaveEdit
  PROVE  IInv'
<1>1. PICK l \in edit : net' = net \cup WriteRow(l.obj)
  BY DEF SaveEdit
<1>2. /\ edit # {} /\ edit' = {} /\ open' = open
      /\ UNCHANGED <<shown, view, log, entry, n, engine, held, sched, dialogs, spent, opens, chained>>
  BY DEF SaveEdit
<1>3. Types
  BY DEF IInv
<1>4. grid' \in BOOLEAN
  BY <1>3 DEF SaveEdit, Drawn, Types
<1>5. l.obj \in Obj
  BY <1>3 DEF Types, Lock
<1> DEFINE A == WriteRow(l.obj)
<1>6. /\ A \subseteq Message /\ IsFiniteSet(A)
      /\ \A x \in A : x.t = "dry" /\ n # 0 /\ x \notin Links
      /\ Cardinality(A \cap Purse) \in {0, 1}
  BY <1>5, WriteRowAsks
<1>7. net' = (net \ {}) \cup A /\ dialogs' = (dialogs \ {}) \cup {}
  BY <1>1, <1>2
<1> HIDE DEF A
<1>8. Moves({}, A, {}, {}, {}, {})
  BY <1>2, <1>6, <1>7, FewItems, MovesIdle
<1>9. Cardinality(edit) = 1 /\ spent \in Nat
  BY <1>2, Numbers
<1>10. IsFiniteSet(edit') /\ Cardinality(edit') = 0 /\ edit' \in SUBSET Lock /\ Cardinality(edit') <= 1
  BY <1>2, FS_EmptySet
<1>11. Cardinality({} \cap Purse) = 0
  BY FewItems
<1>12. Cardinality(A \cap Purse) + Cardinality({} \cap Purse) + Cardinality({} \cap Purse)
         + Cardinality(edit') + spent
         <= Cardinality({} \cap Purse) + Cardinality({} \cap Purse) + Cardinality({} \cap Purse)
            + Cardinality(edit) + spent'
  <2>1. \A a \in {0, 1}, c \in Nat : a + 0 + 0 + 0 + c <= 0 + 0 + 0 + 1 + c
    OBVIOUS
  <2>2. spent' = spent
    BY <1>2
  <2> QED BY <1>6, <1>9, <1>10, <1>11, <2>1, <2>2
<1>13. /\ spent' \in 0..MaxRuns /\ view' \in {"result", "log"} /\ open' \in BOOLEAN
       /\ sched' \in Seq(Thunk)
  BY <1>2, <1>3 DEF Types
<1>14. /\ {} \subseteq Dialog
       /\ \A y \in {} \cup A : y.t # "exec" /\ y.t # "state"
       /\ \A y \in A : y.t # "count"
       /\ \A y \in {} : y.t # "show"
       /\ \A y \in A \cup {} \cup {} : y.t \in {"dry", "confirm"} => n # 0
       /\ \A y \in A \cup {} \cup {} : y \notin Links
  BY <1>6
<1>15. UNCHANGED <<shown, entry, log, n, engine, held, opens, chained>>
  BY <1>2
<1> QED BY <1>4, <1>6, <1>8, <1>10, <1>12, <1>13, <1>14, <1>15, Plain

\* A write is logged and sent to the connection on screen.
LEMMA WriteSent ==
  ASSUME IInv, n # 0, NEW D \in SUBSET dialogs, dialogs' = (dialogs \ D) \cup {},
         net' = net \cup {Write(shown.conn)}, Logged(0), open' = open, grid' \in BOOLEAN,
         UNCHANGED <<shown, view, entry, n, engine, held, sched, opens, chained, spent>>,
         \/ edit' = edit /\ \E d \in Purse : D = {d}
         \/ edit # {} /\ edit' = {} /\ D = {}
  PROVE  IInv'
<1> DEFINE x == Write(shown.conn)
<1>1. x \in Message /\ x.t = "write"
  <2>1. shown.conn \in Conn
    BY DEF IInv, Begun
  <2> QED BY <2>1, AreMessages, Tags
<1>2. net' = (net \ {}) \cup {x}
  OBVIOUS
<1> HIDE DEF x
<1>3. Moves({}, {x}, D, {}, {}, {})
  BY <1>2, FewItems, MovesIdle
<1>4. x \notin Links
  BY <1>1, Kinds
<1>5. /\ Cardinality({} \cap Purse) = 0 /\ Cardinality({} \cap Links) = 0
      /\ Cardinality({x} \cap Purse) \in {0, 1} /\ Cardinality({x} \cap Links) = 0
      /\ \A d \in Purse : Cardinality({d} \cap Purse) = 1
  BY <1>4, FewItems
<1>6. Cardinality(D \cap Links) \in Nat /\ Cardinality(D \cap Purse) \in Nat
  BY <1>3, MovesCount
<1>7. /\ Cardinality(edit) \in Nat /\ Cardinality(edit) <= 1 /\ IsFiniteSet(edit)
      /\ spent \in Nat /\ n \in Nat /\ (edit # {} => Cardinality(edit) = 1)
  BY Numbers
<1>8. IsFiniteSet({}) /\ Cardinality({}) = 0
  BY FS_EmptySet
<1>9. /\ IsFiniteSet(edit') /\ Cardinality(edit') <= 1 /\ edit' \in SUBSET Lock
      /\ Cardinality({x} \cap Purse) + Cardinality({} \cap Purse) + Cardinality({} \cap Purse)
         + Cardinality(edit') + spent
         <= Cardinality({} \cap Purse) + Cardinality(D \cap Purse) + Cardinality({} \cap Purse)
            + Cardinality(edit) + spent'
  <2>0. edit \in SUBSET Lock /\ spent' = spent
    BY DEF IInv, Types
  <2>1. CASE edit' = edit /\ \E d \in Purse : D = {d}
    <3>1. Cardinality(D \cap Purse) = 1
      BY <1>5, <2>1
    <3>2. \A a \in {0, 1}, b, c \in Nat : a + 0 + 0 + b + c <= 0 + 1 + 0 + b + c
      OBVIOUS
    <3> QED BY <1>5, <1>7, <2>0, <2>1, <3>1, <3>2
  <2>2. CASE edit # {} /\ edit' = {} /\ D = {}
    <3>1. \A a \in {0, 1}, c \in Nat : a + 0 + 0 + 0 + c <= 0 + 0 + 0 + 1 + c
      OBVIOUS
    <3> QED BY <1>5, <1>7, <1>8, <2>0, <2>2, <3>1
  <2> QED BY <2>1, <2>2
<1>10. log' \in Seq(0..MaxRuns) /\ LogOK' /\ Bounded'
  <2>1. 0 \in 0..MaxRuns /\ n' \in Nat /\ 0 <= n' /\ n <= n'
    BY <1>7, Bounds
  <2>2. /\ log' \in Seq(0..MaxRuns) /\ LogOK'
        /\ \A i \in DOMAIN log' : log'[i] = 0 \/ \E j \in DOMAIN log : log'[i] = log[j]
    BY <2>1, LogTakes
  <2>3. \A r \in Run : entry'[r].call # 0 => entry[r].call # 0
    OBVIOUS
  <2> QED BY <2>2, <2>3, LiveKept
<1>11. Types'
  <2>1. Types
    BY DEF IInv
  <2>2. net' \in SUBSET Message /\ dialogs' \in SUBSET Dialog /\ sched' \in Seq(Thunk)
    BY <1>1, <1>2, <2>1 DEF Types
  <2>3. /\ shown' \in [conn : Conn \cup {None}, stmt : Obj \cup {AdHoc, None},
                       origin : Obj \cup {None}, call : 0..MaxRuns, page : 0..MaxRuns,
                       offset : Offset, gen : Gen, total : Gen]
        /\ entry' \in [Run -> Entry]
    BY <2>1 DEF Types
  <2>4. /\ n' \in 0..MaxRuns
        /\ engine' \in [Run -> {"none", "asked", "refused", "running", "done", "failed"}]
        /\ held' \in SUBSET Run /\ opens' \in 0..MaxOpens /\ chained' \in BOOLEAN
        /\ view' \in {"result", "log"} /\ open' \in BOOLEAN /\ spent' \in 0..MaxRuns
    BY <2>1 DEF Types
  <2> QED BY <1>9, <1>10, <2>2, <2>3, <2>4, Typed
<1>12. Runs' /\ Budget'
  <2> DEFINE A == {x}
             Z == {}
  <2>1. UNCHANGED <<n, engine, held, chained>>
    OBVIOUS
  <2>2. /\ \A r \in Run : r > n => entry'[r] = entry[r]
        /\ \A r \in Run : /\ entry'[r].q = entry[r].q /\ entry'[r].state = entry[r].state
                          /\ entry'[r].call = entry[r].call
    OBVIOUS
  <2>3. \A y \in Z \cup A : y.t # "exec" /\ y.t # "state"
    BY <1>1
  <2>4. \A y \in Z : y.t # "show"
    OBVIOUS
  <2>5. \A y \in Links : y \in A \/ y \in Z \/ y \in Z =>
              \E z \in Links : (z \in Z \/ z \in D \/ z \in Z) /\ z.q.k = y.q.k
    BY <1>1, <1>4
  <2>6. Cardinality(A \cap Links) + Cardinality(Z \cap Links) + Cardinality(Z \cap Links)
          <= Cardinality(Z \cap Links) + Cardinality(D \cap Links) + Cardinality(Z \cap Links)
    BY <1>5, <1>6
  <2>7. Moves(Z, A, D, Z, Z, Z) /\ Types'
    BY <1>3, <1>11
  <2>8. /\ IsFiniteSet(edit') /\ Cardinality(edit') <= 1
        /\ Cardinality(A \cap Purse) + Cardinality(Z \cap Purse) + Cardinality(Z \cap Purse)
           + Cardinality(edit') + spent
           <= Cardinality(Z \cap Purse) + Cardinality(D \cap Purse) + Cardinality(Z \cap Purse)
              + Cardinality(edit) + spent'
    BY <1>9
  <2> HIDE DEF A, Z
  <2> QED BY <2>1, <2>2, <2>3, <2>4, <2>5, <2>6, <2>7, <2>8, Quiet
<1>13. Gens'
  <2>1. \A g \in Gen : Count(g) \in net' => Count(g) \in net
    BY <1>1, <1>2, Tags
  <2> QED BY <2>1, Fixed DEF IInv, Gens, Count
<1>14. Begun'
  <2>1. \A p \in Plan : OnItsWay(DryRun(p))' => OnItsWay(DryRun(p))
    BY <1>1, <1>2, Tags DEF OnItsWay, DryRun
  <2> QED BY Fixed DEF IInv, Begun
<1> QED BY <1>10, <1>11, <1>12, <1>13, <1>14 DEF IInv

\* A whole document is replaced.
LEMMA ReplaceDocumentStep ==
  ASSUME IInv, ReplaceDocument
  PROVE  IInv'
<1>1. /\ edit # {} /\ edit' = {} /\ open' = open /\ shown.origin # None
      /\ Logged(0) /\ net' = net \cup {Write(shown.conn)}
      /\ UNCHANGED <<shown, view, entry, n, engine, held, sched, dialogs, spent, opens, chained>>
  BY DEF ReplaceDocument
<1>2. n # 0
  BY <1>1, Started
<1>3. dialogs' = (dialogs \ {}) \cup {}
  BY <1>1
<1>4. Types
  BY DEF IInv
<1>5. grid' \in BOOLEAN
  BY <1>4 DEF ReplaceDocument, Drawn, Types
<1> QED BY <1>1, <1>2, <1>3, <1>5, WriteSent

\* The user answers "Write it?".
LEMMA AnswerConfirmStep ==
  ASSUME IInv, NEW d \in dialogs, NEW yes \in BOOLEAN, AnswerConfirm(d, yes)
  PROVE  IInv'
<1>1. /\ d.t = "confirm" /\ dialogs' = (dialogs \ {d}) \cup {}
      /\ UNCHANGED <<shown, view, open, grid, edit, entry, n, engine, held, sched, spent, opens, chained>>
  BY DEF AnswerConfirm
<1>2. d \in Dialog
  BY DEF IInv, Types
<1>3. d \in Purse /\ n # 0
  <2>1. d.plan \in Plan /\ d = Confirm(d.plan)
    BY <1>1, <1>2, DialogIs
  <2>2. OnItsWay(d)
    BY DEF OnItsWay
  <2> QED BY <1>1, <1>2, <2>1, <2>2, Started, Kinds
<1>4. CASE yes
  <2>1. Logged(0) /\ net' = net \cup {Write(shown.conn)}
    BY <1>4 DEF AnswerConfirm
  <2>2. Types
    BY DEF IInv
  <2>3. grid' \in BOOLEAN
    BY <1>1, <2>2 DEF Types
  <2>4. {d} \in SUBSET dialogs
    OBVIOUS
  <2> QED BY <1>1, <1>3, <2>1, <2>3, <2>4, WriteSent
<1>5. CASE ~yes
  <2>1. net' = (net \ {}) \cup {} /\ log' = log
    BY <1>5 DEF AnswerConfirm
  <2>2. Moves({}, {}, {d}, {}, {}, {})
    BY <1>1, <2>1, FewItems, MovesIdle
  <2>3. sched' \in Seq(Thunk)
    BY <1>1 DEF IInv, Types
  <2> QED BY <1>1, <2>1, <2>2, <2>3, Dropped
<1> QED BY <1>4, <1>5

---------------------------------------------------------------------------
(* What is on screen.                                                      *)

\* A run that was not started has no entry.
LEMMA Unborn ==
  ASSUME IInv, NEW r \in Run, r > n
  PROVE  /\ entry[r] = NoEntry /\ engine[r] = "none"
         /\ entry[r].call = 0 /\ entry[r].state = "none" /\ entry[r].q.k = 0
<1>1. RunOK(r)
  BY DEF IInv, Runs
<1>2. entry[r] = NoEntry /\ engine[r] = "none"
  BY <1>1 DEF RunOK
<1>3. NoEntry.call = 0 /\ NoEntry.state = "none" /\ NoEntry.q.k = 0
  BY DEF NoEntry
<1> QED BY <1>2, <1>3

\* The requests of a page and of a count.
LEMMA Fetches ==
    /\ \A c \in 0..MaxRuns, f \in Offset :
          /\ GotoPage(c, f) \subseteq Message /\ IsFiniteSet(GotoPage(c, f))
          /\ \A x \in GotoPage(c, f) : x.t = "page"
    /\ \A o \in Obj \cup {None}, g \in Gen :
          /\ FetchTotal(o, g) \subseteq Message /\ IsFiniteSet(FetchTotal(o, g))
          /\ \A x \in FetchTotal(o, g) : x.t = "count" /\ x.gen = g /\ o # None
<1>1. ASSUME NEW c \in 0..MaxRuns, NEW f \in Offset
      PROVE  /\ GotoPage(c, f) \subseteq Message /\ IsFiniteSet(GotoPage(c, f))
             /\ \A x \in GotoPage(c, f) : x.t = "page"
  <2>1. CASE c = 0
    BY <2>1, FS_EmptySet DEF GotoPage
  <2>2. CASE c # 0
    <3> DEFINE b == c \in held
               x == Page(c, f, b)
    <3>1. c \in Run
      BY <2>2, Bounds
    <3>2. b \in BOOLEAN
      OBVIOUS
    <3>3. GotoPage(c, f) = {x}
      BY <2>2 DEF GotoPage
    <3> HIDE DEF b
    <3>4. x \in Message /\ x.t = "page"
      BY <3>1, <3>2, AreMessages, Tags
    <3> HIDE DEF x
    <3> QED BY <3>3, <3>4, FS_Singleton
  <2> QED BY <2>1, <2>2
<1>2. ASSUME NEW o \in Obj \cup {None}, NEW g \in Gen
      PROVE  /\ FetchTotal(o, g) \subseteq Message /\ IsFiniteSet(FetchTotal(o, g))
             /\ \A x \in FetchTotal(o, g) : x.t = "count" /\ x.gen = g /\ o # None
  <2>1. CASE o = None
    BY <2>1, FS_EmptySet DEF FetchTotal
  <2>2. CASE o # None
    <3>1. FetchTotal(o, g) = {Count(g)}
      BY <2>2 DEF FetchTotal
    <3>2. Count(g) \in Message /\ Count(g).t = "count" /\ Count(g).gen = g
      BY AreMessages, Tags
    <3> QED BY <2>2, <3>1, <3>2, FS_Singleton
  <2> QED BY <2>1, <2>2
<1> QED BY <1>1, <1>2

\* An answer is handled, or pages and counts are asked for: no run, statement of
\* the buffer or row is concerned.
LEMMA Looking ==
  ASSUME IInv, Types', NEW M \in SUBSET net, NEW A, IsFiniteSet(A), net' = (net \ M) \cup A,
         UNCHANGED <<n, engine, held, chained, edit, spent, sched, dialogs>>,
         \A r \in Run : r > n => entry'[r] = entry[r],
         \A r \in Run : /\ entry'[r].q = entry[r].q /\ entry'[r].state = entry[r].state
                        /\ entry'[r].call = entry[r].call,
         \A x \in M \cup A : x.t # "exec" /\ x.t # "state",
         A \subseteq Message, \A x \in A : x.t = "page" \/ x.t = "count"
  PROVE  Runs' /\ Budget'
<1> DEFINE Z == {}
<1>1. dialogs' = (dialogs \ Z) \cup Z
  OBVIOUS
<1>2. Moves(M, A, Z, Z, Z, Z)
  BY <1>1, FewItems, MovesIdle
<1>3. \A x \in A : x \notin Links /\ x \notin Purse
  BY Kinds
<1>4. A \cap Links = Z /\ A \cap Purse = Z /\ Z \cap Links = Z /\ Z \cap Purse = Z
  BY <1>3
<1>5. Cardinality(Z) = 0
  BY FS_EmptySet
<1>6. Cardinality(M \cap Links) \in Nat /\ Cardinality(M \cap Purse) \in Nat
  BY <1>2, MovesCount
<1>7. \A x \in Z : x.t # "show"
  OBVIOUS
<1>8. \A x \in Links : x \in A \/ x \in Z \/ x \in Z =>
         \E y \in Links : (y \in M \/ y \in Z \/ y \in Z) /\ y.q.k = x.q.k
  BY <1>3
<1> HIDE DEF Z
<1>9. Cardinality(A \cap Links) + Cardinality(Z \cap Links) + Cardinality(Z \cap Links)
        <= Cardinality(M \cap Links) + Cardinality(Z \cap Links) + Cardinality(Z \cap Links)
  <2>1. \A a \in Nat : 0 + 0 + 0 <= a + 0 + 0
    OBVIOUS
  <2> QED BY <1>4, <1>5, <1>6, <2>1
<1>10. /\ Cardinality(edit) \in Nat /\ Cardinality(edit) <= 1 /\ IsFiniteSet(edit)
       /\ spent \in Nat
  BY Numbers
<1>11. edit' = edit /\ spent' = spent
  OBVIOUS
<1>12. Cardinality(A \cap Purse) + Cardinality(Z \cap Purse) + Cardinality(Z \cap Purse)
         + Cardinality(edit') + spent
         <= Cardinality(M \cap Purse) + Cardinality(Z \cap Purse) + Cardinality(Z \cap Purse)
            + Cardinality(edit) + spent'
  <2>1. \A a, b, c \in Nat : 0 + 0 + 0 + b + c <= a + 0 + 0 + b + c
    OBVIOUS
  <2> QED BY <1>4, <1>5, <1>6, <1>10, <1>11, <2>1
<1>13. IsFiniteSet(edit') /\ Cardinality(edit') <= 1
  BY <1>10, <1>11
<1>14. UNCHANGED <<n, engine, held, chained>>
  OBVIOUS
<1> QED BY <1>2, <1>7, <1>8, <1>9, <1>12, <1>13, <1>14, Quiet

\* The count arrives.
LEMMA HandleCountStep ==
  ASSUME IInv, NEW m \in net, NEW ok \in BOOLEAN, HandleCount(m, ok)
  PROVE  IInv'
<1>1. /\ m.t = "count" /\ net' = (net \ {m}) \cup {}
      /\ shown' = IF ok /\ m.gen = shown.gen THEN [shown EXCEPT !.total = m.gen] ELSE shown
      /\ UNCHANGED <<view, open, grid, edit, log, entry, n, engine, held, sched, dialogs, spent,
                     opens, chained>>
  BY DEF HandleCount
<1>2. Types
  BY DEF IInv
<1>3. m \in Message
  BY <1>2 DEF Types
<1>4. m.gen \in Gen /\ m = Count(m.gen)
  BY <1>1, <1>3, MessageIs
<1>5. /\ shown' \in [conn : Conn \cup {None}, stmt : Obj \cup {AdHoc, None},
                     origin : Obj \cup {None}, call : 0..MaxRuns, page : 0..MaxRuns,
                     offset : Offset, gen : Gen, total : Gen]
      /\ shown'.gen = shown.gen /\ shown'.origin = shown.origin /\ shown'.conn = shown.conn
      /\ shown'.total = shown.total \/ (shown'.total = m.gen /\ m.gen = shown.gen)
  BY <1>1, <1>2, <1>4 DEF Types
<1>6. Types'
  <2>1. net' \in SUBSET Message /\ dialogs' \in SUBSET Dialog /\ sched' \in Seq(Thunk)
    BY <1>1, <1>2 DEF Types
  <2>2. log' \in Seq(0..MaxRuns) /\ entry' \in [Run -> Entry]
    BY <1>1, <1>2 DEF Types
  <2>3. /\ n' \in 0..MaxRuns
        /\ engine' \in [Run -> {"none", "asked", "refused", "running", "done", "failed"}]
        /\ held' \in SUBSET Run /\ opens' \in 0..MaxOpens /\ chained' \in BOOLEAN
        /\ view' \in {"result", "log"} /\ open' \in BOOLEAN /\ spent' \in 0..MaxRuns
        /\ grid' \in BOOLEAN /\ edit' \in SUBSET Lock
    BY <1>1, <1>2 DEF Types
  <2> QED BY <1>5, <2>1, <2>2, <2>3, Typed
<1>7. Runs' /\ Budget'
  <2>1. /\ \A x \in {m} \cup {} : x.t # "exec" /\ x.t # "state"
        /\ {} \subseteq Message /\ \A x \in {} : x.t = "page" \/ x.t = "count"
        /\ IsFiniteSet({}) /\ {m} \in SUBSET net
    BY <1>1, FS_EmptySet
  <2>2. /\ \A r \in Run : r > n => entry'[r] = entry[r]
        /\ \A r \in Run : /\ entry'[r].q = entry[r].q /\ entry'[r].state = entry[r].state
                          /\ entry'[r].call = entry[r].call
        /\ UNCHANGED <<n, engine, held, chained, edit, spent, sched, dialogs>>
    BY <1>1
  <2> QED BY <1>1, <1>6, <2>1, <2>2, Looking
<1>8. LogOK' /\ Bounded'
  BY <1>1, LogKept, LiveKept
<1>9. Gens'
  <2>1. Gens
    BY DEF IInv
  <2>2. \A g \in Gen : Count(g) \in net' => Count(g) \in net
    BY <1>1
  <2>3. Count(m.gen) \in net
    BY <1>4
  <2>4. shown'.total # 0 => shown'.total = shown.gen /\ shown.origin # None
    BY <1>4, <1>5, <2>1, <2>3 DEF Gens
  <2>5. \A g : Count(g)' = Count(g)
    BY DEF Count
  <2>6. \A g \in Gen : Count(g) \in net' => g # 0 /\ g <= shown.gen /\ (g = shown.gen => shown.origin # None)
    BY <2>1, <2>2 DEF Gens
  <2>7. shown'.gen = n' + opens'
    BY <1>1, <1>5, <2>1 DEF Gens
  <2> QED BY <1>5, <2>4, <2>5, <2>6, <2>7, Fixed DEF Gens
<1>10. Begun'
  <2>1. \A p \in Plan : /\ OnItsWay(DryRun(p))' => OnItsWay(DryRun(p))
                        /\ OnItsWay(Confirm(p))' => OnItsWay(Confirm(p))
    BY <1>1 DEF OnItsWay, DryRun, Confirm
  <2> QED BY <1>1, <1>5, <2>1, Fixed DEF IInv, Begun
<1> QED BY <1>6, <1>7, <1>8, <1>9, <1>10 DEF IInv

\* A page arrives.
LEMMA HandlePageStep ==
  ASSUME IInv, NEW m \in net, NEW ready \in BOOLEAN, HandlePage(m, ready)
  PROVE  IInv'
<1>1. /\ m.t = "page" /\ net' = (net \ {m}) \cup {} /\ open' = open
      /\ UNCHANGED <<view, edit, log, n, engine, held, sched, dialogs, spent, opens, chained>>
  BY DEF HandlePage
<1>2. Types
  BY DEF IInv
<1>3. m \in Message
  BY <1>2 DEF Types
<1>4. m.call \in Run /\ m.from \in Offset
  BY <1>1, <1>3, MessageIs
<1>5. /\ shown' \in [conn : Conn \cup {None}, stmt : Obj \cup {AdHoc, None},
                     origin : Obj \cup {None}, call : 0..MaxRuns, page : 0..MaxRuns,
                     offset : Offset, gen : Gen, total : Gen]
      /\ shown'.gen = shown.gen /\ shown'.origin = shown.origin /\ shown'.conn = shown.conn
      /\ shown'.total = shown.total
  <2>1. CASE ready
    <3>1. shown' = [shown EXCEPT !.page = m.call, !.offset = m.from]
      BY <2>1 DEF HandlePage
    <3>2. m.call \in 0..MaxRuns
      BY <1>4, Bounds
    <3> QED BY <1>2, <1>4, <3>1, <3>2 DEF Types
  <2>2. CASE ~ready
    BY <1>2, <2>2 DEF HandlePage, Types
  <2> QED BY <2>1, <2>2
<1>6. /\ entry' \in [Run -> Entry]
      /\ \A r \in Run : r > n => entry'[r] = entry[r]
      /\ \A r \in Run : /\ entry'[r].q = entry[r].q /\ entry'[r].state = entry[r].state
                        /\ entry'[r].call = entry[r].call
  <2>1. CASE ready
    <3>1. entry' = [x \in Run |-> IF x \in ToSet(log) /\ entry[x].call = m.call
                                  THEN [entry[x] EXCEPT !.offset = m.from] ELSE entry[x]]
      BY <2>1 DEF HandlePage, Remembered
    <3>2. \A r \in Run : entry[r] \in Entry
      BY <1>2 DEF Types
    <3>3. \A e \in Entry : /\ [e EXCEPT !.offset = m.from] \in Entry
                           /\ [e EXCEPT !.offset = m.from].q = e.q
                           /\ [e EXCEPT !.offset = m.from].state = e.state
                           /\ [e EXCEPT !.offset = m.from].call = e.call
      BY <1>4 DEF Entry
    <3>4. entry' \in [Run -> Entry]
      BY <3>1, <3>2, <3>3
    <3>5. \A r \in Run : r > n => entry[r].call = 0
      BY Unborn
    <3>6. m.call # 0
      BY <1>4, Bounds
    <3>7. \A r \in Run : r > n => entry'[r] = entry[r]
      BY <3>1, <3>5, <3>6
    <3>8. \A r \in Run : /\ entry'[r].q = entry[r].q /\ entry'[r].state = entry[r].state
                         /\ entry'[r].call = entry[r].call
      BY <3>1, <3>2, <3>3
    <3> QED BY <3>4, <3>7, <3>8
  <2>2. CASE ~ready
    <3>1. entry' = entry
      BY <2>2 DEF HandlePage
    <3> QED BY <1>2, <3>1 DEF Types
  <2> QED BY <2>1, <2>2
<1>7. grid' \in BOOLEAN
  BY <1>2 DEF HandlePage, Drawn, Types
<1>8. Types'
  <2>1. net' \in SUBSET Message /\ dialogs' \in SUBSET Dialog /\ sched' \in Seq(Thunk)
    BY <1>1, <1>2 DEF Types
  <2>2. log' \in Seq(0..MaxRuns)
    BY <1>1, <1>2 DEF Types
  <2>3. /\ n' \in 0..MaxRuns
        /\ engine' \in [Run -> {"none", "asked", "refused", "running", "done", "failed"}]
        /\ held' \in SUBSET Run /\ opens' \in 0..MaxOpens /\ chained' \in BOOLEAN
        /\ view' \in {"result", "log"} /\ open' \in BOOLEAN /\ spent' \in 0..MaxRuns
        /\ edit' \in SUBSET Lock
    BY <1>1, <1>2 DEF Types
  <2> QED BY <1>5, <1>6, <1>7, <2>1, <2>2, <2>3, Typed
<1>9. Runs' /\ Budget'
  <2>1. /\ \A x \in {m} \cup {} : x.t # "exec" /\ x.t # "state"
        /\ {} \subseteq Message /\ \A x \in {} : x.t = "page" \/ x.t = "count"
        /\ IsFiniteSet({}) /\ {m} \in SUBSET net
    BY <1>1, FS_EmptySet
  <2> QED BY <1>1, <1>6, <1>8, <2>1, Looking
<1>10. LogOK' /\ Bounded'
  <2>1. /\ \A r \in Run : entry'[r].call # 0 => entry[r].call # 0
        /\ \A i \in DOMAIN log' : log'[i] = 0 \/ \E j \in DOMAIN log : log'[i] = log[j]
    BY <1>1, <1>6
  <2> QED BY <1>1, <2>1, LogKept, LiveKept
<1>11. Gens'
  <2>1. Gens
    BY DEF IInv
  <2>2. \A g \in Gen : Count(g) \in net' => Count(g) \in net
    BY <1>1
  <2>3. shown'.gen = n' + opens'
    BY <1>1, <1>5, <2>1 DEF Gens
  <2>4. \A g : Count(g)' = Count(g)
    BY DEF Count
  <2> QED BY <1>5, <2>1, <2>2, <2>3, <2>4, Fixed DEF Gens
<1>12. Begun'
  <2>1. \A p \in Plan : /\ OnItsWay(DryRun(p))' => OnItsWay(DryRun(p))
                        /\ OnItsWay(Confirm(p))' => OnItsWay(Confirm(p))
    BY <1>1 DEF OnItsWay, DryRun, Confirm
  <2> QED BY <1>1, <1>5, <2>1, Fixed DEF IInv, Begun
<1> QED BY <1>8, <1>9, <1>10, <1>11, <1>12 DEF IInv

\* A logged call is opened again.
LEMMA OpenCachedStep ==
  ASSUME IInv, NEW r \in Run, OpenCached(r)
  PROVE  IInv'
<1> DEFINE e == entry[r]
           g == shown.gen + 1
           A == FetchTotal(e.q.origin, g) \cup GotoPage(e.call, e.offset)
<1>1. /\ e.call # 0 /\ opens < MaxOpens /\ opens' = opens + 1
      /\ shown' = [shown EXCEPT !.conn = e.q.conn, !.stmt = e.q.stmt,
                                !.call = e.call, !.origin = e.q.origin,
                                !.offset = e.offset, !.gen = g, !.total = 0]
      /\ net' = net \cup A
      /\ view' = "result" /\ open' = open
      /\ UNCHANGED <<edit, log, entry, n, engine, held, sched, dialogs, spent, chained>>
  BY DEF OpenCached
<1>2. Types /\ Gens
  BY DEF IInv
<1>3. e \in Entry
  BY <1>2 DEF Types
<1>4. /\ e.q.conn \in Conn /\ e.q.stmt \in Obj \cup {AdHoc, None} /\ e.q.origin \in Obj \cup {None}
      /\ e.call \in 0..MaxRuns /\ e.offset \in Offset
  BY <1>3 DEF Entry, Query
<1>5. /\ n \in Nat /\ n <= MaxRuns /\ opens \in Nat /\ MaxRuns \in Nat /\ MaxOpens \in Nat
      /\ shown.gen = n + opens
  BY <1>2, Bounds DEF Types, Gens
<1>6. g \in Gen /\ opens' \in 0..MaxOpens /\ 0 \in Gen /\ g = n + opens'
  <2>1. \A a, b, c, d \in Nat : a <= c /\ b < d => /\ (a + b) + 1 \in 0..(c + d) /\ b + 1 \in 0..d
                                                   /\ 0 \in 0..(c + d) /\ (a + b) + 1 = a + (b + 1)
    OBVIOUS
  <2> QED BY <1>1, <1>5, <2>1, Bounds
<1>7. n # 0
  <2>1. ~(r > n)
    BY <1>1, Unborn
  <2>2. r \in 1..MaxRuns
    BY Bounds
  <2> QED BY <1>5, <2>1, <2>2
<1> HIDE DEF e, g
<1>8. /\ A \subseteq Message /\ IsFiniteSet(A)
      /\ \A x \in A : x.t = "page" \/ (x.t = "count" /\ x.gen = g /\ e.q.origin # None)
  <2> DEFINE B == FetchTotal(e.q.origin, g)
             C == GotoPage(e.call, e.offset)
  <2>1. /\ C \subseteq Message /\ IsFiniteSet(C) /\ \A x \in C : x.t = "page"
    BY <1>4, Fetches
  <2>2. /\ B \subseteq Message /\ IsFiniteSet(B)
        /\ \A x \in B : x.t = "count" /\ x.gen = g /\ e.q.origin # None
    BY <1>4, <1>6, Fetches
  <2>3. A = B \cup C
    OBVIOUS
  <2> HIDE DEF A, B, C
  <2> QED BY <2>1, <2>2, <2>3, FS_Union
<1> HIDE DEF A
<1>9. /\ shown' \in [conn : Conn \cup {None}, stmt : Obj \cup {AdHoc, None},
                     origin : Obj \cup {None}, call : 0..MaxRuns, page : 0..MaxRuns,
                     offset : Offset, gen : Gen, total : Gen]
      /\ shown'.gen = g /\ shown'.origin = e.q.origin /\ shown'.conn = e.q.conn
      /\ shown'.total = 0
  BY <1>1, <1>2, <1>4, <1>6 DEF Types
<1>10. grid' \in BOOLEAN
  BY <1>2 DEF OpenCached, Drawn, Types
<1>11. Types'
  <2>1. net' \in SUBSET Message /\ dialogs' \in SUBSET Dialog /\ sched' \in Seq(Thunk)
    BY <1>1, <1>2, <1>8 DEF Types
  <2>2. log' \in Seq(0..MaxRuns) /\ entry' \in [Run -> Entry]
    BY <1>1, <1>2 DEF Types
  <2>3. /\ n' \in 0..MaxRuns
        /\ engine' \in [Run -> {"none", "asked", "refused", "running", "done", "failed"}]
        /\ held' \in SUBSET Run /\ chained' \in BOOLEAN
        /\ view' \in {"result", "log"} /\ open' \in BOOLEAN /\ spent' \in 0..MaxRuns
        /\ edit' \in SUBSET Lock
    BY <1>1, <1>2 DEF Types
  <2> QED BY <1>6, <1>9, <1>10, <2>1, <2>2, <2>3, Typed
<1>12. Runs' /\ Budget'
  <2>1. /\ \A x \in {} \cup A : x.t # "exec" /\ x.t # "state"
        /\ \A x \in A : x.t = "page" \/ x.t = "count"
        /\ {} \in SUBSET net /\ net' = (net \ {}) \cup A
    BY <1>1, <1>8
  <2>2. /\ \A x \in Run : x > n => entry'[x] = entry[x]
        /\ \A x \in Run : /\ entry'[x].q = entry[x].q /\ entry'[x].state = entry[x].state
                          /\ entry'[x].call = entry[x].call
        /\ UNCHANGED <<n, engine, held, chained, edit, spent, sched, dialogs>>
    BY <1>1
  <2> QED BY <1>8, <1>11, <2>1, <2>2, Looking
<1>13. LogOK' /\ Bounded'
  BY <1>1, LogKept, LiveKept
<1>14. Gens'
  <2>1. ASSUME NEW h \in Gen, Count(h) \in net'
        PROVE  h # 0 /\ h <= g /\ (h = g => e.q.origin # None)
    <3>1. h \in Nat /\ g \in Nat /\ shown.gen \in Nat /\ g = shown.gen + 1
      BY <1>5, <1>6, Bounds DEF g
    <3>2. CASE Count(h) \in net
      <4>1. h # 0 /\ h <= shown.gen
        BY <1>2, <3>2 DEF Gens
      <4>2. \A a, b, c \in Nat : a <= b /\ c = b + 1 => a <= c /\ a # c
        OBVIOUS
      <4> QED BY <3>1, <4>1, <4>2
    <3>3. CASE Count(h) \in A
      <4>1. h = g /\ e.q.origin # None
        BY <1>8, <3>3, Tags
      <4>2. \A b, c \in Nat : c = b + 1 => c # 0
        OBVIOUS
      <4> QED BY <3>1, <4>1, <4>2
    <3> QED BY <1>1, <2>1, <3>2, <3>3
  <2>2. \A h : Count(h)' = Count(h)
    BY DEF Count
  <2>3. shown'.gen = n' + opens'
    BY <1>1, <1>6, <1>9
  <2> QED BY <1>9, <2>1, <2>2, <2>3, Fixed DEF Gens
<1>15. Begun'
  <2>1. n' # 0 /\ shown'.conn \in Conn
    BY <1>1, <1>4, <1>7, <1>9
  <2> QED BY <2>1 DEF Begun
<1> QED BY <1>11, <1>12, <1>13, <1>14, <1>15 DEF IInv

---------------------------------------------------------------------------
(* What becomes of a run.                                                  *)

\* A step about one run: nothing that leads to another one moves.
LEMMA OneRun ==
  ASSUME IInv, Types', Runs',
         NEW M \in SUBSET net, NEW A \in SUBSET Message, IsFiniteSet(A), net' = (net \ M) \cup A,
         \A x \in M \cup A : x.t = "exec" \/ x.t = "state",
         \/ UNCHANGED sched
         \/ \E x \in Thunk : sched' = Append(sched, x) /\ x.t \in {"show", "stop"},
         UNCHANGED <<n, log, edit, dialogs, spent, opens, chained>>,
         shown'.gen = shown.gen, shown'.total = shown.total, shown'.origin = shown.origin,
         shown'.conn = shown.conn,
         \A r \in Run : /\ entry'[r].q = entry[r].q
                        /\ entry[r].state = "done" => entry'[r].state = "done"
                        /\ Unfinished(r)' => Unfinished(r),
         Bounded'
  PROVE  IInv'
<1> DEFINE Z == {}
<1>1. dialogs' = (dialogs \ Z) \cup Z
  OBVIOUS
<1>2. IsFiniteSet(Z) /\ Z \in SUBSET dialogs /\ Cardinality(Z) = 0
  BY FS_EmptySet
<1>3. PICK S : /\ Moves(M, A, Z, Z, Z, S) /\ \A x \in S : x \in Thunk /\ x.t \in {"show", "stop"}
  <2>1. CASE UNCHANGED sched
    <3>1. Moves(M, A, Z, Z, Z, Z)
      BY <1>1, <1>2, <2>1, MovesIdle
    <3> QED BY <3>1
  <2>2. CASE \E x \in Thunk : sched' = Append(sched, x) /\ x.t \in {"show", "stop"}
    <3>1. PICK x \in Thunk : sched' = Append(sched, x) /\ x.t \in {"show", "stop"}
      BY <2>2
    <3>2. Moves(M, A, Z, Z, Z, {x})
      BY <1>1, <1>2, <3>1, MovesLater
    <3> QED BY <3>1, <3>2
  <2> QED BY <2>1, <2>2
<1>4. /\ \A x \in A : x \notin Links /\ x \notin Purse
      /\ \A x \in S : x \notin Links /\ x \notin Purse
      /\ \A x \in M : x \notin Links /\ x \notin Purse
  BY <1>3 DEF Links, Purse
<1>5. /\ A \cap Links = Z /\ A \cap Purse = Z /\ Z \cap Links = Z /\ Z \cap Purse = Z
      /\ S \cap Links = Z /\ S \cap Purse = Z /\ M \cap Links = Z /\ M \cap Purse = Z
  BY <1>4
<1>6. \A x \in Links : OnItsWay(x)' => OnItsWay(x)
  <2>1. \A x : OnItsWay(x)' => OnItsWay(x) \/ x \in A \/ x \in Z \/ x \in S
    BY <1>3, MovesWay
  <2> QED BY <1>4, <2>1
<1> HIDE DEF Z
<1>7. /\ IsFiniteSet(net') /\ IsFiniteSet(dialogs')
      /\ Queued(Links)' \in Nat /\ Queued(Links)' <= Queued(Links)
      /\ Queued(Purse)' \in Nat /\ Queued(Purse)' <= Queued(Purse)
      /\ Queued(Purse) \in Nat
  <2> DEFINE u == Queued(Links)'
             w == Queued(Purse)'
  <2>1. /\ IsFiniteSet(net') /\ IsFiniteSet(dialogs')
        /\ Queued(Links) \in Nat /\ u \in Nat
        /\ u + Cardinality(M \cap Links) + Cardinality(Z \cap Links) + Cardinality(Z \cap Links)
             <= Queued(Links) + Cardinality(A \cap Links) + Cardinality(Z \cap Links) + Cardinality(S \cap Links)
    BY <1>3, MovesCount, Fixed
  <2>2. /\ Queued(Purse) \in Nat /\ w \in Nat
        /\ w + Cardinality(M \cap Purse) + Cardinality(Z \cap Purse) + Cardinality(Z \cap Purse)
             <= Queued(Purse) + Cardinality(A \cap Purse) + Cardinality(Z \cap Purse) + Cardinality(S \cap Purse)
    BY <1>3, MovesCount, Fixed
  <2> HIDE DEF u, w
  <2>3. \A a, b \in Nat : a + 0 + 0 + 0 <= b + 0 + 0 + 0 => a <= b
    OBVIOUS
  <2>4. u <= Queued(Links) /\ w <= Queued(Purse)
    BY <1>2, <1>5, <2>1, <2>2, <2>3
  <2> QED BY <2>1, <2>2, <2>4 DEF u, w
<1>8. Budget'
  <2>1. /\ Cardinality(edit) \in Nat /\ Cardinality(edit) <= 1 /\ IsFiniteSet(edit)
        /\ spent \in Nat
    BY Numbers
  <2>2. IsFiniteSet(edit') /\ Cardinality(edit') <= 1
    BY <2>1
  <2>3. Queued(Purse)' + Cardinality(edit') + spent <= Queued(Purse) + Cardinality(edit) + spent'
    <3> DEFINE w == Queued(Purse)'
    <3>1. w \in Nat /\ w <= Queued(Purse) /\ Queued(Purse) \in Nat
      BY <1>7
    <3>2. edit' = edit /\ spent' = spent
      OBVIOUS
    <3> HIDE DEF w
    <3>3. \A a, b, c, d \in Nat : a <= b => a + c + d <= b + c + d
      OBVIOUS
    <3>4. w + Cardinality(edit) + spent <= Queued(Purse) + Cardinality(edit) + spent
      BY <2>1, <3>1, <3>3
    <3>5. w + Cardinality(edit') + spent <= Queued(Purse) + Cardinality(edit) + spent'
      BY <3>2, <3>4
    <3> QED BY <3>5 DEF w
  <2>4. \A x \in Links : OnItsWay(x)' => \E y \in Links : OnItsWay(y) /\ y.q.k = x.q.k
    BY <1>6
  <2>5. UNCHANGED <<n, chained>>
    OBVIOUS
  <2> QED BY <1>7, <2>2, <2>3, <2>4, <2>5, BudgetKept
<1>9. LogOK'
  BY LogKept
<1>10. Gens'
  <2>1. Gens
    BY DEF IInv
  <2>2. \A g \in Gen : Count(g) \in net' => Count(g) \in net
    BY Tags
  <2>3. shown'.gen = n' + opens'
    BY <2>1 DEF Gens
  <2>4. \A g : Count(g)' = Count(g)
    BY DEF Count
  <2> QED BY <2>1, <2>2, <2>3, <2>4, Fixed DEF Gens
<1>11. Begun'
  <2>1. \A x : OnItsWay(x)' => OnItsWay(x) \/ x \in A \/ x \in Z \/ x \in S
    BY <1>3, MovesWay
  <2>2. \A p \in Plan : /\ OnItsWay(DryRun(p))' => OnItsWay(DryRun(p))
                        /\ OnItsWay(Confirm(p))' => OnItsWay(Confirm(p))
    <3> SUFFICES ASSUME NEW p \in Plan
                 PROVE  /\ OnItsWay(DryRun(p))' => OnItsWay(DryRun(p))
                        /\ OnItsWay(Confirm(p))' => OnItsWay(Confirm(p))
      OBVIOUS
    <3>1. \A x \in A \cup Z \cup S : x # DryRun(p) /\ x # Confirm(p)
      BY <1>3, Tags DEF Z
    <3>2. DryRun(p)' = DryRun(p) /\ Confirm(p)' = Confirm(p)
      BY DEF DryRun, Confirm
    <3> QED BY <2>1, <3>1, <3>2 DEF OnItsWay
  <2> QED BY <2>2, Fixed DEF IInv, Begun
<1> QED BY <1>8, <1>9, <1>10, <1>11 DEF IInv

\* The engine has something to say about a run: s is what it does with it, A the
\* line that tells.
LEMMA EngineStep ==
  ASSUME IInv, NEW r \in Run, engine[r] \in {"asked", "running"},
         NEW s \in {"running", "refused", "done", "failed"}, engine' = [engine EXCEPT ![r] = s],
         NEW A \in SUBSET Message, IsFiniteSet(A), net' = (net \ {}) \cup A,
         \/ engine[r] = "asked" /\ s = "running" /\ held' = held \cup {r} /\ A = {}
         \/ engine[r] = "asked" /\ s = "refused" /\ held' = held /\ A = {}
         \/ engine[r] = "running" /\ s \in {"done", "failed"} /\ held' = held /\ A = {State(r)},
         UNCHANGED <<shown, view, open, grid, edit, log, entry, n, sched, dialogs, spent, opens, chained>>
  PROVE  IInv'
<1>1. Types
  BY DEF IInv
<1>2. /\ \A x \in A : x = State(r) /\ x.t = "state"
      /\ held' \in SUBSET Run /\ \A x \in Run : x # r => (x \in held' <=> x \in held)
      /\ held \subseteq held'
  BY <1>1, Tags DEF Types
<1>3. /\ engine' \in [Run -> {"none", "asked", "refused", "running", "done", "failed"}]
      /\ engine'[r] = s /\ \A x \in Run : x # r => engine'[x] = engine[x]
  BY <1>1 DEF Types
<1>4. Types'
  <2>1. net' \in SUBSET Message /\ dialogs' \in SUBSET Dialog /\ sched' \in Seq(Thunk)
    BY <1>1 DEF Types
  <2>2. /\ shown' \in [conn : Conn \cup {None}, stmt : Obj \cup {AdHoc, None},
                       origin : Obj \cup {None}, call : 0..MaxRuns, page : 0..MaxRuns,
                       offset : Offset, gen : Gen, total : Gen]
        /\ log' \in Seq(0..MaxRuns) /\ entry' \in [Run -> Entry]
    BY <1>1 DEF Types
  <2>3. /\ n' \in 0..MaxRuns /\ opens' \in 0..MaxOpens /\ chained' \in BOOLEAN
        /\ view' \in {"result", "log"} /\ open' \in BOOLEAN /\ spent' \in 0..MaxRuns
        /\ grid' \in BOOLEAN /\ edit' \in SUBSET Lock
    BY <1>1 DEF Types
  <2> QED BY <1>2, <1>3, <2>1, <2>2, <2>3, Typed
<1>5. \A x : Shows(x)' = Shows(x) /\ Exec(x)' = Exec(x) /\ State(x)' = State(x)
  BY DEF Shows, InSched, Places, Show, Exec, State
<1>6. /\ \A x : Exec(x) \in net' <=> Exec(x) \in net
      /\ \A x : x # r => (State(x) \in net' <=> State(x) \in net)
  <2>1. \A x \in A : \A y : x # Exec(y) /\ (y # r => x # State(y))
    BY <1>2, Tags
  <2> QED BY <2>1
<1>7. Runs'
  <2> SUFFICES ASSUME NEW x \in Run PROVE RunOK(x)'
    BY Fixed DEF Runs
  <2>1. RunOK(x)
    BY DEF IInv, Runs
  <2>2. CASE x # r
    BY <1>2, <1>3, <1>5, <1>6, <2>1, <2>2 DEF RunOK
  <2>3. CASE x = r
    <3>1. r <= n
      BY Unborn, <1>1, Bounds DEF Types
    <3>2. /\ entry[r].state # "done" /\ State(r) \notin net
      BY <2>1, <2>3 DEF RunOK
    <3>3. s \notin {"done", "failed"} => State(r) \notin net'
      BY <3>2
    <3>4. Exec(r) \in net /\ s = "running" => r \in held'
      BY <2>1, <2>3
    <3>5. r \in held' => s \in {"running", "done", "failed"}
      BY <2>1, <2>3 DEF RunOK
    <3>6. engine[r] = "asked" => Exec(r) \in net
      BY <2>1, <2>3 DEF RunOK
    <3>7. r \in held' /\ Exec(r) \notin net => entry[r].call = r
      BY <2>1, <2>3, <3>6 DEF RunOK
    <3>8. CacheOn /\ Exec(r) \in net /\ s \in {"running", "done", "failed"} => r \in held'
      BY <2>1, <2>3 DEF RunOK
    <3>9. CacheOn /\ entry[r].call # 0 => r \in held'
      BY <1>2, <2>1, <2>3 DEF RunOK
    <3> QED BY <1>3, <1>5, <1>6, <2>1, <2>3, <3>1, <3>2, <3>3, <3>5, <3>7, <3>8, <3>9 DEF RunOK
  <2> QED BY <2>2, <2>3
<1>8. \A x \in Run : Unfinished(x)' => Unfinished(x)
  BY <1>3, <1>5, <1>6 DEF Unfinished
<1>9. Bounded'
  BY LiveKept
<1>10. \A x \in {} \cup A : x.t = "exec" \/ x.t = "state"
  BY <1>2
<1> QED BY <1>4, <1>7, <1>8, <1>9, <1>10, OneRun

\* The engine registers the call, or refuses the request, or is done with it.
LEMMA EngineSteps ==
  ASSUME IInv, NEW r \in Run, Accept(r) \/ Refuse(r) \/ \E s \in {"done", "failed"} : Finish(r, s)
  PROVE  IInv'
<1> DEFINE A == {}
           B == {State(r)}
<1>1. /\ A \in SUBSET Message /\ IsFiniteSet(A)
      /\ B \in SUBSET Message /\ IsFiniteSet(B)
  BY AreMessages, FS_EmptySet, FS_Singleton
<1>2. CASE Accept(r)
  <2>1. net' = (net \ {}) \cup A
    BY <1>2 DEF Accept
  <2>2. /\ engine[r] = "asked" /\ engine' = [engine EXCEPT ![r] = "running"]
        /\ held' = held \cup {r}
        /\ UNCHANGED <<shown, view, open, grid, edit, log, entry, n, sched, dialogs, spent, opens, chained>>
    BY <1>2 DEF Accept
  <2>3. A = {}
    OBVIOUS
  <2> HIDE DEF A
  <2> QED BY <1>1, <2>1, <2>2, <2>3, EngineStep
<1>3. CASE Refuse(r)
  <2>1. net' = (net \ {}) \cup A
    BY <1>3 DEF Refuse
  <2>2. /\ engine[r] = "asked" /\ engine' = [engine EXCEPT ![r] = "refused"]
        /\ held' = held
        /\ UNCHANGED <<shown, view, open, grid, edit, log, entry, n, sched, dialogs, spent, opens, chained>>
    BY <1>3 DEF Refuse
  <2>3. A = {}
    OBVIOUS
  <2> HIDE DEF A
  <2> QED BY <1>1, <2>1, <2>2, <2>3, EngineStep
<1>4. CASE \E s \in {"done", "failed"} : Finish(r, s)
  <2>1. PICK s \in {"done", "failed"} : Finish(r, s)
    BY <1>4
  <2>2. net' = (net \ {}) \cup B
    BY <2>1 DEF Finish
  <2>3. /\ engine[r] = "running" /\ engine' = [engine EXCEPT ![r] = s]
        /\ held' = held
        /\ UNCHANGED <<shown, view, open, grid, edit, log, entry, n, sched, dialogs, spent, opens, chained>>
    BY <2>1 DEF Finish
  <2>4. B = {State(r)}
    OBVIOUS
  <2> HIDE DEF B
  <2> QED BY <1>1, <2>2, <2>3, <2>4, EngineStep
<1> QED BY <1>2, <1>3, <1>4

\* The query.state line of a run.
LEMMA HandleStateStep ==
  ASSUME IInv, NEW r \in Run, HandleState(r)
  PROVE  IInv'
<1> DEFINE s == engine[r]
           y == IF s = "done" THEN Show(r) ELSE Stop(entry[r].q.k)
<1>1. /\ State(r) \in net /\ Exec(r) \notin net /\ net' = (net \ {State(r)}) \cup {}
      /\ entry' = [entry EXCEPT ![r].state = s]
      /\ sched' = Append(sched, y)
      /\ UNCHANGED <<shown, view, open, grid, edit, log, n, engine, held, dialogs, spent, opens, chained>>
  BY DEF HandleState
<1>2. Types
  BY DEF IInv
<1>3. RunOK(r)
  BY DEF IInv, Runs
<1>4. /\ s \in {"done", "failed"} /\ entry[r].state # "done" /\ Shows(r) = 0
  <2>1. s \in {"done", "failed"} /\ entry[r].state # "done"
    BY <1>1, <1>3 DEF RunOK
  <2> QED BY <1>3, <2>1 DEF RunOK
<1>5. r <= n
  BY <1>2, <1>4, Unborn, Bounds DEF Types
<1>6. \A x \in Run : entry[x] \in Entry
  BY <1>2 DEF Types
<1>7. /\ entry' \in [Run -> Entry]
      /\ \A x \in Run : /\ entry'[x].q = entry[x].q /\ entry'[x].call = entry[x].call
                        /\ x # r => entry'[x] = entry[x]
      /\ entry'[r].state = s
  <2>1. [entry[r] EXCEPT !.state = s] \in Entry
    BY <1>4, <1>6 DEF Entry
  <2>2. /\ [entry[r] EXCEPT !.state = s].q = entry[r].q
        /\ [entry[r] EXCEPT !.state = s].call = entry[r].call
        /\ [entry[r] EXCEPT !.state = s].state = s
    BY <1>6 DEF Entry
  <2>3. \A x \in Run : entry'[x] = IF x = r THEN [entry[r] EXCEPT !.state = s] ELSE entry[x]
    BY <1>1, <1>2 DEF Types
  <2>4. entry' = [x \in Run |-> IF x = r THEN [entry[r] EXCEPT !.state = s] ELSE entry[x]]
    BY <1>1, <1>2 DEF Types
  <2> QED BY <1>6, <2>1, <2>2, <2>3, <2>4
<1>8. y \in Thunk /\ y.t \in {"show", "stop"} /\ (y.t = "show" => y = Show(r) /\ s = "done")
  <2>1. entry[r].q.k \in 0..ChainLen
    BY <1>6 DEF Entry, Query
  <2> QED BY <2>1, AreThunks, Tags
<1> HIDE DEF y
<1>9. Types'
  <2>1. net' \in SUBSET Message /\ dialogs' \in SUBSET Dialog /\ sched' \in Seq(Thunk)
    BY <1>1, <1>2, <1>8, Scheduled DEF Types
  <2>2. /\ shown' \in [conn : Conn \cup {None}, stmt : Obj \cup {AdHoc, None},
                       origin : Obj \cup {None}, call : 0..MaxRuns, page : 0..MaxRuns,
                       offset : Offset, gen : Gen, total : Gen]
        /\ log' \in Seq(0..MaxRuns)
    BY <1>1, <1>2 DEF Types
  <2>3. /\ n' \in 0..MaxRuns /\ opens' \in 0..MaxOpens /\ chained' \in BOOLEAN
        /\ view' \in {"result", "log"} /\ open' \in BOOLEAN /\ spent' \in 0..MaxRuns
        /\ grid' \in BOOLEAN /\ edit' \in SUBSET Lock
        /\ engine' \in [Run -> {"none", "asked", "refused", "running", "done", "failed"}]
        /\ held' \in SUBSET Run
    BY <1>1, <1>2 DEF Types
  <2> QED BY <1>7, <2>1, <2>2, <2>3, Typed
<1>10. \A x \in Run : /\ Exec(x)' = Exec(x) /\ State(x)' = State(x)
                      /\ Exec(x) \in net' <=> Exec(x) \in net
                      /\ x # r => (State(x) \in net' <=> State(x) \in net)
                      /\ State(r) \notin net'
  <2>1. \A x : Exec(x) # State(r) /\ (x # r => State(x) # State(r))
    BY Tags
  <2>2. \A x : Exec(x)' = Exec(x) /\ State(x)' = State(x)
    BY DEF Exec, State
  <2> QED BY <1>1, <2>1, <2>2
<1>11. \A x \in Run : Shows(x)' = Shows(x) + (IF y = Show(x) THEN 1 ELSE 0) /\ Shows(x) \in Nat
  <2> SUFFICES ASSUME NEW x \in Run
               PROVE  Shows(x)' = Shows(x) + (IF y = Show(x) THEN 1 ELSE 0) /\ Shows(x) \in Nat
    OBVIOUS
  <2> DEFINE P == {Show(x)}
  <2>1. Shows(x)' = InSched(P)' /\ Shows(x) = InSched(P)
    BY DEF Shows, Show
  <2> HIDE DEF P
  <2>2. InSched(P)' = InSched(P) + (IF y \in P THEN 1 ELSE 0) /\ InSched(P) \in Nat
    BY <1>1, <1>8, Scheduled, Countable
  <2>3. y \in P <=> y = Show(x)
    BY DEF P
  <2> QED BY <2>1, <2>2, <2>3
<1>12. /\ \A x \in Run : x # r => Shows(x)' = Shows(x)
       /\ Shows(r)' <= 1 /\ (Shows(r)' # 0 => s = "done")
  <2>1. \A x \in Run : x # r => y # Show(x)
    BY <1>8, Tags
  <2>2. \A x \in Run : x # r => Shows(x)' = Shows(x)
    BY <1>11, <2>1
  <2>3. Shows(r)' = IF y = Show(r) THEN 1 ELSE 0
    BY <1>4, <1>11
  <2>4. y = Show(r) => s = "done"
    BY <1>8, Tags
  <2> QED BY <2>2, <2>3, <2>4
<1>13. Runs'
  <2> SUFFICES ASSUME NEW x \in Run PROVE RunOK(x)'
    BY Fixed DEF Runs
  <2>1. RunOK(x)
    BY DEF IInv, Runs
  <2>2. CASE x # r
    BY <1>1, <1>7, <1>10, <1>12, <2>1, <2>2 DEF RunOK
  <2>3. CASE x = r
    <3>1. ~(r > n)
      BY <1>2, <1>5, Bounds DEF Types
    <3> QED BY <1>1, <1>4, <1>7, <1>10, <1>12, <2>1, <2>3, <3>1 DEF RunOK
  <2> QED BY <2>2, <2>3
<1>14. \A x \in Run : /\ entry[x].state = "done" => entry'[x].state = "done"
                      /\ Unfinished(x)' => Unfinished(x)
  BY <1>1, <1>4, <1>7, <1>10, <1>12 DEF Unfinished
<1>15. Bounded'
  BY <1>1, <1>7, LiveKept
<1>16. \A x \in {State(r)} \cup {} : x.t = "exec" \/ x.t = "state"
  BY Tags
<1>17. {State(r)} \in SUBSET net /\ {} \in SUBSET Message /\ IsFiniteSet({})
  BY <1>1, FS_EmptySet
<1> QED BY <1>1, <1>7, <1>8, <1>9, <1>13, <1>14, <1>15, <1>16, <1>17, OneRun

\* Some numbers have a least one.
LEMMA Least ==
  ASSUME NEW K \in SUBSET Nat, K # {}
  PROVE \E j \in K : \A k \in K : j <= k
<1> DEFINE R == {ss \in Nat \X Nat : ss[1] < ss[2]}
<1>1. IsWellFoundedOn(R, Nat)
  BY NatLessThanWellFounded DEF OpToRel
<1>2. PICK j \in K : \A k \in K : ~(<<k, j>> \in R)
  BY <1>1, WFMin
<1>3. ASSUME NEW k \in K PROVE j <= k
  <2>1. k \in Nat /\ j \in Nat
    OBVIOUS
  <2>2. <<k, j>> \in Nat \X Nat
    BY <2>1
  <2>3. <<k, j>>[1] = k /\ <<k, j>>[2] = j
    OBVIOUS
  <2>4. ~(k < j)
    BY <1>2, <2>2, <2>3
  <2> QED BY <2>1, <2>4
<1> QED BY <1>3

\* Of some places, those with fewer than so many behind them are so many.
LEMMA LastOnes ==
  ASSUME NEW L \in SUBSET Nat, IsFiniteSet(L), NEW c \in Nat, NEW K,
         K = {j \in L : ~(Cardinality({k \in L : k > j}) >= c)}
  PROVE  IsFiniteSet(K) /\ Cardinality(K) <= c
<1>1. IsFiniteSet(K) /\ Cardinality(K) \in Nat /\ K \in SUBSET Nat /\ K \subseteq L
  BY FS_Subset, FS_CardinalityType
<1>2. CASE K = {}
  <2>1. Cardinality(K) = 0
    BY <1>2, FS_EmptySet
  <2> QED BY <1>1, <2>1
<1>3. CASE K # {}
  <2>1. PICK j \in K : \A k \in K : j <= k
    BY <1>1, <1>3, Least
  <2> DEFINE After == {k \in L : k > j}
             B == After \cup {j}
  <2>2. After \in SUBSET L /\ IsFiniteSet(After) /\ Cardinality(After) \in Nat
    BY FS_Subset, FS_CardinalityType
  <2>3. Cardinality(After) + 1 <= c
    <3>1. ~(Cardinality(After) >= c)
      OBVIOUS
    <3>2. \A a, b \in Nat : ~(a >= b) => a + 1 <= b
      OBVIOUS
    <3> HIDE DEF After
    <3> QED BY <2>2, <3>1, <3>2
  <2>4. K \subseteq B
    <3> SUFFICES ASSUME NEW k \in K, k # j PROVE k > j
      BY <1>1
    <3>1. k \in Nat /\ j \in Nat /\ j <= k
      BY <1>1, <2>1
    <3> QED BY <3>1
  <2>5. j \notin After
    BY <1>1
  <2>6. IsFiniteSet(B) /\ Cardinality(B) = Cardinality(After) + 1
    BY <2>2, <2>5, FS_AddElement
  <2> HIDE DEF B, After
  <2>7. Cardinality(K) <= Cardinality(B)
    BY <2>4, <2>6, FS_Subset
  <2>8. \A a, b, d \in Nat : a <= b + 1 /\ b + 1 <= d => a <= d
    OBVIOUS
  <2>9. Cardinality(K) <= c
    BY <1>1, <2>2, <2>3, <2>6, <2>7, <2>8
  <2> QED BY <1>1, <2>9
<1> QED BY <1>2, <1>3

\* What the eviction leaves is bounded, and nothing that has no call is evicted.
LEMMA EvictionBounds ==
  ASSUME IInv, CacheOn, NEW r \in Run, NEW e \in [Run -> Entry]
  PROVE  /\ \A x \in Run : x \in Evicted(e, r) => e[x].call # 0
         /\ LET S == {x \in Run : x \notin Evicted(e, r) /\ e[x].call # 0
                                  /\ \E i \in DOMAIN log : log[i] = x}
            IN  Cardinality(S) <= CacheSize
<1> DEFINE L == Live(e)
           K == {j \in L : ~(Cardinality({k \in L : k > j}) >= CacheSize)}
           S == {x \in Run : x \notin Evicted(e, r) /\ e[x].call # 0
                             /\ \E i \in DOMAIN log : log[i] = x}
           I == {log[j] : j \in K}
<1>1. /\ log \in Seq(0..MaxRuns) /\ DOMAIN log = 1..Len(log) /\ Len(log) \in Nat
  BY LenProperties DEF IInv, Types
<1>2. L \in SUBSET (1..Len(log)) /\ L \in SUBSET Nat /\ IsFiniteSet(L)
  <2>1. L \in SUBSET (1..Len(log)) /\ IsFiniteSet(1..Len(log))
    BY <1>1, FS_Interval DEF Live
  <2> QED BY <2>1, <1>1, FS_Subset
<1>3. Evicted(e, r) = {log[i] : i \in {j \in L : Cardinality({k \in L : k > j}) >= CacheSize}}
  BY DEF Evicted
<1>4. \A i \in L : e[log[i]].call # 0
  BY DEF Live
<1>5. \A x \in Run : x \in Evicted(e, r) => e[x].call # 0
  BY <1>3, <1>4
<1>6. S \subseteq I
  <2> SUFFICES ASSUME NEW x \in S PROVE x \in I
    OBVIOUS
  <2>1. PICK i \in DOMAIN log : log[i] = x
    OBVIOUS
  <2>2. x # 0 /\ e[x].call # 0
    BY Bounds
  <2>3. i \in L
    BY <2>1, <2>2 DEF Live
  <2>4. i \in K
    BY <1>3, <2>1, <2>3
  <2> QED BY <2>1, <2>4
<1> HIDE DEF L
<1>7. IsFiniteSet(K) /\ Cardinality(K) <= CacheSize
  BY <1>2, Bounds, LastOnes
<1> HIDE DEF K
<1>8. IsFiniteSet(I) /\ Cardinality(I) <= Cardinality(K)
  <2>1. [j \in K |-> log[j]] \in Surjection(K, I)
    BY DEF Surjection
  <2> QED BY <1>7, <2>1, FS_Surjection
<1> HIDE DEF I, S
<1>9. IsFiniteSet(S) /\ Cardinality(S) <= Cardinality(I)
  BY <1>6, <1>8, FS_Subset
<1>10. Cardinality(S) <= CacheSize
  <2>1. /\ Cardinality(S) \in Nat /\ Cardinality(I) \in Nat /\ Cardinality(K) \in Nat
        /\ CacheSize \in Nat
    BY <1>7, <1>8, <1>9, FS_CardinalityType, Bounds
  <2>2. \A a, b, c, d \in Nat : a <= b /\ b <= c /\ c <= d => a <= d
    OBVIOUS
  <2> QED BY <1>7, <1>8, <1>9, <2>1, <2>2
<1> QED BY <1>5, <1>10 DEF S

\* The response to query.execute.
LEMMA HandleExecStep ==
  ASSUME IInv, NEW r \in Run, HandleExec(r)
  PROVE  IInv'
<1>1. /\ Exec(r) \in net /\ engine[r] # "asked" /\ net' = (net \ {Exec(r)}) \cup {}
      /\ UNCHANGED <<view, open, grid, edit, log, n, engine, sched, dialogs, spent, opens, chained>>
  BY DEF HandleExec
<1>2. Types
  BY DEF IInv
<1>3. \A x \in Run : RunOK(x) /\ entry[x] \in Entry
  BY <1>2 DEF IInv, Runs, Types
<1>4. /\ engine[r] # "none" /\ entry[r].call = 0 /\ r <= n
  <2>1. engine[r] # "none" /\ entry[r].call = 0
    BY <1>1, <1>3 DEF RunOK
  <2> QED BY <1>2, <2>1, Unborn, Bounds DEF Types
<1>5. \A x : /\ Shows(x)' = Shows(x) /\ Exec(x)' = Exec(x) /\ State(x)' = State(x)
             /\ Exec(x) \in net' => Exec(x) \in net
             /\ x # r => (Exec(x) \in net' <=> Exec(x) \in net)
             /\ State(x) \in net' <=> State(x) \in net
  <2>1. \A x : Shows(x)' = Shows(x) /\ Exec(x)' = Exec(x) /\ State(x)' = State(x)
    BY <1>1 DEF Shows, InSched, Places, Show, Exec, State
  <2>2. \A x : State(x) # Exec(r) /\ (x # r => Exec(x) # Exec(r))
    BY Tags
  <2> QED BY <1>1, <2>1, <2>2
<1>6. Exec(r) \notin net'
  BY <1>1
<1>7. /\ shown' \in [conn : Conn \cup {None}, stmt : Obj \cup {AdHoc, None},
                     origin : Obj \cup {None}, call : 0..MaxRuns, page : 0..MaxRuns,
                     offset : Offset, gen : Gen, total : Gen]
      /\ shown'.gen = shown.gen /\ shown'.origin = shown.origin /\ shown'.conn = shown.conn
      /\ shown'.total = shown.total
  <2>1. shown' = shown \/ shown' = [shown EXCEPT !.call = r]
    BY DEF HandleExec
  <2>2. r \in 0..MaxRuns
    BY Bounds
  <2> QED BY <1>2, <2>1, <2>2 DEF Types
<1>8. /\ entry' \in [Run -> Entry] /\ held' \in SUBSET Run
      /\ \A x \in Run : /\ entry'[x].q = entry[x].q /\ entry'[x].state = entry[x].state
                        /\ x > n => entry'[x] = entry[x]
                        /\ RunOK(x)'
      /\ Bounded'
  <2>1. CASE engine[r] = "refused"
    <3>1. entry' = entry /\ held' = held
      BY <2>1 DEF HandleExec
    <3>2. entry' \in [Run -> Entry] /\ held' \in SUBSET Run
      BY <1>2, <3>1 DEF Types
    <3>3. ASSUME NEW x \in Run PROVE RunOK(x)'
      <4>1. CASE x = r
        <5>1. r \notin held
          BY <1>3, <2>1 DEF RunOK
        <5> QED BY <1>1, <1>3, <1>5, <1>6, <2>1, <3>1, <4>1, <5>1 DEF RunOK
      <4>2. CASE x # r
        BY <1>1, <1>3, <1>5, <3>1, <4>2 DEF RunOK
      <4> QED BY <4>1, <4>2
    <3>4. Bounded'
      BY <1>1, <3>1, LiveKept
    <3> QED BY <3>1, <3>2, <3>3, <3>4
  <2>2. CASE engine[r] # "refused"
    <3> DEFINE e == [entry EXCEPT ![r].call = r]
               gone == Evicted(e, r)
    <3>1. entry' = Cleared(e, gone) /\ held' = held \ gone
      BY <2>2 DEF HandleExec
    <3>2. r \in 0..MaxRuns /\ r # 0
      BY Bounds
    <3>3. /\ e \in [Run -> Entry]
          /\ e[r].call = r /\ \A x \in Run : x # r => e[x] = entry[x]
          /\ \A x \in Run : e[x].q = entry[x].q /\ e[x].state = entry[x].state
      <4>1. /\ [entry[r] EXCEPT !.call = r] \in Entry
            /\ [entry[r] EXCEPT !.call = r].call = r
            /\ [entry[r] EXCEPT !.call = r].q = entry[r].q
            /\ [entry[r] EXCEPT !.call = r].state = entry[r].state
        BY <1>3, <3>2 DEF Entry
      <4>2. e = [x \in Run |-> IF x = r THEN [entry[r] EXCEPT !.call = r] ELSE entry[x]]
        BY <1>2 DEF Types
      <4> HIDE DEF e
      <4> QED BY <1>3, <4>1, <4>2
    <3> HIDE DEF e
    <3>4. CacheOn => /\ \A x \in Run : x \in gone => e[x].call # 0
                     /\ LET S == {x \in Run : x \notin gone /\ e[x].call # 0
                                              /\ \E i \in DOMAIN log : log[i] = x}
                        IN  Cardinality(S) <= CacheSize
      BY <3>3, EvictionBounds
    <3> HIDE DEF gone
    <3>5. /\ entry' \in [Run -> Entry]
          /\ \A x \in Run : /\ entry'[x].q = entry[x].q /\ entry'[x].state = entry[x].state
                            /\ CacheOn /\ x \in gone => entry'[x].call = 0
                            /\ ~(CacheOn /\ x \in gone) => entry'[x] = e[x]
      <4>1. \A x \in Run : /\ [e[x] EXCEPT !.call = 0] \in Entry
                           /\ [e[x] EXCEPT !.call = 0].call = 0
                           /\ [e[x] EXCEPT !.call = 0].q = e[x].q
                           /\ [e[x] EXCEPT !.call = 0].state = e[x].state
        <5>1. 0 \in 0..MaxRuns
          BY Bounds
        <5>2. \A x \in Run : e[x] \in Entry
          BY <3>3
        <5> QED BY <5>1, <5>2 DEF Entry
      <4>2. entry' = [x \in Run |-> IF CacheOn /\ x \in gone THEN [e[x] EXCEPT !.call = 0] ELSE e[x]]
        BY <3>1 DEF Cleared
      <4> QED BY <3>3, <4>1, <4>2
    <3>6. held' \in SUBSET Run
      BY <1>2, <3>1 DEF Types
    <3>7. ASSUME NEW x \in Run, x > n PROVE entry'[x] = entry[x]
      <4>1. x # r /\ entry[x].call = 0
        <5>1. n \in Nat /\ x \in Nat /\ r \in Nat
          BY <1>2, Bounds DEF Types
        <5>2. \A a, b, c \in Nat : a <= b /\ c > b => c # a
          OBVIOUS
        <5> QED BY <1>4, <3>7, <5>1, <5>2, Unborn
      <4> QED BY <3>3, <3>4, <3>5, <4>1
    <3>8. ASSUME NEW x \in Run PROVE RunOK(x)'
      <4>1. /\ entry'[x].call \in {0, x} /\ entry'[x].state = entry[x].state
            /\ entry'[x].call # 0 => (CacheOn => x \notin gone) /\ (x # r => entry[x].call # 0)
        BY <1>3, <3>3, <3>5 DEF RunOK
      <4>2. /\ x \in held' <=> x \in held /\ x \notin gone
            /\ x \in held' => entry'[x] = e[x]
        BY <3>1, <3>5
      <4>3. x > n => engine[x] = "none" /\ entry'[x] = NoEntry
        BY <3>7, Unborn
      <4>4. Exec(x) \in net' => entry'[x].call = 0
        <5>1. CASE x = r
          BY <1>6, <5>1
        <5>2. CASE x # r
          BY <1>3, <1>5, <4>1, <5>2 DEF RunOK
        <5> QED BY <5>1, <5>2
      <4>5. x \in held' /\ Exec(x) \notin net' => entry'[x].call = x
        <5>1. CASE x = r
          BY <3>3, <4>2, <5>1
        <5>2. CASE x # r
          BY <1>3, <1>5, <3>3, <4>2, <5>2 DEF RunOK
        <5> QED BY <5>1, <5>2
      <4>6. CacheOn /\ entry'[x].call # 0 => x \in held'
        <5>1. CASE x = r
          <6>1. CacheOn => r \in held
            <7>1. engine[r] \in {"running", "done", "failed"}
              BY <1>1, <1>2, <1>4, <2>2 DEF Types
            <7> QED BY <1>1, <1>3, <7>1 DEF RunOK
          <6> QED BY <4>1, <4>2, <5>1, <6>1
        <5>2. CASE x # r
          BY <1>3, <4>1, <4>2, <5>2 DEF RunOK
        <5> QED BY <5>1, <5>2
      <4>7. CacheOn /\ Exec(x) \in net' /\ engine[x] \in {"running", "done", "failed"} => x \in held'
        <5>1. CASE x = r
          BY <1>6, <5>1
        <5>2. CASE x # r
          <6>1. Exec(x) \in net' => entry[x].call = 0 /\ Exec(x) \in net
            BY <1>3, <1>5, <5>2 DEF RunOK
          <6>2. CacheOn /\ Exec(x) \in net' => x \notin gone
            BY <3>3, <3>4, <5>2, <6>1
          <6> QED BY <1>3, <4>2, <6>1, <6>2 DEF RunOK
        <5> QED BY <5>1, <5>2
      <4>8. /\ engine[x] = "asked" => Exec(x) \in net'
        BY <1>1, <1>3, <1>5 DEF RunOK
      <4>9. x \in held' => engine[x] \in {"running", "done", "failed"}
        BY <1>3, <4>2 DEF RunOK
      <4>10. n' = n /\ engine' = engine
        BY <1>1
      <4> QED BY <1>3, <1>5, <4>1, <4>3, <4>4, <4>5, <4>6, <4>7, <4>8, <4>9, <4>10 DEF RunOK
    <3>9. Bounded'
      <4>1. CASE CacheOn
        <5> DEFINE S == {x \in Run : x \notin gone /\ e[x].call # 0
                                     /\ \E i \in DOMAIN log : log[i] = x}
        <5>1. IsFiniteSet(S) /\ Cardinality(S) <= CacheSize
          <6>1. IsFiniteSet(Run) /\ S \in SUBSET Run
            BY Bounds, FS_Interval
          <6> QED BY <3>4, <4>1, <6>1, FS_Subset
        <5>2. LiveRuns' \subseteq S
          <6> SUFFICES ASSUME NEW x \in LiveRuns' PROVE x \in S
            OBVIOUS
          <6>1. x \in Run /\ entry'[x].call # 0 /\ \E i \in DOMAIN log : log[i] = x
            BY <1>1, Fixed DEF LiveRuns
          <6> QED BY <3>5, <4>1, <6>1
        <5> DEFINE U == LiveRuns'
        <5> HIDE DEF S, U
        <5>3. IsFiniteSet(U) /\ Cardinality(U) <= Cardinality(S)
          BY <5>1, <5>2, FS_Subset DEF U
        <5>4. Cardinality(U) \in Nat /\ Cardinality(S) \in Nat /\ CacheSize \in Nat
          BY <5>1, <5>3, FS_CardinalityType, Bounds
        <5>5. \A a, b, c \in Nat : a <= b /\ b <= c => a <= c
          OBVIOUS
        <5>6. Cardinality(U) <= CacheSize
          BY <5>1, <5>3, <5>4, <5>5
        <5> QED BY <5>6 DEF Bounded, U
      <4>2. CASE ~CacheOn
        BY <4>2 DEF Bounded
      <4> QED BY <4>1, <4>2
    <3> QED BY <3>5, <3>6, <3>7, <3>8, <3>9
  <2> QED BY <2>1, <2>2
<1>9. Types'
  <2>1. net' \in SUBSET Message /\ dialogs' \in SUBSET Dialog /\ sched' \in Seq(Thunk)
    BY <1>1, <1>2 DEF Types
  <2>2. log' \in Seq(0..MaxRuns)
    BY <1>1, <1>2 DEF Types
  <2>3. /\ n' \in 0..MaxRuns /\ opens' \in 0..MaxOpens /\ chained' \in BOOLEAN
        /\ view' \in {"result", "log"} /\ open' \in BOOLEAN /\ spent' \in 0..MaxRuns
        /\ grid' \in BOOLEAN /\ edit' \in SUBSET Lock
        /\ engine' \in [Run -> {"none", "asked", "refused", "running", "done", "failed"}]
    BY <1>1, <1>2 DEF Types
  <2> QED BY <1>7, <1>8, <2>1, <2>2, <2>3, Typed
<1>10. Runs'
  BY <1>8, Fixed DEF Runs
<1>11. \A x \in Run : /\ entry[x].state = "done" => entry'[x].state = "done"
                      /\ Unfinished(x)' => Unfinished(x)
  BY <1>1, <1>5, <1>8 DEF Unfinished
<1>12. \A x \in {Exec(r)} \cup {} : x.t = "exec" \/ x.t = "state"
  BY Tags
<1>13. {Exec(r)} \in SUBSET net /\ {} \in SUBSET Message /\ IsFiniteSet({})
  BY <1>1, FS_EmptySet
<1> QED BY <1>1, <1>7, <1>8, <1>9, <1>10, <1>11, <1>12, <1>13, OneRun

---------------------------------------------------------------------------
(* Runs start.                                                             *)

\* What is somewhere is counted.
LEMMA Counted ==
  ASSUME NEW N, IsFiniteSet(N), NEW G, IsFiniteSet(G), NEW s \in Seq(Thunk), NEW P, NEW x \in P,
         x \in N \/ x \in G \/ \E i \in DOMAIN s : s[i] = x
  PROVE  Cardinality(N \cap P) + Cardinality(Places(s, P)) + Cardinality(G \cap P) # 0
<1> DEFINE a == Cardinality(N \cap P)
           b == Cardinality(Places(s, P))
           c == Cardinality(G \cap P)
<1>1. IsFiniteSet(N \cap P) /\ IsFiniteSet(G \cap P)
  BY FS_Intersection
<1>2. IsFiniteSet(Places(s, P))
  <2>1. DOMAIN s = 1..Len(s) /\ Len(s) \in Nat
    BY LenProperties
  <2>2. Places(s, P) \in SUBSET (1..Len(s)) /\ IsFiniteSet(1..Len(s))
    BY <2>1, FS_Interval DEF Places
  <2> QED BY <2>2, FS_Subset
<1>3. a \in Nat /\ b \in Nat /\ c \in Nat
  BY <1>1, <1>2, FS_CardinalityType
<1>4. a # 0 \/ b # 0 \/ c # 0
  <2>1. N \cap P # {} \/ G \cap P # {} \/ Places(s, P) # {}
    BY DEF Places
  <2> QED BY <1>1, <1>2, <2>1, FS_EmptySet
<1> HIDE DEF a, b, c
<1>5. a + b + c # 0
  BY <1>3, <1>4
<1> QED BY <1>5 DEF a, b, c

\* So what is on its way before a step, or after it, is counted there.
LEMMA CountedNow ==
  ASSUME IInv, NEW P, NEW x \in P, OnItsWay(x)
  PROVE  Queued(P) # 0
<1>1. IsFiniteSet(net) /\ IsFiniteSet(dialogs) /\ sched \in Seq(Thunk)
  BY DEF IInv, Budget, Types
<1> QED BY <1>1, Counted DEF OnItsWay, Queued, InSched

LEMMA CountedNext ==
  ASSUME IsFiniteSet(net'), IsFiniteSet(dialogs'), sched' \in Seq(Thunk),
         NEW P, NEW x \in P, OnItsWay(x)'
  PROVE  Queued(P)' # 0
<1> DEFINE N == net'
           G == dialogs'
           s == sched'
<1>1. x \in N \/ x \in G \/ \E i \in DOMAIN s : s[i] = x
  BY DEF OnItsWay
<1>2. Queued(P)' = Cardinality(N \cap P) + Cardinality(Places(s, P)) + Cardinality(G \cap P)
  BY DEF Queued, InSched
<1>3. IsFiniteSet(N) /\ IsFiniteSet(G) /\ s \in Seq(Thunk)
  OBVIOUS
<1> HIDE DEF N, G, s
<1> QED BY <1>1, <1>2, <1>3, Counted

\* And what is nowhere is not.
LEMMA NoneCounted ==
  ASSUME IInv, NEW P, \A x \in P : ~OnItsWay(x)
  PROVE  Queued(P) = 0
<1>1. net \cap P = {} /\ dialogs \cap P = {} /\ Places(sched, P) = {}
  BY DEF OnItsWay, Places
<1> QED BY <1>1, FS_EmptySet DEF Queued, InSched

\* A buffer's statements: r is the run that is started, of the statement q.k.
LEMMA ChainRuns ==
  ASSUME IInv, NEW m \in 0..ChainLen, Chain(m), NEW r \in Run, r = n + 1, NEW q \in Query,
         n' = r, chained' = chained, engine' = [engine EXCEPT ![r] = "asked"],
         entry'[r].q = q, \A x \in Run : x # r => entry'[x] = entry[x],
         \A x \in Run : State(x) \in net' <=> State(x) \in net,
         \A x \in Run : Shows(x)' # 0 => Shows(x) # 0,
         q.k = 0 => \A x \in Links : OnItsWay(x)' => OnItsWay(x),
         q.k # 0 => /\ \A x \in Links : ~OnItsWay(x)'
                    /\ \E x \in Links : OnItsWay(x) /\ x.q.k = q.k
  PROVE  Chain(m)'
<1>1. n \in Nat /\ Run = 1..MaxRuns /\ r \in Nat /\ MaxRuns \in Nat /\ n + 1 <= MaxRuns
  BY Bounds DEF IInv, Types
<1>2. \A x \in 1..r : x \in Run /\ (x = r \/ x \in 1..n)
  BY <1>1
<1>3. \A x \in 1..n : x \in Run /\ x # r /\ entry'[x] = entry[x]
  BY <1>1
<1>4. q.k # 0 => /\ q.k = m
                 /\ \A x \in 1..n : entry[x].q.k # m
                 /\ m > 1 => \E x \in 1..n : entry[x].q.k = m - 1 /\ entry[x].state = "done"
  BY DEF Chain
<1>5. m \in Nat /\ q.k \in Nat
  BY Bounds DEF Query
<1>6. entry'[r].q.k <= m
  BY <1>4, <1>5
<1>7. \A x \in 1..n' : entry'[x].q.k <= m
  BY <1>2, <1>3, <1>6 DEF Chain
<1>8. \A x, y \in 1..n' : entry'[x].q.k = entry'[y].q.k /\ entry'[x].q.k # 0 => x = y
  <2> SUFFICES ASSUME NEW x \in 1..r, NEW y \in 1..r,
                      entry'[x].q.k = entry'[y].q.k, entry'[x].q.k # 0
               PROVE  x = y
    OBVIOUS
  <2>1. CASE x \in 1..n /\ y \in 1..n
    BY <1>3, <2>1 DEF Chain
  <2>2. CASE x = r /\ y = r
    BY <2>2
  <2>3. CASE x = r /\ y \in 1..n
    BY <1>3, <1>4, <2>3
  <2>4. CASE y = r /\ x \in 1..n
    BY <1>3, <1>4, <2>4
  <2> QED BY <1>2, <2>1, <2>2, <2>3, <2>4
<1>9. \A x \in 1..n' : entry'[x].q.k > 1 =>
         \E y \in 1..(x - 1) : entry'[y].q.k = entry'[x].q.k - 1 /\ entry'[y].state = "done"
  <2> SUFFICES ASSUME NEW x \in 1..r, entry'[x].q.k > 1
               PROVE  \E y \in 1..(x - 1) : entry'[y].q.k = entry'[x].q.k - 1 /\ entry'[y].state = "done"
    OBVIOUS
  <2>1. CASE x = r
    <3>1. q.k = m /\ m > 1
      BY <1>4, <1>5, <2>1
    <3>2. PICK y \in 1..n : entry[y].q.k = m - 1 /\ entry[y].state = "done"
      BY <1>4, <1>5, <3>1
    <3>3. y \in 1..(x - 1)
      BY <1>1, <2>1
    <3> QED BY <1>3, <2>1, <3>1, <3>2, <3>3
  <2>2. CASE x \in 1..n
    <3>1. PICK y \in 1..(x - 1) : entry[y].q.k = entry[x].q.k - 1 /\ entry[y].state = "done"
      BY <1>3, <2>2 DEF Chain
    <3>2. y \in 1..n
      BY <1>1, <2>2
    <3> QED BY <1>3, <2>2, <3>1, <3>2
  <2> QED BY <1>2, <2>1, <2>2
<1>10. \A x \in 1..n' : entry'[x].q.k # 0 /\ Unfinished(x)' => entry'[x].q.k = m
  <2> SUFFICES ASSUME NEW x \in 1..r, entry'[x].q.k # 0, Unfinished(x)'
               PROVE  entry'[x].q.k = m
    OBVIOUS
  <2>1. CASE x = r
    BY <1>4, <2>1
  <2>2. CASE x \in 1..n
    <3>1. x \in Run /\ x # r
      BY <1>3, <2>2
    <3>2. engine'[x] = engine[x]
      BY <3>1 DEF IInv, Types
    <3>3. State(x)' = State(x)
      BY DEF State
    <3>4. Unfinished(x)
      BY <3>1, <3>2, <3>3 DEF Unfinished
    <3> QED BY <1>3, <2>2, <3>4 DEF Chain
  <2> QED BY <1>2, <2>1, <2>2
<1>11. \A x \in Links : OnItsWay(x)' =>
          /\ x.q.k = m
          /\ \A y \in 1..n' : entry'[y].q.k # m
          /\ m > 1 => \E y \in 1..n' : entry'[y].q.k = m - 1 /\ entry'[y].state = "done"
  <2> SUFFICES ASSUME NEW x \in Links, OnItsWay(x)'
               PROVE  /\ x.q.k = m
                      /\ \A y \in 1..r : entry'[y].q.k # m
                      /\ m > 1 => \E y \in 1..r : entry'[y].q.k = m - 1 /\ entry'[y].state = "done"
    OBVIOUS
  <2>1. q.k = 0 /\ OnItsWay(x)
    OBVIOUS
  <2>2. /\ x.q.k = m
        /\ \A y \in 1..n : entry[y].q.k # m
        /\ m > 1 => \E y \in 1..n : entry[y].q.k = m - 1 /\ entry[y].state = "done"
    BY <2>1 DEF Chain
  <2>3. m # 0
    BY <2>2 DEF Links
  <2>4. \A y \in 1..r : entry'[y].q.k # m
    BY <1>2, <1>3, <2>1, <2>2, <2>3
  <2>5. \A y \in 1..n : y \in 1..r
    BY <1>1
  <2> QED BY <1>3, <2>2, <2>4, <2>5
<1>12. chained' <=> m # 0
  BY DEF Chain
<1> QED BY <1>7, <1>8, <1>9, <1>10, <1>11, <1>12, Fixed DEF Chain

\* A statement runs: D and T hold the dialog or the scheduled function that runs
\* it, or the user's key paid for it.
LEMMA RunStep ==
  ASSUME IInv, NEW q \in Query, NEW land \in Offset, RunStatement(q, land, net),
         NEW D \in SUBSET dialogs, dialogs' = (dialogs \ D) \cup {}, IsFiniteSet(D),
         NEW T, IsFiniteSet(T),
         \/ UNCHANGED sched /\ T = {}
         \/ sched # <<>> /\ sched' = Tail(sched) /\ T = {Head(sched)},
         UNCHANGED <<opens, chained>>, spent' \in 0..MaxRuns,
         Cardinality(D \cap Purse) + Cardinality(T \cap Purse) + spent' >= spent + 1,
         q.k # 0 => /\ Cardinality(D \cap Links) + Cardinality(T \cap Links) # 0
                    /\ \E x \in Links : OnItsWay(x) /\ x.q.k = q.k
  PROVE  IInv'
<1> DEFINE r == n + 1
           g == shown.gen + 1
           A == FetchTotal(q.origin, g) \cup {Exec(r)}
           Z == {}
<1>1. /\ n' = r /\ edit' = {}
      /\ shown' = [conn |-> q.conn, stmt |-> q.stmt, origin |-> q.origin,
                   call |-> 0, page |-> 0, offset |-> 0, gen |-> g, total |-> 0]
      /\ entry' = [entry EXCEPT ![r] = [q |-> q, state |-> "running", call |-> 0,
                                        offset |-> 0, land |-> land]]
      /\ Logged(r) /\ engine' = [engine EXCEPT ![r] = "asked"]
      /\ net' = (net \ Z) \cup A
      /\ UNCHANGED <<view, open, held>>
  BY DEF RunStatement
<1>2. Types /\ Gens /\ LogOK
  BY DEF IInv
<1>3. \A x \in A : x.t \in {"count", "exec"} /\ (x.t = "exec" => x = Exec(r))
                   /\ (x.t = "count" => x = Count(g) /\ q.origin # None)
  <2>1. \A x \in FetchTotal(q.origin, g) : x = Count(g) /\ q.origin # None
    BY DEF FetchTotal
  <2> QED BY <2>1, Tags
<1>4. IsFiniteSet(A)
  <2>1. IsFiniteSet(FetchTotal(q.origin, g)) /\ IsFiniteSet({Exec(r)})
    BY FS_EmptySet, FS_Singleton DEF FetchTotal
  <2> DEFINE B == FetchTotal(q.origin, g)
             C == {Exec(r)}
  <2>2. A = B \cup C
    OBVIOUS
  <2> HIDE DEF B, C
  <2> QED BY <2>1, <2>2, FS_Union DEF B, C
<1>5. IsFiniteSet(Z) /\ Cardinality(Z) = 0 /\ Z \in SUBSET net
  BY FS_EmptySet
<1>6. Moves(Z, A, D, Z, T, Z) /\ sched' \in Seq(Thunk)
  <2> HIDE DEF A
  <2>1. CASE UNCHANGED sched /\ T = {}
    <3>1. Moves(Z, A, D, Z, Z, Z)
      BY <1>1, <1>4, <1>5, <2>1, MovesIdle
    <3> QED BY <1>2, <2>1, <3>1 DEF Types
  <2>2. CASE sched # <<>> /\ sched' = Tail(sched) /\ T = {Head(sched)}
    <3>1. Moves(Z, A, D, Z, {Head(sched)}, Z) /\ sched' \in Seq(Thunk)
      BY <1>1, <1>4, <1>5, <2>2, MovesDue
    <3> QED BY <2>2, <3>1
  <2> QED BY <2>1, <2>2
<1>7. /\ A \cap Purse = Z /\ A \cap Links = Z /\ Z \cap Purse = Z /\ Z \cap Links = Z
  <2>1. \A x \in A : x \notin Purse /\ x \notin Links
    BY <1>3 DEF Purse, Links
  <2> QED BY <2>1
<1> HIDE DEF A, Z
<1>8. PICK m \in 0..ChainLen : Chain(m) /\ n + Queued(Purse) + Cardinality(edit) + Rest(m) <= spent
  BY DEF IInv, Budget
<1> DEFINE u == Queued(Links)'
           w == Queued(Purse)'
           dl == Cardinality(D \cap Links)
           tl == Cardinality(T \cap Links)
           dp == Cardinality(D \cap Purse)
           tp == Cardinality(T \cap Purse)
<1>9. /\ IsFiniteSet(net') /\ IsFiniteSet(dialogs')
      /\ u \in Nat /\ w \in Nat /\ dl \in Nat /\ tl \in Nat /\ dp \in Nat /\ tp \in Nat
      /\ Queued(Links) \in Nat /\ Queued(Purse) \in Nat
      /\ u + dl + tl <= Queued(Links) /\ w + dp + tp <= Queued(Purse)
  <2>1. /\ IsFiniteSet(net') /\ IsFiniteSet(dialogs') /\ Queued(Links) \in Nat /\ u \in Nat
        /\ dl \in Nat /\ tl \in Nat
        /\ u + Cardinality(Z \cap Links) + dl + tl
             <= Queued(Links) + Cardinality(A \cap Links) + Cardinality(Z \cap Links) + Cardinality(Z \cap Links)
    BY <1>6, MovesCount, Fixed
  <2>2. /\ Queued(Purse) \in Nat /\ w \in Nat /\ dp \in Nat /\ tp \in Nat
        /\ w + Cardinality(Z \cap Purse) + dp + tp
             <= Queued(Purse) + Cardinality(A \cap Purse) + Cardinality(Z \cap Purse) + Cardinality(Z \cap Purse)
    BY <1>6, MovesCount, Fixed
  <2> HIDE DEF u, w, dl, tl, dp, tp
  <2>3. \A a, b, c, d \in Nat : a + 0 + b + c <= d + 0 + 0 + 0 => a + b + c <= d
    OBVIOUS
  <2>4. u + dl + tl <= Queued(Links)
    BY <1>5, <1>7, <2>1, <2>3
  <2>5. w + dp + tp <= Queued(Purse)
    BY <1>5, <1>7, <2>2, <2>3
  <2> QED BY <2>1, <2>2, <2>4, <2>5
<1>10. dp + tp + spent' >= spent + 1
  OBVIOUS
<1>11. q.k # 0 => dl + tl # 0
  OBVIOUS
<1>12. /\ spent \in Nat /\ spent' \in Nat /\ spent' <= MaxRuns /\ n \in Nat /\ opens \in Nat
       /\ Cardinality(edit) \in Nat /\ Rest(m) \in Nat /\ MaxRuns \in Nat
       /\ opens <= MaxOpens /\ MaxOpens \in Nat
  BY <1>2, Numbers, Bounds DEF Types, Rest
<1> DEFINE v == spent'
<1> HIDE DEF u, w, dl, tl, dp, tp, v
<1>13. r <= v /\ r <= MaxRuns /\ r \in Nat /\ r # 0 /\ n <= r
       /\ r + w + 0 + Rest(m) <= v
  <2> DEFINE a == Queued(Purse)
             c == Cardinality(edit)
             d == Rest(m)
  <2>1. a \in Nat /\ c \in Nat /\ d \in Nat /\ n + a + c + d <= spent /\ w + dp + tp <= a
    BY <1>8, <1>9, <1>12
  <2>2. v \in Nat /\ dp + tp + v >= spent + 1 /\ v <= MaxRuns
    BY <1>10, <1>12 DEF v
  <2> HIDE DEF a, c, d
  <2>3. (n + 1) + w + 0 + d <= v
    BY <1>9, <1>12, <2>1, <2>2
  <2>4. \A i1, i2, i3, i4, i5 \in Nat : (i1 + 1) + i2 + 0 + i3 <= i4 /\ i4 <= i5
           => i1 + 1 <= i4 /\ i1 + 1 <= i5 /\ i1 + 1 # 0 /\ i1 <= i1 + 1 /\ i1 + 1 \in Nat
    OBVIOUS
  <2> QED BY <1>9, <1>12, <2>1, <2>2, <2>3, <2>4 DEF d
<1>14. r \in Run
  BY <1>13, Bounds
<1>15. g \in Gen /\ g = r + opens' /\ g # 0 /\ shown.gen \in Nat /\ g \in Nat
  <2>1. shown.gen = n + opens /\ opens' = opens
    BY <1>2 DEF Gens
  <2>2. \A a, b, c, d \in Nat : a + 1 <= c /\ b <= d =>
           /\ (a + b) + 1 \in 0..(c + d) /\ (a + b) + 1 = (a + 1) + b /\ (a + b) + 1 # 0
           /\ a + b \in Nat /\ (a + b) + 1 \in Nat
    OBVIOUS
  <2> QED BY <1>12, <1>13, <2>1, <2>2, Bounds
<1>16. /\ entry' \in [Run -> Entry]
       /\ \A x \in Run : x # r => entry'[x] = entry[x]
       /\ entry'[r].q = q /\ entry'[r].state = "running" /\ entry'[r].call = 0
  <2> DEFINE e == [q |-> q, state |-> "running", call |-> 0, offset |-> 0, land |-> land]
  <2>1. e \in Entry /\ e.q = q /\ e.state = "running" /\ e.call = 0
    BY Bounds DEF Entry
  <2>2. entry' = [entry EXCEPT ![r] = e]
    BY <1>1
  <2> HIDE DEF e, r
  <2> QED BY <1>2, <1>14, <2>1, <2>2 DEF Types
<1> HIDE DEF r, g
<1>17. /\ \A x \in Run : /\ Exec(x)' = Exec(x) /\ State(x)' = State(x)
                         /\ State(x) \in net' <=> State(x) \in net
                         /\ x # r => (Exec(x) \in net' <=> Exec(x) \in net)
       /\ Exec(r) \in net'
  <2>1. \A x : Exec(x)' = Exec(x) /\ State(x)' = State(x)
    BY DEF Exec, State
  <2>2. \A x : State(x) \notin A /\ (x # r => Exec(x) \notin A)
    BY <1>3, Tags
  <2>3. Exec(r) \in A
    BY DEF A
  <2> QED BY <1>1, <2>1, <2>2, <2>3 DEF Z
<1>18. \A x \in Run : Shows(x)' \in Nat /\ Shows(x) \in Nat /\ Shows(x)' <= Shows(x)
  <2> SUFFICES ASSUME NEW x \in Run
               PROVE  Shows(x)' \in Nat /\ Shows(x) \in Nat /\ Shows(x)' <= Shows(x)
    OBVIOUS
  <2> DEFINE P == {Show(x)}
             a == InSched(P)'
             b == Cardinality(T \cap P)
  <2>1. InSched(P) \in Nat
    BY Countable
  <2>2. a \in Nat /\ b \in Nat /\ a + b = InSched(P) + Cardinality(Z \cap P)
    <3>1. b \in Nat
      BY FS_Intersection, FS_CardinalityType
    <3>2. /\ \A Q : InSched(Q)' \in Nat
          /\ \A Q : InSched(Q)' + Cardinality(T \cap Q) = InSched(Q) + Cardinality(Z \cap Q)
      BY <1>6 DEF Moves
    <3> QED BY <3>1, <3>2
  <2>3. Cardinality(Z \cap P) = 0
    BY FewItems DEF Z
  <2>4. Shows(x)' = a /\ Shows(x) = InSched(P)
    BY DEF Shows, Show
  <2> HIDE DEF a, b, P
  <2>5. \A i, j, k \in Nat : i + j = k + 0 => i <= k
    OBVIOUS
  <2> QED BY <2>1, <2>2, <2>3, <2>4, <2>5
<1>19. r > n /\ engine[r] = "none" /\ entry[r].state = "none" /\ entry[r].call = 0
  <2>1. r > n
    BY <1>12 DEF r
  <2> QED BY <1>14, <2>1, Unborn
<1>20. Types'
  <2>1. net' \in SUBSET Message
    <3>1. Exec(r) \in Message /\ Count(g) \in Message
      BY <1>14, <1>15, AreMessages
    <3> QED BY <1>1, <1>2, <1>3, <3>1 DEF Types
  <2>2. /\ shown' \in [conn : Conn \cup {None}, stmt : Obj \cup {AdHoc, None},
                       origin : Obj \cup {None}, call : 0..MaxRuns, page : 0..MaxRuns,
                       offset : Offset, gen : Gen, total : Gen]
    <3>1. 0 \in 0..MaxRuns /\ 0 \in Offset /\ 0 \in Gen
      BY Bounds
    <3>2. /\ q.conn \in Conn /\ q.stmt \in Obj \cup {AdHoc, None} /\ q.origin \in Obj \cup {None}
      BY DEF Query
    <3> QED BY <1>1, <1>15, <3>1, <3>2
  <2>3. log' \in Seq(0..MaxRuns)
    <3>1. r \in 0..MaxRuns /\ r <= n' /\ n' \in Nat /\ n <= n'
      BY <1>1, <1>13, Bounds
    <3> QED BY <1>1, <3>1, LogTakes
  <2>4. grid' \in BOOLEAN
    BY <1>2 DEF RunStatement, Types
  <2>5. engine' \in [Run -> {"none", "asked", "refused", "running", "done", "failed"}]
    BY <1>1, <1>2, <1>14 DEF Types
  <2>6. n' \in 0..MaxRuns
    BY <1>1, <1>13
  <2>7. /\ opens' \in 0..MaxOpens /\ chained' \in BOOLEAN /\ dialogs' \in SUBSET Dialog
        /\ view' \in {"result", "log"} /\ open' \in BOOLEAN /\ held' \in SUBSET Run
    BY <1>1, <1>2 DEF Types
  <2>8. edit' \in SUBSET Lock
    BY <1>1
  <2> QED BY <1>6, <1>16, <2>1, <2>2, <2>3, <2>4, <2>5, <2>6, <2>7, <2>8, Typed
<1>21. Runs'
  <2> SUFFICES ASSUME NEW x \in Run PROVE RunOK(x)'
    BY Fixed DEF Runs
  <2>1. RunOK(x)
    BY DEF IInv, Runs
  <2>2. Shows(x)' <= 1 /\ (Shows(x)' # 0 => Shows(x) # 0)
    <3>1. Shows(x) \in Nat /\ Shows(x)' \in Nat /\ Shows(x)' <= Shows(x) /\ Shows(x) <= 1
      BY <1>18, <2>1 DEF RunOK
    <3>2. \A a, b \in Nat : a <= b /\ b <= 1 => a <= 1 /\ (a # 0 => b # 0)
      OBVIOUS
    <3> QED BY <3>1, <3>2
  <2>3. CASE x = r
    <3>1. engine'[r] = "asked"
      BY <1>1, <1>2, <1>14 DEF Types
    <3>2. ~(r > n') /\ r <= n'
      BY <1>1, <1>13
    <3>3. State(r) \notin net
      BY <1>19, <2>1, <2>3 DEF RunOK
    <3>4. Shows(x)' = 0
      <4>1. Shows(x) = 0
        BY <1>19, <2>1, <2>3 DEF RunOK
      <4> QED BY <1>18, <2>2, <4>1
    <3>5. x \notin held'
      BY <1>1, <1>19, <2>1, <2>3 DEF RunOK
    <3>6. /\ engine'[x] = "asked" /\ ~(x > n') /\ x <= n' /\ Exec(x)' \in net'
          /\ entry'[x].call = 0 /\ entry'[x].state = "running" /\ State(x)' \notin net'
      BY <1>14, <1>16, <1>17, <2>3, <3>1, <3>2, <3>3
    <3> QED BY <3>4, <3>5, <3>6 DEF RunOK
  <2>4. CASE x # r
    <3>1. engine'[x] = engine[x] /\ entry'[x] = entry[x]
      BY <1>1, <1>2, <1>16, <2>4 DEF Types
    <3>2. (x > n' => x > n) /\ (x <= n' => x <= n)
      <4>1. x \in Nat
        BY Bounds
      <4>2. \A a, b, c \in Nat : c = b + 1 /\ a # c => (a > c => a > b) /\ (a <= c => a <= b)
        OBVIOUS
      <4> QED BY <1>1, <1>12, <1>13, <2>4, <4>1, <4>2 DEF r
    <3> QED BY <1>1, <1>17, <2>1, <2>2, <2>4, <3>1, <3>2 DEF RunOK
  <2> QED BY <2>3, <2>4
<1>22. LogOK' /\ Bounded'
  <2>1. r \in 0..MaxRuns /\ r <= n' /\ n' \in Nat /\ n <= n'
    BY <1>1, <1>13, Bounds
  <2>2. /\ LogOK'
        /\ \A i \in DOMAIN log' : log'[i] = r \/ \E j \in DOMAIN log : log'[i] = log[j]
    BY <1>1, <2>1, LogTakes
  <2>3. LiveRuns' \subseteq LiveRuns
    <3> SUFFICES ASSUME NEW x \in LiveRuns' PROVE x \in LiveRuns
      OBVIOUS
    <3>1. x \in Run /\ entry'[x].call # 0 /\ \E i \in DOMAIN log' : log'[i] = x
      BY Fixed DEF LiveRuns
    <3>2. x # r
      BY <1>16, <3>1
    <3> QED BY <1>16, <2>2, <3>1, <3>2 DEF LiveRuns
  <2> QED BY <2>2, <2>3, BoundedKept
<1>23. Gens'
  <2>1. ASSUME NEW h \in Gen, Count(h) \in net'
        PROVE  h # 0 /\ h <= g /\ (h = g => q.origin # None)
    <3>1. h \in Nat /\ g = shown.gen + 1
      BY Bounds DEF g
    <3>2. CASE Count(h) \in net
      <4>1. h # 0 /\ h <= shown.gen
        BY <1>2, <3>2 DEF Gens
      <4>2. \A a, b, c \in Nat : a <= b /\ c = b + 1 => a <= c /\ a # c
        OBVIOUS
      <4> QED BY <1>15, <3>1, <4>1, <4>2
    <3>3. CASE Count(h) \in A
      <4>1. h = g /\ q.origin # None
        BY <1>3, <3>3, Tags
      <4> QED BY <1>15, <4>1
    <3> QED BY <1>1, <2>1, <3>2, <3>3
  <2>2. \A h : Count(h)' = Count(h)
    BY DEF Count
  <2>3. /\ shown'.gen = g /\ shown'.origin = q.origin /\ shown'.total = 0
        /\ g = n' + opens'
    BY <1>1, <1>15
  <2> QED BY <2>1, <2>2, <2>3, Fixed DEF Gens
<1>24. Begun'
  <2>1. n' # 0 /\ shown'.conn \in Conn
    BY <1>1, <1>13 DEF Query
  <2> QED BY <2>1 DEF Begun
<1>25. u <= 1 /\ (q.k # 0 => u = 0)
  <2>1. Queued(Links) <= 1
    BY DEF IInv, Budget
  <2>2. \A a, b, c, d \in Nat : a + b + c <= d /\ d <= 1 => a <= 1 /\ (b + c # 0 => a = 0)
    OBVIOUS
  <2> QED BY <1>9, <1>11, <2>1, <2>2
<1>26. Chain(m)'
  <2>1. ASSUME q.k = 0, NEW x \in Links, OnItsWay(x)'
        PROVE  OnItsWay(x)
    <3>1. OnItsWay(x) \/ x \in A \/ x \in Z \/ x \in Z
      BY <1>6, <2>1, MovesWay
    <3> QED BY <1>7, <3>1 DEF Z
  <2>2. ASSUME q.k # 0, NEW x \in Links
        PROVE  ~OnItsWay(x)'
    <3>1. Queued(Links)' = 0
      BY <1>25, <2>2 DEF u
    <3> QED BY <1>6, <1>9, <3>1, CountedNext, Fixed
  <2>3. \A x \in Run : Shows(x)' # 0 => Shows(x) # 0
    <3>1. \A a, b \in Nat : a <= b /\ a # 0 => b # 0
      OBVIOUS
    <3> QED BY <1>18, <3>1
  <2>4. r = n + 1
    BY DEF r
  <2>5. chained' = chained
    OBVIOUS
  <2> QED BY <1>1, <1>8, <1>14, <1>16, <1>17, <2>1, <2>2, <2>3, <2>4, <2>5, ChainRuns
<1>27. Budget'
  <2>1. IsFiniteSet(edit') /\ Cardinality(edit') = 0
    BY <1>1, FS_EmptySet
  <2>2. Queued(Links)' <= 1
    BY <1>25 DEF u
  <2>3. n' + Queued(Purse)' + Cardinality(edit') + Rest(m) <= spent'
    <3>1. n' = r /\ Queued(Purse)' = w /\ spent' = v
      BY <1>1 DEF w, v
    <3> QED BY <1>13, <2>1, <3>1
  <2>4. Cardinality(edit') <= 1
    BY <2>1
  <2> QED BY <1>9, <1>26, <2>1, <2>2, <2>3, <2>4 DEF Budget, Rest
<1> QED BY <1>20, <1>21, <1>22, <1>23, <1>24, <1>27 DEF IInv
\* A request is a query that an entry of the log may hold.
LEMMA Queries ==
    /\ \A q \in Request : q \in Query
    /\ \A c \in Conn, s \in Obj \cup {AdHoc, None}, o \in Obj \cup {None} :
          [conn |-> c, stmt |-> s, origin |-> o, k |-> 0] \in Query
    /\ \A q \in Query :
          /\ [q EXCEPT !.origin = None, !.k = 0] \in Query
          /\ [q EXCEPT !.origin = None, !.k = 0].k = 0
    /\ 0 \in Offset
<1>1. 0 \in 0..ChainLen /\ 0 \in Offset
  BY Bounds
<1>2. \A q \in Request : q \in Query
  BY DEF Request, Query
<1>3. \A c \in Conn, s \in Obj \cup {AdHoc, None}, o \in Obj \cup {None} :
         [conn |-> c, stmt |-> s, origin |-> o, k |-> 0] \in Query
  BY <1>1 DEF Query
<1>4. ASSUME NEW q \in Query
      PROVE  /\ [q EXCEPT !.origin = None, !.k = 0] \in Query
             /\ [q EXCEPT !.origin = None, !.k = 0].k = 0
  <2>1. None \in Obj \cup {None}
    OBVIOUS
  <2>2. [q EXCEPT !.origin = None, !.k = 0] \in Query
    BY <1>1, <2>1 DEF Query
  <2>3. [q EXCEPT !.origin = None, !.k = 0].k = 0
    BY DEF Query
  <2> QED BY <2>2, <2>3
<1> QED BY <1>1, <1>2, <1>3, <1>4

\* One thing that stood for the statement is counted.
LEMMA OnePays ==
  ASSUME NEW x \in Item, x.t \in {"start", "ask"}
  PROVE  /\ Cardinality({x} \cap Purse) = 1 /\ \A P : Cardinality({} \cap P) = 0
         /\ x.q.k # 0 => x \in Links /\ Cardinality({x} \cap Links) = 1
<1>1. x \in Purse /\ (x.q.k # 0 => x \in Links)
  BY Kinds
<1> QED BY <1>1, FewItems

\* A statement found harmless runs.
LEMMA DueStartStep ==
  ASSUME IInv, DueStart
  PROVE  IInv'
<1> DEFINE x == Head(sched)
           Z == {}
<1>1. /\ sched # <<>> /\ sched' = Tail(sched) /\ x.t = "start"
      /\ RunStatement(x.q, 0, net) /\ dialogs' = (dialogs \ Z) \cup {}
      /\ UNCHANGED <<opens, chained>> /\ spent' = spent
  BY DEF DueStart, Due
<1>2. x \in Thunk /\ OnItsWay(x)
  BY <1>1, Taken
<1>3. x.q \in Query
  BY <1>1, <1>2, ThunkIs, Queries
<1>4. /\ Cardinality({x} \cap Purse) = 1 /\ Cardinality(Z \cap Purse) = 0
      /\ Cardinality(Z \cap Links) = 0
      /\ x.q.k # 0 => x \in Links /\ Cardinality({x} \cap Links) = 1
  BY <1>1, <1>2, Kinds, OnePays
<1>5. Z \in SUBSET dialogs /\ IsFiniteSet(Z) /\ IsFiniteSet({x})
  BY FewItems
<1>6. /\ spent' \in 0..MaxRuns
      /\ Cardinality(Z \cap Purse) + Cardinality({x} \cap Purse) + spent' >= spent + 1
  <2>1. spent \in Nat /\ spent \in 0..MaxRuns
    BY Numbers DEF IInv, Types
  <2>2. \A a \in Nat : 0 + 1 + a >= a + 1
    OBVIOUS
  <2> QED BY <1>1, <1>4, <2>1, <2>2
<1>7. x.q.k # 0 => /\ Cardinality(Z \cap Links) + Cardinality({x} \cap Links) # 0
                   /\ \E y \in Links : OnItsWay(y) /\ y.q.k = x.q.k
  BY <1>2, <1>4
<1> DEFINE q == x.q
           T == {x}
<1>8. sched # <<>> /\ sched' = Tail(sched) /\ T = {Head(sched)}
  BY <1>1
<1>9. /\ q \in Query /\ 0 \in Offset /\ RunStatement(q, 0, net)
      /\ IsFiniteSet(T) /\ UNCHANGED <<opens, chained>>
      /\ Cardinality(Z \cap Purse) + Cardinality(T \cap Purse) + spent' >= spent + 1
      /\ q.k # 0 => /\ Cardinality(Z \cap Links) + Cardinality(T \cap Links) # 0
                    /\ \E y \in Links : OnItsWay(y) /\ y.q.k = q.k
  BY <1>1, <1>3, <1>5, <1>6, <1>7, Queries
<1>10. dialogs' = (dialogs \ Z) \cup {}
  BY <1>1
<1> HIDE DEF Z, q, T, x
<1> QED BY <1>5, <1>6, <1>8, <1>9, <1>10, RunStep

\* The user answers "Run it anyway?" with yes.
LEMMA AnswerYesStep ==
  ASSUME IInv, NEW d \in dialogs, AnswerAsk(d, TRUE)
  PROVE  IInv'
<1> DEFINE Z == {}
           D == {d}
           q == d.q
<1>1. /\ d.t = "ask" /\ dialogs' = (dialogs \ D) \cup {} /\ RunStatement(q, 0, net)
      /\ UNCHANGED <<opens, chained>> /\ spent' = spent /\ sched' = sched
  BY DEF AnswerAsk
<1>2. d \in Dialog /\ OnItsWay(d)
  BY DEF IInv, Types, OnItsWay
<1>3. q \in Query /\ 0 \in Offset
  BY <1>1, <1>2, DialogIs, Queries
<1>4. /\ Cardinality(D \cap Purse) = 1 /\ Cardinality(Z \cap Purse) = 0
      /\ Cardinality(Z \cap Links) = 0
      /\ q.k # 0 => d \in Links /\ Cardinality(D \cap Links) = 1
  BY <1>1, <1>2, Kinds, OnePays
<1>5. D \in SUBSET dialogs /\ IsFiniteSet(Z) /\ IsFiniteSet(D)
  BY FewItems
<1>6. /\ spent' \in 0..MaxRuns
      /\ Cardinality(D \cap Purse) + Cardinality(Z \cap Purse) + spent' >= spent + 1
  <2>1. spent \in Nat /\ spent \in 0..MaxRuns
    BY Numbers DEF IInv, Types
  <2>2. \A a \in Nat : 1 + 0 + a >= a + 1
    OBVIOUS
  <2> QED BY <1>1, <1>4, <2>1, <2>2
<1>7. q.k # 0 => /\ Cardinality(D \cap Links) + Cardinality(Z \cap Links) # 0
                 /\ \E y \in Links : OnItsWay(y) /\ y.q.k = q.k
  BY <1>2, <1>4
<1>8. UNCHANGED sched /\ Z = {}
  BY <1>1
<1>9. dialogs' = (dialogs \ D) \cup {}
  BY <1>1
<1>10. RunStatement(q, 0, net) /\ UNCHANGED <<opens, chained>>
  BY <1>1
<1> HIDE DEF Z, D, q
<1> QED BY <1>3, <1>5, <1>6, <1>7, <1>8, <1>9, <1>10, RunStep
\* Behind a row write the current statement runs again.
LEMMA DueRefreshStep ==
  ASSUME IInv, DueRefresh
  PROVE  IInv'
<1> DEFINE x == Head(sched)
           Z == {}
           T == {x}
           q == [conn |-> x.conn, stmt |-> shown.stmt, origin |-> shown.origin, k |-> 0]
           land == shown.offset
<1>1. /\ sched # <<>> /\ sched' = Tail(sched) /\ x.t = "refresh"
      /\ RunStatement(q, land, net) /\ dialogs' = (dialogs \ Z) \cup {}
      /\ UNCHANGED <<opens, chained>> /\ spent' = spent
  BY DEF DueRefresh, Due
<1>2. x \in Thunk
  BY <1>1, Taken
<1>3. x.conn \in Conn
  BY <1>1, <1>2, ThunkIs
<1>4. shown.stmt \in Obj \cup {AdHoc, None} /\ shown.origin \in Obj \cup {None} /\ land \in Offset
  BY DEF IInv, Types
<1>5. q \in Query /\ q.k = 0
  BY <1>3, <1>4, Queries
<1>6. Cardinality(T \cap Purse) = 1 /\ Cardinality(Z \cap Purse) = 0
  <2>1. x \in Purse
    BY <1>1, <1>2, Kinds
  <2> QED BY <2>1, FewItems
<1>7. Z \in SUBSET dialogs /\ IsFiniteSet(Z) /\ IsFiniteSet(T)
  BY FewItems
<1>8. /\ spent' \in 0..MaxRuns
      /\ Cardinality(Z \cap Purse) + Cardinality(T \cap Purse) + spent' >= spent + 1
  <2>1. spent \in Nat /\ spent \in 0..MaxRuns
    BY Numbers DEF IInv, Types
  <2>2. \A a \in Nat : 0 + 1 + a >= a + 1
    OBVIOUS
  <2> QED BY <1>1, <1>6, <2>1, <2>2
<1>9. sched # <<>> /\ sched' = Tail(sched) /\ T = {Head(sched)}
  BY <1>1
<1>10. dialogs' = (dialogs \ Z) \cup {} /\ RunStatement(q, land, net) /\ UNCHANGED <<opens, chained>>
  BY <1>1
<1>11. q.k # 0 => /\ Cardinality(Z \cap Links) + Cardinality(T \cap Links) # 0
                  /\ \E y \in Links : OnItsWay(y) /\ y.q.k = q.k
  BY <1>5
<1> HIDE DEF Z, q, T, x, land
<1> QED BY <1>4, <1>5, <1>7, <1>8, <1>9, <1>10, <1>11, RunStep

\* A logged statement runs again.
LEMMA RerunStep ==
  ASSUME IInv, NEW r \in Run, Rerun(r)
  PROVE  IInv'
<1> DEFINE Z == {}
           q == [entry[r].q EXCEPT !.origin = None, !.k = 0]
<1>1. /\ dialogs' = (dialogs \ Z) \cup {} /\ RunStatement(q, 0, net)
      /\ UNCHANGED <<opens, chained>> /\ spent < MaxRuns /\ spent' = spent + 1 /\ sched' = sched
  BY DEF Rerun
<1>2. q \in Query /\ q.k = 0 /\ 0 \in Offset
  <2>1. entry[r].q \in Query
    BY DEF IInv, Types, Entry
  <2> QED BY <2>1, Queries
<1>3. Z \in SUBSET dialogs /\ IsFiniteSet(Z) /\ Cardinality(Z \cap Purse) = 0
  BY FewItems
<1>4. /\ spent' \in 0..MaxRuns
      /\ Cardinality(Z \cap Purse) + Cardinality(Z \cap Purse) + spent' >= spent + 1
  <2>1. spent \in Nat /\ MaxRuns \in Nat
    BY Numbers, Bounds
  <2>2. \A a, b \in Nat : 0 + 0 + (a + 1) >= a + 1 /\ (a < b => a + 1 \in 0..b)
    OBVIOUS
  <2> QED BY <1>1, <1>3, <2>1, <2>2
<1>5. UNCHANGED sched /\ Z = {}
  BY <1>1
<1>6. dialogs' = (dialogs \ Z) \cup {} /\ RunStatement(q, 0, net) /\ UNCHANGED <<opens, chained>>
  BY <1>1
<1>7. q.k # 0 => /\ Cardinality(Z \cap Links) + Cardinality(Z \cap Links) # 0
                 /\ \E y \in Links : OnItsWay(y) /\ y.q.k = q.k
  BY <1>2
<1> HIDE DEF Z, q
<1> QED BY <1>2, <1>3, <1>4, <1>5, <1>6, <1>7, RunStep
---------------------------------------------------------------------------
(* The buffer's next statement.                                            *)

\* Nothing is scheduled to be shown, and perhaps something no more.
LEMMA ShownLess ==
  ASSUME IInv, NEW M, NEW A, NEW D, NEW E, NEW T, NEW S, Moves(M, A, D, E, T, S), S = {},
         NEW r \in Run
  PROVE  /\ Shows(r) \in Nat /\ Shows(r)' \in Nat /\ Shows(r)' <= Shows(r)
         /\ T = {Show(r)} => Shows(r)' + 1 = Shows(r)
<1> DEFINE P == {Show(r)}
           a == InSched(P)'
           b == Cardinality(T \cap P)
<1>1. InSched(P) \in Nat
  BY Countable
<1>2. a \in Nat /\ b \in Nat /\ a + b = InSched(P) + Cardinality(S \cap P)
  <2>1. b \in Nat
    BY FS_Intersection, FS_CardinalityType DEF Moves
  <2>2. /\ \A Q : InSched(Q)' \in Nat
        /\ \A Q : InSched(Q)' + Cardinality(T \cap Q) = InSched(Q) + Cardinality(S \cap Q)
    BY DEF Moves
  <2> QED BY <2>1, <2>2
<1>3. Cardinality(S \cap P) = 0
  BY FewItems
<1>4. T = {Show(r)} => b = 1
  BY FewItems
<1>5. Shows(r)' = a /\ Shows(r) = InSched(P)
  BY DEF Shows, Show
<1> HIDE DEF a, b, P
<1>6. \A i, j, k \in Nat : i + j = k + 0 => i <= k /\ (j = 1 => i + 1 = k)
  OBVIOUS
<1> QED BY <1>1, <1>2, <1>3, <1>4, <1>5, <1>6

\* Statement k of the buffer is asked about, and perhaps a page, while no other
\* is on its way and the one before it is done.
LEMMA NextLink ==
  ASSUME IInv, NEW x \in Message, x.t = "classify", NEW k \in 1..ChainLen, x.q.k = k,
         NEW G, \A y \in G : y \in Message /\ y.t = "page",
         NEW A, A = G \cup {x}, NEW Z, Z = {}, NEW T, Moves(Z, A, Z, Z, T, Z),
         sched' \in Seq(Thunk),
         UNCHANGED <<shown, edit, entry, log, n, engine, held, opens>>,
         view' \in {"result", "log"}, open' \in BOOLEAN, grid' \in BOOLEAN,
         spent' \in 0..MaxRuns, chained' = TRUE,
         \A y \in Links : ~OnItsWay(y),
         NEW m \in 0..ChainLen, k = m + 1, Chain(m),
         n + Queued(Purse) + Cardinality(edit) + Rest(m) <= spent,
         spent + 1 + Rest(k) <= spent' + Rest(m),
         m # 0 => \E r \in 1..n : entry[r].q.k = m /\ entry[r].state = "done",
         \A r \in 1..n : entry[r].q.k = m /\ m # 0 => ~Unfinished(r)'
  PROVE  IInv'
<1>1. Types
  BY DEF IInv
<1>2. \A y \in A : y \in Message /\ y.t \in {"page", "classify"}
  OBVIOUS
<1>3. Types'
  <2>1. net' \in SUBSET Message /\ dialogs' \in SUBSET Dialog
    BY <1>1, <1>2 DEF Types, Moves
  <2>2. /\ shown' \in [conn : Conn \cup {None}, stmt : Obj \cup {AdHoc, None},
                       origin : Obj \cup {None}, call : 0..MaxRuns, page : 0..MaxRuns,
                       offset : Offset, gen : Gen, total : Gen]
        /\ log' \in Seq(0..MaxRuns) /\ entry' \in [Run -> Entry]
    BY <1>1 DEF Types
  <2>3. /\ n' \in 0..MaxRuns /\ edit' \in SUBSET Lock /\ chained' \in BOOLEAN
        /\ engine' \in [Run -> {"none", "asked", "refused", "running", "done", "failed"}]
        /\ held' \in SUBSET Run /\ opens' \in 0..MaxOpens
    BY <1>1 DEF Types
  <2> QED BY <2>1, <2>2, <2>3, Typed
<1>4. ASSUME NEW r \in Run
      PROVE  /\ Exec(r) \in net' <=> Exec(r) \in net
             /\ State(r) \in net' <=> State(r) \in net
             /\ Shows(r) \in Nat /\ Shows(r)' \in Nat /\ Shows(r)' <= Shows(r)
  <2>1. Exec(r) \notin A /\ State(r) \notin A
    BY <1>2, Tags
  <2>2. net' = (net \ Z) \cup A
    BY DEF Moves
  <2> QED BY <2>1, <2>2, ShownLess
<1>5. Runs'
  BY <1>4, RunsKept
<1>6. LogOK' /\ Bounded'
  BY LogKept, LiveKept
<1>7. Gens'
  <2>1. ASSUME NEW g \in Gen, Count(g) \in net'
        PROVE  Count(g) \in net
    BY <1>2, <2>1, Tags DEF Moves
  <2> QED BY <2>1, Fixed DEF IInv, Gens, Count
<1>8. Begun'
  <2>1. ASSUME n = 0, NEW p \in Plan
        PROVE  ~OnItsWay(DryRun(p))' /\ ~OnItsWay(Confirm(p))'
    <3>1. \A y \in A : y # DryRun(p) /\ y # Confirm(p)
      BY <1>2, Tags
    <3>2. ~OnItsWay(DryRun(p)) /\ ~OnItsWay(Confirm(p))
      BY <2>1 DEF IInv, Begun
    <3>3. \A y : OnItsWay(y)' => OnItsWay(y) \/ y \in A
      BY MovesWay
    <3> QED BY <3>1, <3>2, <3>3 DEF OnItsWay, DryRun, Confirm
  <2> QED BY <2>1, Fixed DEF IInv, Begun
<1>9. /\ n \in Nat /\ m \in Nat /\ k \in Nat /\ \A r \in 1..n : r \in Run
      /\ \A r \in Run : entry[r].q.k \in Nat
  <2>1. n \in Nat /\ \A r \in 1..n : r \in Run
    BY <1>1, Bounds DEF Types
  <2>2. m \in Nat /\ k \in Nat
    BY Bounds
  <2>3. ASSUME NEW r \in Run
        PROVE  entry[r].q.k \in Nat
    <3>1. entry[r].q \in Query
      BY <1>1 DEF Types, Entry
    <3>2. entry[r].q.k \in 0..ChainLen
      BY <3>1 DEF Query
    <3> QED BY <3>2, Bounds
  <2> QED BY <2>1, <2>2, <2>3
<1>10. Chain(k)'
  <2>1. \A r \in 1..n : entry[r].q.k <= m
    BY DEF Chain
  <2>2. \A r \in 1..n : entry[r].q.k <= k /\ entry[r].q.k # k
    <3>1. \A a, b, c \in Nat : a <= b /\ c = b + 1 => a <= c /\ a # c
      OBVIOUS
    <3> QED BY <1>9, <2>1, <3>1
  <2>3. ASSUME NEW r \in 1..n, entry[r].q.k # 0
        PROVE  ~Unfinished(r)'
    <3>1. SUFFICES ASSUME Unfinished(r)' PROVE FALSE
      OBVIOUS
    <3>2. State(r)' = State(r) /\ engine' = engine
      BY DEF State
    <3>3. Shows(r)' # 0 => Shows(r) # 0
      <4>1. \A a, b \in Nat : a <= b /\ a # 0 => b # 0
        OBVIOUS
      <4> QED BY <1>4, <1>9, <4>1
    <3>4. Unfinished(r)
      BY <1>4, <1>9, <3>1, <3>2, <3>3 DEF Unfinished
    <3>5. entry[r].q.k = m
      BY <2>3, <3>4 DEF Chain
    <3> QED BY <2>3, <3>1, <3>5
  <2>4. \A y \in Links : OnItsWay(y)' => y = x
    <3>1. \A y \in G : y \notin Links
      BY Kinds
    <3>2. \A y : OnItsWay(y)' => OnItsWay(y) \/ y \in A
      BY MovesWay
    <3> QED BY <3>1, <3>2
  <2>5. k > 1 => \E r \in 1..n : entry[r].q.k = k - 1 /\ entry[r].state = "done"
    <3>1. k > 1 => m # 0 /\ k - 1 = m
      BY <1>9
    <3> QED BY <3>1
  <2>6. /\ \A r, y \in 1..n : entry[r].q.k = entry[y].q.k /\ entry[r].q.k # 0 => r = y
        /\ \A r \in 1..n : entry[r].q.k > 1 =>
              \E y \in 1..(r - 1) : entry[y].q.k = entry[r].q.k - 1 /\ entry[y].state = "done"
    BY DEF Chain
  <2>7. n' = n /\ entry' = entry /\ k # 0 /\ chained'
    BY <1>9
  <2> QED BY <2>2, <2>3, <2>4, <2>5, <2>6, <2>7, Fixed DEF Chain
<1>11. /\ Cardinality(A \cap Purse) = 1 /\ Cardinality(A \cap Links) = 1
       /\ Cardinality(Z \cap Purse) = 0 /\ Cardinality(Z \cap Links) = 0
  <2>1. /\ \A y \in G : y \notin Purse /\ y \notin Links
        /\ x \in Purse /\ x \in Links
    BY <1>9, Kinds
  <2>2. A \cap Purse = {x} /\ A \cap Links = {x}
    BY <2>1
  <2>3. Cardinality({x}) = 1
    BY FS_Singleton
  <2> QED BY <2>2, <2>3, FewItems
<1>12. /\ IsFiniteSet(edit) /\ Cardinality(edit) \in Nat /\ Cardinality(edit) <= 1
       /\ spent \in Nat
  BY Numbers
<1> DEFINE u == Queued(Links)'
           w == Queued(Purse)'
           dl == Cardinality(T \cap Links)
           dp == Cardinality(T \cap Purse)
           ql == Queued(Links)
           qp == Queued(Purse)
           ed == Cardinality(edit)
           v == spent'
           a == Rest(m)
           b == Rest(k)
<1>13. /\ IsFiniteSet(net') /\ IsFiniteSet(dialogs')
       /\ u \in Nat /\ w \in Nat /\ dl \in Nat /\ dp \in Nat /\ ql \in Nat /\ qp \in Nat
       /\ u + 0 + 0 + dl <= ql + 1 + 0 + 0
       /\ w + 0 + 0 + dp <= qp + 1 + 0 + 0
  <2>1. /\ IsFiniteSet(net') /\ IsFiniteSet(dialogs') /\ ql \in Nat /\ u \in Nat /\ dl \in Nat
        /\ u + Cardinality(Z \cap Links) + Cardinality(Z \cap Links) + dl
             <= ql + Cardinality(A \cap Links) + Cardinality(Z \cap Links) + Cardinality(Z \cap Links)
    BY MovesCount, Fixed
  <2>2. /\ qp \in Nat /\ w \in Nat /\ dp \in Nat
        /\ w + Cardinality(Z \cap Purse) + Cardinality(Z \cap Purse) + dp
             <= qp + Cardinality(A \cap Purse) + Cardinality(Z \cap Purse) + Cardinality(Z \cap Purse)
    BY MovesCount, Fixed
  <2> QED BY <1>11, <2>1, <2>2
<1>14. ql = 0
  BY NoneCounted
<1>15. /\ v \in Nat /\ a \in Nat /\ b \in Nat /\ ed \in Nat
       /\ n + qp + ed + a <= spent /\ spent + 1 + b <= v + a
  <2>1. a \in Nat /\ b \in Nat
    BY <1>9, Bounds DEF Rest
  <2>2. v \in Nat
    BY Bounds
  <2> QED BY <1>12, <2>1, <2>2
<1> HIDE DEF u, w, dl, dp, ql, qp, ed, v, a, b
<1>16. u <= 1
  BY <1>13, <1>14
<1>17. n + w + ed + b <= v
  <2>1. \A d, e, f, g, h, i, j, l, o \in Nat :
           d + e + f + g <= h /\ i + 0 + 0 + j <= e + 1 + 0 + 0 /\ h + 1 + l <= o + g
           => d + i + f + l <= o
    OBVIOUS
  <2> QED BY <1>9, <1>12, <1>13, <1>15, <2>1
<1>18. Budget'
  <2>1. Queued(Links)' <= 1
    BY <1>16 DEF u
  <2>2. n' + Queued(Purse)' + Cardinality(edit') + Rest(k) <= spent'
    <3>1. n' = n /\ Cardinality(edit') = ed /\ Queued(Purse)' = w /\ Rest(k) = b /\ spent' = v
      BY DEF ed, w, b, v
    <3> QED BY <1>17, <3>1
  <2>3. edit' = edit /\ k \in 0..ChainLen
    BY <1>9, Bounds
  <2> QED BY <1>10, <1>12, <1>13, <2>1, <2>2, <2>3 DEF Budget, Rest
<1> QED BY <1>3, <1>5, <1>6, <1>7, <1>8, <1>18 DEF IInv
\* The editor runs the statements of its buffer.
LEMMA RunAllStep ==
  ASSUME IInv, NEW c \in Conn, RunAll(c)
  PROVE  IInv'
<1> DEFINE q == [conn |-> c, stmt |-> AdHoc, origin |-> None, k |-> 1]
           x == Classify(q)
           Z == {}
           A == {} \cup {x}
<1>1. /\ ~chained /\ chained' = TRUE /\ spent + ChainLen <= MaxRuns /\ spent' = spent + ChainLen
      /\ net' = (net \ Z) \cup A /\ dialogs' = (dialogs \ Z) \cup Z
      /\ UNCHANGED <<shown, view, open, grid, edit, log, entry, n, engine, held, sched, dialogs, opens>>
  BY DEF RunAll
<1>2. q \in Request /\ q.k = 1 /\ 1 \in 1..ChainLen
  <2>1. 1 \in 0..ChainLen /\ 1 \in 1..ChainLen
    BY Bounds
  <2> QED BY <2>1 DEF Request
<1>3. x \in Message /\ x.t = "classify" /\ x.q.k = 1
  BY <1>2, AreMessages, Tags
<1>4. PICK m \in 0..ChainLen : Chain(m) /\ n + Queued(Purse) + Cardinality(edit) + Rest(m) <= spent
  BY DEF IInv, Budget
<1>5. m = 0 /\ 1 = m + 1
  BY <1>1, <1>4 DEF Chain
<1>6. \A y \in Links : ~OnItsWay(y)
  <2>1. \A y \in Links : y.q.k # 0
    BY DEF Links
  <2> QED BY <1>4, <1>5, <2>1 DEF Chain
<1> HIDE DEF x, q
<1>7. Z \in SUBSET net /\ Z \in SUBSET dialogs /\ IsFiniteSet(Z) /\ IsFiniteSet(A)
  BY FewItems
<1>8. sched' \in Seq(Thunk) /\ view' \in {"result", "log"} /\ open' \in BOOLEAN /\ grid' \in BOOLEAN
  BY <1>1 DEF IInv, Types
<1>9. spent' \in 0..MaxRuns /\ spent + 1 + Rest(1) <= spent' + Rest(m)
  <2>1. Rest(1) = ChainLen - 1 /\ Rest(m) = 0
    BY <1>5 DEF Rest
  <2>2. spent \in Nat /\ ChainLen \in Nat /\ ChainLen >= 1 /\ MaxRuns \in Nat
    BY Numbers, Bounds
  <2>3. \A a, b, d \in Nat : b >= 1 /\ a + b <= d => a + b \in 0..d /\ a + 1 + (b - 1) <= (a + b) + 0
    OBVIOUS
  <2> QED BY <1>1, <2>1, <2>2, <2>3
<1>10. UNCHANGED sched
  BY <1>1
<1> DEFINE G == {}
<1>11. A = G \cup {x} /\ Z = {} /\ \A y \in G : y \in Message /\ y.t = "page"
  OBVIOUS
<1>12. UNCHANGED <<shown, edit, entry, log, n, engine, held, opens>> /\ chained' = TRUE
  BY <1>1
<1> HIDE DEF A, G
<1>13. Moves(Z, A, Z, Z, Z, Z)
  BY <1>1, <1>7, <1>10, MovesIdle
<1> HIDE DEF Z
<1>14. /\ m # 0 => \E r \in 1..n : entry[r].q.k = m /\ entry[r].state = "done"
       /\ \A r \in 1..n : entry[r].q.k = m /\ m # 0 => ~Unfinished(r)'
  BY <1>5
<1> QED BY <1>2, <1>3, <1>4, <1>5, <1>6, <1>8, <1>9, <1>11, <1>12, <1>13, <1>14, NextLink
\* A done statement is shown, and the buffer's next one asked about.
LEMMA DueShowStep ==
  ASSUME IInv, DueShow
  PROVE  IInv'
<1> DEFINE s == Head(sched)
           G == GotoPage(shown.call, entry[s.run].land)
           Z == {}
           T == {s}
<1>1. /\ sched # <<>> /\ sched' = Tail(sched) /\ s.t = "show"
      /\ UNCHANGED <<shown, edit, log, entry, n, engine, held, dialogs, opens, spent, chained>>
      /\ view' = "result" /\ open' = TRUE
  BY DEF DueShow, Due
<1>2. s \in Thunk /\ OnItsWay(s)
  BY <1>1, Taken
<1>3. s.run \in Run /\ s = Show(s.run)
  BY <1>1, <1>2, ThunkIs
<1>4. Types
  BY DEF IInv
<1>5. /\ view' \in {"result", "log"} /\ open' \in BOOLEAN /\ grid' \in BOOLEAN
      /\ spent' \in 0..MaxRuns /\ spent' = spent
  <2>1. grid' \in BOOLEAN
    <3>1. Drawn("result", shown.page)
      BY DEF DueShow
    <3>2. (shown.page # 0) \in BOOLEAN
      OBVIOUS
    <3> QED BY <1>1, <3>1, <3>2 DEF Drawn
  <2> QED BY <1>1, <1>4, <2>1 DEF Types
<1>6. PICK c \in Conn : net' = net \cup G \cup OnDone(entry[s.run].q.k, TRUE, c)
  BY DEF DueShow
<1>7. PICK r \in Run : s.run = r /\ s = Show(r)
  BY <1>3
<1> DEFINE k == entry[r].q.k
<1>8. G \subseteq Message /\ IsFiniteSet(G) /\ \A x \in G : x.t = "page"
  <2>1. entry[r] \in Entry
    BY <1>3, <1>4 DEF Types
  <2>2. entry[s.run].land \in Offset
    BY <1>7, <2>1 DEF Entry
  <2>3. shown.call \in 0..MaxRuns
    BY <1>4 DEF Types
  <2> QED BY <2>2, <2>3, Fetches
<1>9. Z \in SUBSET net /\ Z \in SUBSET dialogs /\ IsFiniteSet(Z) /\ dialogs' = (dialogs \ Z) \cup Z
  BY <1>1, FewItems
<1>10. PICK m \in 0..ChainLen : Chain(m) /\ n + Queued(Purse) + Cardinality(edit) + Rest(m) <= spent
  BY DEF IInv, Budget
<1>11. RunOK(r)
  BY <1>3 DEF IInv, Runs
<1>12. k \in 0..ChainLen
  <2>1. entry[r] \in Entry
    BY <1>3, <1>4 DEF Types
  <2>2. entry[r].q \in Query
    BY <2>1 DEF Entry
  <2> QED BY <2>2 DEF Query
<1>13. CASE k \in 1..(ChainLen - 1)
  <2> DEFINE q == [conn |-> c, stmt |-> AdHoc, origin |-> None, k |-> k + 1]
             x == Classify(q)
             A == G \cup {x}
  <2>1. net' = (net \ Z) \cup A
    <3>1. OnDone(k, TRUE, c) = {x}
      BY <1>13 DEF OnDone
    <3>2. net' = net \cup G \cup OnDone(k, TRUE, c)
      BY <1>6, <1>7
    <3> QED BY <3>1, <3>2
  <2>2. k + 1 \in 1..ChainLen /\ k + 1 \in 0..ChainLen /\ k # 0
    BY <1>13, Bounds
  <2>3. q \in Request /\ q.k = k + 1
    BY <2>2 DEF Request
  <2>4. x \in Message /\ x.t = "classify" /\ x.q.k = k + 1
    BY <2>3, AreMessages, Tags
  <2> HIDE DEF x, q
  <2>5. IsFiniteSet(A)
    BY <1>8, FS_Singleton, FS_Union
  <2>6. /\ \A y \in G : y \in Message /\ y.t = "page"
        /\ A = G \cup {x} /\ Z = {}
    BY <1>8
  <2> HIDE DEF A, G, Z
  <2>7. Moves(Z, A, Z, Z, T, Z) /\ sched' \in Seq(Thunk)
    <3>1. Moves(Z, A, Z, Z, {Head(sched)}, {}) /\ sched' \in Seq(Thunk)
      BY <1>1, <1>9, <2>1, <2>5, MovesDue
    <3> QED BY <2>6, <3>1
  <2>8. T = {Show(r)}
    BY <1>7
  <2> HIDE DEF s, k, T
  <2>9. /\ r \in Run /\ Shows(r)' = 0 /\ Shows(r) # 0
    <3>1. Shows(r) \in Nat /\ Shows(r)' \in Nat /\ Shows(r)' + 1 = Shows(r)
      BY <2>6, <2>7, <2>8, ShownLess
    <3>2. Shows(r) <= 1
      BY <1>11 DEF RunOK
    <3>3. \A a, b \in Nat : a + 1 = b /\ b <= 1 => a = 0 /\ b # 0
      OBVIOUS
    <3> QED BY <3>1, <3>2, <3>3
  <2>10. /\ entry[r].state = "done" /\ engine[r] = "done" /\ State(r) \notin net
    BY <1>11, <2>9 DEF RunOK
  <2>11. r \in 1..n
    <3>1. engine[r] # "none" => ~(r > n)
      BY <1>11 DEF RunOK
    <3>2. r \in Nat /\ r # 0 /\ n \in Nat
      BY <1>4, <2>9, Bounds DEF Types
    <3>3. engine[r] # "none"
      BY <2>10
    <3>4. \A a, b \in Nat : a # 0 /\ ~(a > b) => a \in 1..b
      OBVIOUS
    <3> QED BY <3>1, <3>2, <3>3, <3>4
  <2>12. k = m /\ m # 0
    <3>1. Unfinished(r)
      BY <2>9 DEF Unfinished
    <3>2. \A y \in 1..n : entry[y].q.k # 0 /\ Unfinished(y) => entry[y].q.k = m
      BY <1>10 DEF Chain
    <3> QED BY <2>2, <2>11, <3>1, <3>2 DEF k
  <2>13. \A y \in Links : ~OnItsWay(y)
    <3>1. \A y \in Links : OnItsWay(y) => entry[r].q.k # m
      BY <1>10, <2>11 DEF Chain
    <3> QED BY <2>12, <3>1 DEF k
  <2>14. ASSUME NEW y \in 1..n, entry[y].q.k = m
         PROVE  ~Unfinished(y)'
    <3>1. y = r
      BY <1>10, <2>11, <2>12, <2>14 DEF Chain, k
    <3>2. State(y) \notin net' /\ State(y)' = State(y)
      <4>1. State(y) \notin A
        BY <2>4, <2>6, Tags
      <4>2. State(y) \notin net
        BY <2>10, <3>1
      <4> QED BY <2>1, <4>1, <4>2 DEF State
    <3>3. Shows(y)' = 0
      BY <2>9, <3>1
    <3>4. engine'[y] = "done"
      BY <1>1, <2>10, <3>1
    <3> QED BY <3>2, <3>3, <3>4 DEF Unfinished
  <2>15. spent + 1 + Rest(k + 1) <= spent' + Rest(m)
    <3>1. Rest(k + 1) = ChainLen - (m + 1) /\ Rest(m) = ChainLen - m
      BY <2>2, <2>12, Bounds DEF Rest
    <3>2. spent \in Nat /\ ChainLen \in Nat /\ m \in Nat /\ m + 1 <= ChainLen
      BY <1>4, <2>2, <2>12, Bounds DEF Types
    <3>3. \A a, b, d \in Nat : a + 1 + (b - (d + 1)) <= a + (b - d)
      OBVIOUS
    <3> QED BY <1>5, <3>1, <3>2, <3>3
  <2>16. chained' = TRUE
    <3>1. chained
      BY <1>10, <2>12 DEF Chain
    <3> QED BY <1>1, <1>4, <3>1 DEF Types
  <2>17. m # 0 => \E y \in 1..n : entry[y].q.k = m /\ entry[y].state = "done"
    BY <2>10, <2>11, <2>12 DEF k
  <2>18. UNCHANGED <<shown, edit, entry, log, n, engine, held, opens>>
    BY <1>1
  <2> DEFINE kk == k + 1
  <2>19. /\ kk \in 1..ChainLen /\ x.q.k = kk /\ kk = m + 1
         /\ spent + 1 + Rest(kk) <= spent' + Rest(m)
    BY <2>2, <2>4, <2>12, <2>15
  <2> HIDE DEF kk
  <2> QED BY <1>5, <1>10, <2>4, <2>6, <2>7, <2>13, <2>14, <2>16, <2>17, <2>18, <2>19, NextLink
<1>14. CASE k \notin 1..(ChainLen - 1)
  <2>1. net' = (net \ Z) \cup G
    <3>1. OnDone(k, TRUE, c) = {}
      BY <1>14 DEF OnDone
    <3>2. net' = net \cup G \cup OnDone(k, TRUE, c)
      BY <1>6, <1>7
    <3> QED BY <3>1, <3>2
  <2>2. /\ \A y \in G : y \in Message /\ y.t = "page" /\ y \notin Purse /\ y \notin Links
        /\ Z = {}
    BY <1>8, Kinds
  <2> HIDE DEF G, Z
  <2>3. Moves(Z, G, Z, Z, T, Z) /\ sched' \in Seq(Thunk)
    <3>1. Moves(Z, G, Z, Z, {Head(sched)}, {}) /\ sched' \in Seq(Thunk)
      BY <1>1, <1>8, <1>9, <2>1, MovesDue
    <3> QED BY <2>2, <3>1
  <2>4. Cardinality(G \cap Purse) = 0 /\ Cardinality(Z \cap Purse) = 0
    <3>1. G \cap Purse = {} /\ Z \cap Purse = {}
      BY <2>2
    <3> QED BY <3>1, FS_EmptySet
  <2>5. Cardinality(T \cap Purse) \in Nat
    BY <2>3, MovesCount
  <2>6. /\ Cardinality(edit) \in Nat /\ Cardinality(edit) <= 1 /\ IsFiniteSet(edit)
        /\ spent \in Nat
    BY Numbers
  <2>7. Cardinality(G \cap Purse) + Cardinality(Z \cap Purse) + Cardinality(Z \cap Purse)
          + Cardinality(edit') + spent
          <= Cardinality(Z \cap Purse) + Cardinality(Z \cap Purse) + Cardinality(T \cap Purse)
             + Cardinality(edit) + spent'
    <3>1. \A a, b, d \in Nat : 0 + 0 + 0 + a + b <= 0 + 0 + d + a + b
      OBVIOUS
    <3>2. edit' = edit /\ spent' = spent
      BY <1>1
    <3> QED BY <2>4, <2>5, <2>6, <3>1, <3>2
  <2>8. edit' \in SUBSET Lock /\ IsFiniteSet(edit') /\ Cardinality(edit') <= 1
    BY <1>1, <1>4, <2>6 DEF Types
  <2>9. /\ G \subseteq Message /\ Z \subseteq Dialog
        /\ \A y \in Z \cup G : y.t # "exec" /\ y.t # "state"
        /\ \A y \in G : y.t # "count"
        /\ \A y \in Z : y.t # "show"
        /\ \A y \in G \cup Z \cup Z : y.t \in {"dry", "confirm"} => n # 0
        /\ \A y \in G \cup Z \cup Z : y \notin Links
    BY <2>2
  <2>10. UNCHANGED <<shown, entry, log, n, engine, held, opens, chained>>
    BY <1>1
  <2> HIDE DEF T
  <2> QED BY <1>5, <2>3, <2>7, <2>8, <2>9, <2>10, Plain
<1> QED BY <1>13, <1>14
---------------------------------------------------------------------------
(* The invariant.                                                          *)

\* At first nothing is on its way.
LEMMA InitIInv ==
  ASSUME Init
  PROVE  IInv
<1>1. 0 \in 0..MaxRuns /\ 0 \in 0..MaxOpens /\ 0 \in Offset /\ 0 \in Gen /\ 0 \in 0..ChainLen
  BY Bounds
<1>2. NoEntry \in Entry /\ NoEntry.call = 0 /\ NoEntry.state = "none" /\ NoEntry.q.k = 0
  <2> DEFINE c == CHOOSE c \in Conn : TRUE
             q == [conn |-> c, stmt |-> AdHoc, origin |-> None, k |-> 0]
  <2>1. c \in Conn
    BY Bounds
  <2> HIDE DEF c
  <2>2. q \in Query /\ q.k = 0
    BY <2>1, Queries
  <2>3. NoEntry = [q |-> q, state |-> "none", call |-> 0, offset |-> 0, land |-> 0]
    BY DEF NoEntry, c
  <2> HIDE DEF q
  <2> QED BY <1>1, <2>2, <2>3 DEF Entry
<1>3. /\ net = {} /\ dialogs = {} /\ sched = <<>> /\ edit = {} /\ log = <<>> /\ n = 0
      /\ \A r \in Run : entry[r] = NoEntry /\ engine[r] = "none"
      /\ held = {} /\ opens = 0 /\ spent = 0 /\ chained = FALSE
      /\ shown.gen = 0 /\ shown.origin = None /\ shown.total = 0
  BY DEF Init
<1>4. DOMAIN sched = {} /\ DOMAIN log = {} /\ Len(log) = 0
  BY <1>3
<1>5. Types
  <2>1. shown \in [conn : Conn \cup {None}, stmt : Obj \cup {AdHoc, None},
                   origin : Obj \cup {None}, call : 0..MaxRuns, page : 0..MaxRuns,
                   offset : Offset, gen : Gen, total : Gen]
    BY <1>1 DEF Init
  <2>2. entry \in [Run -> Entry]
    BY <1>2 DEF Init
  <2>3. engine \in [Run -> {"none", "asked", "refused", "running", "done", "failed"}]
    BY DEF Init
  <2>4. log \in Seq(0..MaxRuns) /\ sched \in Seq(Thunk)
    BY <1>3
  <2>5. view \in {"result", "log"} /\ open \in BOOLEAN /\ grid \in BOOLEAN
    BY DEF Init
  <2>6. /\ edit \in SUBSET Lock /\ held \in SUBSET Run /\ net \in SUBSET Message
        /\ dialogs \in SUBSET Dialog
    BY <1>3
  <2> QED BY <1>1, <1>3, <2>1, <2>2, <2>3, <2>4, <2>5, <2>6 DEF Types
<1>6. \A P : Places(sched, P) = {} /\ net \cap P = {} /\ dialogs \cap P = {}
  BY <1>3, <1>4 DEF Places
<1>7. \A P : Queued(P) = 0 /\ InSched(P) = 0
  BY <1>6, FS_EmptySet DEF Queued, InSched
<1>8. \A x : ~OnItsWay(x)
  BY <1>3, <1>4 DEF OnItsWay
<1>9. Runs
  <2> SUFFICES ASSUME NEW r \in Run PROVE RunOK(r)
    BY DEF Runs
  <2>1. Shows(r) = 0 /\ r \in Nat /\ r # 0
    BY <1>7, Bounds DEF Shows
  <2>2. ~(r <= n) /\ Exec(r) \notin net /\ State(r) \notin net /\ r \notin held
    BY <1>3, <2>1
  <2> QED BY <1>2, <1>3, <2>1, <2>2 DEF RunOK
<1>10. LogOK
  BY <1>3, <1>4, Bounds DEF LogOK
<1>11. Bounded
  <2>1. LiveRuns = {}
    BY <1>4 DEF LiveRuns
  <2> QED BY <2>1, FS_EmptySet, Bounds DEF Bounded
<1>12. Gens /\ Begun
  BY <1>3, <1>8 DEF Gens, Begun
<1>13. Chain(0)
  <2>1. ~\E r \in 1..n : TRUE
    BY <1>3
  <2> QED BY <1>3, <1>8, <2>1 DEF Chain
<1>14. Budget
  <2>1. Cardinality(edit) = 0 /\ IsFiniteSet(edit) /\ IsFiniteSet(net) /\ IsFiniteSet(dialogs)
    BY <1>3, FS_EmptySet
  <2>2. n + Queued(Purse) + Cardinality(edit) + Rest(0) <= spent
    BY <1>3, <1>7, <2>1 DEF Rest
  <2> QED BY <1>1, <1>7, <1>13, <2>1, <2>2 DEF Budget
<1> QED BY <1>5, <1>9, <1>10, <1>11, <1>12, <1>14 DEF IInv

\* The user's keys.
LEMMA UserStep ==
  ASSUME IInv, User
  PROVE  IInv'
<1>1. ASSUME NEW c \in Conn, NEW o \in Obj, Browse(c, o) PROVE IInv'
  <2> DEFINE q == [conn |-> c, stmt |-> o, origin |-> o, k |-> 0]
  <2>1. q \in Request /\ q.k = 0
    BY Bounds DEF Request
  <2>2. RunGuarded(q)
    BY <1>1 DEF Browse
  <2> HIDE DEF q
  <2> QED BY <2>1, <2>2, RunGuardedStep
<1>2. ASSUME NEW c \in Conn, RunOne(c) PROVE IInv'
  <2> DEFINE q == [conn |-> c, stmt |-> AdHoc, origin |-> None, k |-> 0]
  <2>1. q \in Request /\ q.k = 0
    BY Bounds DEF Request
  <2>2. RunGuarded(q)
    BY <1>2 DEF RunOne
  <2> HIDE DEF q
  <2> QED BY <2>1, <2>2, RunGuardedStep
<1>3. ASSUME NEW d \in dialogs, NEW yes \in BOOLEAN, AnswerAsk(d, yes) PROVE IInv'
  <2>1. CASE yes = TRUE
    BY <1>3, <2>1, AnswerYesStep
  <2>2. CASE yes = FALSE
    BY <1>3, <2>2, AnswerNoStep
  <2> QED BY <2>1, <2>2
<1>4. ASSUME NEW c \in Conn, RunAll(c) PROVE IInv'
  BY <1>4, RunAllStep
<1>5. ASSUME NEW v \in {"result", "log"}, SetView(v) PROVE IInv'
  BY <1>5, SetViewStep
<1>6. ASSUME CloseDock \/ Reopen \/ CancelEdit \/ SaveEdit \/ ReplaceDocument PROVE IInv'
  BY <1>6, CloseDockStep, ReopenStep, CancelEditStep, SaveEditStep, ReplaceDocumentStep
<1>7. ASSUME NEW r \in Run, OpenCached(r) PROVE IInv'
  BY <1>7, OpenCachedStep
<1>8. ASSUME NEW r \in Run, Rerun(r) PROVE IInv'
  BY <1>8, RerunStep
<1>9. ASSUME NEW f \in Offset, TurnPage(f) PROVE IInv'
  BY <1>9, TurnPageStep
<1>10. ASSUME NEW w \in Editor, EditRow(w) PROVE IInv'
  BY <1>10, EditRowStep
<1>11. ASSUME NEW d \in dialogs, NEW yes \in BOOLEAN, AnswerForm(d, yes) PROVE IInv'
  BY <1>11, AnswerFormStep
<1>12. ASSUME NEW d \in dialogs, NEW yes \in BOOLEAN, AnswerConfirm(d, yes) PROVE IInv'
  BY <1>12, AnswerConfirmStep
<1> QED BY <1>1, <1>2, <1>3, <1>4, <1>5, <1>6, <1>7, <1>8, <1>9, <1>10, <1>11, <1>12 DEF User

\* Every step.
LEMMA NextIInv ==
  ASSUME IInv, [Next]_vars
  PROVE  IInv'
<1>1. CASE User
  BY <1>1, UserStep
<1>2. CASE Engine
  BY <1>2, EngineSteps DEF Engine
<1>3. CASE DueDialog \/ DueStart \/ DueStop \/ DueShow \/ DueRefresh
  BY <1>3, DueDialogStep, DueStartStep, DueStopStep, DueShowStep, DueRefreshStep
<1>4. CASE \E r \in Run : HandleExec(r) \/ HandleState(r)
  BY <1>4, HandleExecStep, HandleStateStep
<1>5. ASSUME NEW m \in net, NEW ok \in BOOLEAN, Handle(m, ok) PROVE IInv'
  BY <1>5, HandleClassifyStep, HandlePageStep, HandleCountStep, HandleKeyStep,
     HandleDryRunStep, HandleWriteStep DEF Handle
<1>6. CASE UNCHANGED vars
  <2>1. UNCHANGED <<shown, entry, log, n, engine, held, opens, chained, net, sched, dialogs, spent,
                    view, open, grid, edit>>
    BY <1>6 DEF vars
  <2>2. view' \in {"result", "log"} /\ open' \in BOOLEAN /\ grid' \in BOOLEAN
    BY <2>1 DEF IInv, Types
  <2> QED BY <2>1, <2>2, Idle
<1> QED BY <1>1, <1>2, <1>3, <1>4, <1>5, <1>6 DEF Next
\* IInv is an invariant: what is said below holds in every session of the dock
\* (result.lua, and editor.lua's run_all), whatever comes when.
THEOREM Invariance == Spec => []IInv
<1>1. Init => IInv
  BY InitIInv
<1>2. IInv /\ [Next]_vars => IInv'
  BY NextIInv
<1> QED BY <1>1, <1>2, PTL DEF Spec

\* The dock's state stays what the code takes it for: the log within its capacity
\* (result.lua: CALL_LOG_MAX), an entry's call nobody's but its own, and never
\* more runs than the user's requests led to, refreshes behind writes included.
THEOREM DockTypeCorrect == Spec => []TypeOK
<1>1. ASSUME IInv PROVE TypeOK
  <2>1. Types /\ Runs /\ LogOK
    BY <1>1 DEF IInv
  <2>2. n \in Nat /\ Run = 1..MaxRuns /\ MaxRuns \in Nat
    BY <2>1, Bounds DEF Types
  <2>3. edit \subseteq Lock /\ Cardinality(edit) <= 1
    BY <1>1, <2>1 DEF IInv, Budget, Types
  <2>4. ToSet(log) \subseteq 0..n /\ Len(log) <= LogMax
    <3>1. \A i \in DOMAIN log : log[i] \in Nat /\ log[i] <= n
      <4>1. \A i \in DOMAIN log : log[i] \in 0..MaxRuns
        <5>1. log \in Seq(0..MaxRuns)
          BY <2>1 DEF Types
        <5>2. DOMAIN log = 1..Len(log)
          BY <5>1, LenProperties
        <5> QED BY <5>1, <5>2, ElementOfSeq
      <4> QED BY <2>1, <2>2, <4>1 DEF LogOK
    <3>2. \A i \in DOMAIN log : log[i] \in 0..n
      BY <2>2, <3>1
    <3> QED BY <2>1, <3>2 DEF ToSet, LogOK
  <2>5. spent \in n..MaxRuns
    <3>1. PICK m \in 0..ChainLen : n + Queued(Purse) + Cardinality(edit) + Rest(m) <= spent
      BY <1>1 DEF IInv, Budget
    <3>2. Queued(Purse) \in Nat /\ Cardinality(edit) \in Nat /\ Rest(m) \in Nat
      <4>1. Queued(Purse) \in Nat /\ Cardinality(edit) \in Nat
        BY <1>1, Countable, Numbers
      <4>2. Rest(m) \in Nat
        BY Bounds DEF Rest
      <4> QED BY <4>1, <4>2
    <3>3. spent \in 0..MaxRuns
      BY <2>1 DEF Types
    <3>4. \A a, b, c, d, e \in Nat : a + b + c + d <= e => a <= e
      OBVIOUS
    <3>5. n <= spent
      BY <2>2, <3>1, <3>2, <3>3, <3>4
    <3> QED BY <2>2, <3>3, <3>5
  <2>6. \A r \in Run : entry[r].call \in {0, r} /\ entry[r].offset \in Offset
    <3>1. \A r \in Run : entry[r] \in Entry
      BY <2>1 DEF Types
    <3> QED BY <2>1, <3>1 DEF Runs, RunOK, Entry
  <2>7. held \subseteq 1..n
    <3> SUFFICES ASSUME NEW r \in held PROVE r \in 1..n
      OBVIOUS
    <3>1. r \in Run /\ RunOK(r)
      BY <2>1 DEF Types, Runs
    <3>2. ~(r > n)
      BY <3>1 DEF RunOK
    <3>3. r \in Nat /\ r # 0
      BY <2>2, <3>1
    <3>4. \A a, b \in Nat : a # 0 /\ ~(a > b) => a \in 1..b
      OBVIOUS
    <3> QED BY <2>2, <3>2, <3>3, <3>4
  <2>8. \A i \in 1..Len(sched) : sched[i] \in Thunk
    BY <2>1, ElementOfSeq DEF Types
  <2> QED BY <2>1, <2>3, <2>4, <2>5, <2>6, <2>7, <2>8 DEF TypeOK, Types
<1> QED BY <1>1, Invariance, PTL

\* With the cache on, an entry of the log that has a call_id, which its open key
\* pages, has its buffer in the engine (result.lua, M.run and open_cached).
THEOREM CachedCallsCorrect ==
  ASSUME CacheOn
  PROVE  Spec => []CachedCallsLive
<1>1. ASSUME IInv PROVE CachedCallsLive
  <2> SUFFICES ASSUME NEW i \in 1..Len(log), log[i] # 0, entry[log[i]].call # 0
               PROVE  log[i] \in held
    BY DEF CachedCallsLive
  <2>1. log \in Seq(0..MaxRuns) /\ Runs
    BY <1>1 DEF IInv, Types
  <2>2. log[i] \in 0..MaxRuns
    BY <2>1, ElementOfSeq
  <2>3. log[i] \in Run
    BY <2>2, Bounds
  <2> QED BY <2>1, <2>3 DEF Runs, RunOK
<1> QED BY <1>1, Invariance, PTL

\* With the cache on, no more than cache.size buffers of answered calls that are
\* in the log are kept, whatever order the answers come in.
THEOREM KeptBuffersCorrect ==
  ASSUME CacheOn
  PROVE  Spec => []KeptBuffersBounded
<1>1. ASSUME IInv PROVE KeptBuffersBounded
  <2> DEFINE K == {r \in held : Exec(r) \notin net /\ r \in ToSet(log)}
  <2>1. K \subseteq LiveRuns
    <3> SUFFICES ASSUME NEW r \in K PROVE r \in LiveRuns
      OBVIOUS
    <3>1. r \in Run /\ RunOK(r)
      BY <1>1 DEF IInv, Types, Runs
    <3>2. entry[r].call = r /\ r # 0
      BY <3>1, Bounds DEF RunOK
    <3>3. \E i \in DOMAIN log : log[i] = r
      BY DEF ToSet
    <3> QED BY <3>1, <3>2, <3>3 DEF LiveRuns
  <2>2. IsFiniteSet(LiveRuns)
    <3>1. IsFiniteSet(Run) /\ LiveRuns \in SUBSET Run
      BY Bounds, FS_Interval DEF LiveRuns
    <3> QED BY <3>1, FS_Subset
  <2>3. Cardinality(LiveRuns) <= CacheSize
    BY <1>1 DEF IInv, Bounded
  <2> HIDE DEF K
  <2>4. IsFiniteSet(K) /\ Cardinality(K) <= Cardinality(LiveRuns)
    BY <2>1, <2>2, FS_Subset
  <2>5. Cardinality(K) \in Nat /\ Cardinality(LiveRuns) \in Nat /\ CacheSize \in Nat
    BY <2>2, <2>4, FS_CardinalityType, Bounds
  <2>6. \A a, b, c \in Nat : a <= b /\ b <= c => a <= c
    OBVIOUS
  <2>7. Cardinality(K) <= CacheSize
    BY <2>3, <2>4, <2>5, <2>6
  <2> QED BY <2>7 DEF KeptBuffersBounded, K
<1> QED BY <1>1, Invariance, PTL

\* The total in the header was counted for the origin on screen (result.lua,
\* fetch_total): the answer to an earlier run's count cannot land on it.
THEOREM TotalCorrect == Spec => []TotalOfOwnOrigin
<1>1. IInv => TotalOfOwnOrigin
  BY DEF IInv, Gens, TotalOfOwnOrigin
<1> QED BY <1>1, Invariance, PTL

\* The editor's buffer goes on only behind a statement that is done, and sends
\* none of its statements twice (editor.lua, run_all; result.lua, on_done).
THEOREM ChainCorrect == Spec => []ChainOrdered
<1>1. ASSUME IInv PROVE ChainOrdered
  <2>1. PICK m \in 0..ChainLen : Chain(m)
    BY <1>1 DEF IInv, Budget
  <2> QED BY <2>1 DEF Chain, ChainOrdered
<1> QED BY <1>1, Invariance, PTL
\* What a run starts with.
LEMMA FreshOffset ==
  ASSUME IInv, NEW q, NEW land, RunStatement(q, land, net)
  PROVE  \A r \in Run : entry'[r].offset = entry[r].offset
<1> DEFINE x == n + 1
           e == [q |-> q, state |-> "running", call |-> 0, offset |-> 0, land |-> land]
<1>1. entry' = [entry EXCEPT ![x] = e] /\ e.offset = 0
  BY DEF RunStatement
<1>2. entry \in [Run -> Entry] /\ n \in Nat
  BY Bounds DEF IInv, Types
<1>3. ASSUME x \in Run PROVE entry[x].offset = 0
  <2>1. x > n
    BY <1>2
  <2>2. entry[x] = NoEntry
    BY <1>3, <2>1, Unborn
  <2> QED BY <2>2 DEF NoEntry
<1> HIDE DEF x, e
<1> QED BY <1>1, <1>2, <1>3

\* The page an entry re-opens at changes only when a page of its own call, at
\* that offset, arrives (result.lua, goto_page): whatever the dock shows by then.
THEOREM OffsetCorrect == Spec => OffsetOfOwnCall
<1>1. ASSUME IInv, [Next]_vars, NEW r \in Run, entry'[r].offset # entry[r].offset
      PROVE  \E m \in net \ net' : m.t = "page" /\ m.call = r /\ m.from = entry'[r].offset
  <2>1. Types /\ entry[r] \in Entry /\ RunOK(r)
    BY <1>1 DEF IInv, Types, Runs
  <2>2. entry' # entry
    BY <1>1
  <2>3. ASSUME NEW m \in net, NEW ready \in BOOLEAN, HandlePage(m, ready)
        PROVE  m \in net \ net' /\ m.t = "page" /\ m.call = r /\ m.from = entry'[r].offset
    <3>1. m.t = "page" /\ net' = net \ {m} /\ entry' = Remembered(m)
      BY <2>2, <2>3 DEF HandlePage
    <3>2. entry'[r] = IF r \in ToSet(log) /\ entry[r].call = m.call
                      THEN [entry[r] EXCEPT !.offset = m.from] ELSE entry[r]
      BY <3>1 DEF Remembered
    <3>3. entry[r].call = m.call /\ entry'[r] = [entry[r] EXCEPT !.offset = m.from]
      BY <1>1, <3>2
    <3>4. m.call \in Run /\ 0 \notin Run
      BY <2>1, <3>1, MessageIs, Bounds DEF Types
    <3>5. m.call = r
      BY <2>1, <3>3, <3>4 DEF RunOK
    <3>6. entry'[r].offset = m.from
      BY <2>1, <3>3 DEF Entry
    <3> QED BY <3>1, <3>5, <3>6
  <2>4. ASSUME NEW x \in Run, HandleState(x) PROVE FALSE
    <3> DEFINE s == engine[x]
    <3>1. entry' = [entry EXCEPT ![x].state = s]
      BY <2>4 DEF HandleState
    <3> HIDE DEF s
    <3>2. entry \in [Run -> Entry]
      BY <2>1 DEF Types
    <3>3. entry'[r].offset = entry[r].offset
      BY <2>1, <3>1, <3>2 DEF Entry
    <3> QED BY <1>1, <3>3
  <2>5. ASSUME NEW x \in Run, HandleExec(x) PROVE FALSE
    <3> DEFINE e == [entry EXCEPT ![x].call = x]
               gone == Evicted(e, x)
    <3>1. entry' = Cleared(e, gone)
      BY <2>2, <2>5 DEF HandleExec
    <3>2. entry \in [Run -> Entry]
      BY <2>1 DEF Types
    <3>3. e[r] \in Entry /\ e[r].offset = entry[r].offset
      <4>1. x \in 0..MaxRuns
        BY Bounds
      <4>2. \A z \in Entry : [z EXCEPT !.call = x] \in Entry /\ [z EXCEPT !.call = x].offset = z.offset
        BY <4>1 DEF Entry
      <4>3. e[r] = IF r = x THEN [entry[r] EXCEPT !.call = x] ELSE entry[r]
        BY <3>2
      <4> HIDE DEF e
      <4> QED BY <2>1, <4>2, <4>3
    <3> HIDE DEF e, gone
    <3>4. entry'[r] = IF CacheOn /\ r \in gone THEN [e[r] EXCEPT !.call = 0] ELSE e[r]
      BY <3>1 DEF Cleared
    <3>5. [e[r] EXCEPT !.call = 0].offset = e[r].offset
      BY <3>3 DEF Entry
    <3> QED BY <1>1, <3>3, <3>4, <3>5
  <2>6. \A q, land : ~RunStatement(q, land, net)
    BY <1>1, FreshOffset
  <2>7. ~UNCHANGED vars
    BY <2>2 DEF vars
  <2>8. ~Engine
    BY <2>2 DEF Engine, Accept, Refuse, Finish
  <2>9. ~(DueDialog \/ DueStart \/ DueStop \/ DueShow \/ DueRefresh)
    BY <2>2, <2>6 DEF DueDialog, DueStart, DueStop, DueShow, DueRefresh
  <2>10. ~User
    <3>1. /\ \A c \in Conn, o \in Obj : ~Browse(c, o)
          /\ \A c \in Conn : ~RunOne(c) /\ ~RunAll(c)
      BY <2>2 DEF Browse, RunOne, RunGuarded, RunAll
    <3>2. /\ \A v \in {"result", "log"} : ~SetView(v)
          /\ ~CloseDock /\ ~Reopen /\ ~CancelEdit /\ ~SaveEdit /\ ~ReplaceDocument
      BY <2>2 DEF SetView, CloseDock, Reopen, CancelEdit, SaveEdit, ReplaceDocument
    <3>3. /\ \A x \in Run : ~OpenCached(x) /\ ~Rerun(x)
          /\ \A f \in Offset : ~TurnPage(f)
          /\ \A w \in Editor : ~EditRow(w)
      BY <2>2, <2>6 DEF OpenCached, Rerun, TurnPage, EditRow
    <3>4. \A d \in dialogs, yes \in BOOLEAN :
             ~AnswerAsk(d, yes) /\ ~AnswerForm(d, yes) /\ ~AnswerConfirm(d, yes)
      BY <2>2, <2>6 DEF AnswerAsk, AnswerForm, AnswerConfirm
    <3> QED BY <3>1, <3>2, <3>3, <3>4 DEF User
  <2>11. \A m \in net, ok \in BOOLEAN : Handle(m, ok) => HandlePage(m, ok)
    BY <2>2 DEF Handle, HandleClassify, HandleCount, HandleKey, HandleDryRun, HandleWrite
  <2> QED BY <1>1, <2>3, <2>4, <2>5, <2>7, <2>8, <2>9, <2>10, <2>11 DEF Next
<1>2. IInv /\ [Next]_vars =>
        [\A r \in Run : entry'[r].offset # entry[r].offset =>
            \E m \in net \ net' : m.t = "page" /\ m.call = r /\ m.from = entry'[r].offset]_vars
  BY <1>1
<1> QED BY <1>2, Invariance, PTL DEF Spec, OffsetOfOwnCall
===============================================================================
