----------------------------- MODULE Pager_proofs -----------------------------
(***************************************************************************)
(* What Pager's pages are worth for every bound on the result, every page  *)
(* size and every offset.                                                  *)
(*                                                                         *)
(* The argument: as long as no pull has failed, the buffer is exactly the  *)
(* rows taken from the driver, less the one document the cursor still      *)
(* holds (Buffered); a stream that says it ended was read to its end, and  *)
(* that stays true when pulls fail (Ended).  A reply is then a slice of    *)
(* the result, and the walking client has been given the rows up to its    *)
(* next offset (Walked): the request it has in flight asks for that very   *)
(* offset (Asked), so what the others read in between cannot matter.       *)
(***************************************************************************)
EXTENDS Pager, SequenceTheorems, TLAPS

USE PagerAssumption

\* The held document is the one read at open, before anything was buffered.
FirstHeld == first => kind = "cursor" /\ pos = 1 /\ buffer = <<>> /\ ~done

\* A stream that ended was read to its end, failures included.
Ended == (done \/ exhausted => pos = rows) /\ (exhausted => ~first)

\* The buffer never holds more than was taken, and all of it unless a pull failed.
Buffered ==
    /\ pos <= rows
    /\ Len(buffer) <= pos - Held
    /\ ~failed => buffer = Rows(0, pos - Held)

\* The walking client's request asks for its own next offset.
Asked == req.by = "walker" => req.from = walk /\ ~ended

\* What the walking client was given so far.
Walked ==
    ~failed => /\ seen = Rows(0, Least(walk, rows))
               /\ ended => walk >= rows

\* The last reply stays true of the result.
Replied ==
    /\ Len(reply.rows) \in Nat
    /\ ~failed => reply.from + Len(reply.rows) <= rows

IInv ==
    /\ TypeOK /\ FirstHeld /\ Ended /\ Buffered /\ Asked /\ Walked /\ Replied
    /\ NothingHidden /\ TotalIsExact

---------------------------------------------------------------------------
(* Rows(a, b) as a sequence.                                               *)

\* Rows(a, b) is the sequence of the b - a rows behind the first a.
LEMMA RowsSeq ==
    ASSUME NEW a \in Nat, NEW b \in Nat, a <= b
    PROVE  /\ Rows(a, b) \in Seq((a + 1)..b)
           /\ Len(Rows(a, b)) = b - a
           /\ \A i \in 1..(b - a) : Rows(a, b)[i] = a + i
BY DEF Rows

\* The slices of the result fit together: nothing between them, nothing twice.
LEMMA RowsConcat ==
    ASSUME NEW a \in Nat, NEW b \in Nat, NEW c \in Nat, a <= b, b <= c
    PROVE  Rows(a, b) \o Rows(b, c) = Rows(a, c)
BY RowsSeq DEF Rows

\* The first rows of the result, and how a page extends them.
LEMMA RowsFromStart ==
    ASSUME NEW a \in Nat, NEW b \in Nat, a <= b
    PROVE  /\ Len(Rows(0, a)) = a
           /\ Rows(0, a) \o Rows(a, b) = Rows(0, b)
<1>1. 0 \in Nat /\ 0 <= a /\ a - 0 = a
  OBVIOUS
<1>2. Len(Rows(0, a)) = a
  BY <1>1, RowsSeq
<1>3. Rows(0, a) \o Rows(a, b) = Rows(0, b)
  BY <1>1, RowsConcat
<1> QED BY <1>2, <1>3

\* A slice of a prefix of the result is a slice of the result.
LEMMA RowsSlice ==
    ASSUME NEW a \in Nat, NEW b \in Nat, NEW n \in Nat, a <= b, b <= n
    PROVE  SubSeq(Rows(0, n), a + 1, b) = Rows(a, b)
BY RowsSeq DEF Rows

\* Between a row and itself there is none.
LEMMA RowsEmpty == \A a \in Nat : Rows(a, a) = <<>>
BY RowsSeq DEF Rows

\* Rows of the result are rows within the bound.
LEMMA RowsType ==
    ASSUME NEW a \in Nat, NEW b \in 0..MaxRows, a <= b
    PROVE  Rows(a, b) \in Seq(1..MaxRows)
BY RowsSeq DEF Rows

\* A prefix of the result, of any length, in the sense of IsPrefix.
LEMMA RowsPrefix ==
    ASSUME NEW a \in Nat, NEW b \in Nat, a <= b
    PROVE  IsPrefix(Rows(0, a), Rows(0, b))
BY RowsSeq, RowsSlice DEF IsPrefix, Rows

---------------------------------------------------------------------------
(* The invariant holds at the start and through every step.                *)

\* A call that has just finished: nothing buffered, nothing asked, no reply.
LEMMA InitIInv == Init => IInv
<1> SUFFICES ASSUME Init PROVE IInv
  OBVIOUS
<1>1. <<>> = Rows(0, 0)
  BY RowsEmpty
<1>2. first \in BOOLEAN /\ (first => kind = "cursor" /\ rows > 0)
  BY DEF Init
<1>3. TypeOK
  <2>1. rows \in 0..MaxRows /\ pos \in 0..MaxRows /\ pos = (IF first THEN 1 ELSE 0)
    BY <1>2 DEF Init
  <2>2. req \in [by : {"nobody", "reader", "walker"}, from : Nat]
    BY DEF Init, NoReq
  <2>3. reply \in [from : Nat, rows : Seq(1..MaxRows), more : BOOLEAN, total : 0..Unknown]
    BY DEF Init, NoReply, Unknown
  <2>4. buffer \in Seq(1..MaxRows) /\ seen \in Seq(1..MaxRows)
    BY EmptySeq DEF Init
  <2>5. /\ kind \in {"buffered", "cursor"} /\ upfront \in BOOLEAN /\ done \in BOOLEAN
        /\ exhausted \in BOOLEAN /\ failed \in BOOLEAN /\ ended \in BOOLEAN /\ walk \in Nat
    BY DEF Init
  <2> QED BY <1>2, <2>1, <2>2, <2>3, <2>4, <2>5 DEF TypeOK
<1>6. FirstHeld /\ Ended /\ Buffered
  <2>1. pos = Held /\ pos \in Nat /\ rows \in Nat /\ buffer = <<>> /\ pos <= rows
    BY <1>2 DEF Init, Held
  <2>2. FirstHeld /\ Ended
    BY <1>2 DEF Init, FirstHeld, Ended
  <2> QED BY <1>1, <2>1, <2>2 DEF Buffered
<1>4. Asked /\ Walked /\ Replied
  BY <1>1 DEF Init, Asked, Walked, Replied, NoReq, NoReply, Least
<1>5. NothingHidden /\ TotalIsExact
  BY <1>1 DEF Init, NothingHidden, TotalIsExact, NoReply, Least
<1> QED BY <1>3, <1>4, <1>5, <1>6 DEF IInv

\* Taking the lock for a page changes nothing but the request.
LEMMA AskKeeps ==
  ASSUME IInv, PageNext \/ \E from \in 0..MaxFrom : PageAt(from)
  PROVE  IInv'
<1> USE DEF IInv, fixed, stream, client
<1>1. UNCHANGED <<fixed, stream, buffer, exhausted, reply, failed, client>>
  BY DEF PageNext, PageAt
<1>2. \/ req' = [by |-> "walker", from |-> walk] /\ ~ended
      \/ \E from \in 0..MaxFrom : req' = [by |-> "reader", from |-> from]
  BY DEF PageNext, PageAt
<1>3. TypeOK'
  BY <1>1, <1>2 DEF TypeOK
<1>4. FirstHeld' /\ Ended' /\ Buffered'
  BY <1>1 DEF FirstHeld, Ended, Buffered, Held
<1>5. Asked'
  BY <1>1, <1>2 DEF Asked
<1>6. Walked' /\ Replied' /\ NothingHidden' /\ TotalIsExact'
  BY <1>1 DEF Walked, Replied, NothingHidden, TotalIsExact
<1> QED BY <1>3, <1>4, <1>5, <1>6

\* A pull of a buffered result appends the rows behind those already taken.
LEMMA BufferedPullAppends ==
  ASSUME IInv, MustPull, PullBuffered
  PROVE  \/ exhausted' = TRUE /\ pos = rows /\ UNCHANGED <<stream, buffer>>
         \/ /\ pos' \in pos..rows
            /\ buffer' = buffer \o Rows(pos, pos')
            /\ UNCHANGED <<first, done, exhausted>>
<1>1. Want \in Nat
  BY DEF IInv, TypeOK, MustPull, Need, Want, Busy
<1>2. CASE pos >= rows
  <2>1. pos = rows
    BY <1>2 DEF IInv, Buffered, TypeOK
  <2> QED BY <1>2, <2>1 DEF PullBuffered
<1>3. CASE ~(pos >= rows)
  <2>1. pos' = Least(pos + Want, rows) /\ buffer' = buffer \o Rows(pos, pos')
    BY <1>3 DEF PullBuffered
  <2> QED BY <1>1, <1>3, <2>1 DEF PullBuffered, IInv, TypeOK, Least
<1> QED BY <1>2, <1>3

\* A pull of a cursor appends the held document and those behind it.
LEMMA CursorPullAppends ==
  ASSUME IInv, MustPull, PullCursor
  PROVE  /\ first' = FALSE
         /\ pos' \in pos..rows
         /\ done' \in BOOLEAN
         /\ done' => pos' = rows
         /\ \/ exhausted' = TRUE /\ pos = rows /\ pos' = pos /\ ~first /\ buffer' = buffer
            \/ buffer' = buffer \o Rows(pos - Held, pos') /\ UNCHANGED exhausted
<1>1. /\ pos \in Nat /\ rows \in Nat /\ pos <= rows
      /\ done \in BOOLEAN /\ (done => pos = rows)
      /\ Held \in {0, 1} /\ (Held = 0 => ~first)
  BY DEF IInv, TypeOK, Buffered, Ended, Held
<1>2. Want \in Nat \ {0}
  BY DEF IInv, TypeOK, MustPull, Need, Want, Busy
<1>3. /\ CursorGets \in 0..(rows - pos)
      /\ Held + CursorGets < Want => pos + CursorGets = rows
  BY <1>1, <1>2 DEF CursorGets, Least
<1>4. Held + CursorGets = 0 => pos = rows /\ CursorGets = 0 /\ ~first
  BY <1>1, <1>2, <1>3
<1>5. first' = FALSE /\ pos' = pos + CursorGets
  BY DEF PullCursor
<1>6. pos' \in pos..rows
  BY <1>1, <1>3, <1>5
<1>7. done' \in BOOLEAN /\ (done' => pos' = rows)
  <2>1. done' = (done \/ Held + CursorGets < Want)
    BY DEF PullCursor
  <2>2. done \/ Held + CursorGets < Want => pos + CursorGets = rows
    BY <1>1, <1>3
  <2> QED BY <2>1, <2>2, <1>5
<1>8. CASE Held + CursorGets = 0
  <2>1. exhausted' = TRUE /\ buffer' = buffer
    BY <1>8 DEF PullCursor
  <2>2. pos = rows /\ pos' = pos /\ ~first
    BY <1>1, <1>4, <1>5, <1>8
  <2> QED BY <1>5, <1>6, <1>7, <2>1, <2>2
<1>9. CASE Held + CursorGets # 0
  <2>1. buffer' = buffer \o Rows(pos - Held, pos') /\ UNCHANGED exhausted
    BY <1>5, <1>9 DEF PullCursor
  <2> QED BY <1>5, <1>6, <1>7, <2>1
<1> QED BY <1>8, <1>9

\* A pull moves rows from the driver's result to the buffer, and loses none.
LEMMA PullKeeps ==
  ASSUME IInv, Pull
  PROVE  IInv'
<1> USE DEF IInv, fixed, client
<1>1. /\ UNCHANGED <<fixed, req, reply, failed, client>>
      /\ MustPull
  BY DEF Pull
<1>2. /\ pos' \in pos..rows
      /\ done' \in BOOLEAN /\ exhausted' \in BOOLEAN /\ first' = FALSE
      /\ done' => pos' = rows
      /\ exhausted' => pos' = rows
      /\ \/ buffer' = buffer /\ pos' = pos /\ ~first
         \/ buffer' = buffer \o Rows(pos - Held, pos')
  <2>1. CASE PullBuffered
    <3>1. ~first /\ Held = 0
      BY <2>1 DEF PullBuffered, FirstHeld, Held
    <3>2. \/ exhausted' = TRUE /\ pos = rows /\ UNCHANGED <<stream, buffer>>
          \/ /\ pos' \in pos..rows
             /\ buffer' = buffer \o Rows(pos, pos')
             /\ UNCHANGED <<first, done, exhausted>>
      BY <2>1, <1>1, BufferedPullAppends
    <3>3. pos \in Nat /\ rows \in Nat /\ pos - 0 = pos /\ first = FALSE
      BY <3>1 DEF TypeOK
    <3>4. CASE exhausted' = TRUE /\ pos = rows /\ UNCHANGED <<stream, buffer>>
      BY <3>1, <3>3, <3>4 DEF TypeOK, stream
    <3>5. CASE /\ pos' \in pos..rows
               /\ buffer' = buffer \o Rows(pos, pos')
               /\ UNCHANGED <<first, done, exhausted>>
      <4>1. done \/ exhausted => pos' = rows
        BY <3>3, <3>5 DEF Ended
      <4> QED BY <3>1, <3>3, <3>5, <4>1 DEF TypeOK
    <3> QED BY <3>2, <3>4, <3>5
  <2>2. CASE PullCursor
    <3>1. /\ first' = FALSE /\ pos' \in pos..rows /\ done' \in BOOLEAN
          /\ done' => pos' = rows
          /\ \/ exhausted' = TRUE /\ pos = rows /\ pos' = pos /\ ~first /\ buffer' = buffer
             \/ buffer' = buffer \o Rows(pos - Held, pos') /\ UNCHANGED exhausted
      BY <2>2, <1>1, CursorPullAppends
    <3>2. exhausted => pos' = rows
      BY <3>1 DEF Ended, TypeOK
    <3>3. exhausted \in BOOLEAN
      BY DEF TypeOK
    <3>4. CASE exhausted' = TRUE /\ pos = rows /\ pos' = pos /\ ~first /\ buffer' = buffer
      BY <3>1, <3>4
    <3>5. CASE buffer' = buffer \o Rows(pos - Held, pos') /\ UNCHANGED exhausted
      BY <3>1, <3>2, <3>3, <3>5
    <3> QED BY <3>1, <3>4, <3>5
  <2> QED BY <2>1, <2>2 DEF Pull
<1>3. /\ Held \in {0, 1} /\ pos - Held \in Nat /\ pos - Held <= pos'
      /\ rows \in 0..MaxRows /\ pos \in 0..MaxRows /\ Held' = 0
  BY <1>2 DEF Held, FirstHeld, TypeOK
<1>4. /\ Rows(pos - Held, pos') \in Seq(1..MaxRows)
      /\ Len(Rows(pos - Held, pos')) = pos' - (pos - Held)
      /\ Rows(0, pos - Held) \o Rows(pos - Held, pos') = Rows(0, pos')
  <2>1. pos' \in 0..MaxRows /\ pos' \in Nat 
    BY <1>2, <1>3
  <2> DEFINE a == pos - Held
  <2>2. a \in Nat /\ a <= pos'
    BY <1>3
  <2> HIDE DEF a
  <2>3. /\ Rows(a, pos') \in Seq(1..MaxRows)
        /\ Len(Rows(a, pos')) = pos' - a
        /\ Rows(0, a) \o Rows(a, pos') = Rows(0, pos')
    <3>1. Rows(a, pos') \in Seq(1..MaxRows)
      BY <2>1, <2>2, RowsType
    <3>2. Len(Rows(a, pos')) = pos' - a
      BY <2>1, <2>2, RowsSeq
    <3>3. Rows(0, a) \o Rows(a, pos') = Rows(0, pos')
      BY <2>1, <2>2, RowsFromStart
    <3> QED BY <3>1, <3>2, <3>3
  <2> QED BY <2>3 DEF a
<1>5. Buffered' /\ buffer' \in Seq(1..MaxRows)
  <2>1. CASE buffer' = buffer /\ pos' = pos /\ ~first
    BY <1>1, <1>3, <2>1 DEF Buffered, TypeOK, Held
  <2>2. CASE buffer' = buffer \o Rows(pos - Held, pos')
    <3>1. /\ buffer' \in Seq(1..MaxRows)
          /\ Len(buffer') = Len(buffer) + Len(Rows(pos - Held, pos'))
      BY <2>2, <1>4, ConcatProperties DEF TypeOK
    <3>2. Len(buffer) \in Nat
      BY DEF TypeOK
    <3>3. ~failed => buffer' = Rows(0, pos')
      BY <2>2, <1>4 DEF Buffered
    <3> QED BY <1>1, <1>2, <1>3, <1>4, <3>1, <3>2, <3>3 DEF Buffered
  <2> QED BY <1>2, <2>1, <2>2
<1>6. TypeOK'
  <2>1. pos' \in 0..MaxRows
    BY <1>2, <1>3
  <2> QED BY <1>1, <1>2, <1>5, <2>1 DEF TypeOK, Unknown
<1>7. FirstHeld' /\ Ended' /\ Asked'
  BY <1>1, <1>2 DEF FirstHeld, Ended, Asked
<1>8. Walked' /\ Replied' /\ NothingHidden' /\ TotalIsExact'
  BY <1>1 DEF Walked, Replied, NothingHidden, TotalIsExact
<1> QED BY <1>5, <1>6, <1>7, <1>8

\* A failed pull loses rows, but takes none that are not there.
LEMMA PullFailsKeeps ==
  ASSUME IInv, NEW read \in 0..MaxRows, PullFails(read)
  PROVE  IInv'
<1> USE DEF fixed, client
<1>1. /\ UNCHANGED <<fixed, done, buffer, exhausted, reply, client>>
      /\ pos' = pos + read /\ pos + read <= rows
      /\ first' = FALSE /\ failed' = TRUE /\ req' = NoReq
      /\ ~done /\ ~exhausted
  BY DEF PullFails, MustPull
<1>2. /\ pos \in 0..MaxRows /\ rows \in 0..MaxRows /\ pos' \in 0..MaxRows
      /\ Held \in {0, 1} /\ Held' = 0 /\ Len(buffer) \in Nat
      /\ Len(buffer) <= pos - Held
  BY <1>1 DEF IInv, TypeOK, Buffered, Held
<1>3. TypeOK'
  BY <1>1, <1>2 DEF IInv, TypeOK, NoReq, Unknown
<1>4. FirstHeld' /\ Ended'
  BY <1>1 DEF FirstHeld, Ended
<1>5. Buffered'
  BY <1>1, <1>2 DEF Buffered
<1>6. Asked' /\ Walked' /\ NothingHidden' /\ TotalIsExact'
  BY <1>1 DEF Asked, Walked, NothingHidden, TotalIsExact, NoReq
<1>7. Replied'
  BY <1>1 DEF IInv, Replied
<1> QED BY <1>3, <1>4, <1>5, <1>6, <1>7 DEF IInv

\* Whatever was lost before: a page is a slice of the buffer, and a total is
\* no more than the bound.
LEMMA PageTyped ==
  ASSUME IInv, Busy, ~MustPull
  PROVE  /\ Start \in Nat /\ End \in Nat /\ Start <= End /\ End <= Len(buffer)
         /\ Slice \in Seq(1..MaxRows)
         /\ Len(Slice) = End - Start
         /\ Total \in 0..Unknown
         /\ HasMore \in BOOLEAN
<1>1. /\ Len(buffer) \in Nat /\ Len(buffer) <= MaxRows /\ rows \in 0..MaxRows
      /\ req.from \in Nat /\ buffer \in Seq(1..MaxRows)
      /\ exhausted \in BOOLEAN /\ upfront \in BOOLEAN
  BY DEF IInv, TypeOK, Buffered, Held
<1>2. Start \in Nat /\ End \in Nat /\ Start <= End /\ End <= Len(buffer)
  BY <1>1 DEF Start, End, Need, Least
<1>3. \A i \in (Start + 1)..End : buffer[i] \in 1..MaxRows
  BY <1>1, <1>2, ElementOfSeq
<1>4. Slice \in Seq(1..MaxRows) /\ Len(Slice) = End - Start
  <2>1. Start + 1 \in Int /\ End \in Int
    BY <1>2
  <2>2. /\ Slice \in Seq(1..MaxRows)
        /\ Len(Slice) = IF Start + 1 <= End THEN End - (Start + 1) + 1 ELSE 0
    BY <1>3, <2>1, SubSeqProperties DEF Slice
  <2> QED BY <1>2, <2>2
<1>5. Total \in 0..Unknown
  BY <1>1 DEF Total, Unknown
<1>6. HasMore \in BOOLEAN
  BY DEF HasMore
<1> QED BY <1>2, <1>4, <1>5, <1>6

\* Nothing lost: the page is a slice of the result, it is the last one exactly
\* if the result says so, and the total is the result's.
LEMMA PageSound ==
  ASSUME IInv, Busy, ~MustPull, ~failed
  PROVE  /\ Slice = Rows(Start, End)
         /\ End <= rows
         /\ ~HasMore => End = rows
         /\ Start = Least(req.from, rows)
         /\ End = Least(req.from + PageSize, rows)
         /\ Total # Unknown => Total = rows
<1>1. /\ pos \in Nat /\ rows \in Nat /\ pos <= rows /\ rows <= MaxRows
      /\ Held \in {0, 1} /\ pos - Held \in Nat /\ req.from \in Nat
      /\ exhausted \in BOOLEAN
  BY DEF IInv, TypeOK, Buffered, Held, FirstHeld
<1>2. buffer = Rows(0, pos - Held)
  BY DEF IInv, Buffered
<1>3. Len(buffer) = pos - Held
  <2> DEFINE taken == pos - Held
  <2>1. taken \in Nat /\ buffer = Rows(0, taken)
    BY <1>1, <1>2
  <2> HIDE DEF taken
  <2>2. Len(Rows(0, taken)) = taken
    BY <2>1, RowsFromStart
  <2> QED BY <2>1, <2>2 DEF taken
<1>4. exhausted => Len(buffer) = rows
  <2>1. exhausted => pos = rows /\ Held = 0
    BY DEF IInv, Ended, Held
  <2> QED BY <2>1, <1>1, <1>3
<1>5. exhausted \/ Len(buffer) >= Need
  <2>1. Len(buffer) \in Int /\ Need \in Int
    BY <1>1, <1>3 DEF Need
  <2> QED BY <2>1 DEF MustPull
<1>6. /\ Start \in Nat /\ End \in Nat /\ Start <= End /\ End <= Len(buffer)
  BY PageTyped
<1>7. Slice = Rows(Start, End)
  BY <1>1, <1>2, <1>3, <1>6, RowsSlice DEF Slice
<1>8. End <= rows
  BY <1>1, <1>3, <1>6
<1>9. Start = Least(req.from, rows) /\ End = Least(req.from + PageSize, rows)
  BY <1>1, <1>3, <1>4, <1>5 DEF Start, End, Need, Least
<1>10. ~HasMore => End = rows
  BY <1>1, <1>3, <1>4, <1>6 DEF HasMore
<1>11. Total # Unknown => Total = rows
  BY <1>4 DEF Total
<1> QED BY <1>7, <1>8, <1>9, <1>10, <1>11

\* A reply is a true page, and brings the walking client one page further.
LEMMA AnswerKeeps ==
  ASSUME IInv, Answer
  PROVE  IInv'
<1>1. /\ Busy /\ ~MustPull
      /\ reply' = [from |-> Start, rows |-> Slice, more |-> HasMore, total |-> Total]
      /\ req' = NoReq
      /\ UNCHANGED <<rows, kind, upfront, pos, first, done, buffer, exhausted, failed>>
  BY DEF Answer, fixed, stream
<1>2. \/ /\ req.by = "walker" /\ seen' = seen \o Slice
         /\ walk' = walk + PageSize /\ ended' = ~HasMore
      \/ UNCHANGED <<walk, ended, seen>>
  BY DEF Answer, client
<1>3. /\ Start \in Nat /\ End \in Nat /\ Start <= End /\ End <= Len(buffer)
      /\ Slice \in Seq(1..MaxRows) /\ Len(Slice) = End - Start
      /\ Total \in 0..Unknown /\ HasMore \in BOOLEAN
  BY <1>1, PageTyped
<1>4. ~failed => /\ Slice = Rows(Start, End) /\ End <= rows
                 /\ ~HasMore => End = rows
                 /\ Start = Least(req.from, rows)
                 /\ End = Least(req.from + PageSize, rows)
                 /\ Total # Unknown => Total = rows
  BY <1>1, PageSound
<1>5. /\ rows \in Nat /\ rows <= MaxRows /\ walk \in Nat
      /\ seen \in Seq(1..MaxRows) /\ ended \in BOOLEAN
  BY DEF IInv, TypeOK
<1>6. seen' \in Seq(1..MaxRows) /\ walk' \in Nat /\ ended' \in BOOLEAN
  <2>1. CASE UNCHANGED <<walk, ended, seen>>
    BY <1>5, <2>1
  <2>2. CASE seen' = seen \o Slice /\ walk' = walk + PageSize /\ ended' = ~HasMore
    BY <1>3, <1>5, <2>2, ConcatProperties
  <2> QED BY <1>2, <2>1, <2>2
<1>7. TypeOK'
  <2>1. req' \in [by : {"nobody", "reader", "walker"}, from : Nat]
    BY <1>1 DEF NoReq
  <2>2. reply' \in [from : Nat, rows : Seq(1..MaxRows), more : BOOLEAN, total : 0..Unknown]
    BY <1>1, <1>3
  <2> QED BY <1>1, <1>6, <2>1, <2>2 DEF IInv, TypeOK, Unknown
<1>8. FirstHeld' /\ Ended' /\ Buffered' /\ Asked'
  BY <1>1 DEF IInv, FirstHeld, Ended, Buffered, Held, Asked, NoReq
<1>9. Walked'
  <2> SUFFICES ASSUME ~failed
               PROVE  /\ seen' = Rows(0, Least(walk', rows))
                      /\ ended' => walk' >= rows
    BY <1>1 DEF Walked
  <2>1. seen = Rows(0, Least(walk, rows)) /\ (ended => walk >= rows)
    BY DEF IInv, Walked
  <2>2. CASE UNCHANGED <<walk, ended, seen>>
    BY <2>1, <2>2
  <2>3. CASE /\ req.by = "walker" /\ seen' = seen \o Slice
             /\ walk' = walk + PageSize /\ ended' = ~HasMore
    <3>1. req.from = walk
      BY <2>3 DEF IInv, Asked
    <3>2. Slice = Rows(Least(walk, rows), Least(walk + PageSize, rows))
      BY <1>4, <3>1
    <3>3. /\ Least(walk, rows) \in Nat /\ Least(walk + PageSize, rows) \in Nat
          /\ Least(walk, rows) <= Least(walk + PageSize, rows)
      BY <1>5 DEF Least
    <3>4. seen' = Rows(0, Least(walk', rows))
      BY <2>1, <2>3, <3>2, <3>3, RowsFromStart
    <3>5. ended' => walk' >= rows
      <4>1. End = Least(walk + PageSize, rows) /\ (~HasMore => End = rows)
        BY <1>4, <3>1
      <4>2. ~HasMore => walk + PageSize >= rows
        BY <4>1, <1>5 DEF Least
      <4> QED BY <4>2, <2>3
    <3> QED BY <3>4, <3>5
  <2> QED BY <1>2, <2>2, <2>3
<1>10. Replied'
  BY <1>1, <1>3, <1>4, <1>5 DEF Replied
<1>11. NothingHidden'
  BY <1>1, <1>3, <1>4, <1>5 DEF NothingHidden
<1>12. TotalIsExact'
  BY <1>1, <1>4 DEF TotalIsExact, Unknown
<1> QED BY <1>7, <1>8, <1>9, <1>10, <1>11, <1>12 DEF IInv

\* Every step keeps the invariant.
LEMMA Inductive ==
  ASSUME IInv, [Next]_pvars
  PROVE  IInv'
<1>1. CASE UNCHANGED pvars
  BY <1>1 DEF IInv, pvars, TypeOK, FirstHeld, Ended, Buffered, Held, Asked, Walked,
              Replied, NothingHidden, TotalIsExact
<1>2. CASE PageNext \/ \E from \in 0..MaxFrom : PageAt(from)
  BY <1>2, AskKeeps
<1>3. CASE Pull
  BY <1>3, PullKeeps
<1>4. CASE \E read \in 0..MaxRows : PullFails(read)
  BY <1>4, PullFailsKeeps
<1>5. CASE Answer
  BY <1>5, AnswerKeeps
<1> QED BY <1>1, <1>2, <1>3, <1>4, <1>5 DEF Next

---------------------------------------------------------------------------
(* The theorems.                                                           *)

\* IInv holds in every reachable state.
THEOREM Invariance == Spec => []IInv
<1>1. IInv /\ [Next]_pvars => IInv'
  BY Inductive
<1> QED BY InitIInv, <1>1, PTL DEF Spec

\* Every variable keeps its type, whatever fails.
THEOREM PagerTypeCorrect == Spec => []TypeOK
<1>1. IInv => TypeOK
  BY DEF IInv
<1> QED BY Invariance, <1>1, PTL

\* A request of query.page is answered with the rows from its offset on, a
\* whole page of them unless the result ends before, after any pages in any
\* order, until a pull fails (server.rs:566-593).
THEOREM PagesCorrect == Spec => PagesAreSlices
<1> DEFINE Sliced == LET from == Least(req.from, rows)
                         to == Least(req.from + PageSize, rows)
                     IN  reply'.from = from /\ reply'.rows = Rows(from, to)
<1>1. IInv /\ [Next]_pvars => [Busy /\ ~Busy' /\ ~failed' => Sliced]_pvars
  <2> SUFFICES ASSUME IInv, Next, Busy, ~Busy', ~failed'
               PROVE  Sliced
    OBVIOUS
  <2>1. Answer
    <3>1. ~Pull
      BY DEF Pull, Busy
    <3>2. ~\E read \in 0..MaxRows : PullFails(read)
      BY DEF PullFails
    <3> QED BY <3>1, <3>2 DEF Next, PageNext, PageAt
  <2>2. /\ reply' = [from |-> Start, rows |-> Slice, more |-> HasMore, total |-> Total]
        /\ ~MustPull /\ ~failed
    BY <2>1 DEF Answer
  <2> QED BY <2>2, PageSound
<1> QED BY Invariance, <1>1, PTL DEF Spec, PagesAreSlices

\* A page without has_more is the last one.
THEOREM LastPageIsLast == Spec => []NothingHidden
<1>1. IInv => NothingHidden
  BY DEF IInv
<1> QED BY Invariance, <1>1, PTL

\* Walking the pages gives a prefix of the result, and all of it at the end.
THEOREM WalkCorrect == Spec => []WalkIsComplete
<1>1. IInv => WalkIsComplete
  <2> SUFFICES ASSUME IInv, ~failed
               PROVE  IsPrefix(seen, Rows(0, rows)) /\ (ended => seen = Rows(0, rows))
    BY DEF WalkIsComplete
  <2>1. /\ seen = Rows(0, Least(walk, rows)) /\ (ended => walk >= rows)
        /\ walk \in Nat /\ rows \in Nat
    BY DEF IInv, Walked, TypeOK
  <2>2. Least(walk, rows) \in Nat /\ Least(walk, rows) <= rows
    BY <2>1 DEF Least
  <2>3. ended => Least(walk, rows) = rows
    BY <2>1 DEF Least
  <2> QED BY <2>1, <2>2, <2>3, RowsPrefix
<1> QED BY Invariance, <1>1, PTL

\* A total in a reply is the size of the result.
THEOREM TotalCorrect == Spec => []TotalIsExact
<1>1. IInv => TotalIsExact
  BY DEF IInv
<1> QED BY Invariance, <1>1, PTL

---------------------------------------------------------------------------
(* What remains when pulls fail: rows are lost, but none is repeated or    *)
(* moved, and a row that was buffered keeps its place.                     *)

\* Rows in the order of the result, none twice, none beyond b.
Ascending(s, b) ==
    /\ \A i \in 1..Len(s) : s[i] <= b
    /\ \A i, j \in 1..Len(s) : i < j => s[i] < s[j]

\* No page shows a row twice or out of order, whatever failed before it.
NothingTwice == Ascending(reply.rows, rows)

Sorted == Ascending(buffer, pos - Held) /\ NothingTwice

\* Appending the rows behind a to rows up to a keeps the order.
LEMMA AscendingAppend ==
  ASSUME NEW s \in Seq(1..MaxRows), NEW a \in Nat, NEW b \in 0..MaxRows, a <= b,
         Ascending(s, a)
  PROVE  Ascending(s \o Rows(a, b), b)
<1> DEFINE t == Rows(a, b)
<1>1. /\ t \in Seq(1..MaxRows) /\ Len(t) = b - a
      /\ \A i \in 1..(b - a) : t[i] = a + i
  <2>1. b \in Nat
    OBVIOUS
  <2>2. t \in Seq(1..MaxRows)
    BY RowsType
  <2>3. Len(t) = b - a /\ \A i \in 1..(b - a) : t[i] = a + i
    BY <2>1, RowsSeq
  <2> QED BY <2>2, <2>3
<1> HIDE DEF t
<1>2. /\ Len(s \o t) = Len(s) + (b - a)
      /\ \A i \in 1..(Len(s) + (b - a)) :
            (s \o t)[i] = IF i <= Len(s) THEN s[i] ELSE a + (i - Len(s))
  <2>1. /\ Len(s \o t) = Len(s) + Len(t)
        /\ \A i \in 1..(Len(s) + Len(t)) :
              (s \o t)[i] = IF i <= Len(s) THEN s[i] ELSE t[i - Len(s)]
    BY <1>1, ConcatProperties
  <2>2. Len(s) \in Nat
    OBVIOUS
  <2>3. \A i \in 1..(Len(s) + Len(t)) : ~(i <= Len(s)) => t[i - Len(s)] = a + (i - Len(s))
    BY <1>1, <2>2
  <2> QED BY <1>1, <2>1, <2>3
<1>3. \A i \in 1..Len(s) : s[i] \in Nat /\ s[i] <= a
  BY DEF Ascending
<1>4. Len(s) \in Nat
  OBVIOUS
<1>5. Ascending(s \o t, b)
  <2>1. \A i \in 1..Len(s \o t) : (s \o t)[i] <= b
    BY <1>2, <1>3, <1>4
  <2>2. ASSUME NEW i \in 1..Len(s \o t), NEW j \in 1..Len(s \o t), i < j
        PROVE  (s \o t)[i] < (s \o t)[j]
    <3>1. CASE j <= Len(s)
      BY <1>2, <1>4, <2>2, <3>1 DEF Ascending
    <3>2. CASE i <= Len(s) /\ ~(j <= Len(s))
      BY <1>2, <1>3, <1>4, <2>2, <3>2
    <3>3. CASE ~(i <= Len(s))
      BY <1>2, <1>4, <2>2, <3>3
    <3> QED BY <1>2, <1>4, <2>2, <3>1, <3>2, <3>3
  <2> QED BY <2>1, <2>2 DEF Ascending
<1> QED BY <1>5 DEF t

\* A call that has just finished has nothing to repeat.
LEMMA SortedInit == Init => Sorted
BY DEF Init, Sorted, NothingTwice, Ascending, NoReply

\* What a pull appends lies behind what is there.
LEMMA SortedPull ==
  ASSUME IInv, Sorted, Pull
  PROVE  Sorted'
<1>1. /\ UNCHANGED <<fixed, req, reply, failed, client>> /\ MustPull
      /\ buffer \in Seq(1..MaxRows) /\ pos \in 0..MaxRows /\ rows \in 0..MaxRows
      /\ Held \in {0, 1} /\ pos - Held \in Nat /\ pos - Held <= pos
      /\ (first => kind = "cursor")
  BY DEF Pull, IInv, TypeOK, Held, FirstHeld
<1>2. \/ buffer' = buffer /\ pos' = pos /\ Held' = Held
      \/ /\ pos' \in pos..rows /\ Held' = 0
         /\ buffer' = buffer \o Rows(pos - Held, pos')
  <2>1. CASE PullBuffered
    <3>1. ~first /\ Held = 0 /\ pos - 0 = pos
      BY <1>1, <2>1 DEF PullBuffered, Held
    <3>2. CASE UNCHANGED <<stream, buffer>>
      BY <3>2 DEF stream, Held
    <3>3. CASE /\ pos' \in pos..rows
               /\ buffer' = buffer \o Rows(pos, pos')
               /\ UNCHANGED <<first, done, exhausted>>
      <4>1. Held' = 0
        BY <3>1, <3>3 DEF Held
      <4> QED BY <3>1, <3>3, <4>1
    <3> QED BY <1>1, <2>1, <3>2, <3>3, BufferedPullAppends
  <2>2. CASE PullCursor
    <3>1. first' = FALSE /\ Held' = 0
      BY <1>1, <2>2, CursorPullAppends DEF Held
    <3> QED BY <1>1, <2>2, <3>1, CursorPullAppends DEF Held
  <2> QED BY <2>1, <2>2 DEF Pull
<1>3. Ascending(buffer', pos' - Held')
  <2>1. CASE buffer' = buffer /\ pos' = pos /\ Held' = Held
    BY <2>1 DEF Sorted
  <2>2. CASE /\ pos' \in pos..rows /\ Held' = 0
             /\ buffer' = buffer \o Rows(pos - Held, pos')
    <3> DEFINE a == pos - Held
    <3>1. /\ a \in Nat /\ pos' \in 0..MaxRows /\ a <= pos' /\ Ascending(buffer, a)
          /\ buffer' = buffer \o Rows(a, pos') /\ pos' - Held' = pos'
      <4>1. pos' \in Nat /\ pos' \in 0..MaxRows /\ pos <= pos'
        <5>1. pos \in 0..MaxRows /\ rows \in 0..MaxRows
          BY <1>1
        <5>2. pos' \in pos..rows
          BY <2>2
        <5>3. pos' \in Nat /\ pos <= pos' /\ pos' <= rows
          BY <5>1, <5>2
        <5> QED BY <5>1, <5>3
      <4>2. a \in Nat /\ a <= pos'
        BY <1>1, <4>1
      <4>3. pos' - Held' = pos'
        <5>1. Held' = 0 /\ pos' \in Nat
          BY <2>2, <4>1
        <5>2. \A z \in Nat : z - 0 = z
          OBVIOUS
        <5> QED BY <5>1, <5>2
      <4> QED BY <1>1, <2>2, <4>1, <4>2, <4>3 DEF Sorted
    <3> HIDE DEF a
    <3>2. Ascending(buffer \o Rows(a, pos'), pos')
      BY <1>1, <3>1, AscendingAppend
    <3> QED BY <3>1, <3>2
  <2> QED BY <1>2, <2>1, <2>2
<1> QED BY <1>1, <1>3 DEF Sorted, NothingTwice, fixed

\* A failed pull moves on in the result and appends nothing.
LEMMA SortedPullFails ==
  ASSUME IInv, Sorted, NEW read \in 0..MaxRows, PullFails(read)
  PROVE  Sorted'
<1>1. /\ UNCHANGED <<buffer, rows, reply>> /\ pos' = pos + read /\ first' = FALSE
  BY DEF PullFails, fixed
<1>2. /\ pos \in Nat /\ Held \in {0, 1} /\ Held' = 0 /\ buffer \in Seq(1..MaxRows)
  BY <1>1 DEF IInv, TypeOK, Held
<1>3. \A i \in 1..Len(buffer) : buffer[i] \in Nat
  BY <1>2
<1>4. Ascending(buffer', pos' - Held')
  BY <1>1, <1>2, <1>3 DEF Sorted, Ascending
<1> QED BY <1>1, <1>4 DEF Sorted, NothingTwice

\* A page is a slice of the buffer, in its order.
LEMMA SortedAnswer ==
  ASSUME IInv, Sorted, Answer
  PROVE  Sorted'
<1>1. /\ Busy /\ ~MustPull /\ reply'.rows = Slice
      /\ UNCHANGED <<rows, pos, first, buffer>>
  BY DEF Answer, fixed, stream
<1>2. /\ Start \in Nat /\ End \in Nat /\ Start <= End /\ End <= Len(buffer)
      /\ Slice \in Seq(1..MaxRows) /\ Len(Slice) = End - Start
  BY <1>1, PageTyped
<1>3. /\ buffer \in Seq(1..MaxRows) /\ Len(buffer) \in Nat
      /\ \A i \in 1..Len(buffer) : buffer[i] \in Nat
      /\ pos \in Nat /\ rows \in Nat /\ pos <= rows /\ Held \in {0, 1}
  BY DEF IInv, TypeOK, Buffered, Held
<1>4. \A i \in 1..(End - Start) : Slice[i] = buffer[Start + i]
  BY <1>2, <1>3 DEF Slice
<1>5. Ascending(Slice, rows)
  <2>1. \A i \in 1..Len(buffer) : buffer[i] <= rows
    BY <1>3 DEF Sorted, Ascending
  <2>2. \A i \in 1..(End - Start) : Start + i \in 1..Len(buffer)
    BY <1>2, <1>3
  <2>3. \A i, j \in 1..(End - Start) : i < j => buffer[Start + i] < buffer[Start + j]
    <3> SUFFICES ASSUME NEW i \in 1..(End - Start), NEW j \in 1..(End - Start), i < j
                 PROVE  buffer[Start + i] < buffer[Start + j]
      OBVIOUS
    <3>1. Start + i \in 1..Len(buffer) /\ Start + j \in 1..Len(buffer) /\ Start + i < Start + j
      BY <1>2, <2>2
    <3> QED BY <3>1 DEF Sorted, Ascending
  <2> QED BY <1>2, <1>4, <2>1, <2>2, <2>3 DEF Ascending
<1>6. Sorted' <=> Ascending(buffer, pos - Held) /\ Ascending(Slice, rows)
  BY <1>1 DEF Sorted, NothingTwice, Held
<1> QED BY <1>5, <1>6 DEF Sorted

\* Failures included, no page shows a row twice or out of order: a retried
\* cursor goes on behind what it lost (mongodb.rs next_page, server.rs page).
THEOREM PagesNeverRepeat == Spec => []NothingTwice
<1>1. ASSUME IInv, Sorted, [Next]_pvars PROVE Sorted'
  <2>1. CASE UNCHANGED pvars
    BY <1>1, <2>1 DEF pvars, Sorted, NothingTwice, Held
  <2>2. CASE PageNext \/ \E from \in 0..MaxFrom : PageAt(from)
    BY <1>1, <2>2 DEF PageNext, PageAt, fixed, stream, Sorted, NothingTwice, Held
  <2>3. CASE Pull
    BY <1>1, <2>3, SortedPull
  <2>4. CASE \E read \in 0..MaxRows : PullFails(read)
    BY <1>1, <2>4, SortedPullFails
  <2>5. CASE Answer
    BY <1>1, <2>5, SortedAnswer
  <2> QED BY <1>1, <2>1, <2>2, <2>3, <2>4, <2>5 DEF Next
<1>2. Sorted => NothingTwice
  BY DEF Sorted
<1> QED BY <1>1, <1>2, SortedInit, Invariance, PTL DEF Spec
=============================================================================
