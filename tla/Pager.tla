-------------------------------- MODULE Pager --------------------------------
(***************************************************************************)
(* Paging a finished call: query.page of native/src/server.rs over the two *)
(* ResultStreams, BufferedStream (drivers/buffered.rs) and                 *)
(* MongoCursorStream (drivers/mongodb.rs).  A result is the rows 1..rows;  *)
(* the call's lock is held for a whole request, so requests of one call    *)
(* never overlap, but a request is several pulls, and any pull of a cursor *)
(* can fail after some documents were read.  The database's answer does    *)
(* not change while it is read, and the cursor can be read on after an     *)
(* error.  One client walks the pages in order with the n key while        *)
(* has_more says so; others (the p key, a restored position) read anywhere *)
(* in between.                                                             *)
(***************************************************************************)
EXTENDS Naturals, Sequences, SequencesExt

CONSTANTS MaxRows,   \* bound on the rows of the result
          PageSize,  \* config.page_size
          MaxFrom    \* bound on the offset a request asks for

ASSUME PagerAssumption ==
    /\ MaxRows \in Nat
    /\ PageSize \in Nat \ {0}
    /\ MaxFrom \in Nat

VARIABLES
    rows,       \* how many rows the result has
    kind,       \* which ResultStream serves it
    upfront,    \* ResultStream::total() is Some
    pos,        \* rows taken out of the driver's result so far
    first,      \* MongoCursorStream.first is Some
    done,       \* MongoCursorStream.done
    buffer,     \* Call.buffer
    exhausted,  \* Call.exhausted
    req,        \* the request that holds the call's lock
    reply,      \* the last page sent
    failed,     \* history: some pull has failed
    walk,       \* the walking client's next offset
    ended,      \* the walking client saw has_more = false
    seen        \* history: the rows the walking client was given

pvars == <<rows, kind, upfront, pos, first, done, buffer, exhausted, req, reply,
           failed, walk, ended, seen>>

stream == <<pos, first, done>>
fixed  == <<rows, kind, upfront>>
client == <<walk, ended, seen>>

Unknown == MaxRows + 1      \* a total the reply leaves out
NoReq   == [by |-> "nobody", from |-> 0]
NoReply == [from |-> 0, rows |-> <<>>, more |-> TRUE, total |-> Unknown]

(* Rows a+1 .. b of the result.                                              *)
Rows(a, b) == [i \in 1..(b - a) |-> a + i]

Least(a, b) == IF a <= b THEN a ELSE b

(* A cursor is opened by reading its first document; a buffered result knows *)
(* its total unless it is a write's, which has no rows.                      *)
Init ==
    /\ rows \in 0..MaxRows
    /\ kind \in {"buffered", "cursor"}
    /\ upfront \in BOOLEAN
    /\ kind = "buffered" /\ rows > 0 => upfront
    /\ first = (kind = "cursor" /\ rows > 0)
    /\ pos = IF first THEN 1 ELSE 0
    /\ done = FALSE
    /\ buffer = <<>>
    /\ exhausted = FALSE
    /\ req = NoReq
    /\ reply = NoReply
    /\ failed = FALSE
    /\ walk = 0
    /\ ended = FALSE
    /\ seen = <<>>

---------------------------------------------------------------------------
Need == req.from + PageSize
Busy == req # NoReq
MustPull == Busy /\ ~exhausted /\ Len(buffer) < Need
Want == Need - Len(buffer)

(* query.page by a client that reads anywhere.                               *)
PageAt(from) ==
    /\ ~Busy
    /\ req' = [by |-> "reader", from |-> from]
    /\ UNCHANGED <<fixed, stream, buffer, exhausted, reply, failed, client>>

(* query.page by the walking client, for its next offset.                    *)
PageNext ==
    /\ ~Busy
    /\ ~ended
    /\ req' = [by |-> "walker", from |-> walk]
    /\ UNCHANGED <<fixed, stream, buffer, exhausted, reply, failed, client>>

(* Bug: the end of the slice is not clamped to the rows there are.           *)
PullBuffered_PastEnd ==
    /\ kind = "buffered"
    /\ IF pos >= rows
         THEN /\ exhausted' = TRUE
              /\ UNCHANGED <<stream, buffer>>
         ELSE /\ buffer' = buffer \o Rows(pos, pos + Want)
              /\ pos' = pos + Want
              /\ UNCHANGED <<first, done, exhausted>>

(* BufferedStream::next_page.                                                *)
PullBuffered ==
    /\ kind = "buffered"
    /\ LET end == Least(pos + Want, rows)
       IN  IF pos >= rows
             THEN /\ exhausted' = TRUE
                  /\ UNCHANGED <<stream, buffer>>
             ELSE /\ buffer' = buffer \o Rows(pos, end)
                  /\ pos' = end
                  /\ UNCHANGED <<first, done, exhausted>>

(* MongoCursorStream::next_page: the held document first, then the cursor    *)
(* until the page is full or the cursor ends.                                *)
Held == IF first THEN 1 ELSE 0

CursorGets == IF done THEN 0 ELSE Least(Want - Held, rows - pos)

(* Bug: the document read at open only served for the columns.               *)
PullCursor_SkipsFirst ==
    /\ kind = "cursor"
    /\ first' = FALSE
    /\ pos' = pos + Least(Want, rows - pos)
    /\ IF pos = rows
         THEN exhausted' = TRUE /\ buffer' = buffer
         ELSE /\ buffer' = buffer \o Rows(pos, pos + Least(Want, rows - pos))
              /\ UNCHANGED exhausted
    /\ UNCHANGED done

(* Bug: an empty last page is an empty page, not the end of the stream.      *)
PullCursor_NeverEnds ==
    /\ kind = "cursor"
    /\ first' = FALSE
    /\ pos' = pos + CursorGets
    /\ done' = (done \/ Held + CursorGets < Want)
    /\ buffer' = buffer \o Rows(pos - Held, pos + CursorGets)
    /\ UNCHANGED exhausted

PullCursor ==
    /\ kind = "cursor"
    /\ first' = FALSE
    /\ pos' = pos + CursorGets
    /\ done' = (done \/ Held + CursorGets < Want)
    /\ IF Held + CursorGets = 0
         THEN exhausted' = TRUE /\ buffer' = buffer
         ELSE /\ buffer' = buffer \o Rows(pos - Held, pos + CursorGets)
              /\ UNCHANGED exhausted

(* The loop of query.page: pull until the buffer holds the page.             *)
Pull ==
    /\ MustPull
    /\ PullBuffered \/ PullCursor
    /\ UNCHANGED <<fixed, req, reply, failed, client>>

(* The cursor fails after read more documents: they, and the held one, were  *)
(* in a local vector that is dropped with the error, which ends the request. *)
PullFails(read) ==
    /\ MustPull
    /\ kind = "cursor"
    /\ ~done
    /\ Held + read < Want
    /\ pos + read <= rows
    /\ pos' = pos + read
    /\ first' = FALSE
    /\ failed' = TRUE
    /\ req' = NoReq
    /\ UNCHANGED <<fixed, done, buffer, exhausted, reply, client>>

(* The reply: a slice of the buffer, whether more may follow, and the total. *)
Start == Least(req.from, Len(buffer))

End == Least(Need, Len(buffer))

(* Bug: a stored page is sliced from its length alone.                       *)
Slice_LastRows == SubSeq(buffer, Len(buffer) - (End - Start) + 1, Len(buffer))

Slice == SubSeq(buffer, Start + 1, End)

(* Bug: has_more asks only whether the buffer holds more.                    *)
HasMore_Buffered == End < Len(buffer)

HasMore == ~exhausted \/ End < Len(buffer)

(* Bug: report what has been buffered so far as the total.                   *)
Total_SoFar == IF upfront THEN rows ELSE Len(buffer)

Total == IF upfront THEN rows ELSE IF exhausted THEN Len(buffer) ELSE Unknown

(* The buffer holds the page, or the stream ended: slice it and reply.       *)
Answer ==
    /\ Busy
    /\ ~MustPull
    /\ reply' = [from |-> Start, rows |-> Slice, more |-> HasMore, total |-> Total]
    /\ req' = NoReq
    /\ IF req.by = "walker"
         THEN /\ seen' = seen \o Slice
              /\ walk' = walk + PageSize
              /\ ended' = ~HasMore
         ELSE UNCHANGED client
    /\ UNCHANGED <<fixed, stream, buffer, exhausted, failed>>

Next ==
    \/ \E from \in 0..MaxFrom : PageAt(from)
    \/ PageNext
    \/ Pull
    \/ \E read \in 0..MaxRows : PullFails(read)
    \/ Answer

Spec == Init /\ [][Next]_pvars

(* A request that holds the lock is run to its end, and the walking client   *)
(* keeps asking while it is told there is more.                              *)
FairSpec ==
    /\ Spec
    /\ WF_pvars(Pull \/ Answer)
    /\ SF_pvars(PageNext)

---------------------------------------------------------------------------
TypeOK ==
    /\ rows \in 0..MaxRows
    /\ kind \in {"buffered", "cursor"}
    /\ upfront \in BOOLEAN /\ first \in BOOLEAN /\ done \in BOOLEAN
    /\ exhausted \in BOOLEAN /\ failed \in BOOLEAN /\ ended \in BOOLEAN
    /\ pos \in 0..MaxRows
    /\ buffer \in Seq(1..MaxRows)
    /\ seen \in Seq(1..MaxRows)
    /\ walk \in Nat
    /\ req \in [by : {"nobody", "reader", "walker"}, from : Nat]
    /\ reply \in [from : Nat, rows : Seq(1..MaxRows), more : BOOLEAN, total : 0..Unknown]

(* Until a pull fails, every request is answered with exactly the rows it    *)
(* asks for: the rows of the result from its offset on, a whole page unless  *)
(* the result ends before, whatever pages were read before it and in         *)
(* whichever order (server.rs:566-593).                                      *)
PagesAreSlices ==
    [][Busy /\ ~Busy' /\ ~failed' =>
         LET from == Least(req.from, rows)
             to == Least(req.from + PageSize, rows)
         IN  reply'.from = from /\ reply'.rows = Rows(from, to)]_pvars

(* A page that says nothing follows is the last one: no row lies beyond it.  *)
NothingHidden ==
    ~failed /\ ~reply.more => reply.from + Len(reply.rows) >= rows

(* Walking the pages while has_more gives every row once and in order, even  *)
(* if other reads move the stream in between.                                *)
WalkIsComplete ==
    ~failed => /\ IsPrefix(seen, Rows(0, rows))
               /\ ended => seen = Rows(0, rows)

(* A total that is shown is the result's, never a running count.             *)
TotalIsExact == ~failed /\ reply.total # Unknown => reply.total = rows

(* The walk ends: has_more does not stay true for ever.                      *)
WalkEnds == <>(ended \/ failed)

(* What mongodb.rs:470-471 says of the cursor, "it is then yielded first and *)
(* the rest streamed on demand": a complete walk has seen every row, failed  *)
(* and retried pages included.                                               *)
NoRowLost == ended => seen = Rows(0, rows)
=============================================================================
