------------------------------ MODULE ResultDock ------------------------------
(***************************************************************************)
(* The result dock (lua/lvim-db/ui/result.lua) with the statements that    *)
(* reach it: the drawer's previews, the editor's single runs and its       *)
(* statement-by-statement runs of a buffer (run_all), re-runs from the     *)
(* call log and the refresh behind a row write.                            *)
(*                                                                         *)
(* Lua runs one callback at a time, so a key press, the callback of one    *)
(* answer and one scheduled function are one action each.  What interleaves*)
(* are the user, the engine's answers, which come in any order (the engine *)
(* handles requests concurrently) except that a statement's response comes *)
(* before its query.state line (DbServer!ResponseFirst), and the functions *)
(* Lua scheduled, which run in order.                                      *)
(*                                                                         *)
(* A statement is the preview of an object, or AdHoc.  Engine calls are    *)
(* numbered like the runs.  Of a row only its provenance is kept: the call *)
(* it was fetched from and the object whose key addresses it.  Identical   *)
(* requests in flight count once.  Drawing is left out except for whether  *)
(* a grid is drawn, which guards the editors.                              *)
(***************************************************************************)
EXTENDS Naturals, Sequences, FiniteSets, SequencesExt

CONSTANTS Conn,      \* the open connections
          Obj,       \* the objects that can be browsed
          AdHoc,     \* a statement that is no object's preview
          None,      \* Lua's nil for an object
          ChainLen,  \* how many statements the editor's buffer holds
          LogMax,    \* the call log's capacity (200)
          CacheOn,   \* config.cache.enabled
          CacheSize, \* config.cache.size
          MaxRuns,   \* bound on the runs over a session, refreshes included
          MaxOpens,  \* bound on how often a cached call is opened
          MaxOffset  \* the offset of a result's last page, in pages

ASSUME DockAssumption ==
    /\ Conn # {} /\ IsFiniteSet(Conn) /\ IsFiniteSet(Obj)
    /\ AdHoc \notin Obj /\ None \notin Obj /\ AdHoc # None
    /\ ChainLen \in Nat \ {0} /\ LogMax \in Nat \ {0} /\ CacheSize \in Nat
    /\ CacheOn \in BOOLEAN
    /\ MaxRuns \in Nat \ {0} /\ MaxOpens \in Nat /\ MaxOffset \in Nat

Run    == 1..MaxRuns
Offset == 0..MaxOffset
Gen    == 0..(MaxRuns + MaxOpens)

VARIABLES
    shown,    \* state.conn, statement, origin, call_id (0 = nil), page (the
              \* call it was fetched from, 0 = nil), offset, the identity of
              \* the origin table and whose count it carries (0 = none)
    view,     \* state.view
    open,     \* the dock's window is open
    grid,     \* state.grid is set
    edit,     \* state.edit: the locked rows, at most one
    log,      \* state.calls: the log's entries, newest last (0 = a row write)
    entry,    \* the log entry of each run
    n,        \* how many runs were started
    engine,   \* what the engine did with each run's statement
    held,     \* the calls whose buffers the engine keeps
    net,      \* requests whose answers Lua has not handled
    sched,    \* the functions passed to vim.schedule
    dialogs,  \* the confirms and forms the user has not answered
    spent,    \* runs the user's requests may still lead to, and did
    opens,    \* how often a cached call was opened
    chained   \* the editor's buffer was run (once per session)

vars == <<shown, view, open, grid, edit, log, entry, n, engine, held, net,
          sched, dialogs, spent, opens, chained>>

Request == [conn : Conn, stmt : Obj \cup {AdHoc}, origin : Obj \cup {None},
            k : 0..ChainLen]
Lock    == [obj : Obj, row : Run]
Plan    == [obj : Obj, lock : Obj \cup {None}]

(* What a key press on a row asks the object's key for: the row lock, its    *)
(* removal, the form over all its fields, or the form of a new row.          *)
Editor == {"lock", "delete", "popup", "insert"}

(* Requests in flight, by what their answer is for.                          *)
Classify(q)       == [t |-> "classify", q |-> q]
Exec(r)           == [t |-> "exec", run |-> r]
State(r)          == [t |-> "state", run |-> r]
Page(c, f, alive) == [t |-> "page", call |-> c, from |-> f, alive |-> alive]
Key(o, r, what)   == [t |-> "key", obj |-> o, row |-> r, what |-> what]
DryRun(p)         == [t |-> "dry", plan |-> p]
Write(c)          == [t |-> "write", conn |-> c]
Count(g)          == [t |-> "count", gen |-> g]

Message ==
    {Classify(q) : q \in Request} \cup {Exec(r) : r \in Run} \cup
    {State(r) : r \in Run} \cup
    {Page(c, f, a) : c \in Run, f \in Offset, a \in BOOLEAN} \cup
    {Key(o, r, w) : o \in Obj, r \in Run, w \in Editor \ {"insert"}} \cup
    {Key(o, 0, "insert") : o \in Obj} \cup
    {DryRun(p) : p \in Plan} \cup {Write(c) : c \in Conn} \cup
    {Count(g) : g \in Gen}

(* Functions handed to vim.schedule, and dialogs waiting for an answer.      *)
Start(q)    == [t |-> "start", q |-> q]
Ask(q)      == [t |-> "ask", q |-> q]
Show(r)     == [t |-> "show", run |-> r]
Stop(k)     == [t |-> "stop", k |-> k]
Confirm(p)  == [t |-> "confirm", plan |-> p]
Form(o)     == [t |-> "form", lock |-> o]
Refresh(c)  == [t |-> "refresh", conn |-> c]

Dialog == {Ask(q) : q \in Request} \cup {Confirm(p) : p \in Plan} \cup
          {Form(o) : o \in Obj \cup {None}}
Thunk  == {Start(q) : q \in Request} \cup {Ask(q) : q \in Request} \cup
          {Show(r) : r \in Run} \cup {Stop(k) : k \in 0..ChainLen} \cup
          {Confirm(p) : p \in Plan} \cup {Refresh(c) : c \in Conn}

NoEntry == [q |-> [conn |-> CHOOSE c \in Conn : TRUE, stmt |-> AdHoc,
                   origin |-> None, k |-> 0],
            state |-> "none", call |-> 0, offset |-> 0, land |-> 0]

Init ==
    /\ shown = [conn |-> None, stmt |-> None, origin |-> None, call |-> 0,
                page |-> 0, offset |-> 0, gen |-> 0, total |-> 0]
    /\ view = "result"
    /\ open = TRUE
    /\ grid = FALSE
    /\ edit = {}
    /\ log = <<>>
    /\ entry = [r \in Run |-> NoEntry]
    /\ n = 0
    /\ engine = [r \in Run |-> "none"]
    /\ held = {}
    /\ net = {}
    /\ sched = <<>>
    /\ dialogs = {}
    /\ spent = 0
    /\ opens = 0
    /\ chained = FALSE

---------------------------------------------------------------------------
(* Helpers                                                                 *)

(* render(): the result view draws a grid when there is a page; the log view *)
(* leaves the grid as it was.                                                *)
Drawn(v, page) ==
    grid' = IF ~open' THEN FALSE ELSE IF v = "result" THEN page # 0 ELSE grid

(* goto_page: the page request of the current call, if there is one.         *)
GotoPage(call, from) ==
    IF call = 0 THEN {} ELSE {Page(call, from, call \in held)}

(* Bug: a failed statement does not stop the buffer's run.                   *)
OnDone_GoesOn(k, ok, c) ==
    IF k \in 1..(ChainLen - 1)
    THEN {Classify([conn |-> c, stmt |-> AdHoc, origin |-> None, k |-> k + 1])}
    ELSE {}

(* on_done(ok) of statement k of a buffer: the next one is run on what is    *)
(* the active connection c by then.  k = 0: the run has no on_done.          *)
OnDone(k, ok, c) ==
    IF ok /\ k \in 1..(ChainLen - 1)
    THEN {Classify([conn |-> c, stmt |-> AdHoc, origin |-> None, k |-> k + 1])}
    ELSE {}

(* fetch_total: the count of the origin object, as one round trip.           *)
FetchTotal(origin, g) == IF origin = None THEN {} ELSE {Count(g)}

(* Bug: the log is never cut.                                                *)
Logged_Unbounded(id) == log' = Append(log, id)

(* The call log takes an entry and forgets its oldest when full.             *)
Logged(id) ==
    log' = IF Len(log) = LogMax THEN Append(Tail(log), id) ELSE Append(log, id)

---------------------------------------------------------------------------
(* M.run: the lock dies, the dock is pointed at the new statement, the       *)
(* statement is logged as running and sent.  net0 is what else is in flight. *)
RunStatement(q, land, net0) ==
    LET r == n + 1
        g == shown.gen + 1
    IN  /\ n' = r
        /\ edit' = {}
        /\ grid' = IF edit # {} /\ open /\ view = "result" THEN shown.page # 0 ELSE grid
        /\ shown' = [conn |-> q.conn, stmt |-> q.stmt, origin |-> q.origin,
                     call |-> 0, page |-> 0, offset |-> 0, gen |-> g, total |-> 0]
        /\ entry' = [entry EXCEPT ![r] = [q |-> q, state |-> "running", call |-> 0,
                                          offset |-> 0, land |-> land]]
        /\ Logged(r)
        /\ engine' = [engine EXCEPT ![r] = "asked"]
        /\ net' = net0 \cup FetchTotal(q.origin, g) \cup {Exec(r)}
        /\ UNCHANGED <<view, open, held>>

---------------------------------------------------------------------------
(* The user asks for statements                                            *)

(* run_guarded: ask the engine first whether the statement is destructive.   *)
RunGuarded(q) ==
    /\ spent < MaxRuns
    /\ spent' = spent + 1
    /\ net' = net \cup {Classify(q)}
    /\ UNCHANGED <<shown, view, open, grid, edit, log, entry, n, engine, held,
                   sched, dialogs, opens, chained>>

(* The drawer's Data facet: a preview of one object.                         *)
Browse(c, o) == RunGuarded([conn |-> c, stmt |-> o, origin |-> o, k |-> 0])

(* The editor runs one statement.                                            *)
RunOne(c) == RunGuarded([conn |-> c, stmt |-> AdHoc, origin |-> None, k |-> 0])

(* The editor runs the statements of its buffer one after the other.         *)
RunAll(c) ==
    /\ ~chained
    /\ chained' = TRUE
    /\ spent + ChainLen <= MaxRuns
    /\ spent' = spent + ChainLen
    /\ net' = net \cup {Classify([conn |-> c, stmt |-> AdHoc,
                                  origin |-> None, k |-> 1])}
    /\ UNCHANGED <<shown, view, open, grid, edit, log, entry, n, engine, held,
                   sched, dialogs, opens>>

(* The answer to classify schedules the run, or the confirm.                 *)
HandleClassify(m, dangerous) ==
    /\ m \in net /\ m.t = "classify"
    /\ net' = net \ {m}
    /\ sched' = Append(sched, IF dangerous THEN Ask(m.q) ELSE Start(m.q))
    /\ UNCHANGED <<shown, view, open, grid, edit, log, entry, n, engine, held,
                   dialogs, spent, opens, chained>>

(* The user answers "Run it anyway?".                                        *)
AnswerAsk(d, yes) ==
    /\ d \in dialogs /\ d.t = "ask"
    /\ dialogs' = dialogs \ {d}
    /\ IF yes THEN RunStatement(d.q, 0, net)
       ELSE /\ \E c \in Conn : net' = net \cup OnDone(d.q.k, FALSE, c)
            /\ UNCHANGED <<shown, view, open, grid, edit, log, entry, n, engine,
                           held>>
    /\ UNCHANGED <<sched, spent, opens, chained>>

---------------------------------------------------------------------------
(* A statement on its way                                                  *)

(* The engine registers the call, or refuses the request.                    *)
Accept(r) ==
    /\ engine[r] = "asked"
    /\ engine' = [engine EXCEPT ![r] = "running"]
    /\ held' = held \cup {r}
    /\ UNCHANGED <<shown, view, open, grid, edit, log, entry, n, net, sched,
                   dialogs, spent, opens, chained>>

Refuse(r) ==
    /\ engine[r] = "asked"
    /\ engine' = [engine EXCEPT ![r] = "refused"]
    /\ UNCHANGED <<shown, view, open, grid, edit, log, entry, n, held, net, sched,
                   dialogs, spent, opens, chained>>

(* The statement ends, by itself or cancelled, and its state line follows.   *)
Finish(r, s) ==
    /\ engine[r] = "running"
    /\ engine' = [engine EXCEPT ![r] = s]
    /\ net' = net \cup {State(r)}
    /\ UNCHANGED <<shown, view, open, grid, edit, log, entry, n, held, sched,
                   dialogs, spent, opens, chained>>

(* The places of the log whose entries have a call.                          *)
Live(e) == {i \in DOMAIN log : log[i] # 0 /\ e[log[i]].call # 0}

(* Bug: one call too many is kept.                                           *)
Evicted_OffByOne(e, r) ==
    {log[i] : i \in {j \in Live(e) : Cardinality({k \in Live(e) : k > j}) > CacheSize}}

(* What the response releases: the live entries with cache.size live ones    *)
(* behind them, whose call_id is cleared; without the cache, the call shown  *)
(* before.                                                                   *)
Evicted(e, r) ==
    IF CacheOn
    THEN {log[i] : i \in {j \in Live(e) : Cardinality({k \in Live(e) : k > j}) >= CacheSize}}
    ELSE {shown.call} \ {0, r}

(* Bug: a released call keeps its call_id.                                   *)
Cleared_Kept(e, gone) == e

(* A released entry forgets its call_id, so that its open key runs it again. *)
Cleared(e, gone) ==
    [x \in Run |-> IF CacheOn /\ x \in gone THEN [e[x] EXCEPT !.call = 0] ELSE e[x]]

(* The response to query.execute: an error is only announced; otherwise the  *)
(* call is the entry's and the dock's, whatever the dock shows by now.       *)
HandleExec(r) ==
    /\ Exec(r) \in net
    /\ engine[r] # "asked"
    /\ net' = net \ {Exec(r)}
    /\ IF engine[r] = "refused" THEN UNCHANGED <<shown, entry, held>>
       ELSE LET e    == [entry EXCEPT ![r].call = r]
                gone == Evicted(e, r)
            IN  /\ entry' = Cleared(e, gone)
                /\ shown' = [shown EXCEPT !.call = r]
                /\ held' = held \ gone
    /\ UNCHANGED <<view, open, grid, edit, log, n, engine, sched, dialogs,
                   spent, opens, chained>>

(* The query.state line: the entry resolves, and what follows is scheduled.  *)
HandleState(r) ==
    /\ State(r) \in net /\ Exec(r) \notin net
    /\ net' = net \ {State(r)}
    /\ entry' = [entry EXCEPT ![r].state = engine[r]]
    /\ sched' = Append(sched, IF engine[r] = "done" THEN Show(r)
                              ELSE Stop(entry[r].q.k))
    /\ UNCHANGED <<shown, view, open, grid, edit, log, n, engine, held, dialogs,
                   spent, opens, chained>>

(* Bug: the page is remembered on the entry of the current call.             *)
Remembered_Current(m) ==
    [x \in Run |-> IF x \in ToSet(log) /\ entry[x].call = shown.call /\ shown.call # 0
                   THEN [entry[x] EXCEPT !.offset = m.from] ELSE entry[x]]

(* The page is remembered on the log entry of the call it was asked of.      *)
Remembered(m) ==
    [x \in Run |-> IF x \in ToSet(log) /\ entry[x].call = m.call
                   THEN [entry[x] EXCEPT !.offset = m.from] ELSE entry[x]]

(* The answer to a page request: an error or an unready call changes         *)
(* nothing; a page is shown whatever the dock shows by now.                  *)
HandlePage(m, ready) ==
    /\ m \in net /\ m.t = "page"
    /\ ready => m.alive /\ engine[m.call] = "done"
    /\ net' = net \ {m}
    /\ open' = open
    /\ IF ready
       THEN /\ shown' = [shown EXCEPT !.page = m.call, !.offset = m.from]
            /\ entry' = Remembered(m)
            /\ Drawn(view, m.call)
       ELSE UNCHANGED <<shown, entry, grid>>
    /\ UNCHANGED <<view, edit, log, n, engine, held, sched, dialogs,
                   spent, opens, chained>>

(* Bug: the count lands on whatever is shown.                                *)
HandleCount_AnyOrigin(m, ok) ==
    /\ m \in net /\ m.t = "count"
    /\ net' = net \ {m}
    /\ shown' = IF ok THEN [shown EXCEPT !.total = m.gen] ELSE shown
    /\ UNCHANGED <<view, open, grid, edit, log, entry, n, engine, held, sched,
                   dialogs, spent, opens, chained>>

(* The background count lands only on the origin it was started for.         *)
HandleCount(m, ok) ==
    /\ m \in net /\ m.t = "count"
    /\ net' = net \ {m}
    /\ shown' = IF ok /\ m.gen = shown.gen THEN [shown EXCEPT !.total = m.gen] ELSE shown
    /\ UNCHANGED <<view, open, grid, edit, log, entry, n, engine, held, sched,
                   dialogs, spent, opens, chained>>

---------------------------------------------------------------------------
(* Scheduled functions, in the order they were scheduled                   *)

Due(t) ==
    /\ sched # <<>>
    /\ Head(sched).t = t
    /\ sched' = Tail(sched)
    /\ UNCHANGED <<spent, opens, chained>>

(* A confirm opens, over a destructive statement or a row write.             *)
DueDialog ==
    /\ Due("ask") \/ Due("confirm")
    /\ dialogs' = dialogs \cup {Head(sched)}
    /\ UNCHANGED <<shown, view, open, grid, edit, log, entry, n, engine, held, net>>

(* A statement found harmless runs.                                          *)
DueStart ==
    /\ Due("start")
    /\ RunStatement(Head(sched).q, 0, net)
    /\ UNCHANGED dialogs

(* A statement that failed or was cancelled ends its buffer's run.           *)
DueStop ==
    /\ Due("stop")
    /\ \E c \in Conn : net' = net \cup OnDone(Head(sched).k, FALSE, c)
    /\ UNCHANGED <<shown, view, open, grid, edit, log, entry, n, engine, held, dialogs>>

(* A done statement brings up the dock, with a page of its current call.     *)
DueShow ==
    /\ Due("show")
    /\ view' = "result"
    /\ open' = TRUE
    /\ Drawn("result", shown.page)
    /\ LET e == entry[Head(sched).run]
       IN  \E c \in Conn :
              net' = net \cup GotoPage(shown.call, e.land) \cup OnDone(e.q.k, TRUE, c)
    /\ UNCHANGED <<shown, edit, log, entry, n, engine, held, dialogs>>

(* Behind a row write the dock's current statement runs on the connection    *)
(* that was written to.                                                      *)
DueRefresh ==
    /\ Due("refresh")
    /\ RunStatement([conn |-> Head(sched).conn, stmt |-> shown.stmt,
                     origin |-> shown.origin, k |-> 0], shown.offset, net)
    /\ UNCHANGED dialogs

---------------------------------------------------------------------------
(* The dock's keys                                                         *)

(* set_view: switching the tab is allowed while a row is locked.             *)
SetView(v) ==
    /\ open /\ view # v
    /\ view' = v
    /\ open' = open
    /\ Drawn(v, shown.page)
    /\ UNCHANGED <<shown, edit, log, entry, n, engine, held, net, sched, dialogs,
                   spent, opens, chained>>

(* on_close: the lock and the grid go with the window.                       *)
CloseDock ==
    /\ open
    /\ open' = FALSE
    /\ grid' = FALSE
    /\ edit' = {}
    /\ UNCHANGED <<shown, view, log, entry, n, engine, held, net, sched, dialogs,
                   spent, opens, chained>>

(* ensure_open, reopen: the dock comes back over what state kept.            *)
Reopen ==
    /\ ~open
    /\ open' = TRUE
    /\ Drawn(view, shown.page)
    /\ UNCHANGED <<shown, view, edit, log, entry, n, engine, held, net, sched,
                   dialogs, spent, opens, chained>>

(* open_cached: the dock is pointed at a logged call whose buffer is alive.  *)
OpenCached(r) ==
    /\ open /\ view = "log" /\ CacheOn
    /\ r \in ToSet(log) /\ entry[r].call # 0
    /\ opens < MaxOpens
    /\ opens' = opens + 1
    /\ LET e == entry[r]
           g == shown.gen + 1
       IN  /\ shown' = [shown EXCEPT !.conn = e.q.conn, !.stmt = e.q.stmt,
                                     !.call = e.call, !.origin = e.q.origin,
                                     !.offset = e.offset, !.gen = g, !.total = 0]
           /\ net' = net \cup FetchTotal(e.q.origin, g) \cup GotoPage(e.call, e.offset)
    /\ view' = "result"
    /\ open' = open
    /\ Drawn("result", shown.page)
    /\ UNCHANGED <<edit, log, entry, n, engine, held, sched, dialogs,
                   spent, chained>>

(* rerun_call: a logged statement runs again, as nobody's rows.              *)
Rerun(r) ==
    /\ open /\ view = "log"
    /\ r \in ToSet(log)
    /\ spent < MaxRuns
    /\ spent' = spent + 1
    /\ RunStatement([entry[r].q EXCEPT !.origin = None, !.k = 0], 0, net)
    /\ UNCHANGED <<sched, dialogs, opens, chained>>

(* The footer's next and previous page.                                      *)
TurnPage(f) ==
    /\ open /\ view = "result" /\ edit = {}
    /\ \/ shown.page # 0 /\ shown.offset < MaxOffset /\ f = shown.offset + 1
       \/ shown.offset > 0 /\ f = shown.offset - 1
    /\ shown.call # 0
    /\ net' = net \cup GotoPage(shown.call, f)
    /\ UNCHANGED <<shown, view, open, grid, edit, log, entry, n, engine, held,
                   sched, dialogs, spent, opens, chained>>

---------------------------------------------------------------------------
(* Writing one row                                                         *)

(* edit_row, delete_row, edit_popup, new_row: the first three need a row of  *)
(* the page on screen; each first asks for the origin object's key columns.  *)
EditRow(what) ==
    /\ open /\ view = "result" /\ edit = {} /\ shown.origin # None
    /\ what # "insert" => shown.page # 0 /\ grid
    /\ spent < MaxRuns
    /\ spent' = spent + 1
    /\ net' = net \cup {Key(shown.origin, IF what = "insert" THEN 0 ELSE shown.page, what)}
    /\ UNCHANGED <<shown, view, open, grid, edit, log, entry, n, engine, held,
                   sched, dialogs, opens, chained>>

(* write_row, step one: what would run on the dock's current object?         *)
WriteRow(lock) ==
    IF shown.origin = None THEN {} ELSE {DryRun([obj |-> shown.origin, lock |-> lock])}

(* The key columns arrive: the row captured at the key press is locked,      *)
(* removed or opened in a form, if a grid is drawn that has these columns.   *)
HandleKey(m, ok) ==
    /\ m \in net /\ m.t = "key"
    /\ LET go == ok /\ (grid \/ m.what = "insert")
       IN  /\ edit' = IF go /\ m.what = "lock" THEN {[obj |-> m.obj, row |-> m.row]} ELSE edit
           /\ net' = (net \ {m}) \cup (IF go /\ m.what = "delete" THEN WriteRow(m.obj) ELSE {})
           /\ dialogs' = CASE go /\ m.what = "popup"  -> dialogs \cup {Form(m.obj)}
                           [] go /\ m.what = "insert" -> dialogs \cup {Form(None)}
                           [] OTHER                   -> dialogs
    /\ UNCHANGED <<shown, view, open, grid, log, entry, n, engine, held, sched,
                   spent, opens, chained>>

(* cancel_edit, and save_edit with nothing changed.                          *)
CancelEdit ==
    /\ edit # {} /\ open
    /\ edit' = {}
    /\ open' = open
    /\ Drawn(view, shown.page)
    /\ UNCHANGED <<shown, view, log, entry, n, engine, held, net, sched, dialogs,
                   spent, opens, chained>>

(* save_edit: the lock is given up and its address goes to write_row.        *)
SaveEdit ==
    /\ edit # {} /\ open /\ grid /\ shown.origin # None
    /\ edit' = {}
    /\ open' = open
    /\ Drawn(view, shown.page)
    /\ \E l \in edit : net' = net \cup WriteRow(l.obj)
    /\ UNCHANGED <<shown, view, log, entry, n, engine, held, sched, dialogs,
                   spent, opens, chained>>

(* edit_cell on a whole document: the replacement goes out without a dry     *)
(* run, through M.write.                                                     *)
ReplaceDocument ==
    /\ edit # {} /\ open /\ shown.origin # None
    /\ edit' = {}
    /\ open' = open
    /\ Drawn(view, shown.page)
    /\ Logged(0)
    /\ net' = net \cup {Write(shown.conn)}
    /\ UNCHANGED <<shown, view, entry, n, engine, held, sched, dialogs, spent,
                   opens, chained>>

(* A row's form is saved or closed.                                          *)
AnswerForm(d, save) ==
    /\ d \in dialogs /\ d.t = "form"
    /\ dialogs' = dialogs \ {d}
    /\ net' = net \cup (IF save THEN WriteRow(d.lock) ELSE {})
    /\ UNCHANGED <<shown, view, open, grid, edit, log, entry, n, engine, held,
                   sched, spent, opens, chained>>

(* The engine said what it would run: show it.                               *)
HandleDryRun(m, ok) ==
    /\ m \in net /\ m.t = "dry"
    /\ net' = net \ {m}
    /\ sched' = IF ok THEN Append(sched, Confirm(m.plan)) ELSE sched
    /\ UNCHANGED <<shown, view, open, grid, edit, log, entry, n, engine, held,
                   dialogs, spent, opens, chained>>

(* "Write it?": apply_row logs the write and sends it to the connection the  *)
(* dock shows by now.                                                        *)
AnswerConfirm(d, yes) ==
    /\ d \in dialogs /\ d.t = "confirm"
    /\ dialogs' = dialogs \ {d}
    /\ IF yes THEN Logged(0) /\ net' = net \cup {Write(shown.conn)}
              ELSE UNCHANGED <<log, net>>
    /\ UNCHANGED <<shown, view, open, grid, edit, entry, n, engine, held, sched,
                   spent, opens, chained>>

(* The row was written, or the engine refused.                               *)
HandleWrite(m, ok) ==
    /\ m \in net /\ m.t = "write"
    /\ net' = net \ {m}
    /\ sched' = IF ok THEN Append(sched, Refresh(m.conn)) ELSE sched
    /\ UNCHANGED <<shown, view, open, grid, edit, log, entry, n, engine, held,
                   dialogs, spent, opens, chained>>

---------------------------------------------------------------------------
User ==
    \/ \E c \in Conn, o \in Obj : Browse(c, o)
    \/ \E c \in Conn : RunOne(c) \/ RunAll(c)
    \/ \E v \in {"result", "log"} : SetView(v)
    \/ CloseDock
    \/ Reopen
    \/ \E r \in Run : OpenCached(r)
    \/ \E r \in Run : Rerun(r)
    \/ \E f \in Offset : TurnPage(f)
    \/ \E w \in Editor : EditRow(w)
    \/ CancelEdit
    \/ SaveEdit
    \/ ReplaceDocument
    \/ \E d \in dialogs, yes \in BOOLEAN :
          AnswerAsk(d, yes) \/ AnswerForm(d, yes) \/ AnswerConfirm(d, yes)

Engine == \E r \in Run : Accept(r) \/ Refuse(r) \/ \E s \in {"done", "failed"} : Finish(r, s)

Handle(m, ok) ==
    \/ HandleClassify(m, ok)
    \/ HandlePage(m, ok)
    \/ HandleCount(m, ok)
    \/ HandleKey(m, ok)
    \/ HandleDryRun(m, ok)
    \/ HandleWrite(m, ok)

Next ==
    \/ User
    \/ Engine
    \/ DueDialog \/ DueStart \/ DueStop \/ DueShow \/ DueRefresh
    \/ \E r \in Run : HandleExec(r) \/ HandleState(r)
    \/ \E m \in net, ok \in BOOLEAN : Handle(m, ok)

Spec == Init /\ [][Next]_vars

---------------------------------------------------------------------------
(* Properties                                                              *)

TypeOK ==
    /\ shown \in [conn : Conn \cup {None}, stmt : Obj \cup {AdHoc, None},
                  origin : Obj \cup {None}, call : 0..MaxRuns, page : 0..MaxRuns,
                  offset : Offset, gen : Gen, total : Gen]
    /\ view \in {"result", "log"} /\ open \in BOOLEAN /\ grid \in BOOLEAN
    /\ edit \subseteq Lock /\ Cardinality(edit) <= 1
    /\ Len(log) <= LogMax /\ ToSet(log) \subseteq 0..n
    /\ n \in 0..MaxRuns /\ spent \in n..MaxRuns
    /\ \A r \in Run : entry[r].call \in {0, r} /\ entry[r].offset \in Offset
    /\ held \subseteq 1..n
    /\ net \subseteq Message
    /\ \A i \in 1..Len(sched) : sched[i] \in Thunk
    /\ dialogs \subseteq Dialog
    /\ opens \in 0..MaxOpens /\ chained \in BOOLEAN

(* "Its daemon buffer is still ALIVE" (result.lua:2077-2081): a log entry    *)
(* with a call_id, which the log's open key pages, was never released.       *)
CachedCallsLive == \A i \in 1..Len(log) : log[i] # 0 /\ entry[log[i]].call # 0 => log[i] \in held

(* "The memory lives on the daemon, bounded by this count" (config.lua:111): *)
(* the buffers of calls that are in the log and were answered are at most    *)
(* cache.size.  (A call whose entry fell off the log is never released.)     *)
KeptBuffersBounded ==
    Cardinality({r \in held : Exec(r) \notin net /\ r \in ToSet(log)}) <= CacheSize

(* "the callback must attribute the page to THIS call, not a later run's"    *)
(* (result.lua:660): the page an entry re-opens at changes only when a page  *)
(* of its own call at that offset arrives, whatever the dock shows.          *)
OffsetOfOwnCall ==
    [][\A r \in Run : entry'[r].offset # entry[r].offset =>
          \E m \in net \ net' : m.t = "page" /\ m.call = r /\ m.from = entry'[r].offset]_vars

(* "a later run's count cannot land on this one" (result.lua:830): the total *)
(* in the header was counted for the origin on screen.                       *)
TotalOfOwnOrigin == shown.total # 0 => shown.total = shown.gen /\ shown.origin # None

(* "the next only after the previous RESOLVES", "STOPS on the first failure  *)
(* (or refusal)" (editor.lua run_all): a statement of the buffer is sent     *)
(* only when the one before it is done, and only once.                       *)
ChainOrdered ==
    \A r \in 1..n : entry[r].q.k # 0 =>
        /\ \A x \in 1..n : entry[x].q.k = entry[r].q.k => x = r
        /\ entry[r].q.k > 1 =>
              \E x \in 1..(r - 1) : entry[x].q.k = entry[r].q.k - 1 /\ entry[x].state = "done"

(* The lock of a row dies with its result, lest it "build an UPDATE          *)
(* addressing the old table with the new grid's columns - a write to         *)
(* something the user is no longer even looking at" (result.lua:2387-2392):  *)
(* the engine is asked to write to the object whose key addresses the row.   *)
WriteAddressesOwnObject ==
    \A m \in net : m.t = "dry" /\ m.plan.lock # None => m.plan.obj = m.plan.lock

(* "each new query releases the previous buffer (only one alive)"            *)
(* (config.lua:108-109), without the cache: once its response is handled,    *)
(* one buffer is left.                                                       *)
OneBufferAlive == (\A r \in 1..n : Exec(r) \notin net) => Cardinality(held) <= 1
===============================================================================
