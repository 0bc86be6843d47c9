# A verification project for lvim-db

lvim-db is a database client for Neovim: Lua panels (`lua/lvim-db`) that talk,
over newline-delimited JSON on stdio, to a separate engine process. The engine
that lives in this repository is the Rust daemon under `native/`; its successor
`lode` is another project and appears here only as "the backend process".

This directory holds TLA+ models of the parts whose behaviour is hard to test,
TLC configurations that check them on small instances, and TLAPS proofs, for all
instances, about the daemon's core and its paging, the client, the result dock, how
a connection is opened, and what the drivers make of texts, catalogs and values.

## The system

| Component | State it keeps | Operations | What is hard | What makes it correct |
|---|---|---|---|---|
| Daemon server (`native/src/server.rs`, `main.rs`, `rpc.rs`) | maps of connections and calls, an async mutex per connection, per-call status and cancel handle, one output channel | connect, disconnect, databases, switch_database, structure, columns, indexes, ddl, execute, cancel, release, shutdown | every request is a task of its own; state is read before an `await` and used after it; a disconnect or cancel may overtake a worker | one statement per connection; no link closed under a task; the response before the state; one terminal state per call; a cancel stops only its own statement; the process drains and exits |
| Paging (`server.rs` `page`, `drivers/buffered.rs`, `drivers/mongodb.rs`) | row buffer, `exhausted`, stream position, held first document | page, pull, cursor failure | boundary arithmetic, reads in any order, a pull that fails half way | a page is the slice asked for; has_more never hides a row; a walk sees every row once and ends |
| Daemon client (`lua/lvim-db/daemon.lua`) | job, ready, pending callbacks, handshake waiters, id counter, partial line | ensure, request, on_stdout, handshake, teardown, on_exit, stop | crash, stop and respawn while requests are in flight; callbacks that issue requests from inside a teardown; chunks that end inside a line | a callback is called exactly once, by its own process or with an error; nobody waits for nobody |
| Call watchers and API (`init.lua`) | call id to watcher | execute, page, cell, release, cancel, connect, disconnect | daemon restarts reuse ids | a watcher hears of its own call, once |
| Result dock (`ui/result.lua`) | displayed call, page, log of runs, cached calls, edit in progress | run, write, page, edit, delete, insert, cancel | pages and keys that arrive after the grid changed | what is shown and edited belongs to the displayed call |
| Drawer (`ui/drawer.lua`) | live connection per saved connection, expanded schema | toggle, load, adopt, disconnect, refresh | two connects in flight for one row | no live connection is lost |
| Store (`store.lua`) | mode (engine or local file), migration marker | read, save, record, migrate | a write that times out and is applied, a crash between import and marker | no saved entry is lost or doubled |
| Opening a link (`server.rs` `connect` and `test`, `net.rs`, `secret.rs`, `vault.rs`, `tls.rs`, every driver's `connect`) | the attempt: step, credential, address, SSH session, forward, link | connect, four test stages, switch_database, cancel, close | a failed encrypted attempt is replayed in plaintext; the retry resolves secrets and addresses again; bridge tasks outlive the guard | a required protection is never given up, a stranger learns no secret, a tunnel is not bypassed, the SSH session goes in the end |
| Drivers (`drivers/*.rs`, `spec.rs`, `registry.rs`) | per link: current database, sqlite's change counter | execute, structure, columns, indexes, ddl, switch_database, reading a cell | fourteen engines, each with its own idea of a text with several statements, of an unnamed schema, of a truth value and of a number | nothing is dropped silently, an answer belongs to its statement, an object is described by itself, a value arrives |
| Rules, form, DDL view, completion, configuration, keyring panel | see PROJECT.json | | | |

Components interact in three ways: the panels call `daemon.request` and get a
callback later; the daemon answers each request on a task of its own and pushes
`query.state` notifications; inside the daemon tasks share the two maps and the
connections' mutexes.

## Modules

| Module | Models | Used by |
|---|---|---|
| `DbServer` | the daemon's tasks | `MCDbServer`, `DbServer_proofs` |
| `CallLifecycle` | what query.execute promises about a call, abstractly | instantiated by `DbServer` |
| `DbServer_proofs` | theorems about `DbServer` | |
| `Pager` | query.page over the two result streams | `MCPager`, `Pager_proofs` |
| `DaemonClient` | the client's view of the engine process | `MCDaemonClient`, `DaemonClient_proofs` |
| `ResultDock` | the result dock and the editor's runs | `MCResultDock`, `ResultDock_proofs` |
| `Drivers` | META constants, registry, connection specifications (no state) | `Connecting` |
| `Connecting` | one connection from its specification to its end | `DriverSession`, `Connecting_proofs` |
| `LinkPromise` | what opening a connection promises, abstractly | instantiated by `Connecting` |
| `Statements` | what each driver's execute makes of a text (no state) | `DriverSession` |
| `Catalog` | how each driver reads an engine's catalog (no state) | `DriverSession`, `Catalog_proofs` |
| `Cells` | a value from the engine to the client's double (no state) | `DriverSession`, `Cells_proofs` |
| `DriverSession` | a connection and its requests: the composition of the four above | `MCDriverSession`, `DriverSession_proofs` |
| `Pager_proofs`, `DaemonClient_proofs`, `ResultDock_proofs`, `Connecting_proofs`, `Cells_proofs` | theorems about these modules | |
| `Catalog_proofs` | lemmas about the operators of `Catalog`, on catalogs of any size | `DriverSession_proofs` |
| `DriverSession_proofs` | theorems about `DriverSession` | |

Definitions whose names end in `_Something` and whose comment starts with "Bug:"
are deliberately wrong variants of the definition that follows them. They are
not part of any specification; putting one in the place of its original makes
the property it is paired with in PROJECT.json fail, which shows that the
property depends on that line of the code.

### DbServer

A handler is cut where it awaits or lets another task run. `execute` becomes
`Execute` (look up, allocate, register), `Respond` (send the id, spawn), and the
worker's steps `Enqueue`, `Acquire` (own the connection, register the cancel
handle), `Start`, `Finish` (the statement returned, the guard is dropped),
`Report` (the call's lock: clear the handle, settle, notify) and `End` (the
future is dropped, and its `Arc` of the connection with it). `cancel` is
`Cancel` (under the call's lock) and `FireCancel`/`FireFail` (after it).
`disconnect` is `Disconnect` and, if it found the last `Arc`, `CloseDone`. The
six requests that only borrow a connection have the same control and are one
kind of task (`OpBegin`, `Enqueue`, `OpRun`, `OpEnd`). `Eof`, `WriterBreaks` and
`Exit` are `main`: the process waits for the writer, which ends with its last
sender or when a write fails.

The mutex is a FIFO queue whose head is the holder. `link` records what becomes
of the boxed connection: `close()` is called only by a disconnect that finds no
other owner; otherwise the last owner drops it. `CanDial` says when a cancel can
reach a tunnelled database: the forwarding listener goes with the map's entry.
`out` holds the responses of `execute` and the notifications, in the order they
were sent; other responses are left out, as nothing depends on their order.

`CallLifecycle` knows none of this: an accepted call is told, may be abandoned
while it runs, and settles once, in a state that agrees with the abandonment.
`DbServer` implements it with `known` and `told` read off `out`.

### Pager

A result is the rows `1..rows`; a request holds the call's lock throughout, so
the model interleaves whole requests of two clients, but a request is several
pulls. `PullBuffered` and `PullCursor` are the two `next_page`s; `PullFails` is a
cursor error after some documents were read. It is assumed that the database's
answer does not change while it is read (so an up-front count is exact) and that
a cursor can be read on after an error. `query.cell` reads the buffer and
changes nothing.

### DaemonClient

Neovim runs one Lua callback at a time, so each callback is one action. A
request is identified with its callback, which is waiting (`waiters`), stored
(`pending`) or called (`ans`). A line on stdout is two halves, so a chunk can end
inside it; halves of different processes can meet in `stdout_tail`, which all
processes share. `Teardown` takes the set `mid` of requests issued by the
callbacks it fails: `ensure` then spawns the next process before `teardown`
captures the waiters, so such a request is failed at once although its process
is healthy. A callback that raises (`Throws`) makes `on_stdout` skip the lines
behind it in the burst. When the process bound is reached a spawn fails, which
is one of the code's own outcomes.

### ResultDock

Again each Lua callback is one action: a key press, the callback of one answer,
one function passed to `vim.schedule`. Answers come in any order, except that a
statement's response precedes its `query.state` (proved of the daemon as
`ResponseFirst`); scheduled functions run in the order they were scheduled. A
page's callback and the render it schedules are one step.

A run is a number, and the engine's call has the number of its run. A statement
is the preview of an object or `AdHoc`; of a row only the provenance is kept: the
call its page came from and the object whose key addresses it. That is what the
guards of the code compare, and what a late answer gets wrong. `sched` and
`dialogs` hold what a function captured when it was created, so a value that is
captured and a value that is read again later are told apart.

Simplified: `fetch_total` is one round trip although it is a count run and its
first page; a release takes effect at once; identical requests in flight count
once; the editor's active connection is any connection at each statement of a
buffer. Left out: the cancel key, the call a row write makes for itself beyond
its dry run and its outcome, layout, yanking and export.

### Drivers and Connecting

The fourteen drivers open a link in fourteen functions that do the same few
things in different orders. `Connecting` therefore writes a driver's `connect` as
a *plan*: the sequence of its steps (`"host"`, `"secret"`, `"net"`, `"config"`,
`"dial"`...), the steps its plaintext fallback replays, and how its dial treats TLS.
`Check`, `Resolve`, `Dial` and the others execute whatever step is next, and
there is one action per await: a secret asked of the keyring agent, each identity
an SSH agent offers, each dial. An error anywhere is `Fail`, which drops
what the attempt holds as Rust drops it: the guard at once, the SSH session when
the last bridge task has ended (`BridgeEnds`). `Register`, `Verdict`,
`SwitchDatabase`, `CancelDial` and `Disconnect` are what follows.

What answers a dial is a `peer` chosen anew each time: it offers TLS or not, with
a certificate somebody trusts or not, it takes the login or not. So the server
behind the fallback need not be the one behind the encrypted attempt. `wire`
remembers every conversation with how it was protected and whether it said the
secret: what must never be said is then a property of `wire`, not of a guard.

`Drivers` holds what the code states as constants: the META of each driver and the
meaning of a specification. `FormsAgree` (an ASSUME that TLC evaluates) relates the
two: what a form asks for and offers is what `connect` insists on and accepts.

`LinkPromise` is the abstract specification: a link that must be protected is
never given out unprotected, nor replaced by an unprotected one; the padlock is no
lie; a link without one is announced; every SSH session goes in the end.

### Statements, Catalog, Cells and DriverSession

The first three are functions, one per driver where the drivers differ.
`Statements` takes a text as a sequence of statements of six kinds and says which
ran, whose rows are shown under whose columns, and which count; `Execute` is the
set of answers a driver may give, more than one where the service decides (redis
with several lines, snowflake with a long result). `Catalog` takes
a *world* (the tables, views and materialized views an engine holds) and a *reader*:
the record of what a driver's queries look at, and which types they see at all.
`group_indexes` and the tree are folds over the rows of the answer. `Cells` follows
a number through the driver's variant, `Serialize for Value` and the client's double.

`DriverSession` lets a live connection use them, one request at a time (the
connection's mutex is `DbServer`'s subject), against a world chosen anew for every
request, while the link's own steps go on beside it. Each answer is kept with
its question until the next one, so a property compares the two.

## Runs

| Run | Expect | Shows |
|---|---|---|
| `db_server` | pass | safety of the daemon: mutual exclusion on a connection, no use after close, response before state, one terminal state, no stale handle, queued cancels harmless, drained exit |
| `db_server_live` | pass | the daemon implements `CallLifecycle` with its fairness; links are released; end of input leads to exit |
| `stray_cancel` | violation | a cancel taken in time but fired late stops the connection's next statement |
| `pager` | pass | a request is answered with the rows it asked for, a whole page unless the result ends before; totals are exact, a walk is complete and ends |
| `pager_lost` | violation | a cursor error loses the rows already read for that page |
| `daemon_client` | pass | each callback is in one hand and called once; no answer crosses processes; every request is answered while processes do not overlap and no raise drops a burst |
| `one_engine` | violation | the exit of a stopped process tears down its successor, which then runs unowned |
| `callback_fires` | violation | a raising callback makes other requests of the burst wait for ever |
| `result_dock` | pass | the log never offers a released buffer and keeps at most `cache.size` of them; totals and page positions land on their own result; a buffer's statements run in order and stop at a failure |
| `stale_lock` | violation | a row key resolved before, and used after, the dock showed another object addresses that object with the old row |
| `cache_off` | violation | with the cache disabled, two overlapping runs leave two buffers alive |
| `driver_session` | pass | for every driver: protection, tunnel and secret while a link is opened, used, switched and cancelled, and the promise of `LinkPromise` with its liveness; answers that belong to their statements; trees, columns, keys and indexes of the object meant; values that arrive |

### Bounds

- `db_server`: one connection, two statements, one schema request. Three tasks
  are the least that make a holder, a waiter and an overtaking third; properties
  about connections concern one at a time, and the theorems hold for any number.
- `db_server_live`: the same tasks, without a cancel token and without a broken
  output pipe, to keep the liveness check small. A broken pipe would end the
  process before calls settle, which is what the code means to do.
- `pager`: up to five rows in pages of two, offsets up to six: empty, short,
  exact and overlong requests all occur.
- `daemon_client`: three requests, three processes, one stop; the second process
  fails its handshake and stays up, one callback raises. Two processes overlap,
  and a request can be made while one is being replaced.
- `result_dock`: two runs, of which one may be the refresh behind a row write; a
  cache of one and a log of two, so both are full and evict; one cached call
  opened; two pages. Two runs are what an answer that comes late needs: its own
  run and the one that replaced it. Three runs exceed ten million states;
  `stale_lock` uses three, as its counterexample is found early.
- `driver_session`: every registered driver (`scylla` is left out of the build, so
  an unknown driver occurs) at every TLS mode with and without a tunnel, every
  login, every template, every tunnel login, every state of a client certificate
  and every missing parameter, a few dimensions at a time rather than their product.
  Two agent identities: the first is refused, the second taken, or none. Three
  bridges: the link's own, one left over by a failed dial, one of a cancel.
  Texts of three statements with up to two rows: a first, a middle and a last
  one are what the drivers tell apart. Two schemas with a table of the same name.
  Integers up to 7 with doubles exact up to 4, so both boundaries are crossed.

### Fairness

The daemon's tasks are polled by tokio, whose mutex is FIFO, and a driver's call
returns or fails: weak fairness of each worker, each schema request, each
pending connect, close and cancel, and of the exit. Requests and the end of
input are never assumed. In `Pager` a request that holds the lock is run to its
end and the walking client keeps asking (strong fairness, as other clients may
hold the lock in between). In `DaemonClient` a process answers what it has read
or dies, a signalled process dies, and Neovim's loop delivers chunks and exits.
`ResultDock` is checked for safety only and assumes no fairness. In `Connecting`
only the end of a bridge is fair: `copy_bidirectional` returns once one of its two
sockets is gone, and the bridges that may end are those whose driver side is
(`OwnBridge` keeps the link's own). No answer of a server, an agent or a user is
assumed, so an attempt may hang.

`CHECK_DEADLOCK FALSE` is set where the system may rest: a `DaemonClient` whose
requests have all been made and answered, and a `DriverSession` whose connection
is over with its last bridge.

## Proofs

`DbServer_proofs` proves, for every number of connections, calls and schema
requests and every choice of cancellable and tunnelled connections
(`BoundsAssumption` only types the constants), that `Spec` implies:
`TypeOK`, `OneStatementPerConnection`, `NoUseAfterClose`, `ResponseFirst`,
`OneTerminalState`, `NoStaleHandle`, `ExitDrained`, `QueuedCancelHarmless` and
`ImplementsLifecycle` (the safety part of the refinement).

None of these is inductive alone. `IndInv` adds what they rest on:

- `FreshIds`: nothing is known of an id not yet allocated, so a new call meets no
  old line, and every dial in flight will find an id;
- `ArcKeepsOpen`: a started task names a connection, and registered links are
  open, which makes "the last owner drops" safe;
- `LockDiscipline`: whoever is armed or running is at the head of its queue;
  mutual exclusion follows, as a queue has one head;
- `CallDiscipline`: how far the worker is determines which statuses are possible
  and whether a handle may be stored or fired;
- `LineDiscipline`: a response is out exactly when the worker is spawned, a state
  exactly when it has reported, which gives order and uniqueness on the wire;
- `ShutdownDiscipline`: a process that exited with its pipe intact had no task.

Each conjunct has a lemma that every step preserves it, with one case per
action. The refinement maps `Execute`, `Respond`, `Cancel` and `Report` to the
abstract steps and shows every other action invisible.

### Connecting_proofs

For every set of specifications (`SpecsAssumption`: they are specifications),
whatever servers answer and however many bridges and identities there are
(`BoundsAssumption`), `Spec` implies `TypeOK`, `RequiredMeansProtected`,
`StrangersLearnNothing`, `TunnelCarriesEverything`, `OneForward` and, as
`PromiseKept`, the safety part of the refinement of `LinkPromise`.

The properties speak of what was said; why it was said safely lies in earlier
steps. `IInv` carries that along:

- `Behind`: what a step before `at` established still holds (the address is
  known, an unprotected CQL link was refused, the link is up). Plans are straight
  lines, and `PlanFacts` shows of each of them that it asks the network seam before
  its only dial;
- `Replay`: the second round runs only where nothing is required, and with an
  address;
- `Tunnel`: a tunnelled attempt never holds the server's own address, and the
  session is accounted for by the guard, the login under way or a bridge;
- `Inside`, `Standing`: where an attempt, a live link and a switch can stand;
- `Links`: what the open link is, which the cancel and the padlock rely on.

`Heard` is the core: whatever peer answers, a dial that is heard is as protected as
the mode asks. `Onward`, `Moving` and `Dropping` say once what most actions do,
and each action has its lemma. `PromiseKept` maps `SshConnect` to Borrow,
`Register` to Admit, the dial of a switch to Replace, every end to Finish and the
last bridge to Drain.

### Cells_proofs

For every width: the text of a SQL Server decimal spells the number, with its sign
even between minus one and zero (`NumericTextExact`); a DuckDB timestamp's
seconds and nanoseconds add up to the instant before 1970 too (`DuckSplitExact`),
and an interval's clock part does when it is not negative
(`IntervalExactForward`); every integer arrives (`IntegersSurvive`).

### Pager_proofs

For every bound on the result, page size and offset (`PagerAssumption` types the
constants), `Spec` implies `TypeOK`, `PagesAreSlices`, `NothingHidden`,
`WalkIsComplete` and `TotalIsExact`; and, failed pulls included, that no page shows
a row twice or out of order (`PagesNeverRepeat`). `PagesAreSlices` is an action
property: the step that answers a request is compared with that request, its offset
and the page size, so an empty page or one of another offset is no answer. It follows
from `Buffered` and `Ended`. Proved with

- `Buffered`: unless a pull failed, the buffer is the rows taken from the driver,
  less the one document the cursor still holds;
- `Ended`: a stream that says it ended was read to its end, failures included, so
  that `has_more` may be read off the buffer;
- `FirstHeld`: the held document is the first, before anything was buffered;
- `Asked`, `Walked`: the walking client's request asks for that client's next
  offset, up to which it was given everything; reads of others in between only
  lengthen the buffer.

`RowsConcat` and `RowsSlice` are the arithmetic of slices all of it rests on;
`PagesNeverRepeat` has an invariant of its own (the buffer ascends and stays behind
the stream's position), as after a failure the buffer is no longer a prefix.

### DaemonClient_proofs

For every finite set of requests, every number of processes and stops, and
whichever requests raise in their callbacks or processes fail their handshake
(`ClientAssumption`), `Spec` implies `TypeOK`, `CallbackCustody`, `NobodyStranded`
and `AnswerFromOwnProcess`. The four need each other:

- `Custody`: a callback has one hand, so a step moves it or calls it;
- `Fresh`: no id above the counter is stored, read or in a pipe, so a new request
  cannot collide with old output that is still delivered;
- `Counted`: each id went to a handshake or to a request sent for the first time,
  so ids never run out within the bounds (a cardinality argument);
- `Roles`: what is stored was sent to the current process, and only the current
  process can still touch a stored id. This is what makes the overlap of two
  processes safe.

`Teardown` with requests issued from inside it is the hardest step: its lemma
follows the callbacks it fails, the process they spawn and the waiters it takes
along.

### ResultDock_proofs

For every set of connections and objects, and every length of the buffer, the log
and the session (`DockAssumption`), `Spec` implies `TypeOK`, `TotalOfOwnOrigin`,
`ChainOrdered` and the action property `OffsetOfOwnCall`; with the cache on
(`CacheOn`, config.lua's default), also `CachedCallsLive` and `KeptBuffersBounded`.
Without it `CachedCallsLive` is false, as the run `cache_off` shows, so the
hypothesis cannot go.

- `Budget` is the unusual one. What a user asks for becomes a run only after
  travelling through requests in flight, scheduled functions and dialogs. `Purse`
  counts what may still lead to a run wherever it is, `Links` what stands for a
  statement of the buffer, of which at most one exists. `Chain(m)` says that the
  buffer has come to statement `m`: the ones before it are done, and nothing of a
  later one exists.
- `Runs` relates, run by run, the log's entry, the engine's state, the kept buffer
  and the messages in flight: a cached call id means a buffer that is held, a state
  is announced once, and shown once.
- `Bounded` is what an eviction re-establishes: the entries with a call id are at
  most `CacheSize`. Its proof counts the live entries by their rank in the log.
- `Gens`: a count in flight belongs to no later generation than the one on screen,
  and to an origin when it is of this one.
- `Begun`, `LogOK`: what may be assumed before the first run, and the log's length.

### DriverSession_proofs

`SessionKeepsLink` shows that a session is an attempt of `Connecting` that is also
used: `SessionSpec => Spec`. So every theorem of `Connecting_proofs` holds of the
composition that `driver_session` checks. The other six properties of that run are
proved for texts and results of any length (`TextsAssumption` types the two bounds),
catalogs of any size and any widths of numbers.

- Each is an invariant of the answer alone (`Statement`, `Value`, `Inquiry`): it is
  established where the request is answered, from a lemma about the operator
  that computes the answer, and lasts because neither the link nor the current
  database moves before the answer is forgotten (`UseKeepsLink`).
- `TextsRunWhole` and `AnswersHonest` have one lemma per family of drivers. An
  answer is `Sound` if it stands for the whole text and shows one statement; an
  error is sound as it claims nothing. Redis and snowflake have lemmas of their own
  (`RedisAnswer`, `SnowflakeAnswer`), as their answers are sound with exceptions.
- `ValuesArrive` rests on the lemmas of `Cells_proofs`. `Variants` is what every
  driver's cell function has to have for it, with the engines' exceptions.
- `TreesComplete`, `ObjectsDescribed` and `IndexesInOrder` reduce the catalog to
  the one object that the node's schema and name mean (`OneMeant`) and cite
  `Catalog_proofs`. `Readers` says what the fourteen drivers' readers have in
  common, so that the proofs do not go driver by driver; `ReaderGaps` says which
  types of object a reader's queries do not see, and these are the exceptions of
  `TreeIsComplete` (`Unlisted`) and `DescribedByItself` (`Undescribed`), no more.

`WorldsAssumption` says what an engine sees to by itself. The key and the included
columns of an object are its own columns. Index names are distinct within an object.
No column is both part of an index and included in it; this one matters, as what an
index shows is compared without the included columns, which would hide a part of the
same name. Nothing is assumed of objects that share a name across schemas, the case
these properties are about.

### Catalog_proofs

The drivers build trees and fold index rows in loops, which `Catalog` writes as folds.
The prover cannot instantiate the library's induction theorems, so induction is done
here over sets: a set of sequences that holds the empty one and is closed under
`Append` is all of them (`SeqInduction`, from the least element of a set of
numbers). `FoldExists` and `StepsAgree` say which value a fold takes on each prefix.

- `Kept` filters (in the place of `SelectSeq`, of which the prover knows nothing);
  `KeptConcat`, `KeptKept` and `KeptSame` are its algebra.
- `BuiltComplete`: the tree after any rows shows every schema once and each object in
  its place. `TreeComplete` adds the top nodes that a driver shows unasked, and
  `DistinctCount` that the schemas are as many as the catalog has.
- `GroupAll`: `group_indexes` turns the rows of any number of indexes, one after the
  other, into an entry each, with the columns in their order. It holds of the order
  the drivers ask for (`Foldable`); rows of one index that were not next to each
  other would still be joined, but the order of the entries would be another.

One step of this failed for a reason of the model. `InScope` was a `CASE` with
overlapping guards, whose value TLA+ leaves open where TLC takes the first; its guards
now exclude each other.

### Only model-checked

Every invariant and every action property of a passing run is now a theorem. What
stays with TLC:

- liveness: `WalkEnds`, `EveryRequestAnswered`, `EveryLinkReleased`,
  `EofLeadsToExit`, and the fair parts of `ImplementsFairLifecycle` and
  `ImplementsPromise` (their safety parts are `ImplementsLifecycle` and
  `PromiseKept`). The prover does not reason about `ENABLED`, hence not about fairness;
- the runs that expect a violation: a counterexample is its own proof.

## Where the code does otherwise

Met while modelling the drivers. The models do what the code does; a property
that would not hold of it excepts the case by name, and these are the cases.

- Links. The endpoint test of a tunnelled specification is green once the local
  listener accepts, whatever lies behind it. `prefer` falls back to plaintext after
  any error, a refused login included. A PostgreSQL `switch_database` under `prefer`
  may come out in the clear unannounced. Snowflake ignores a tunnel, yet the answer
  says `tunneled`. Firebird ignores a required TLS mode without a tunnel (it does
  not claim the capability, so `MustProtect` does not cover it). CQL in a
  verifying mode is accepted over a tunnel without a verification. The endpoint
  test of cockroachdb dials 26257 by default, its connect 5432. `verify_ca` checks
  the name too in postgres, mongodb and redis, and no verifying mode passes a
  tunnel, as the name is then the forward's. MySQL resolves its secret twice when it
  falls back. The warning "NOT encrypted" is given for sqlite and duckdb files too.
  The keyring agent is read without a deadline.
- Texts. sqlite runs only the first of several statements when that one returns
  rows, and shows an earlier text's change count after DDL. mysql does not report
  the failure of a later statement. postgres puts the rows of several results in
  one grid. duckdb takes a user's column `Count` behind a change for a count and
  never recognises MERGE. redis splits a text at any white space and sends one
  command, so the lines after the first become its arguments: the server may refuse
  them, or answer OK or with a list in which they have a share (redis.rs 207-226,
  340-345; the editor sends a redis buffer line by line, so this takes a
  text handed to `execute` directly). snowflake shows the first partition of a long
  result, and nothing of a statement that answers later (snowflake.rs 174-237).
  Several statements are one error elsewhere.
- Catalogs. postgres flags included columns of a primary key as key columns, and
  sqlserver lists an index's included columns first and describes no view. duckdb's
  ddl ignores the schema and its catalog names no index columns. Materialized views
  are in no tree and have no columns in postgres, whose `information_schema` holds
  none (postgres.rs 326, 384; cockroachdb is read the same way and taken to be alike),
  and are in no tree in CQL, whose `system_schema.tables` holds none (cql.rs 232). CQL's indexes
  answer nothing without a keyspace while its columns use the current one. mongo
  reads the current database whatever node was named. redis shows one SCAN pass.
  Indexes of one name in several schemas are folded into one when no schema is named.
- Values. Numbers inside JSON values and ClickHouse's unquoted decimals and large
  unsigned integers become doubles. A negative DuckDB interval loses the sign of its
  fraction. CQL's decimals and varints arrive as `blobAsDecimal(0x..)` and
  `blobAsVarint(0x..)` (cql.rs 153-159). SQL Server types without a rung in the
  ladder are shown as NULL, and so are a field that a document of mongo lacks
  (mongodb.rs 253-259) and a double that is NaN or infinite, for which serde_json
  writes null (spec.rs 393; ClickHouse writes the null itself). What the libraries
  make of a type before the driver sees it, a Firebird decimal or SQL Server money
  as a double, is outside `Cells`.

## Not modelled

`databases()` of the drivers and the parsing of mongo and redis commands, the
drivers' wire protocols, cursors over several pages in `DriverSession` (that is
`Pager`), windows and highlighting; the drawer, the store, the connection form and
the other Lua parts PROJECT.json lists with their reasons. A driver that panics is
outside the models: its task would end without a notification.

Behaviours of the result dock that the model has and no run is about: a page
that arrives after another result replaced its own is still drawn; the connection
of a row write is read when the confirm is answered; the refresh behind a write
runs the statement shown at that time; an execute the engine refuses leaves its
log entry running, and a `run_all` behind it stops without calling `on_done`.

## Plan

1. Done: `DbServer` with `CallLifecycle`, `Pager`, `DaemonClient`, `ResultDock`,
   `Drivers`, `Connecting` with `LinkPromise`, `Statements`, `Catalog`, `Cells`,
   `DriverSession`, and the theorems about all of them.
2. Theorems left: the lifecycle's refinement seen from the client (that an answer
   `DaemonClient` hands on is one `DbServer` sent), once `Session` composes the two.
3. `Drawer`: the live id of each saved connection, two connects in flight for one
   row, adopt, disconnect, refresh and delete, with the editor's `with_conn` and
   the completion cache.
4. `Session`: `DaemonClient`'s restarts composed with the call watchers of
   `init.lua` and the ids the panels keep: can an id of an earlier process name
   somebody else's connection or call?
5. `Store`: engine and local modes, a timed-out write, migration and its marker,
   a crash in between.
