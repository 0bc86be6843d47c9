----------------------------- MODULE DaemonClient -----------------------------
(***************************************************************************)
(* The engine process as lua/lvim-db/daemon.lua owns it: spawning, the     *)
(* rpc.hello handshake, correlating answers with requests, stop() and      *)
(* teardown.  Neovim runs one Lua callback at a time, so every callback is *)
(* one action, with the callbacks it calls; what interleaves are the       *)
(* user's requests, the processes, the chunks of their stdout and their    *)
(* exits, which Neovim delivers after the last chunk.                      *)
(*                                                                         *)
(* A request stands for its callback.  A line on a process's stdout is     *)
(* two halves, so that a chunk can end inside it.  Of the backend only     *)
(* this is modelled: it answers each request at most once, in any order,   *)
(* and can die at any time, even inside a line.                            *)
(***************************************************************************)
EXTENDS Naturals, Sequences, FiniteSets, SequencesExt

CONSTANTS Req,       \* the requests issued over a session
          Hello,     \* the handshake's own callback
          NoCb,      \* no callback is stored under this id
          MaxJobs,   \* bound on the processes spawned over a session
          MaxStops,  \* bound on the calls of stop()
          Throws,    \* requests whose callback raises a Lua error when answered
          BadHello   \* processes that answer rpc.hello with an error or an
                     \* old protocol

Job   == 1..MaxJobs
MaxId == Cardinality(Req) + MaxJobs
Id    == 1..MaxId

ASSUME ClientAssumption ==
    /\ IsFiniteSet(Req)
    /\ Hello \notin Req /\ NoCb \notin Req /\ Hello # NoCb
    /\ MaxJobs \in Nat
    /\ MaxStops \in Nat
    /\ Throws \subseteq Req
    /\ BadHello \subseteq Job

VARIABLES
    proc,     \* each process: not spawned, up, told to stop, dead, reaped
    spawned,  \* how many processes were spawned
    inbox,    \* the requests a process has read and not answered
    pipe,     \* what a process wrote and Neovim has not delivered
    job,      \* daemon.job (0 = nil)
    ready,    \* daemon.ready
    idSeq,    \* daemon.id_seq
    pending,  \* daemon.pending
    waiters,  \* daemon.ensure_waiters
    tail,     \* daemon.stdout_tail
    asked,    \* the requests issued
    dest,     \* history: the process a request was sent to (0 = none)
    ans,      \* history: what each callback was called with: the process
              \* that answered, or 0 for an error made up by the client
    stops,    \* how often stop() was called
    lost      \* history: answers were dropped with the rest of a burst

vars == <<proc, spawned, inbox, pipe, job, ready, idSeq, pending, waiters, tail,
          asked, dest, ans, stops, lost>>

ProcState == {"none", "up", "term", "dead", "gone"}
Half      == [job : Job, id : Id, half : {"a", "b"}]

(* The line answering request i of process j.                                *)
Answer(j, i) == <<[job |-> j, id |-> i, half |-> "a"],
                  [job |-> j, id |-> i, half |-> "b"]>>

Init ==
    /\ proc = [j \in Job |-> "none"]
    /\ spawned = 0
    /\ inbox = [j \in Job |-> {}]
    /\ pipe = [j \in Job |-> <<>>]
    /\ job = 0
    /\ ready = FALSE
    /\ idSeq = 0
    /\ pending = [i \in Id |-> NoCb]
    /\ waiters = <<>>
    /\ tail = <<>>
    /\ asked = {}
    /\ dest = [r \in Req |-> 0]
    /\ ans = [r \in Req |-> <<>>]
    /\ stops = 0
    /\ lost = FALSE

---------------------------------------------------------------------------
(* Helpers                                                                 *)

(* Every callback of S is called with a result from j, or an error (j = 0).  *)
Called(S, j) == [r \in Req |-> IF r \in S THEN Append(ans[r], j) ELSE ans[r]]

(* jobstart succeeded: the process runs and rpc.hello is its first request.  *)
Spawn(procs) ==
    LET j == spawned + 1
    IN  /\ spawned < MaxJobs
        /\ spawned' = j
        /\ job' = j
        /\ proc' = [procs EXCEPT ![j] = "up"]
        /\ idSeq' = idSeq + 1
        /\ inbox' = [inbox EXCEPT ![j] = {idSeq + 1}]

(* The requests of w get ids, are stored and are sent to the current         *)
(* process; one that has died meanwhile reads nothing.                       *)
Send(w, stored) ==
    LET ids == (idSeq + 1)..(idSeq + Len(w))
    IN  /\ idSeq' = idSeq + Len(w)
        /\ pending' = [i \in Id |-> IF i \in ids THEN w[i - idSeq] ELSE stored[i]]
        /\ inbox' = [inbox EXCEPT ![job] = IF proc[job] = "up" THEN @ \cup ids ELSE @]
        /\ dest' = [r \in Req |-> IF r \in ToSet(w) THEN job ELSE dest[r]]

(* The requests whose callbacks teardown fails.                              *)
Stranded == {r \in Req : \E i \in Id : pending[i] = r} \cup ToSet(waiters)

(* Bug: start the ids over with the next process.                            *)
Teardown_ResetIds(procs, mid) ==
    /\ mid = {}
    /\ asked' = asked
    /\ ans' = Called(Stranded, 0)
    /\ ready' = FALSE
    /\ waiters' = <<>>
    /\ tail' = <<>>
    /\ job' = 0
    /\ proc' = procs
    /\ idSeq' = 0
    /\ pending' = [i \in Id |-> NoCb]
    /\ UNCHANGED <<spawned, inbox>>

(* Bug: drop the table of callbacks instead of emptying it.                  *)
Teardown_NilTable(procs, mid) ==
    /\ mid = {}
    /\ asked' = asked
    /\ ans' = Called(Stranded, 0)
    /\ ready' = FALSE
    /\ waiters' = <<>>
    /\ tail' = <<>>
    /\ job' = 0
    /\ proc' = procs
    /\ pending' = <<>>
    /\ UNCHANGED <<spawned, inbox, idSeq>>

(* Bug: clear the handle but leave the handshake's waiters where they are.   *)
Teardown_KeepWaiters(procs, mid) ==
    /\ mid = {}
    /\ asked' = asked
    /\ ans' = Called({r \in Req : \E i \in Id : pending[i] = r}, 0)
    /\ ready' = FALSE
    /\ tail' = <<>>
    /\ job' = 0
    /\ proc' = procs
    /\ pending' = [i \in Id |-> NoCb]
    /\ UNCHANGED <<spawned, inbox, idSeq, waiters>>

(* teardown: forget the process, fail every stored callback, then every      *)
(* waiter.  The callback of a pending request may itself issue a request     *)
(* (mid): ensure() finds no job and spawns the next process, and teardown    *)
(* then takes that request from the waiters and fails it too.  A failed      *)
(* handshake callback only nests a second teardown, which finds nothing.     *)
Teardown(procs, mid) ==
    /\ mid # {} => \E i \in Id : pending[i] # NoCb
    /\ asked' = asked \cup mid
    /\ ans' = Called(Stranded \cup mid, 0)
    /\ ready' = FALSE
    /\ waiters' = <<>>
    /\ tail' = <<>>
    /\ \/ /\ mid # {}
          /\ Spawn(procs)
          /\ pending' = [i \in Id |-> IF i = idSeq + 1 THEN Hello ELSE NoCb]
       \/ /\ job' = 0
          /\ proc' = procs
          /\ pending' = [i \in Id |-> NoCb]
          /\ UNCHANGED <<spawned, idSeq, inbox>>

(* The sets of requests callbacks issue from inside one teardown: none or    *)
(* one, since a second one only joins the first among the waiters.           *)
Reentrant == {{}} \cup {{r} : r \in Req \ asked}

---------------------------------------------------------------------------
(* Requests                                                                *)

(* request() on a handshaken daemon: store the callback and send.            *)
RequestSend(r) ==
    /\ r \notin asked
    /\ ready /\ job # 0
    /\ asked' = asked \cup {r}
    /\ Send(<<r>>, pending)
    /\ UNCHANGED <<proc, spawned, pipe, job, ready, waiters, tail, ans, stops, lost>>

(* A handshake is in flight: wait with the rest.                             *)
RequestWait(r) ==
    /\ r \notin asked
    /\ ~ready /\ job # 0
    /\ asked' = asked \cup {r}
    /\ waiters' = Append(waiters, r)
    /\ UNCHANGED <<proc, spawned, inbox, pipe, job, ready, idSeq, pending, tail,
                   dest, ans, stops, lost>>

(* No process: spawn one and shake hands.                                    *)
RequestSpawn(r) ==
    /\ r \notin asked
    /\ job = 0
    /\ asked' = asked \cup {r}
    /\ waiters' = Append(waiters, r)
    /\ Spawn(proc)
    /\ pending' = [pending EXCEPT ![idSeq + 1] = Hello]
    /\ UNCHANGED <<pipe, ready, tail, dest, ans, stops, lost>>

(* There is no binary, or jobstart failed: fail every waiter at once.        *)
RequestNoEngine(r) ==
    /\ r \notin asked
    /\ job = 0
    /\ asked' = asked \cup {r}
    /\ ans' = Called(ToSet(waiters) \cup {r}, 0)
    /\ waiters' = <<>>
    /\ UNCHANGED <<proc, spawned, inbox, pipe, job, ready, idSeq, pending, tail,
                   dest, stops, lost>>

(* stop(): close stdin, signal the process and tear down at once; its exit   *)
(* is delivered later, like any other.                                       *)
Stop(mid) ==
    /\ stops < MaxStops
    /\ stops' = stops + 1
    /\ Teardown([j \in Job |-> IF j = job /\ proc[j] = "up" THEN "term" ELSE proc[j]],
                mid)
    /\ UNCHANGED <<pipe, dest, lost>>

---------------------------------------------------------------------------
(* The processes                                                           *)

Serve(j, i) ==
    /\ proc[j] \in {"up", "term"}
    /\ i \in inbox[j]
    /\ inbox' = [inbox EXCEPT ![j] = @ \ {i}]
    /\ pipe' = [pipe EXCEPT ![j] = @ \o Answer(j, i)]
    /\ UNCHANGED <<proc, spawned, job, ready, idSeq, pending, waiters, tail, asked,
                   dest, ans, stops, lost>>

(* It exits, crashes or is killed; the last line may be cut.                 *)
Die(j) ==
    /\ proc[j] \in {"up", "term"}
    /\ proc' = [proc EXCEPT ![j] = "dead"]
    /\ inbox' = [inbox EXCEPT ![j] = {}]
    /\ \/ pipe' = pipe
       \/ /\ pipe[j] # <<>>
          /\ Last(pipe[j]).half = "b"
          /\ pipe' = [pipe EXCEPT ![j] = Front(@)]
    /\ UNCHANGED <<spawned, job, ready, idSeq, pending, waiters, tail, asked, dest,
                   ans, stops, lost>>

---------------------------------------------------------------------------
(* Neovim's callbacks                                                      *)

(* on_stdout with a chunk that ends inside a line: carry it over.            *)
DeliverPart(j) ==
    /\ pipe[j] # <<>>
    /\ Head(pipe[j]).half = "a"
    /\ pipe' = [pipe EXCEPT ![j] = Tail(@)]
    /\ tail' = Append(tail, Head(pipe[j]))
    /\ UNCHANGED <<proc, spawned, inbox, job, ready, idSeq, pending, waiters, asked,
                   dest, ans, stops, lost>>

(* A chunk that completes a line, which starts with whatever was carried     *)
(* over, from whichever process.                                             *)
LineEnds(j) == pipe[j] # <<>> /\ Head(pipe[j]).half = "b"

Whole(j) == Append(tail, Head(pipe[j])) = Answer(j, Head(pipe[j]).id)

Stored(j) == pending[Head(pipe[j]).id]

(* The line does not decode, or nothing is stored under its id.              *)
DeliverIgnored(j) ==
    /\ LineEnds(j)
    /\ ~Whole(j) \/ Stored(j) = NoCb
    /\ pipe' = [pipe EXCEPT ![j] = Tail(@)]
    /\ tail' = <<>>
    /\ UNCHANGED <<proc, spawned, inbox, job, ready, idSeq, pending, waiters, asked,
                   dest, ans, stops, lost>>

(* Bug: answer the callback but leave it stored.                             *)
DeliverAnswer_Keeps(j) ==
    /\ LineEnds(j)
    /\ Whole(j)
    /\ Stored(j) \in Req \ Throws
    /\ ans' = Called({Stored(j)}, j)
    /\ pipe' = [pipe EXCEPT ![j] = Tail(@)]
    /\ tail' = <<>>
    /\ UNCHANGED <<proc, spawned, inbox, job, ready, idSeq, pending, waiters, asked,
                   dest, stops, lost>>

(* An answer: take the callback out of the table, then call it.              *)
DeliverAnswer(j) ==
    /\ LineEnds(j)
    /\ Whole(j)
    /\ Stored(j) \in Req \ Throws
    /\ pending' = [pending EXCEPT ![Head(pipe[j]).id] = NoCb]
    /\ ans' = Called({Stored(j)}, j)
    /\ pipe' = [pipe EXCEPT ![j] = Tail(@)]
    /\ tail' = <<>>
    /\ UNCHANGED <<proc, spawned, inbox, job, ready, idSeq, waiters, asked, dest,
                   stops, lost>>

(* The callback raises: on_message passes the error on and on_stdout never   *)
(* gets to the n lines that came in the same burst.                          *)
DeliverRaises(j, n) ==
    /\ LineEnds(j)
    /\ Whole(j)
    /\ Stored(j) \in Throws
    /\ pending' = [pending EXCEPT ![Head(pipe[j]).id] = NoCb]
    /\ ans' = Called({Stored(j)}, j)
    /\ 2 * n < Len(pipe[j])
    /\ pipe' = [pipe EXCEPT ![j] = SubSeq(@, 2 + 2 * n, Len(@))]
    /\ lost' = (lost \/ n > 0)
    /\ tail' = <<>>
    /\ UNCHANGED <<proc, spawned, inbox, job, ready, idSeq, waiters, asked, dest,
                   stops>>

(* The handshake succeeded: the daemon is ready and every waiter sends.      *)
DeliverHello(j) ==
    /\ LineEnds(j)
    /\ Whole(j)
    /\ Stored(j) = Hello
    /\ j \notin BadHello
    /\ ready' = TRUE
    /\ waiters' = <<>>
    /\ Send(waiters, [pending EXCEPT ![Head(pipe[j]).id] = NoCb])
    /\ pipe' = [pipe EXCEPT ![j] = Tail(@)]
    /\ tail' = <<>>
    /\ UNCHANGED <<proc, spawned, job, asked, ans, stops, lost>>

(* Bug: rely on teardown to answer the waiters the handshake has captured.   *)
DeliverBadHello_Forgets(j) ==
    /\ LineEnds(j)
    /\ Whole(j)
    /\ Stored(j) = Hello
    /\ j \in BadHello
    /\ ready' = FALSE
    /\ job' = 0
    /\ pending' = [i \in Id |-> NoCb]
    /\ waiters' = <<>>
    /\ pipe' = [pipe EXCEPT ![j] = Tail(@)]
    /\ tail' = <<>>
    /\ UNCHANGED <<proc, spawned, inbox, idSeq, asked, dest, ans, stops, lost>>

(* The handshake failed: capture the waiters, tear down, fail them.  The     *)
(* process is left running.                                                  *)
DeliverBadHello(j) ==
    /\ LineEnds(j)
    /\ Whole(j)
    /\ Stored(j) = Hello
    /\ j \in BadHello
    /\ ready' = FALSE
    /\ job' = 0
    /\ pending' = [i \in Id |-> NoCb]
    /\ ans' = Called(Stranded, 0)
    /\ waiters' = <<>>
    /\ pipe' = [pipe EXCEPT ![j] = Tail(@)]
    /\ tail' = <<>>
    /\ UNCHANGED <<proc, spawned, inbox, idSeq, asked, dest, stops, lost>>

(* on_exit, delivered once the process's output is: tear down, whichever     *)
(* process is the current one.                                               *)
OnExit(j, mid) ==
    /\ proc[j] = "dead"
    /\ pipe[j] = <<>>
    /\ Teardown([proc EXCEPT ![j] = "gone"], mid)
    /\ UNCHANGED <<pipe, dest, stops, lost>>

---------------------------------------------------------------------------
Deliver(j) == \/ DeliverPart(j) \/ DeliverIgnored(j) \/ DeliverAnswer(j)
              \/ DeliverHello(j) \/ DeliverBadHello(j)
              \/ \E n \in 0..Cardinality(Req) : DeliverRaises(j, n)

Request(r) == \/ RequestSend(r) \/ RequestWait(r) \/ RequestSpawn(r)
              \/ RequestNoEngine(r)

Next ==
    \/ \E r \in Req : Request(r)
    \/ \E mid \in Reentrant : Stop(mid)
    \/ \E j \in Job : Die(j) \/ Deliver(j)
    \/ \E j \in Job, i \in Id : Serve(j, i)
    \/ \E j \in Job, mid \in Reentrant : OnExit(j, mid)

Spec == Init /\ [][Next]_vars

(* A process answers what it has read or dies, a signalled process dies, and *)
(* Neovim's event loop delivers every chunk and every exit.  Nothing is      *)
(* assumed of the user.                                                      *)
Fairness ==
    /\ \A j \in Job : WF_vars(\E i \in Id : Serve(j, i))
    /\ \A j \in Job : WF_vars(proc[j] = "term" /\ Die(j))
    /\ \A j \in Job : WF_vars(Deliver(j))
    /\ \A j \in Job : WF_vars(\E mid \in Reentrant : OnExit(j, mid))

FairSpec == Spec /\ Fairness

---------------------------------------------------------------------------
(* Properties                                                              *)

TypeOK ==
    /\ proc \in [Job -> ProcState]
    /\ spawned \in 0..MaxJobs
    /\ inbox \in [Job -> SUBSET Id]
    /\ pipe \in [Job -> Seq(Half)]
    /\ job \in 0..MaxJobs
    /\ ready \in BOOLEAN
    /\ idSeq \in 0..MaxId
    /\ pending \in [Id -> Req \cup {Hello, NoCb}]
    /\ waiters \in Seq(Req)
    /\ tail \in Seq(Half)
    /\ asked \in SUBSET Req
    /\ dest \in [Req -> 0..MaxJobs]
    /\ ans \in [Req -> Seq(0..MaxJobs)]
    /\ stops \in 0..MaxStops
    /\ lost \in BOOLEAN

(* A callback is in exactly one hand: waiting for the handshake, stored      *)
(* under one id, or called, once, through any sequence of stops, crashes,    *)
(* failed handshakes and requests made from inside a teardown                *)
(* (daemon.lua:236-258, 273-315, 369-380).                                   *)
CallbackCustody ==
    \A r \in asked :
        LET stored  == {i \in Id : pending[i] = r}
            waiting == {i \in DOMAIN waiters : waiters[i] = r}
        IN  Len(ans[r]) + Cardinality(stored) + Cardinality(waiting) = 1

(* Nobody waits for nobody: without a process nothing is stored and nobody   *)
(* waits, and those who wait for a handshake have one in flight with the     *)
(* current process (daemon.lua:320-330, 236-253).                            *)
NobodyStranded ==
    /\ job = 0 => ~ready /\ Stranded = {}
    /\ ready => waiters = <<>>
    /\ ~ready /\ job # 0 => \E i \in Id : pending[i] = Hello
    /\ \A r \in Req, i \in Id : pending[i] = r => dest[r] = job

(* An answer a process was still sending when it was replaced never answers  *)
(* a request of its successor: every result comes from the process the       *)
(* request went to, though the table knows only ids (daemon.lua:178-186).    *)
AnswerFromOwnProcess ==
    \A r \in Req : \A k \in DOMAIN ans[r] : ans[r][k] # 0 => ans[r][k] = dest[r]

(* One process at a time, an exiting one included.                           *)
Alone ==
    \A j, k \in Job :
        proc[j] \notin {"none", "gone"} /\ proc[k] \notin {"none", "gone"} => j = k

(* "fail every in-flight request so callers never hang" (daemon.lua:242): as *)
(* long as processes do not overlap and no callback raises with answers      *)
(* behind it, every request is answered.                                     *)
EveryRequestAnswered ==
    [](Alone /\ ~lost) => \A r \in Req : (r \in asked) ~> (ans[r] # <<>>)

(* What the doc of request() says, "cb(result, err) fires with the decoded   *)
(* result or an error string" (daemon.lua:364-365), with no condition.       *)
CallbackFires == \A r \in Req : (r \in asked) ~> (ans[r] # <<>>)

(* "spawned once per Neovim", "this module owns that process"                *)
(* (daemon.lua:4, 14): a running process that was not told to stop is the    *)
(* current one.                                                              *)
OneEngine == \A j \in Job : proc[j] = "up" => j = job
===============================================================================
