------------------------------ MODULE DbServer ------------------------------
(***************************************************************************)
(* The daemon's live state (native/src/server.rs) and its shutdown         *)
(* (native/src/main.rs).  Every request is handled on a task of its own,   *)
(* so a handler is split where it awaits or lets another task run.  Three  *)
(* kinds of task share the two maps and the connections' mutexes:          *)
(*   - a call's worker, spawned by query.execute;                          *)
(*   - a schema or database request (an "op"), which only borrows the      *)
(*     connection: databases, switch_database, structure, columns, indexes *)
(*     and ddl have the same control;                                      *)
(*   - query.cancel, which takes the handle under the call's lock and      *)
(*     fires it after the lock is gone.                                    *)
(* What a statement does in the database is not modelled, only when it     *)
(* runs there, whether it succeeded, and which cancels reached it.         *)
(***************************************************************************)
EXTENDS Naturals, Sequences, FiniteSets

CONSTANTS MaxConns,   \* bound on the connections opened over a session
          MaxCalls,   \* bound on the statements executed over a session
          MaxOps,     \* bound on the schema/database requests in flight
          Cancels,    \* connections whose driver has a cancel_token
          Tunneled,   \* connections that are dialled through an SSH forward
          BrokenPipe  \* whether a write to stdout can fail: Neovim is gone, or
                      \* has closed the pipe

ConnId == 1..MaxConns
CallId == 1..MaxCalls
OpId   == (MaxCalls + 1)..(MaxCalls + MaxOps)
Task   == CallId \cup OpId

ASSUME BoundsAssumption ==
    /\ MaxConns \in Nat
    /\ MaxCalls \in Nat
    /\ MaxOps \in Nat
    /\ Cancels \subseteq ConnId
    /\ Tunneled \subseteq ConnId
    /\ BrokenPipe \in BOOLEAN

VARIABLES
    nextConn,  \* Inner.next_conn
    nextCall,  \* Inner.next_call
    dialing,   \* conn.connect requests waiting for their driver
    conns,     \* the keys of Inner.conns
    calls,     \* the keys of Inner.calls
    link,      \* what became of each Box<dyn Connection>
    queue,     \* each connection's async mutex: its holder, then its waiters
    pc,        \* where each task is
    target,    \* the connection each task holds an Arc of (0 = none)
    status,    \* Call.status
    handle,    \* Call.cancel is Some
    firing,    \* calls whose handle a query.cancel took and is firing
    hits,      \* history: <<c, t>>, a cancel of call c reached task t's statement
    stdin,     \* the request pipe, and with it the process
    writer,    \* the task that writes the lines to stdout
    out        \* every line the workers and execute sent to the writer, in order

vars == <<nextConn, nextCall, dialing, conns, calls, link, queue, pc, target,
          status, handle, firing, hits, stdin, writer, out>>

LinkState  == {"none", "open", "closing", "closed", "dropped"}
Status     == {"none", "running", "done", "failed", "cancelled"}
Line       == [kind : {"response", "state"}, call : CallId, state : Status]

(* A worker goes through these in order; an op uses "spawned", "queued" and  *)
(* "running" and is then "none" again.                                       *)
PC == {"none", "accepted", "spawned", "queued", "armed", "running",
       "succeeded", "erred", "reported", "ended"}

ResponseLine(c) == [kind |-> "response", call |-> c, state |-> "running"]
StateLine(c, s) == [kind |-> "state", call |-> c, state |-> s]

(* The tasks that own a clone of connection k's Arc.                         *)
Holders(k) == {t \in Task : target[t] = k /\ pc[t] \notin {"none", "ended"}}

(* The tasks whose statement the database is running on connection k.        *)
Running(k) == {t \in Task : target[t] = k /\ pc[t] = "running"}

(* The mutex's holder is the head of its FIFO queue.                         *)
HoldsLock(t) == queue[target[t]] # <<>> /\ Head(queue[target[t]]) = t

(* The forwarding listener lives as long as the ConnEntry's NetContext: the  *)
(* entry is dropped on disconnect, after close() when close() is called.  A  *)
(* cancel dials a connection of its own, so it needs the listener.           *)
CanDial(k) == k \in Tunneled => (k \in conns \/ link[k] = "closing")

Init ==
    /\ nextConn = 1
    /\ nextCall = 1
    /\ dialing = 0
    /\ conns = {}
    /\ calls = {}
    /\ link = [k \in ConnId |-> "none"]
    /\ queue = [k \in ConnId |-> <<>>]
    /\ pc = [t \in Task |-> "none"]
    /\ target = [t \in Task |-> 0]
    /\ status = [c \in CallId |-> "none"]
    /\ handle = [c \in CallId |-> FALSE]
    /\ firing = {}
    /\ hits = {}
    /\ stdin = "open"
    /\ writer = "up"
    /\ out = <<>>

---------------------------------------------------------------------------
(* Connections                                                             *)

(* conn.connect: the driver dials; nothing is shared until it answers.       *)
Connect ==
    /\ stdin = "open"
    /\ nextConn + dialing <= MaxConns
    /\ dialing' = dialing + 1
    /\ UNCHANGED <<nextConn, nextCall, conns, calls, link, queue, pc, target,
                   status, handle, firing, hits, stdin, writer, out>>

(* Bug: one successful dial can be registered again and again.               *)
ConnectDone_Twice ==
    /\ dialing > 0
    /\ dialing' = dialing
    /\ nextConn' = nextConn + 1
    /\ conns' = conns \cup {nextConn}
    /\ link' = [link EXCEPT ![nextConn] = "open"]
    /\ UNCHANGED <<nextCall, calls, queue, pc, target, status, handle, firing,
                   hits, stdin, writer, out>>

(* The driver opened the link: allocate an id and register the entry.        *)
ConnectDone ==
    /\ dialing > 0
    /\ dialing' = dialing - 1
    /\ nextConn' = nextConn + 1
    /\ conns' = conns \cup {nextConn}
    /\ link' = [link EXCEPT ![nextConn] = "open"]
    /\ UNCHANGED <<nextCall, calls, queue, pc, target, status, handle, firing,
                   hits, stdin, writer, out>>

(* The driver failed: only an error response.                                *)
ConnectFail ==
    /\ dialing > 0
    /\ dialing' = dialing - 1
    /\ UNCHANGED <<nextConn, nextCall, conns, calls, link, queue, pc, target,
                   status, handle, firing, hits, stdin, writer, out>>

(* Bug: close the link without asking whether a task still holds its Arc.    *)
Disconnect_Forced(k) ==
    /\ stdin = "open"
    /\ k \in conns
    /\ conns' = conns \ {k}
    /\ link' = [link EXCEPT ![k] = "closing"]
    /\ UNCHANGED <<nextConn, nextCall, dialing, calls, queue, pc, target, status,
                   handle, firing, hits, stdin, writer, out>>

(* conn.disconnect takes the entry out of the map and closes the link only   *)
(* if Arc::try_unwrap finds no other owner; otherwise the last task that     *)
(* holds the Arc drops it (see DropArc).                                     *)
Disconnect(k) ==
    /\ stdin = "open"
    /\ k \in conns
    /\ conns' = conns \ {k}
    /\ link' = [link EXCEPT ![k] = IF Holders(k) = {} THEN "closing" ELSE "open"]
    /\ UNCHANGED <<nextConn, nextCall, dialing, calls, queue, pc, target, status,
                   handle, firing, hits, stdin, writer, out>>

(* close().await returned; the entry's NetContext is dropped with it.        *)
CloseDone(k) ==
    /\ link[k] = "closing"
    /\ link' = [link EXCEPT ![k] = "closed"]
    /\ UNCHANGED <<nextConn, nextCall, dialing, conns, calls, queue, pc, target,
                   status, handle, firing, hits, stdin, writer, out>>

(* Bug: the Arc is never released, as if the task were kept reachable.       *)
DropArc_Leak(t) == link' = link

(* Task t ends and lets go of its Arc: the last owner of an unregistered     *)
(* connection drops the link.                                                *)
DropArc(t) ==
    LET k == target[t]
    IN  link' = IF k \notin conns /\ Holders(k) = {t}
                  THEN [link EXCEPT ![k] = "dropped"]
                  ELSE link

---------------------------------------------------------------------------
(* Calls: query.execute and its worker                                     *)

(* query.execute finds the connection, allocates a call id and registers a   *)
(* running call.                                                             *)
Execute(k) ==
    /\ stdin = "open"
    /\ k \in conns
    /\ nextCall <= MaxCalls
    /\ nextCall' = nextCall + 1
    /\ calls' = calls \cup {nextCall}
    /\ status' = [status EXCEPT ![nextCall] = "running"]
    /\ target' = [target EXCEPT ![nextCall] = k]
    /\ pc' = [pc EXCEPT ![nextCall] = "accepted"]
    /\ UNCHANGED <<nextConn, dialing, conns, link, queue, handle, firing, hits,
                   stdin, writer, out>>

(* Bug: spawn the worker first and respond whenever the handler gets to it.  *)
Respond_SpawnFirst(c) ==
    /\ \/ /\ pc[c] = "accepted"
          /\ pc' = [pc EXCEPT ![c] = "spawned"]
          /\ out' = out
       \/ /\ pc[c] \notin {"none", "accepted"}
          /\ \A i \in DOMAIN out : out[i] # ResponseLine(c)
          /\ out' = Append(out, ResponseLine(c))
          /\ pc' = pc
    /\ UNCHANGED <<nextConn, nextCall, dialing, conns, calls, link, queue, target,
                   status, handle, firing, hits, stdin, writer>>

(* It sends the response itself, and only then spawns the worker.            *)
Respond(c) ==
    /\ pc[c] = "accepted"
    /\ out' = Append(out, ResponseLine(c))
    /\ pc' = [pc EXCEPT ![c] = "spawned"]
    /\ UNCHANGED <<nextConn, nextCall, dialing, conns, calls, link, queue, target,
                   status, handle, firing, hits, stdin, writer>>

(* Bug: register the cancel handle while still waiting for the connection.   *)
Enqueue_Armed(t) ==
    /\ pc[t] = "spawned"
    /\ pc' = [pc EXCEPT ![t] = "queued"]
    /\ queue' = [queue EXCEPT ![target[t]] = Append(@, t)]
    /\ handle' = [c \in CallId |-> handle[c] \/ c = t]
    /\ UNCHANGED <<nextConn, nextCall, dialing, conns, calls, link, target,
                   status, firing, hits, stdin, writer, out>>

(* A worker or an op asks for the connection: conn.lock().await.             *)
Enqueue(t) ==
    /\ pc[t] = "spawned"
    /\ pc' = [pc EXCEPT ![t] = "queued"]
    /\ queue' = [queue EXCEPT ![target[t]] = Append(@, t)]
    /\ UNCHANGED <<nextConn, nextCall, dialing, conns, calls, link, target,
                   status, handle, firing, hits, stdin, writer, out>>

(* Bug: run without waiting to be the mutex's holder.                        *)
Acquire_Unlocked(c) ==
    /\ pc[c] = "queued"
    /\ pc' = [pc EXCEPT ![c] = "armed"]
    /\ handle' = [handle EXCEPT ![c] = target[c] \in Cancels]
    /\ UNCHANGED <<nextConn, nextCall, dialing, conns, calls, link, queue, target,
                   status, firing, hits, stdin, writer, out>>

(* The worker owns the connection and registers the driver's cancel handle,  *)
(* whatever the call's status has become meanwhile.                          *)
Acquire(c) ==
    /\ pc[c] = "queued"
    /\ HoldsLock(c)
    /\ pc' = [pc EXCEPT ![c] = "armed"]
    /\ handle' = [handle EXCEPT ![c] = target[c] \in Cancels]
    /\ UNCHANGED <<nextConn, nextCall, dialing, conns, calls, link, queue, target,
                   status, firing, hits, stdin, writer, out>>

(* guard.execute sends the statement.                                        *)
Start(c) ==
    /\ pc[c] = "armed"
    /\ pc' = [pc EXCEPT ![c] = "running"]
    /\ UNCHANGED <<nextConn, nextCall, dialing, conns, calls, link, queue, target,
                   status, handle, firing, hits, stdin, writer, out>>

(* Bug: the guard is not dropped when the statement returns.                 *)
Finish_KeepLock(c) ==
    /\ pc[c] = "running"
    /\ \E o \in {"succeeded", "erred"} : pc' = [pc EXCEPT ![c] = o]
    /\ UNCHANGED <<nextConn, nextCall, dialing, conns, calls, link, queue, target,
                   status, handle, firing, hits, stdin, writer, out>>

(* The statement returned; drop(guard) releases the connection before the    *)
(* worker takes the call's lock.                                             *)
Finish(c) ==
    /\ pc[c] = "running"
    /\ \E o \in {"succeeded", "erred"} : pc' = [pc EXCEPT ![c] = o]
    /\ queue' = [queue EXCEPT ![target[c]] = Tail(@)]
    /\ UNCHANGED <<nextConn, nextCall, dialing, conns, calls, link, target,
                   status, handle, firing, hits, stdin, writer, out>>

(* What the worker reports: a cancel that came first wins over the outcome.  *)
Verdict(c) ==
    IF status[c] = "cancelled" THEN "cancelled"
    ELSE IF pc[c] = "succeeded" THEN "done" ELSE "failed"

(* Bug: forget to drop the handle when the call leaves the running state.    *)
Report_KeepHandle(c) ==
    /\ pc[c] \in {"succeeded", "erred"}
    /\ status' = [status EXCEPT ![c] = Verdict(c)]
    /\ out' = Append(out, StateLine(c, Verdict(c)))
    /\ pc' = [pc EXCEPT ![c] = "reported"]
    /\ UNCHANGED <<nextConn, nextCall, dialing, conns, calls, link, queue, target,
                   handle, firing, hits, stdin, writer>>

(* Bug: no early return after a cancelled call's notification.               *)
Report_FallThrough(c) ==
    /\ pc[c] \in {"succeeded", "erred"}
    /\ handle' = [handle EXCEPT ![c] = FALSE]
    /\ LET o == IF pc[c] = "succeeded" THEN "done" ELSE "failed"
       IN  /\ status' = [status EXCEPT ![c] = o]
           /\ out' = IF status[c] = "cancelled"
                       THEN out \o <<StateLine(c, "cancelled"), StateLine(c, o)>>
                       ELSE Append(out, StateLine(c, o))
    /\ pc' = [pc EXCEPT ![c] = "reported"]
    /\ UNCHANGED <<nextConn, nextCall, dialing, conns, calls, link, queue, target,
                   firing, hits, stdin, writer>>

(* Under the call's lock: drop the handle, settle the status, notify once.   *)
Report(c) ==
    /\ pc[c] \in {"succeeded", "erred"}
    /\ handle' = [handle EXCEPT ![c] = FALSE]
    /\ status' = [status EXCEPT ![c] = Verdict(c)]
    /\ out' = Append(out, StateLine(c, Verdict(c)))
    /\ pc' = [pc EXCEPT ![c] = "reported"]
    /\ UNCHANGED <<nextConn, nextCall, dialing, conns, calls, link, queue, target,
                   firing, hits, stdin, writer>>

(* The worker's future is dropped, and its Arc of the connection with it.    *)
End(c) ==
    /\ pc[c] = "reported"
    /\ pc' = [pc EXCEPT ![c] = "ended"]
    /\ DropArc(c)
    /\ UNCHANGED <<nextConn, nextCall, dialing, conns, calls, queue, target,
                   status, handle, firing, hits, stdin, writer, out>>

---------------------------------------------------------------------------
(* Cancel and release                                                      *)

(* query.cancel, under the call's lock: a running call becomes cancelled,    *)
(* and the handle is taken whatever the status was.                          *)
Cancel(c) ==
    /\ stdin = "open"
    /\ c \in calls
    /\ status' = [status EXCEPT ![c] = IF @ = "running" THEN "cancelled" ELSE @]
    /\ handle' = [handle EXCEPT ![c] = FALSE]
    /\ firing' = IF handle[c] THEN firing \cup {c} ELSE firing
    /\ UNCHANGED <<nextConn, nextCall, dialing, conns, calls, link, queue, pc,
                   target, hits, stdin, writer, out>>

(* h.cancel().await, after the lock is gone: the database stops whatever     *)
(* statement it runs on that connection by then.                             *)
FireCancel(c) ==
    /\ c \in firing
    /\ CanDial(target[c])
    /\ firing' = firing \ {c}
    /\ hits' = hits \cup {<<c, t>> : t \in Running(target[c])}
    /\ UNCHANGED <<nextConn, nextCall, dialing, conns, calls, link, queue, pc,
                   target, status, handle, stdin, writer, out>>

(* The cancel cannot be delivered: the request answers with an error.        *)
FireFail(c) ==
    /\ c \in firing
    /\ firing' = firing \ {c}
    /\ UNCHANGED <<nextConn, nextCall, dialing, conns, calls, link, queue, pc,
                   target, status, handle, hits, stdin, writer, out>>

(* query.release forgets the call, finished or not; its worker keeps it.     *)
Release(c) ==
    /\ stdin = "open"
    /\ c \in calls
    /\ calls' = calls \ {c}
    /\ UNCHANGED <<nextConn, nextCall, dialing, conns, link, queue, pc, target,
                   status, handle, firing, hits, stdin, writer, out>>

---------------------------------------------------------------------------
(* Schema and database requests                                            *)

OpBegin(o, k) ==
    /\ stdin = "open"
    /\ k \in conns
    /\ pc[o] = "none"
    /\ pc' = [pc EXCEPT ![o] = "spawned"]
    /\ target' = [target EXCEPT ![o] = k]
    /\ UNCHANGED <<nextConn, nextCall, dialing, conns, calls, link, queue, status,
                   handle, firing, hits, stdin, writer, out>>

OpRun(o) ==
    /\ pc[o] = "queued"
    /\ HoldsLock(o)
    /\ pc' = [pc EXCEPT ![o] = "running"]
    /\ UNCHANGED <<nextConn, nextCall, dialing, conns, calls, link, queue, target,
                   status, handle, firing, hits, stdin, writer, out>>

OpEnd(o) ==
    /\ pc[o] = "running"
    /\ pc' = [pc EXCEPT ![o] = "none"]
    /\ target' = [target EXCEPT ![o] = 0]
    /\ queue' = [queue EXCEPT ![target[o]] = Tail(@)]
    /\ DropArc(o)
    /\ UNCHANGED <<nextConn, nextCall, dialing, conns, calls, status, handle,
                   firing, hits, stdin, writer, out>>

---------------------------------------------------------------------------
(* Shutdown                                                                *)

(* stdin closed: Neovim is gone, no request is read any more.                *)
Eof ==
    /\ stdin = "open"
    /\ stdin' = "eof"
    /\ UNCHANGED <<nextConn, nextCall, dialing, conns, calls, link, queue, pc,
                   target, status, handle, firing, hits, writer, out>>

(* A write to stdout fails: the writer task ends, and what is sent to it     *)
(* from then on is lost.                                                     *)
WriterBreaks ==
    /\ BrokenPipe
    /\ writer = "up"
    /\ writer' = "broken"
    /\ UNCHANGED <<nextConn, nextCall, dialing, conns, calls, link, queue, pc,
                   target, status, handle, firing, hits, stdin, out>>

(* Every task owns a Server and so a sender of the writer's channel.         *)
NoTasks ==
    /\ \A t \in Task : pc[t] \in {"none", "ended"}
    /\ firing = {}
    /\ dialing = 0
    /\ \A k \in ConnId : link[k] # "closing"

(* Bug: exit at once instead of awaiting the writer.                         *)
Exit_NoDrain ==
    /\ stdin = "eof"
    /\ stdin' = "exited"
    /\ UNCHANGED <<nextConn, nextCall, dialing, conns, calls, link, queue, pc,
                   target, status, handle, firing, hits, writer, out>>

(* main awaits the writer, which ends with its last sender unless it has     *)
(* already broken; what tasks are left then end with the process.            *)
Exit ==
    /\ stdin = "eof"
    /\ NoTasks \/ writer = "broken"
    /\ stdin' = "exited"
    /\ UNCHANGED <<nextConn, nextCall, dialing, conns, calls, link, queue, pc,
                   target, status, handle, firing, hits, writer, out>>

(* The process is gone: nothing but stuttering.                              *)
Exited == stdin = "exited" /\ UNCHANGED vars

---------------------------------------------------------------------------
Alive == stdin # "exited"

WorkerStep(c) ==
    \/ Respond(c) \/ Enqueue(c) \/ Acquire(c) \/ Start(c) \/ Finish(c)
    \/ Report(c) \/ End(c)

OpStep(o) == Enqueue(o) \/ OpRun(o) \/ OpEnd(o)

Step ==
    \/ Connect \/ ConnectDone \/ ConnectFail
    \/ \E k \in ConnId : Disconnect(k) \/ CloseDone(k) \/ Execute(k)
    \/ \E c \in CallId : WorkerStep(c)
    \/ \E c \in CallId : Cancel(c) \/ FireCancel(c) \/ FireFail(c) \/ Release(c)
    \/ \E o \in OpId : OpStep(o)
    \/ \E o \in OpId, k \in ConnId : OpBegin(o, k)
    \/ Eof \/ WriterBreaks \/ Exit

Next == (Alive /\ Step) \/ Exited

Spec == Init /\ [][Next]_vars

(* Tokio polls every ready task, its mutex is FIFO, and a driver's call      *)
(* returns or fails.  Requests and the end of stdin are the client's choice  *)
(* and are never assumed to happen.                                          *)
Fairness ==
    /\ WF_vars(Alive /\ (ConnectDone \/ ConnectFail))
    /\ \A k \in ConnId : WF_vars(Alive /\ CloseDone(k))
    /\ \A c \in CallId : WF_vars(Alive /\ WorkerStep(c))
    /\ \A c \in CallId : WF_vars(Alive /\ (FireCancel(c) \/ FireFail(c)))
    /\ \A o \in OpId : WF_vars(Alive /\ OpStep(o))
    /\ WF_vars(Exit)

FairSpec == Spec /\ Fairness

---------------------------------------------------------------------------
(* Properties                                                              *)

TypeOK ==
    /\ nextConn \in 1..(MaxConns + 1)
    /\ nextCall \in 1..(MaxCalls + 1)
    /\ dialing \in Nat
    /\ conns \in SUBSET ConnId
    /\ calls \in SUBSET CallId
    /\ link \in [ConnId -> LinkState]
    /\ queue \in [ConnId -> Seq(Task)]
    /\ pc \in [Task -> PC]
    /\ target \in [Task -> ConnId \cup {0}]
    /\ status \in [CallId -> Status]
    /\ handle \in [CallId -> BOOLEAN]
    /\ firing \in SUBSET CallId
    /\ hits \in SUBSET (CallId \X Task)
    /\ stdin \in {"open", "eof", "exited"}
    /\ writer \in {"up", "broken"}
    /\ out \in Seq(Line)

(* A connection never runs two statements at once: the tasks that are armed  *)
(* or running on it are the mutex's one holder (server.rs:482-488).          *)
OneStatementPerConnection ==
    \A t, u \in Task :
        /\ pc[t] \in {"armed", "running"}
        /\ pc[u] \in {"armed", "running"}
        /\ target[t] = target[u]
        => t = u

(* A disconnect, even one that overtakes queued or running statements, never *)
(* closes or drops the link under a task that still means to use it          *)
(* (Arc::try_unwrap, server.rs:369-372).                                     *)
NoUseAfterClose ==
    \A t \in Task :
        pc[t] \notin {"none", "ended"} => link[target[t]] = "open"

(* The client learns a call's id before it hears of its state: every         *)
(* query.state line comes after the call's response (server.rs:452-455).     *)
ResponseFirst ==
    \A i \in DOMAIN out : out[i].kind = "state" =>
        \E j \in 1..(i - 1) : out[j] = ResponseLine(out[i].call)

(* A call is announced at most once, with a terminal state that is and stays *)
(* the status query.page answers by: a cancelled call is never also done.    *)
OneTerminalState ==
    \A i \in DOMAIN out : out[i].kind = "state" =>
        /\ out[i].state \in {"done", "failed", "cancelled"}
        /\ out[i].state = status[out[i].call]
        /\ \A j \in DOMAIN out :
              out[j].kind = "state" /\ out[j].call = out[i].call => j = i

(* No call that has left the running state still stores a cancel handle a    *)
(* late query.cancel could take: what server.rs:492-494 clears it for.       *)
NoStaleHandle ==
    \A c \in CallId : handle[c] =>
        /\ status[c] \in {"running", "cancelled"}
        /\ pc[c] \notin {"reported", "ended"}

(* Once main has returned every accepted call has been announced: shutdown   *)
(* loses no notification as long as Neovim can still read it (main.rs drops  *)
(* the server and drains the writer).                                        *)
ExitDrained ==
    stdin = "exited" /\ writer = "up" =>
        \A c \in 1..(nextCall - 1) :
            \E i \in DOMAIN out : out[i].kind = "state" /\ out[i].call = c

(* Cancelling a call that still waits for its connection never stops the     *)
(* statement running ahead of it: a cancel reaches the database only for a   *)
(* call that has owned the connection (server.rs:482-486).                   *)
QueuedCancelHarmless ==
    [][\A c \in CallId, t \in Task :
         <<c, t>> \in hits' \ hits =>
            pc[c] \notin {"none", "accepted", "spawned", "queued"}]_vars

(* What the comment on server.rs:492-493 promises: a cancel only ever stops  *)
(* the statement of the call it names.                                       *)
CancelHitsOwnCall == \A h \in hits : h[1] = h[2]

(* A connection taken out of the map is eventually closed or dropped.        *)
EveryLinkReleased ==
    \A k \in ConnId :
        (link[k] = "open" /\ k \notin conns) ~> (link[k] = "dropped")

(* After Neovim is gone the daemon exits: no task waits for ever.            *)
EofLeadsToExit == (stdin = "eof") ~> (stdin = "exited")

---------------------------------------------------------------------------
(* The inductive invariant behind the theorems of DbServer_proofs          *)

(* Ids are handed out in order: nothing is known of one not yet allocated,   *)
(* and every connection being dialled will find an id.                       *)
FreshIds ==
    /\ nextConn + dialing <= MaxConns + 1
    /\ \A c \in CallId : (c < nextCall) <=> (pc[c] # "none")
    /\ \A k \in conns : k < nextConn

(* A task past its start has a connection, and it is registered, or at least *)
(* still open, until the task ends.                                          *)
ArcKeepsOpen ==
    /\ \A t \in Task : pc[t] # "none" => target[t] \in ConnId
    /\ \A k \in conns : link[k] = "open"
    /\ NoUseAfterClose

(* Whoever is armed or running is at the head of its connection's queue.     *)
LockDiscipline ==
    \A t \in Task : pc[t] \in {"armed", "running"} => HoldsLock(t)

(* How far a call's worker is decides what its status can be and whether its *)
(* handle can be stored.                                                     *)
CallDiscipline ==
    \A c \in CallId :
        /\ pc[c] = "none" => status[c] = "none"
        /\ pc[c] \notin {"none", "reported", "ended"}
              => status[c] \in {"running", "cancelled"}
        /\ pc[c] \in {"reported", "ended"}
              => status[c] \in {"done", "failed", "cancelled"}
        /\ handle[c] => pc[c] \in {"armed", "running", "succeeded", "erred"}
        /\ c \in firing => pc[c] \notin {"none", "accepted", "spawned", "queued"}

(* A call's response is out once it is spawned, its state once it is         *)
(* reported, and neither before.                                             *)
LineDiscipline ==
    /\ \A c \in CallId :
          (pc[c] \notin {"none", "accepted"})
            <=> (\E i \in DOMAIN out : out[i] = ResponseLine(c))
    /\ \A c \in CallId :
          (pc[c] \in {"reported", "ended"})
            <=> (\E i \in DOMAIN out : out[i].kind = "state" /\ out[i].call = c)
    /\ ResponseFirst
    /\ OneTerminalState

(* A process that has drained its writer had no task left.                   *)
ShutdownDiscipline == stdin = "exited" /\ writer = "up" => NoTasks

IndInv ==
    /\ TypeOK
    /\ FreshIds
    /\ ArcKeepsOpen
    /\ LockDiscipline
    /\ CallDiscipline
    /\ LineDiscipline
    /\ ShutdownDiscipline

---------------------------------------------------------------------------
(* Refinement: the lines sent so far and the calls' statuses implement the   *)
(* lifecycle that CallLifecycle promises for every call.                     *)
KnownCalls == {c \in CallId : \E i \in DOMAIN out : out[i] = ResponseLine(c)}
ToldStates == [c \in CallId |->
                 {s \in Status : \E i \in DOMAIN out : out[i] = StateLine(c, s)}]

Lifecycle == INSTANCE CallLifecycle
               WITH Calls <- CallId, state <- status, known <- KnownCalls,
                    told <- ToldStates

(* Every step of the daemon is a step of CallLifecycle or invisible to it.   *)
ImplementsLifecycle == Lifecycle!CSpec

(* With the daemon's fairness every accepted call is told and settles.       *)
ImplementsFairLifecycle == Lifecycle!CFairSpec
=============================================================================
