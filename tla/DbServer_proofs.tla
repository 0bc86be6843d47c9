--------------------------- MODULE DbServer_proofs ---------------------------
(***************************************************************************)
(* Theorems about DbServer for every number of connections, calls and      *)
(* schema requests, and whichever connections can be cancelled or are      *)
(* tunnelled.  IndInv is DbServer's inductive invariant; each lemma below  *)
(* shows that a step preserves one of its conjuncts.                       *)
(***************************************************************************)
EXTENDS DbServer, TLAPS

USE BoundsAssumption

(* Workers and ops are tasks, and no task is both.                           *)
LEMMA Ids ==
    /\ CallId \subseteq Task
    /\ OpId \subseteq Task
    /\ \A o \in OpId : o \notin CallId
    /\ 0 \notin ConnId
BY DEF CallId, OpId, Task, ConnId

(* The initial state satisfies the inductive invariant.                      *)
LEMMA InitInv == Init => IndInv
<1> SUFFICES ASSUME Init PROVE IndInv
  OBVIOUS
<1> USE Ids DEF Init
<1>1. TypeOK
  BY DEF TypeOK, ConnId, CallId, OpId, Task, LinkState, Status, PC
<1>2. FreshIds
  BY DEF FreshIds, CallId
<1>3. ArcKeepsOpen
  BY DEF ArcKeepsOpen, NoUseAfterClose
<1>4. LockDiscipline /\ CallDiscipline
  BY DEF LockDiscipline, CallDiscipline
<1>5. LineDiscipline
  BY DEF LineDiscipline, ResponseFirst, OneTerminalState
<1>6. ShutdownDiscipline
  BY DEF ShutdownDiscipline
<1>7. QED
  BY <1>1, <1>2, <1>3, <1>4, <1>5, <1>6 DEF IndInv

(* Every step keeps every variable in its type.                              *)
LEMMA TypeNext == IndInv /\ [Next]_vars => TypeOK'
<1> SUFFICES ASSUME IndInv, [Next]_vars PROVE TypeOK'
  OBVIOUS
<1> USE Ids DEF IndInv, TypeOK, ArcKeepsOpen, FreshIds
<1>1. CASE Connect \/ ConnectDone \/ ConnectFail
  <2>1. CASE Connect BY <2>1 DEF Connect
  <2>2. CASE ConnectDone BY <2>2 DEF ConnectDone, ConnId, LinkState
  <2>3. CASE ConnectFail BY <2>3 DEF ConnectFail
  <2>4. QED BY <1>1, <2>1, <2>2, <2>3
<1>2. ASSUME NEW k \in ConnId, Disconnect(k) \/ CloseDone(k) PROVE TypeOK'
  <2>1. CASE Disconnect(k) BY <2>1 DEF Disconnect, LinkState
  <2>2. CASE CloseDone(k) BY <2>2 DEF CloseDone, LinkState
  <2>3. QED BY <1>2, <2>1, <2>2
<1>3. ASSUME NEW k \in ConnId, Execute(k) PROVE TypeOK'
  BY <1>3 DEF Execute, CallId, Status, PC
<1>4. ASSUME NEW c \in CallId, Respond(c) PROVE TypeOK'
  BY <1>4 DEF Respond, ResponseLine, Line, Status, PC
<1>5. ASSUME NEW t \in Task, Enqueue(t) PROVE TypeOK'
  BY <1>5 DEF Enqueue, PC
<1>6. ASSUME NEW c \in CallId, Acquire(c) \/ Start(c) PROVE TypeOK'
  <2>1. CASE Acquire(c) BY <2>1 DEF Acquire, PC
  <2>2. CASE Start(c) BY <2>2 DEF Start, PC
  <2>3. QED BY <1>6, <2>1, <2>2
<1>7. ASSUME NEW c \in CallId, Finish(c) PROVE TypeOK'
  BY <1>7 DEF Finish, LockDiscipline, HoldsLock, PC
<1>8. ASSUME NEW c \in CallId, Report(c) PROVE TypeOK'
  BY <1>8 DEF Report, Verdict, StateLine, Line, Status, PC
<1>9. ASSUME NEW c \in CallId, End(c) PROVE TypeOK'
  BY <1>9 DEF End, DropArc, LinkState, PC
<1>10. ASSUME NEW c \in CallId, Cancel(c) \/ FireCancel(c) \/ FireFail(c) \/ Release(c)
       PROVE TypeOK'
  <2>1. CASE Cancel(c) BY <2>1 DEF Cancel, Status
  <2>2. CASE FireCancel(c) BY <2>2 DEF FireCancel, Running
  <2>3. CASE FireFail(c) \/ Release(c) BY <2>3 DEF FireFail, Release
  <2>4. QED BY <1>10, <2>1, <2>2, <2>3
<1>11. ASSUME NEW o \in OpId, NEW k \in ConnId, OpBegin(o, k) PROVE TypeOK'
  BY <1>11 DEF OpBegin, PC
<1>12. ASSUME NEW o \in OpId, OpRun(o) PROVE TypeOK'
  BY <1>12 DEF OpRun, PC
<1>13. ASSUME NEW o \in OpId, OpEnd(o) PROVE TypeOK'
  BY <1>13 DEF OpEnd, DropArc, LockDiscipline, HoldsLock, LinkState, PC
<1>14. CASE Eof \/ WriterBreaks \/ Exit \/ UNCHANGED vars
  BY <1>14 DEF Eof, WriterBreaks, Exit, LinkState, vars
<1>15. QED
  BY <1>1, <1>2, <1>3, <1>4, <1>5, <1>6, <1>7, <1>8, <1>9, <1>10, <1>11, <1>12,
     <1>13, <1>14 DEF Next, Step, WorkerStep, OpStep, Exited

(* Ids stay fresh: execute and connect take the next one, nothing else does. *)
LEMMA FreshNext == IndInv /\ [Next]_vars => FreshIds'
<1> SUFFICES ASSUME IndInv, [Next]_vars PROVE FreshIds'
  OBVIOUS
<1> USE Ids DEF IndInv, TypeOK, FreshIds
<1>1. CASE Connect \/ ConnectDone \/ ConnectFail
  <2>1. CASE Connect BY <2>1 DEF Connect
  <2>2. CASE ConnectDone BY <2>2 DEF ConnectDone, ConnId
  <2>3. CASE ConnectFail BY <2>3 DEF ConnectFail
  <2>4. QED BY <1>1, <2>1, <2>2, <2>3
<1>2. ASSUME NEW k \in ConnId, Disconnect(k) \/ CloseDone(k) PROVE FreshIds'
  BY <1>2 DEF Disconnect, CloseDone
<1>3. ASSUME NEW k \in ConnId, Execute(k) PROVE FreshIds'
  BY <1>3 DEF Execute, CallId
<1>4. ASSUME NEW t \in Task, Enqueue(t) PROVE FreshIds'
  BY <1>4 DEF Enqueue
<1>5. ASSUME NEW c \in CallId, Respond(c) \/ Acquire(c) \/ Start(c) \/ Finish(c)
      PROVE FreshIds'
  BY <1>5 DEF Respond, Acquire, Start, Finish
<1>6. ASSUME NEW c \in CallId, Report(c) \/ End(c) PROVE FreshIds'
  BY <1>6 DEF Report, End
<1>7. ASSUME NEW c \in CallId, Cancel(c) \/ FireCancel(c) \/ FireFail(c) \/ Release(c)
      PROVE FreshIds'
  BY <1>7 DEF Cancel, FireCancel, FireFail, Release
<1>8. ASSUME NEW o \in OpId, NEW k \in ConnId, OpBegin(o, k) PROVE FreshIds'
  BY <1>8 DEF OpBegin
<1>9. ASSUME NEW o \in OpId, OpRun(o) \/ OpEnd(o) PROVE FreshIds'
  BY <1>9 DEF OpRun, OpEnd
<1>10. CASE Eof \/ WriterBreaks \/ Exit \/ UNCHANGED vars
  BY <1>10 DEF Eof, WriterBreaks, Exit, vars
<1>11. QED
  BY <1>1, <1>2, <1>3, <1>4, <1>5, <1>6, <1>7, <1>8, <1>9, <1>10
     DEF Next, Step, WorkerStep, OpStep, Exited

(* A disconnect closes only a link nobody holds, and a task drops only a     *)
(* link nobody else holds.                                                   *)
LEMMA ArcNext == IndInv /\ [Next]_vars => ArcKeepsOpen'
<1> SUFFICES ASSUME IndInv, [Next]_vars PROVE ArcKeepsOpen'
  OBVIOUS
<1> USE Ids DEF IndInv, TypeOK, ArcKeepsOpen, NoUseAfterClose
<1>1. CASE Connect \/ ConnectFail
  BY <1>1 DEF Connect, ConnectFail
<1>2. CASE ConnectDone
  BY <1>2 DEF ConnectDone, FreshIds, ConnId
<1>3. ASSUME NEW k \in ConnId, Disconnect(k) PROVE ArcKeepsOpen'
  BY <1>3 DEF Disconnect, Holders
<1>4. ASSUME NEW k \in ConnId, CloseDone(k) PROVE ArcKeepsOpen'
  BY <1>4 DEF CloseDone
<1>5. ASSUME NEW k \in ConnId, Execute(k) PROVE ArcKeepsOpen'
  BY <1>5 DEF Execute, CallId
<1>6. ASSUME NEW t \in Task, Enqueue(t) PROVE ArcKeepsOpen'
  BY <1>6 DEF Enqueue
<1>7. ASSUME NEW c \in CallId, Respond(c) \/ Acquire(c) \/ Start(c) \/ Finish(c)
      PROVE ArcKeepsOpen'
  BY <1>7 DEF Respond, Acquire, Start, Finish
<1>8. ASSUME NEW c \in CallId, Report(c) PROVE ArcKeepsOpen'
  BY <1>8 DEF Report
<1>9. ASSUME NEW c \in CallId, End(c) PROVE ArcKeepsOpen'
  BY <1>9 DEF End, DropArc, Holders
<1>10. ASSUME NEW c \in CallId, Cancel(c) \/ FireCancel(c) \/ FireFail(c) \/ Release(c)
       PROVE ArcKeepsOpen'
  BY <1>10 DEF Cancel, FireCancel, FireFail, Release
<1>11. ASSUME NEW o \in OpId, NEW k \in ConnId, OpBegin(o, k) PROVE ArcKeepsOpen'
  BY <1>11 DEF OpBegin
<1>12. ASSUME NEW o \in OpId, OpRun(o) PROVE ArcKeepsOpen'
  BY <1>12 DEF OpRun
<1>13. ASSUME NEW o \in OpId, OpEnd(o) PROVE ArcKeepsOpen'
  BY <1>13 DEF OpEnd, DropArc, Holders
<1>14. CASE Eof \/ WriterBreaks \/ UNCHANGED vars
  BY <1>14 DEF Eof, WriterBreaks, vars
<1>15. CASE Exit
  BY <1>15 DEF Exit
<1>16. QED
  BY <1>1, <1>2, <1>3, <1>4, <1>5, <1>6, <1>7, <1>8, <1>9, <1>10, <1>11, <1>12,
     <1>13, <1>14, <1>15 DEF Next, Step, WorkerStep, OpStep, Exited

(* Appending to a queue leaves its head, so its holder, alone.               *)
LEMMA HeadAppend ==
    ASSUME NEW S, NEW s \in Seq(S), s # <<>>, NEW e \in S
    PROVE  Append(s, e) # <<>> /\ Head(Append(s, e)) = Head(s)
OBVIOUS

(* Only the holder leaves the mutex's queue, and it is then neither armed    *)
(* nor running.                                                              *)
LEMMA LockNext == IndInv /\ [Next]_vars => LockDiscipline'
<1> SUFFICES ASSUME IndInv, [Next]_vars PROVE LockDiscipline'
  OBVIOUS
<1> USE Ids DEF IndInv, TypeOK, LockDiscipline, HoldsLock
<1>1. CASE Connect \/ ConnectDone \/ ConnectFail
  BY <1>1 DEF Connect, ConnectDone, ConnectFail
<1>2. ASSUME NEW k \in ConnId, Disconnect(k) \/ CloseDone(k) PROVE LockDiscipline'
  BY <1>2 DEF Disconnect, CloseDone
<1>3. ASSUME NEW k \in ConnId, Execute(k) PROVE LockDiscipline'
  BY <1>3 DEF Execute, FreshIds, CallId
<1>4. ASSUME NEW t \in Task, Enqueue(t) PROVE LockDiscipline'
  <2> SUFFICES ASSUME NEW u \in Task, pc'[u] \in {"armed", "running"}
               PROVE  HoldsLock(u)'
    OBVIOUS
  <2>1. pc[u] \in {"armed", "running"} /\ u # t /\ target'[u] = target[u]
    BY <1>4 DEF Enqueue
  <2>2. target[u] \in ConnId /\ target[t] \in ConnId
    BY <1>4, <2>1 DEF ArcKeepsOpen, Enqueue
  <2>3. queue[target[u]] # <<>> /\ Head(queue[target[u]]) = u
    BY <2>1
  <2>4. queue[target[u]] \in Seq(Task)
    BY <2>2
  <2>5. CASE target[u] = target[t]
    <3>1. queue'[target[u]] = Append(queue[target[u]], t)
      BY <1>4, <2>2, <2>5 DEF Enqueue
    <3>2. Append(queue[target[u]], t) # <<>>
          /\ Head(Append(queue[target[u]], t)) = Head(queue[target[u]])
      BY <2>3, <2>4, HeadAppend
    <3>3. QED
      BY <2>1, <2>3, <3>1, <3>2
  <2>6. CASE target[u] # target[t]
    BY <1>4, <2>1, <2>2, <2>3, <2>6 DEF Enqueue
  <2>7. QED
    BY <2>5, <2>6
<1>5. ASSUME NEW c \in CallId, Respond(c) \/ Acquire(c) \/ Start(c) PROVE LockDiscipline'
  BY <1>5 DEF Respond, Acquire, Start
<1>6. ASSUME NEW c \in CallId, Finish(c) PROVE LockDiscipline'
  BY <1>6 DEF Finish, ArcKeepsOpen
<1>7. ASSUME NEW c \in CallId, Report(c) \/ End(c) PROVE LockDiscipline'
  BY <1>7 DEF Report, End
<1>8. ASSUME NEW c \in CallId, Cancel(c) \/ FireCancel(c) \/ FireFail(c) \/ Release(c)
      PROVE LockDiscipline'
  BY <1>8 DEF Cancel, FireCancel, FireFail, Release
<1>9. ASSUME NEW o \in OpId, NEW k \in ConnId, OpBegin(o, k) PROVE LockDiscipline'
  BY <1>9 DEF OpBegin
<1>10. ASSUME NEW o \in OpId, OpRun(o) PROVE LockDiscipline'
  BY <1>10 DEF OpRun
<1>11. ASSUME NEW o \in OpId, OpEnd(o) PROVE LockDiscipline'
  BY <1>11 DEF OpEnd, ArcKeepsOpen
<1>12. CASE Eof \/ WriterBreaks \/ Exit \/ UNCHANGED vars
  BY <1>12 DEF Eof, WriterBreaks, Exit, vars
<1>13. QED
  BY <1>1, <1>2, <1>3, <1>4, <1>5, <1>6, <1>7, <1>8, <1>9, <1>10, <1>11, <1>12
     DEF Next, Step, WorkerStep, OpStep, Exited

(* A worker's step moves the status and the handle together with its pc; a   *)
(* cancel only turns running into cancelled.                                 *)
LEMMA CallNext == IndInv /\ [Next]_vars => CallDiscipline'
<1> SUFFICES ASSUME IndInv, [Next]_vars PROVE CallDiscipline'
  OBVIOUS
<1> USE Ids DEF IndInv, TypeOK, CallDiscipline
<1>1. CASE Connect \/ ConnectDone \/ ConnectFail
  BY <1>1 DEF Connect, ConnectDone, ConnectFail
<1>2. ASSUME NEW k \in ConnId, Disconnect(k) \/ CloseDone(k) PROVE CallDiscipline'
  BY <1>2 DEF Disconnect, CloseDone
<1>3. ASSUME NEW k \in ConnId, Execute(k) PROVE CallDiscipline'
  BY <1>3 DEF Execute, FreshIds, CallId
<1>4. ASSUME NEW t \in Task, Enqueue(t) PROVE CallDiscipline'
  BY <1>4 DEF Enqueue
<1>5. ASSUME NEW c \in CallId, Respond(c) PROVE CallDiscipline'
  BY <1>5 DEF Respond
<1>6. ASSUME NEW c \in CallId, Acquire(c) PROVE CallDiscipline'
  BY <1>6 DEF Acquire
<1>7. ASSUME NEW c \in CallId, Start(c) PROVE CallDiscipline'
  BY <1>7 DEF Start
<1>8. ASSUME NEW c \in CallId, Finish(c) PROVE CallDiscipline'
  BY <1>8 DEF Finish
<1>9. ASSUME NEW c \in CallId, Report(c) PROVE CallDiscipline'
  BY <1>9 DEF Report, Verdict
<1>10. ASSUME NEW c \in CallId, End(c) PROVE CallDiscipline'
  BY <1>10 DEF End
<1>11. ASSUME NEW c \in CallId, Cancel(c) PROVE CallDiscipline'
  BY <1>11 DEF Cancel
<1>12. ASSUME NEW c \in CallId, FireCancel(c) \/ FireFail(c) \/ Release(c)
       PROVE CallDiscipline'
  BY <1>12 DEF FireCancel, FireFail, Release
<1>13. ASSUME NEW o \in OpId, NEW k \in ConnId, OpBegin(o, k) PROVE CallDiscipline'
  BY <1>13 DEF OpBegin
<1>14. ASSUME NEW o \in OpId, OpRun(o) \/ OpEnd(o) PROVE CallDiscipline'
  <2>1. CASE OpRun(o) BY <2>1 DEF OpRun
  <2>2. CASE OpEnd(o) BY <2>2 DEF OpEnd
  <2>3. QED BY <1>14, <2>1, <2>2
<1>15. CASE Eof \/ WriterBreaks \/ Exit \/ UNCHANGED vars
  BY <1>15 DEF Eof, WriterBreaks, Exit, vars
<1>16. QED
  BY <1>1, <1>2, <1>3, <1>4, <1>5, <1>6, <1>7, <1>8, <1>9, <1>10, <1>11, <1>12,
     <1>13, <1>14, <1>15 DEF Next, Step, WorkerStep, OpStep, Exited

(* What a line appended to the channel adds.                                 *)
LEMMA AppendLine ==
    ASSUME NEW s \in Seq(Line), NEW l \in Line
    PROVE  /\ Append(s, l) \in Seq(Line)
           /\ DOMAIN Append(s, l) = 1..(Len(s) + 1)
           /\ DOMAIN s = 1..Len(s) /\ Len(s) \in Nat
           /\ \A i \in DOMAIN s : Append(s, l)[i] = s[i]
           /\ Append(s, l)[Len(s) + 1] = l
OBVIOUS

(* A line names a call.                                                      *)
LEMMA LineCall ==
    ASSUME NEW s \in Seq(Line)
    PROVE  \A i \in DOMAIN s : s[i] \in Line /\ s[i].call \in CallId
<1>1. \A i \in DOMAIN s : s[i] \in Line
  OBVIOUS
<1>2. \A l \in Line : l.call \in CallId
  BY DEF Line
<1>3. QED
  BY <1>1, <1>2

(* A response is sent on the way to "spawned" and a state on the way to      *)
(* "reported"; every other step leaves the channel alone and moves no call   *)
(* across those points.                                                      *)
LEMMA LineNext == IndInv /\ [Next]_vars => LineDiscipline'
<1> SUFFICES ASSUME IndInv, [Next]_vars PROVE LineDiscipline'
  OBVIOUS
<1> USE Ids DEF IndInv, TypeOK, ResponseLine, Line
<1>a. ASSUME out' = out,
             \A c \in CallId :
                /\ (pc'[c] \in {"none", "accepted"}) <=> (pc[c] \in {"none", "accepted"})
                /\ (pc'[c] \in {"reported", "ended"}) <=> (pc[c] \in {"reported", "ended"})
                /\ pc[c] \in {"reported", "ended"} => status'[c] = status[c]
      PROVE LineDiscipline'
  <2>1. \A i \in DOMAIN out : out[i].call \in CallId
    BY LineCall
  <2>2. \A i \in DOMAIN out : out[i].kind = "state" =>
            pc[out[i].call] \in {"reported", "ended"}
    BY <2>1 DEF LineDiscipline
  <2>3. ResponseFirst'
    BY <1>a DEF LineDiscipline, ResponseFirst
  <2>4. OneTerminalState'
    BY <1>a, <2>1, <2>2 DEF LineDiscipline, OneTerminalState
  <2>5. QED
    BY <1>a, <2>3, <2>4 DEF LineDiscipline
<1>1. CASE Connect \/ ConnectDone \/ ConnectFail
  BY <1>1, <1>a DEF Connect, ConnectDone, ConnectFail
<1>2. ASSUME NEW k \in ConnId, Disconnect(k) \/ CloseDone(k) PROVE LineDiscipline'
  BY <1>2, <1>a DEF Disconnect, CloseDone
<1>3. ASSUME NEW k \in ConnId, Execute(k) PROVE LineDiscipline'
  BY <1>3, <1>a DEF Execute, FreshIds, CallId
<1>4. ASSUME NEW t \in Task, Enqueue(t) PROVE LineDiscipline'
  BY <1>4, <1>a DEF Enqueue
<1>5. ASSUME NEW c \in CallId, Respond(c) PROVE LineDiscipline'
  <2>1. ResponseLine(c) \in Line
    BY DEF Status
  <2>2. out' = Append(out, ResponseLine(c)) /\ pc[c] = "accepted"
        /\ pc' = [pc EXCEPT ![c] = "spawned"] /\ status' = status
    BY <1>5 DEF Respond
  <2>3. /\ DOMAIN out' = 1..(Len(out) + 1) /\ DOMAIN out = 1..Len(out) /\ Len(out) \in Nat
        /\ \A i \in DOMAIN out : out'[i] = out[i]
        /\ Len(out) + 1 \in DOMAIN out' /\ out'[Len(out) + 1] = ResponseLine(c)
    BY <2>1, <2>2, AppendLine
  <2> HIDE DEF ResponseLine, Line
  <2>4. \A i \in DOMAIN out' : out'[i].kind = "state" => i \in DOMAIN out
    BY <2>3 DEF ResponseLine
  <2>5. ResponseFirst'
    <3> SUFFICES ASSUME NEW i \in DOMAIN out', out'[i].kind = "state"
                 PROVE  \E j \in 1..(i - 1) : out'[j] = ResponseLine(out'[i].call)
      BY DEF ResponseFirst
    <3>1. i \in DOMAIN out /\ out'[i] = out[i]
      BY <2>3, <2>4
    <3>2. PICK j \in 1..(i - 1) : out[j] = ResponseLine(out[i].call)
      BY <3>1 DEF LineDiscipline, ResponseFirst
    <3>3. j \in DOMAIN out
      BY <2>3, <3>1
    <3>4. QED
      BY <2>3, <3>1, <3>2, <3>3
  <2>6. OneTerminalState'
    BY <2>2, <2>3, <2>4 DEF LineDiscipline, OneTerminalState
  <2>7. ASSUME NEW d \in CallId
        PROVE  (pc'[d] \notin {"none", "accepted"})
                 <=> (\E i \in DOMAIN out' : out'[i] = ResponseLine(d))
    <3>1. CASE d = c
      BY <2>2, <2>3, <3>1
    <3>2. CASE d # c
      <4>1. ResponseLine(d) # ResponseLine(c)
        BY <3>2 DEF ResponseLine
      <4>2. QED
        BY <2>2, <2>3, <3>2, <4>1 DEF LineDiscipline
    <3>3. QED
      BY <3>1, <3>2
  <2>8. ASSUME NEW d \in CallId
        PROVE  (pc'[d] \in {"reported", "ended"})
                 <=> (\E i \in DOMAIN out' : out'[i].kind = "state" /\ out'[i].call = d)
    BY <2>2, <2>3, <2>4 DEF LineDiscipline
  <2>9. QED
    BY <2>5, <2>6, <2>7, <2>8 DEF LineDiscipline
<1>6. ASSUME NEW c \in CallId, Acquire(c) \/ Start(c) \/ Finish(c) PROVE LineDiscipline'
  BY <1>6, <1>a DEF Acquire, Start, Finish
<1>7. ASSUME NEW c \in CallId, Report(c) PROVE LineDiscipline'
  <2>1. Verdict(c) \in {"done", "failed", "cancelled"} /\ StateLine(c, Verdict(c)) \in Line
    BY DEF Verdict, StateLine, Status
  <2>2. out' = Append(out, StateLine(c, Verdict(c))) /\ pc[c] \in {"succeeded", "erred"}
        /\ pc' = [pc EXCEPT ![c] = "reported"] /\ status' = [status EXCEPT ![c] = Verdict(c)]
    BY <1>7 DEF Report
  <2>3. /\ DOMAIN out' = 1..(Len(out) + 1) /\ DOMAIN out = 1..Len(out) /\ Len(out) \in Nat
        /\ \A i \in DOMAIN out : out'[i] = out[i]
        /\ Len(out) + 1 \in DOMAIN out' /\ out'[Len(out) + 1] = StateLine(c, Verdict(c))
        /\ \A i \in DOMAIN out' : i \in DOMAIN out \/ i = Len(out) + 1
    BY <2>1, <2>2, AppendLine
  <2>4. \A i \in DOMAIN out : out[i].call \in CallId
    BY LineCall
  <2>5. \A i \in DOMAIN out : out[i].kind = "state" =>
            out[i].call # c /\ pc[out[i].call] \in {"reported", "ended"}
    BY <2>2, <2>4 DEF LineDiscipline
  <2>6. \A d : StateLine(c, Verdict(c)) # ResponseLine(d)
    BY DEF StateLine
  <2>7. StateLine(c, Verdict(c)).call = c /\ StateLine(c, Verdict(c)).kind = "state"
        /\ StateLine(c, Verdict(c)).state = Verdict(c)
    BY DEF StateLine
  <2> HIDE DEF ResponseLine, Line
  <2>8. \E i \in DOMAIN out : out[i] = ResponseLine(c)
    BY <2>2 DEF LineDiscipline
  <2>9. ResponseFirst'
    <3> SUFFICES ASSUME NEW i \in DOMAIN out', out'[i].kind = "state"
                 PROVE  \E j \in 1..(i - 1) : out'[j] = ResponseLine(out'[i].call)
      BY DEF ResponseFirst
    <3>1. CASE i \in DOMAIN out
      <4>1. PICK j \in 1..(i - 1) : out[j] = ResponseLine(out[i].call)
        BY <2>3, <3>1 DEF LineDiscipline, ResponseFirst
      <4>2. j \in DOMAIN out
        BY <2>3, <3>1
      <4>3. QED
        BY <2>3, <3>1, <4>1, <4>2
    <3>2. CASE i = Len(out) + 1
      <4>1. PICK j \in DOMAIN out : out[j] = ResponseLine(c)
        BY <2>8
      <4>2. j \in 1..(i - 1) /\ out'[j] = out[j] /\ out'[i].call = c
        BY <2>3, <2>7, <3>2
      <4>3. QED
        BY <4>1, <4>2
    <3>3. QED
      BY <2>3, <3>1, <3>2
  <2>10. OneTerminalState'
    BY <2>1, <2>2, <2>3, <2>4, <2>5, <2>7 DEF LineDiscipline, OneTerminalState
  <2>11. ASSUME NEW d \in CallId
         PROVE  /\ (pc'[d] \notin {"none", "accepted"})
                     <=> (\E i \in DOMAIN out' : out'[i] = ResponseLine(d))
                /\ (pc'[d] \in {"reported", "ended"})
                     <=> (\E i \in DOMAIN out' : out'[i].kind = "state" /\ out'[i].call = d)
    BY <2>2, <2>3, <2>6, <2>7 DEF LineDiscipline
  <2>12. QED
    BY <2>9, <2>10, <2>11 DEF LineDiscipline
<1>8. ASSUME NEW c \in CallId, End(c) PROVE LineDiscipline'
  BY <1>8, <1>a DEF End
<1>9. ASSUME NEW c \in CallId, Cancel(c) PROVE LineDiscipline'
  BY <1>9, <1>a DEF Cancel, CallDiscipline
<1>10. ASSUME NEW c \in CallId, FireCancel(c) \/ FireFail(c) \/ Release(c)
       PROVE LineDiscipline'
  BY <1>10, <1>a DEF FireCancel, FireFail, Release
<1>11. ASSUME NEW o \in OpId, NEW k \in ConnId, OpBegin(o, k) PROVE LineDiscipline'
  BY <1>11, <1>a DEF OpBegin
<1>12. ASSUME NEW o \in OpId, OpRun(o) \/ OpEnd(o) PROVE LineDiscipline'
  BY <1>12, <1>a DEF OpRun, OpEnd
<1>13. CASE Eof \/ WriterBreaks \/ Exit \/ UNCHANGED vars
  BY <1>13, <1>a DEF Eof, WriterBreaks, Exit, vars
<1>14. QED
  BY <1>1, <1>2, <1>3, <1>4, <1>5, <1>6, <1>7, <1>8, <1>9, <1>10, <1>11, <1>12,
     <1>13 DEF Next, Step, WorkerStep, OpStep, Exited

(* The process exits only once it has no task, unless the writer broke; an   *)
(* exited process takes no step.                                             *)
LEMMA ShutdownNext == IndInv /\ [Next]_vars => ShutdownDiscipline'
<1> SUFFICES ASSUME IndInv, [Next]_vars, stdin' = "exited", writer' = "up"
             PROVE  NoTasks'
  BY DEF ShutdownDiscipline
<1>1. CASE Exit
  BY <1>1 DEF Exit, NoTasks, Holders
<1>2. CASE UNCHANGED vars
  BY <1>2 DEF IndInv, ShutdownDiscipline, NoTasks, vars
<1>3. CASE Alive /\ Step /\ ~Exit
  <2>1. stdin' # "exited"
    BY <1>3 DEF Alive, Step, WorkerStep, OpStep, Connect, ConnectDone, ConnectFail,
           Disconnect, CloseDone, Execute, Respond, Enqueue, Acquire, Start, Finish,
           Report, End, Cancel, FireCancel, FireFail, Release, OpBegin, OpRun,
           OpEnd, Eof, WriterBreaks
  <2>2. QED BY <2>1
<1>4. QED
  BY <1>1, <1>2, <1>3 DEF Next, Exited

(* IndInv is inductive: it holds of every reachable state of the daemon.     *)
THEOREM Invariance == Spec => []IndInv
<1>1. IndInv /\ [Next]_vars => IndInv'
  BY TypeNext, FreshNext, ArcNext, LockNext, CallNext, LineNext, ShutdownNext
     DEF IndInv
<1>2. QED
  BY InitInv, <1>1, PTL DEF Spec

(* Every variable keeps its type, for every number of connections and calls. *)
THEOREM TypeCorrect == Spec => []TypeOK
BY Invariance, PTL DEF IndInv

(* A connection never runs two statements at once.                           *)
THEOREM MutualExclusion == Spec => []OneStatementPerConnection
<1>1. IndInv => OneStatementPerConnection
  BY DEF IndInv, LockDiscipline, HoldsLock, OneStatementPerConnection
<1>2. QED
  BY Invariance, <1>1, PTL

(* No disconnect closes a link that a task still holds.                      *)
THEOREM LinkOutlivesTasks == Spec => []NoUseAfterClose
<1>1. IndInv => NoUseAfterClose
  BY DEF IndInv, ArcKeepsOpen
<1>2. QED
  BY Invariance, <1>1, PTL

(* Every state notification follows its call's response.                     *)
THEOREM ResponseBeforeState == Spec => []ResponseFirst
<1>1. IndInv => ResponseFirst
  BY DEF IndInv, LineDiscipline
<1>2. QED
  BY Invariance, <1>1, PTL

(* A call is announced once, with the status it keeps.                       *)
THEOREM AnnouncedOnce == Spec => []OneTerminalState
<1>1. IndInv => OneTerminalState
  BY DEF IndInv, LineDiscipline
<1>2. QED
  BY Invariance, <1>1, PTL

(* A drained daemon has announced every call it accepted.                    *)
THEOREM NothingUnsaid == Spec => []ExitDrained
<1>1. IndInv => ExitDrained
  <2> SUFFICES ASSUME IndInv, stdin = "exited", writer = "up",
                      NEW c \in 1..(nextCall - 1)
               PROVE  \E i \in DOMAIN out : out[i].kind = "state" /\ out[i].call = c
    BY DEF ExitDrained
  <2>1. c \in CallId /\ c < nextCall
    BY Ids DEF IndInv, TypeOK, CallId
  <2>2. pc[c] = "ended"
    BY <2>1, Ids DEF IndInv, ShutdownDiscipline, NoTasks, FreshIds, Task
  <2>3. QED
    BY <2>1, <2>2 DEF IndInv, LineDiscipline
<1>2. QED
  BY Invariance, <1>1, PTL

(* A call that has left the running state stores no cancel handle.           *)
THEOREM HandleCleared == Spec => []NoStaleHandle
<1>1. IndInv => NoStaleHandle
  BY DEF IndInv, CallDiscipline, NoStaleHandle
<1>2. QED
  BY Invariance, <1>1, PTL

(* A cancel reaches the database only for a call that has owned the          *)
(* connection, so it never stops a statement ahead of it in the queue.       *)
THEOREM QueuedCancelSafe == Spec => QueuedCancelHarmless
<1> DEFINE Harmless == \A c \in CallId, t \in Task :
             <<c, t>> \in hits' \ hits =>
                pc[c] \notin {"none", "accepted", "spawned", "queued"}
<1>1. IndInv /\ [Next]_vars => [Harmless]_vars
  <2> SUFFICES ASSUME IndInv, Next, NEW c \in CallId, NEW t \in Task,
                      <<c, t>> \in hits', <<c, t>> \notin hits
               PROVE  pc[c] \notin {"none", "accepted", "spawned", "queued"}
    BY DEF vars
  <2>1. PICK d \in CallId : FireCancel(d)
    BY DEF Next, Step, WorkerStep, OpStep, Exited, Connect, ConnectDone, ConnectFail,
           Disconnect, CloseDone, Execute, Respond, Enqueue, Acquire, Start, Finish,
           Report, End, Cancel, FireFail, Release, OpBegin, OpRun, OpEnd, Eof,
           WriterBreaks, Exit, vars
  <2>2. c = d /\ d \in firing
    BY <2>1 DEF FireCancel
  <2>3. QED
    BY <2>2 DEF IndInv, CallDiscipline
<1>2. QED
  BY Invariance, <1>1, PTL DEF Spec, QueuedCancelHarmless

---------------------------------------------------------------------------
(* The daemon implements CallLifecycle                                     *)

(* A step that sends nothing and changes no status is invisible.             *)
LEMMA QuietStep ==
    ASSUME out' = out, status' = status
    PROVE  UNCHANGED Lifecycle!cvars
BY DEF Lifecycle!cvars, KnownCalls, ToldStates

(* Sending a call's response makes that call known and tells no state.       *)
LEMMA RespondTells ==
    ASSUME IndInv, NEW c \in CallId, Respond(c)
    PROVE  Lifecycle!Tell(c)
<1> USE DEF IndInv, TypeOK
<1>1. ResponseLine(c) \in Line /\ out \in Seq(Line)
  BY DEF ResponseLine, Line, Status
<1>2. out' = Append(out, ResponseLine(c)) /\ pc[c] = "accepted" /\ status' = status
  BY DEF Respond
<1>3. /\ \A i \in DOMAIN out : i \in DOMAIN out' /\ out'[i] = out[i]
      /\ Len(out) + 1 \in DOMAIN out' /\ out'[Len(out) + 1] = ResponseLine(c)
      /\ \A i \in DOMAIN out' : i \in DOMAIN out \/ i = Len(out) + 1
  BY <1>1, <1>2, AppendLine
<1>4. c \notin KnownCalls /\ status[c] # "none"
  BY <1>2 DEF KnownCalls, LineDiscipline, CallDiscipline
<1>5. KnownCalls' = KnownCalls \cup {c}
  <2>1. \A d \in CallId : d # c => ResponseLine(d) # ResponseLine(c)
    BY DEF ResponseLine
  <2>2. QED
    BY <1>3, <2>1 DEF KnownCalls
<1>6. ToldStates' = ToldStates
  <2>1. \A d \in CallId, s \in Status : StateLine(d, s) # ResponseLine(c)
    BY DEF ResponseLine, StateLine
  <2>2. \A d \in CallId, s \in Status :
          (\E i \in DOMAIN out' : out'[i] = StateLine(d, s))
            <=> (\E i \in DOMAIN out : out[i] = StateLine(d, s))
    BY <1>3, <2>1
  <2>3. QED
    BY <2>2 DEF ToldStates
<1>7. QED
  BY <1>2, <1>4, <1>5, <1>6 DEF Lifecycle!Tell

(* Reporting a call settles it with the one state it announces.              *)
LEMMA ReportSettles ==
    ASSUME IndInv, NEW c \in CallId, Report(c)
    PROVE  Lifecycle!Settle(c)
<1> USE Ids DEF IndInv, TypeOK
<1> DEFINE v == Verdict(c)
<1>1. v \in {"done", "failed", "cancelled"} /\ v \in Status
      /\ StateLine(c, v) \in Line /\ out \in Seq(Line)
  BY DEF Verdict, StateLine, Line, Status
<1>2. out' = Append(out, StateLine(c, v)) /\ pc[c] \in {"succeeded", "erred"}
      /\ status' = [status EXCEPT ![c] = v]
  BY DEF Report
<1>3. (v = "cancelled") <=> (status[c] = "cancelled")
  BY DEF Verdict
<1> HIDE DEF v
<1>4. /\ \A i \in DOMAIN out : i \in DOMAIN out' /\ out'[i] = out[i]
      /\ Len(out) + 1 \in DOMAIN out' /\ out'[Len(out) + 1] = StateLine(c, v)
      /\ \A i \in DOMAIN out' : i \in DOMAIN out \/ i = Len(out) + 1
  BY <1>1, <1>2, AppendLine
<1>5. c \in KnownCalls
  BY <1>2 DEF KnownCalls, LineDiscipline
<1>6. ~ \E i \in DOMAIN out : out[i].kind = "state" /\ out[i].call = c
  BY <1>2 DEF LineDiscipline
<1>7. ToldStates[c] = {}
  BY <1>6 DEF ToldStates, StateLine
<1>8. KnownCalls' = KnownCalls
  <2>1. \A d \in CallId : ResponseLine(d) # StateLine(c, v)
    BY DEF ResponseLine, StateLine
  <2>2. QED
    BY <1>4, <2>1 DEF KnownCalls
<1>9. ToldStates' = [ToldStates EXCEPT ![c] = {v}]
  <2>1. \A d \in CallId, s \in Status :
          (\E i \in DOMAIN out' : out'[i] = StateLine(d, s))
            <=> \/ \E i \in DOMAIN out : out[i] = StateLine(d, s)
                \/ StateLine(d, s) = StateLine(c, v)
    BY <1>4
  <2>2. \A d \in CallId, s \in Status :
          StateLine(d, s) = StateLine(c, v) <=> (d = c /\ s = v)
    BY DEF StateLine
  <2>3. \A s \in Status : ~ \E i \in DOMAIN out : out[i] = StateLine(c, s)
    BY <1>6 DEF StateLine
  <2>4. \A d \in CallId : ToldStates'[d] = IF d = c THEN {v} ELSE ToldStates[d]
    <3> SUFFICES ASSUME NEW d \in CallId
                 PROVE  ToldStates'[d] = IF d = c THEN {v} ELSE ToldStates[d]
      OBVIOUS
    <3>1. ToldStates'[d] = {s \in Status : \E i \in DOMAIN out' : out'[i] = StateLine(d, s)}
          /\ ToldStates[d] = {s \in Status : \E i \in DOMAIN out : out[i] = StateLine(d, s)}
      BY DEF ToldStates
    <3>2. CASE d = c
      <4>1. \A s \in Status :
              (\E i \in DOMAIN out' : out'[i] = StateLine(d, s)) <=> s = v
        BY <2>1, <2>2, <2>3, <3>2
      <4>2. v \in Status
        BY <1>1
      <4>3. \A x : x \in ToldStates'[d] <=> x = v
        BY ONLY <3>1, <4>1, <4>2
      <4>4. QED
        BY <3>2, <4>3
    <3>3. CASE d # c
      <4>1. \A s \in Status :
              (\E i \in DOMAIN out' : out'[i] = StateLine(d, s))
                <=> (\E i \in DOMAIN out : out[i] = StateLine(d, s))
        BY <2>1, <2>2, <3>3
      <4>2. QED
        BY <3>1, <3>3, <4>1
    <3>4. QED
      BY <3>2, <3>3
  <2>5. QED
    BY <2>4 DEF ToldStates
<1>10. QED
  BY <1>1, <1>2, <1>3, <1>5, <1>7, <1>8, <1>9 DEF Lifecycle!Settle

(* What the daemon sends and answers about its calls is what CallLifecycle   *)
(* allows, for every number of connections, calls and schema requests.       *)
THEOREM Refinement == Spec => ImplementsLifecycle
<1>1. Init => Lifecycle!CInit
  BY DEF Init, Lifecycle!CInit, KnownCalls, ToldStates
<1>2. IndInv /\ [Next]_vars => [Lifecycle!CNext]_(Lifecycle!cvars)
  <2> SUFFICES ASSUME IndInv, [Next]_vars
               PROVE  Lifecycle!CNext \/ UNCHANGED Lifecycle!cvars
    OBVIOUS
  <2>1. CASE Connect \/ ConnectDone \/ ConnectFail
    BY <2>1, QuietStep DEF Connect, ConnectDone, ConnectFail
  <2>2. ASSUME NEW k \in ConnId, Disconnect(k) \/ CloseDone(k)
        PROVE  UNCHANGED Lifecycle!cvars
    BY <2>2, QuietStep DEF Disconnect, CloseDone
  <2>3. ASSUME NEW k \in ConnId, Execute(k) PROVE Lifecycle!CNext
    <3>1. nextCall \in CallId /\ status[nextCall] = "none" /\ out' = out
          /\ status' = [status EXCEPT ![nextCall] = "running"]
      BY <2>3, Ids DEF Execute, IndInv, TypeOK, FreshIds, CallDiscipline, CallId
    <3>2. KnownCalls' = KnownCalls /\ ToldStates' = ToldStates
      BY <3>1 DEF KnownCalls, ToldStates
    <3>3. Lifecycle!Accept(nextCall)
      BY <3>1, <3>2 DEF Lifecycle!Accept
    <3>4. QED
      BY <3>1, <3>3 DEF Lifecycle!CNext
  <2>4. ASSUME NEW t \in Task, Enqueue(t) PROVE UNCHANGED Lifecycle!cvars
    BY <2>4, QuietStep DEF Enqueue
  <2>5. ASSUME NEW c \in CallId, Respond(c) PROVE Lifecycle!CNext
    BY <2>5, RespondTells DEF Lifecycle!CNext
  <2>6. ASSUME NEW c \in CallId, Acquire(c) \/ Start(c) \/ Finish(c) \/ End(c)
        PROVE  UNCHANGED Lifecycle!cvars
    BY <2>6, QuietStep DEF Acquire, Start, Finish, End
  <2>7. ASSUME NEW c \in CallId, Report(c) PROVE Lifecycle!CNext
    BY <2>7, ReportSettles DEF Lifecycle!CNext
  <2>8. ASSUME NEW c \in CallId, Cancel(c)
        PROVE  Lifecycle!CNext \/ UNCHANGED Lifecycle!cvars
    <3>1. out' = out
      BY <2>8 DEF Cancel
    <3>2. KnownCalls' = KnownCalls /\ ToldStates' = ToldStates
      BY <3>1 DEF KnownCalls, ToldStates
    <3>3. CASE status[c] = "running"
      <4>1. Lifecycle!AbandonRunning(c)
        BY <2>8, <3>2, <3>3 DEF Cancel, Lifecycle!AbandonRunning, IndInv, TypeOK
      <4>2. QED
        BY <4>1 DEF Lifecycle!CNext
    <3>4. CASE status[c] # "running"
      <4>1. status' = status
        BY <2>8, <3>4 DEF Cancel, IndInv, TypeOK
      <4>2. QED
        BY <3>1, <4>1, QuietStep
    <3>5. QED
      BY <3>3, <3>4
  <2>9. ASSUME NEW c \in CallId, FireCancel(c) \/ FireFail(c) \/ Release(c)
        PROVE  UNCHANGED Lifecycle!cvars
    BY <2>9, QuietStep DEF FireCancel, FireFail, Release
  <2>10. ASSUME NEW o \in OpId, NEW k \in ConnId, OpBegin(o, k)
         PROVE  UNCHANGED Lifecycle!cvars
    BY <2>10, QuietStep DEF OpBegin
  <2>11. ASSUME NEW o \in OpId, OpRun(o) \/ OpEnd(o)
         PROVE  UNCHANGED Lifecycle!cvars
    BY <2>11, QuietStep DEF OpRun, OpEnd
  <2>12. CASE Eof \/ WriterBreaks \/ Exit \/ UNCHANGED vars
    BY <2>12, QuietStep DEF Eof, WriterBreaks, Exit, vars
  <2>13. QED
    BY <2>1, <2>2, <2>3, <2>4, <2>5, <2>6, <2>7, <2>8, <2>9, <2>10, <2>11, <2>12,
       Ids DEF Next, Step, WorkerStep, OpStep, Exited
<1>3. QED
  BY Invariance, <1>1, <1>2, PTL DEF Spec, ImplementsLifecycle, Lifecycle!CSpec
=============================================================================
