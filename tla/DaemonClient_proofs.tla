-------------------------- MODULE DaemonClient_proofs --------------------------
(***************************************************************************)
(* What daemon.lua owes to whoever issues a request, for every set of      *)
(* requests, every number of processes and stops, whichever processes fail *)
(* their handshake and whichever callbacks raise.                          *)
(*                                                                         *)
(* The argument: a request's callback is in one hand at a time (Custody),  *)
(* because a step either moves it or calls it.  An id goes to one process  *)
(* only and is never given out again while anything written under it can   *)
(* still be read (Fresh): so a stored callback can only be answered by the *)
(* current process (Roles), though processes overlap and old output is     *)
(* still delivered.  The ids last because each request is sent once        *)
(* (Counted).                                                              *)
(***************************************************************************)
EXTENDS DaemonClient, SequenceTheorems, FiniteSetTheorems, TLAPS

\* Process j has read id i and not answered it, or its answer is in the pipe.
Touches(j, i) == i \in inbox[j] \/ \E k \in DOMAIN pipe[j] : pipe[j][k].id = i

\* The requests that were sent to some process.
Sent == {r \in Req : dest[r] # 0}

Fresh ==
    /\ \A i \in Id : pending[i] # NoCb => i <= idSeq
    /\ \A j \in Job, i \in Id : Touches(j, i) => i <= idSeq

Counted == idSeq = spawned + Cardinality(Sent)

\* A callback has one hand: the waiters', the table's or its caller's.
Custody ==
    /\ \A r \in Req : Len(ans[r]) <= 1
    /\ \A r \in Req \ asked : ans[r] = <<>> /\ dest[r] = 0
    /\ \A i \in Id : pending[i] \in Req => pending[i] \in asked /\ ans[pending[i]] = <<>>
    /\ \A k \in DOMAIN waiters : waiters[k] \in asked /\ ans[waiters[k]] = <<>>
    /\ \A i \in Id, k \in DOMAIN waiters : pending[i] # waiters[k]
    /\ \A i, k \in Id : pending[i] = pending[k] /\ pending[i] \in Req => i = k
    /\ \A i, k \in DOMAIN waiters : waiters[i] = waiters[k] => i = k
    /\ \A r \in asked : ans[r] = <<>> => r \in Stranded

\* Without a process nobody waits; what is stored was sent to the current one;
\* whoever waits was not sent yet.
Roles ==
    /\ job = 0 => ~ready /\ waiters = <<>> /\ \A i \in Id : pending[i] = NoCb
    /\ ready => waiters = <<>>
    /\ ~ready /\ job # 0 => \E i \in Id : pending[i] = Hello
    /\ \A i \in Id, j \in Job : pending[i] # NoCb /\ Touches(j, i) => j = job
    /\ \A i \in Id : pending[i] \in Req => dest[pending[i]] = job
    /\ \A k \in DOMAIN waiters : dest[waiters[k]] = 0

IInv == TypeOK /\ Fresh /\ Counted /\ Custody /\ Roles /\ AnswerFromOwnProcess

---------------------------------------------------------------------------
(* The ids suffice.                                                        *)

\* The bounds are numbers.
LEMMA Bounds ==
    /\ Cardinality(Req) \in Nat /\ MaxJobs \in Nat /\ MaxStops \in Nat
    /\ MaxId \in Nat /\ MaxId = Cardinality(Req) + MaxJobs
    /\ Hello \notin Req /\ NoCb \notin Req /\ Hello # NoCb
    /\ Throws \subseteq Req /\ BadHello \subseteq Job
    /\ Job = 1..MaxJobs /\ Id = 1..MaxId
BY ClientAssumption, FS_CardinalityType DEF MaxId, Job, Id

\* A sequence without repetition has as many members as places.
LEMMA ToSetCount ==
  ASSUME NEW S, NEW w \in Seq(S), \A i, k \in DOMAIN w : w[i] = w[k] => i = k
  PROVE  IsFiniteSet(ToSet(w)) /\ Cardinality(ToSet(w)) = Len(w)
<1>1. Len(w) \in Nat /\ DOMAIN w = 1..Len(w)
  BY LenProperties
<1>2. w \in Bijection(1..Len(w), ToSet(w))
  <2>1. w \in [1..Len(w) -> ToSet(w)]
    BY <1>1, LenProperties DEF ToSet
  <2>2. \A t \in ToSet(w) : \E i \in 1..Len(w) : w[i] = t
    BY <1>1 DEF ToSet
  <2> QED BY <1>1, <2>1, <2>2 DEF Bijection, Injection, Surjection, IsInjective
<1>3. ExistsBijection(1..Len(w), ToSet(w))
  BY <1>2 DEF ExistsBijection
<1>4. IsFiniteSet(1..Len(w)) /\ Cardinality(1..Len(w)) = Len(w)
  BY <1>1, FS_Interval
<1> QED BY <1>1, <1>3, <1>4, FS_Bijection

\* As long as a process may be spawned there is an id for its handshake.
LEMMA SpawnId ==
  ASSUME IInv
  PROVE  /\ Cardinality(Sent) \in Nat
         /\ idSeq \in Nat /\ spawned \in Nat
         /\ spawned < MaxJobs => idSeq + 1 \in Id /\ spawned + 1 \in Job
<1>1. Sent \in SUBSET Req
  BY DEF Sent
<1>2. Cardinality(Sent) \in Nat /\ Cardinality(Sent) <= Cardinality(Req)
  BY <1>1, FS_Subset, FS_CardinalityType, ClientAssumption
<1>3. idSeq \in Nat /\ spawned \in Nat /\ idSeq = spawned + Cardinality(Sent)
  BY Bounds DEF IInv, TypeOK, Counted
<1> QED BY <1>2, <1>3, Bounds

\* Requests that are sent for the first time each find an id.
LEMMA SendIds ==
  ASSUME IInv, NEW w \in Seq(Req),
         \A i, k \in DOMAIN w : w[i] = w[k] => i = k,
         \A k \in DOMAIN w : dest[w[k]] = 0
  PROVE  /\ idSeq + Len(w) \in 0..MaxId
         /\ Cardinality(Sent \cup ToSet(w)) = Cardinality(Sent) + Len(w)
<1>1. IsFiniteSet(ToSet(w)) /\ Cardinality(ToSet(w)) = Len(w) /\ Len(w) \in Nat
  BY ToSetCount, LenProperties
<1>2. ToSet(w) \subseteq Req /\ Sent \subseteq Req
  BY LenProperties, ElementOfSeq DEF ToSet, Sent
<1>3. Sent \cap ToSet(w) = {}
  BY DEF ToSet, Sent
<1>4. IsFiniteSet(Sent) /\ Cardinality(Sent) \in Nat
  BY <1>2, FS_Subset, FS_CardinalityType, ClientAssumption
<1>5. Cardinality(Sent \cup ToSet(w)) = Cardinality(Sent) + Len(w)
  <2>1. Cardinality(Sent \cup ToSet(w))
          = Cardinality(Sent) + Cardinality(ToSet(w)) - Cardinality({})
    BY <1>1, <1>3, <1>4, FS_Union
  <2>2. Cardinality({}) = 0
    BY FS_EmptySet
  <2> QED BY <1>1, <1>4, <2>1, <2>2
<1>6. Cardinality(Sent \cup ToSet(w)) <= Cardinality(Req)
  BY <1>2, FS_Subset, ClientAssumption
<1>7. idSeq = spawned + Cardinality(Sent) /\ spawned \in 0..MaxJobs
  BY DEF IInv, TypeOK, Counted
<1> QED BY <1>1, <1>4, <1>5, <1>6, <1>7, Bounds

---------------------------------------------------------------------------
(* What a step may do with callbacks.                                      *)

\* A callback called once.
LEMMA Once ==
    \A j : /\ Append(<<>>, j) = <<j>>
           /\ Len(<<j>>) = 1 /\ <<j>> # <<>>
           /\ \A k \in DOMAIN <<j>> : <<j>>[k] = j
<1> SUFFICES ASSUME NEW j
             PROVE  /\ Append(<<>>, j) = <<j>>
                    /\ Len(<<j>>) = 1 /\ <<j>> # <<>>
                    /\ \A k \in DOMAIN <<j>> : <<j>>[k] = j
  OBVIOUS
<1>1. Len(<<j>>) = 1 /\ <<j>> # <<>>
  OBVIOUS
<1>2. \A k \in DOMAIN <<j>> : <<j>>[k] = j
  OBVIOUS
<1>3. Append(<<>>, j) = <<j>>
  <2>1. <<>> \in Seq({j})
    OBVIOUS
  <2>2. Append(<<>>, j) = <<>> \o <<j>>
    BY <2>1, AppendIsConcat
  <2> QED BY <2>2, ConcatEmptySeq
<1> QED BY <1>1, <1>2, <1>3

\* Calling the callbacks of S changes nobody else's.
LEMMA CalledAt ==
  ASSUME IInv, NEW S, NEW j \in 0..MaxJobs, \A r \in S : r \in Req => ans[r] = <<>>
  PROVE  /\ Called(S, j) \in [Req -> Seq(0..MaxJobs)]
         /\ \A r \in Req : Called(S, j)[r] = IF r \in S THEN <<j>> ELSE ans[r]
<1>1. ans \in [Req -> Seq(0..MaxJobs)]
  BY DEF IInv, TypeOK
<1>2. \A r \in Req : r \in S => Append(ans[r], j) = <<j>>
  BY Once
<1>3. <<j>> \in Seq(0..MaxJobs)
  OBVIOUS
<1> QED BY <1>1, <1>2, <1>3 DEF Called

\* An error made up by the client is what a callback may be called with.
LEMMA FailedType ==
  ASSUME IInv, NEW S, \A r \in S : r \in Req => ans[r] = <<>>
  PROVE  Called(S, 0) \in [Req -> Seq(0..MaxJobs)]
<1>1. 0 \in 0..MaxJobs
  BY Bounds
<1> QED BY <1>1, CalledAt

\* Whoever is stored or waits was asked and not called yet.
LEMMA StrandedUncalled ==
  ASSUME IInv
  PROVE  /\ Stranded \subseteq asked
         /\ \A r \in Stranded : ans[r] = <<>>
         /\ \A r \in Req \ asked : ans[r] = <<>> /\ dest[r] = 0
BY DEF IInv, Custody, Stranded, ToSet, TypeOK

\* Everybody is failed: teardown, with a request made from inside it or not.
LEMMA CustodyFails ==
  ASSUME IInv, NEW mid \in SUBSET (Req \ asked),
         asked' = asked \cup mid,
         ans' = Called(Stranded \cup mid, 0),
         waiters' = <<>>, dest' = dest,
         \A i \in Id : pending'[i] \notin Req
  PROVE  Custody' /\ AnswerFromOwnProcess'
<1>1. \A r \in Stranded \cup mid : r \in Req => ans[r] = <<>>
  BY StrandedUncalled
<1>2. \A r \in Req : ans'[r] = IF r \in Stranded \cup mid THEN <<0>> ELSE ans[r]
  BY <1>1, CalledAt, Bounds
<1>3. \A r \in Req : Len(ans'[r]) <= 1
  <2>1. \A r \in Req : Len(ans[r]) <= 1
    BY DEF IInv, Custody
  <2>2. Len(<<0>>) <= 1
    BY Once
  <2> QED BY <1>2, <2>1, <2>2
<1>4. \A r \in Req \ asked' : ans'[r] = <<>> /\ dest'[r] = 0
  BY <1>2, StrandedUncalled
<1>5. \A r \in asked' : ans'[r] # <<>>
  <2> SUFFICES ASSUME NEW r \in asked' PROVE ans'[r] # <<>>
    OBVIOUS
  <2>1. r \in Req
    BY DEF IInv, TypeOK
  <2>2. CASE r \in Stranded \cup mid
    BY <1>2, <2>1, <2>2, Once
  <2>3. CASE r \notin Stranded \cup mid
    BY <1>2, <2>1, <2>3 DEF IInv, Custody
  <2> QED BY <2>2, <2>3
<1>6. Custody'
  <2>1. DOMAIN waiters' = {}
    OBVIOUS
  <2> QED BY <1>3, <1>4, <1>5, <2>1 DEF Custody
<1>7. AnswerFromOwnProcess'
  <2> SUFFICES ASSUME NEW r \in Req, NEW k \in DOMAIN ans'[r], ans'[r][k] # 0
               PROVE  ans'[r][k] = dest[r]
    BY DEF AnswerFromOwnProcess
  <2>1. CASE r \in Stranded \cup mid
    <3>1. ans'[r] = <<0>>
      BY <1>2, <2>1
    <3> QED BY <3>1, Once
  <2>2. CASE r \notin Stranded \cup mid
    BY <1>2, <2>2 DEF IInv, AnswerFromOwnProcess
  <2> QED BY <2>1, <2>2
<1> QED BY <1>6, <1>7

\* A step that neither moves nor calls a callback, and by which no process gets
\* hold of an id.
LEMMA Quiet ==
  ASSUME IInv, TypeOK',
         UNCHANGED <<spawned, job, ready, idSeq, pending, waiters, asked, dest, ans>>,
         \A j \in Job, i \in Id : Touches(j, i)' => Touches(j, i)
  PROVE  IInv'
<1>1. Fresh'
  BY DEF IInv, Fresh
<1>2. Counted'
  BY DEF IInv, Counted, Sent
<1>3. Custody'
  BY DEF IInv, Custody, Stranded
<1>4. Roles'
  BY DEF IInv, Roles
<1>5. AnswerFromOwnProcess'
  BY DEF IInv, AnswerFromOwnProcess
<1> QED BY <1>1, <1>2, <1>3, <1>4, <1>5 DEF IInv

\* The answer process j gave under id i is handed to its callback.
LEMMA OneAnswered ==
  ASSUME IInv, TypeOK', NEW j \in Job, NEW i \in Id,
         pending[i] \in Req, Touches(j, i),
         pending' = [pending EXCEPT ![i] = NoCb],
         ans' = Called({pending[i]}, j),
         UNCHANGED <<spawned, job, ready, idSeq, waiters, asked, dest>>,
         \A x \in Job, y \in Id : Touches(x, y)' => Touches(x, y)
  PROVE  IInv'
<1> DEFINE r0 == pending[i]
<1>1. r0 \in Req /\ r0 \in asked /\ ans[r0] = <<>> /\ r0 # NoCb /\ dest[r0] = job /\ j = job
  BY Bounds DEF IInv, Custody, Roles
<1>2. /\ pending \in [Id -> Req \cup {Hello, NoCb}]
      /\ \A y \in Id : pending'[y] = IF y = i THEN NoCb ELSE pending[y]
  BY DEF IInv, TypeOK
<1> HIDE DEF r0
<1>3. \A r \in Req : ans'[r] = IF r = r0 THEN <<j>> ELSE ans[r]
  <2>1. j \in 0..MaxJobs /\ ans' = Called({r0}, j)
    BY Bounds DEF r0
  <2> QED BY <1>1, <2>1, CalledAt
<1>4. \A y \in Id : pending'[y] # r0 /\ (pending'[y] # NoCb => pending'[y] = pending[y])
  BY <1>1, <1>2 DEF IInv, Custody, r0
<1>5. \A k \in DOMAIN waiters : waiters[k] # r0
  BY DEF IInv, Custody, r0
<1>6. Fresh'
  BY <1>4 DEF IInv, Fresh
<1>7. Counted'
  BY DEF IInv, Counted, Sent
<1>8. Custody'
  <2>1. \A r \in Req : Len(ans'[r]) <= 1
    <3>1. Len(<<j>>) <= 1
      BY Once
    <3> QED BY <1>3, <3>1 DEF IInv, Custody
  <2>2. \A r \in Req \ asked : ans'[r] = <<>> /\ dest[r] = 0
    BY <1>1, <1>3 DEF IInv, Custody
  <2>3. \A y \in Id : pending'[y] \in Req => pending'[y] \in asked /\ ans'[pending'[y]] = <<>>
    <3> SUFFICES ASSUME NEW y \in Id, pending'[y] \in Req
                 PROVE  pending'[y] \in asked /\ ans'[pending'[y]] = <<>>
      OBVIOUS
    <3>1. pending'[y] = pending[y] /\ pending[y] # r0
      BY <1>4, Bounds
    <3>2. pending[y] \in asked /\ ans[pending[y]] = <<>>
      BY <3>1 DEF IInv, Custody
    <3> QED BY <1>3, <3>1, <3>2
  <2>4. \A k \in DOMAIN waiters : waiters[k] \in asked /\ ans'[waiters[k]] = <<>>
    <3>1. \A k \in DOMAIN waiters : waiters[k] \in asked /\ ans[waiters[k]] = <<>>
      BY DEF IInv, Custody
    <3>2. asked \subseteq Req
      BY DEF IInv, TypeOK
    <3> QED BY <1>3, <1>5, <3>1, <3>2
  <2>5. \A y \in Id, k \in DOMAIN waiters : pending'[y] # waiters[k]
    <3>1. \A k \in DOMAIN waiters : waiters[k] \in Req
      BY DEF IInv, Custody, TypeOK
    <3> QED BY <1>4, <3>1, Bounds DEF IInv, Custody
  <2>6. \A y, k \in Id : pending'[y] = pending'[k] /\ pending'[y] \in Req => y = k
    BY <1>4, Bounds DEF IInv, Custody
  <2>7. \A r \in asked : ans'[r] = <<>> => r \in Stranded'
    <3> SUFFICES ASSUME NEW r \in asked, ans'[r] = <<>> PROVE r \in Stranded'
      OBVIOUS
    <3>1. r \in Req /\ r # r0 /\ ans[r] = <<>>
      BY <1>3, Once DEF IInv, TypeOK
    <3>2. r \in Stranded
      BY <3>1 DEF IInv, Custody
    <3>3. CASE \E y \in Id : pending[y] = r
      BY <1>2, <3>1, <3>3 DEF Stranded, r0
    <3>4. CASE r \in ToSet(waiters)
      BY <3>1, <3>4 DEF Stranded
    <3> QED BY <3>2, <3>3, <3>4 DEF Stranded
  <2>8. \A y, k \in DOMAIN waiters : waiters[y] = waiters[k] => y = k
    BY DEF IInv, Custody
  <2>9. asked' = asked /\ waiters' = waiters /\ dest' = dest
    OBVIOUS
  <2>10. /\ \A r \in Req \ asked' : ans'[r] = <<>> /\ dest'[r] = 0
         /\ \A y \in Id : pending'[y] \in Req => pending'[y] \in asked' /\ ans'[pending'[y]] = <<>>
    BY <2>2, <2>3, <2>9
  <2>11. /\ \A k \in DOMAIN waiters' : waiters'[k] \in asked' /\ ans'[waiters'[k]] = <<>>
         /\ \A y \in Id, k \in DOMAIN waiters' : pending'[y] # waiters'[k]
         /\ \A y, k \in DOMAIN waiters' : waiters'[y] = waiters'[k] => y = k
    BY <2>4, <2>5, <2>8, <2>9
  <2>12. \A r \in asked' : ans'[r] = <<>> => r \in Stranded'
    BY <2>7, <2>9
  <2> QED BY <2>1, <2>6, <2>10, <2>11, <2>12 DEF Custody
<1>9. Roles'
  <2>1. job # 0
    BY <1>1, Bounds
  <2>2. ~ready => \E y \in Id : pending'[y] = Hello
    BY <1>1, <1>2, <2>1, Bounds DEF IInv, Roles, r0
  <2>3. \A y \in Id, x \in Job : pending'[y] # NoCb /\ Touches(x, y)' => x = job
    BY <1>4 DEF IInv, Roles
  <2>4. \A y \in Id : pending'[y] \in Req => dest[pending'[y]] = job
    BY <1>4, Bounds DEF IInv, Roles
  <2> QED BY <2>1, <2>2, <2>3, <2>4 DEF IInv, Roles
<1>10. AnswerFromOwnProcess'
  <2> SUFFICES ASSUME NEW r \in Req, NEW k \in DOMAIN ans'[r], ans'[r][k] # 0
               PROVE  ans'[r][k] = dest[r]
    BY DEF AnswerFromOwnProcess
  <2>1. CASE r = r0
    <3>1. ans'[r] = <<j>>
      BY <1>3, <2>1
    <3> QED BY <1>1, <2>1, <3>1, Once
  <2>2. CASE r # r0
    BY <1>3, <2>2 DEF IInv, AnswerFromOwnProcess
  <2> QED BY <2>1, <2>2
<1> QED BY <1>6, <1>7, <1>8, <1>9, <1>10 DEF IInv

\* What a spawned process is: the next one, and the handshake under the next id.
Spawned ==
    /\ spawned + 1 \in Job /\ idSeq + 1 \in Id
    /\ spawned' = spawned + 1 /\ job' = spawned + 1 /\ idSeq' = idSeq + 1
    /\ \A i \in Id : pending'[i] = IF i = idSeq + 1 THEN Hello ELSE NoCb
    /\ \A j \in Job, i \in Id :
          Touches(j, i)' => Touches(j, i) \/ (j = spawned + 1 /\ i = idSeq + 1)

\* What the loss of the process is: nothing stored, and nobody to send to.
Unmanned ==
    /\ job' = 0
    /\ UNCHANGED <<spawned, idSeq>>
    /\ \A i \in Id : pending'[i] = NoCb
    /\ \A j \in Job, i \in Id : Touches(j, i)' => Touches(j, i)

\* The ids and the roles, whether or not a process is spawned.
LEMMA Replaced ==
  ASSUME IInv, Spawned \/ (Unmanned /\ waiters' = <<>>),
         ready' = FALSE, dest' = dest,
         \A k \in DOMAIN waiters' : dest[waiters'[k]] = 0
  PROVE  Fresh' /\ Counted' /\ Roles' /\ \A i \in Id : pending'[i] \notin Req
<1>1. /\ idSeq \in Nat /\ spawned \in Nat /\ Cardinality(Sent) \in Nat
      /\ idSeq = spawned + Cardinality(Sent) /\ Sent' = Sent
  BY SpawnId DEF IInv, Counted, Sent
<1>2. \A i \in Id : pending'[i] \notin Req
  BY Bounds DEF Spawned, Unmanned
<1>3. CASE Unmanned /\ waiters' = <<>>
  <2>1. Fresh'
    BY <1>3 DEF Unmanned, IInv, Fresh
  <2>2. Counted'
    BY <1>1, <1>3 DEF Unmanned, Counted
  <2>3. Roles'
    BY <1>2, <1>3 DEF Unmanned, Roles
  <2> QED BY <1>2, <2>1, <2>2, <2>3
<1>4. CASE Spawned
  <2>1. /\ idSeq' = idSeq + 1 /\ spawned' = spawned + 1 /\ job' = spawned + 1
        /\ idSeq + 1 \in Id /\ idSeq <= idSeq + 1 /\ spawned + 1 # 0
    BY <1>1, <1>4 DEF Spawned
  <2>2. \A i \in Id : pending'[i] # NoCb => i = idSeq + 1
    BY <1>4 DEF Spawned
  <2>3. Fresh'
    <3>1. \A i \in Id : pending'[i] # NoCb => i <= idSeq + 1
      BY <1>1, <2>2
    <3>2. \A j \in Job, i \in Id : Touches(j, i)' => i <= idSeq + 1
      <4> SUFFICES ASSUME NEW j \in Job, NEW i \in Id, Touches(j, i)' PROVE i <= idSeq + 1
        OBVIOUS
      <4>1. i \in Int
        BY Bounds
      <4>2. i <= idSeq \/ i = idSeq + 1
        BY <1>4 DEF Spawned, IInv, Fresh
      <4> QED BY <1>1, <4>1, <4>2
    <3> QED BY <2>1, <3>1, <3>2 DEF Fresh
  <2>4. Counted'
    <3>1. idSeq + 1 = (spawned + 1) + Cardinality(Sent)
      BY <1>1
    <3> QED BY <1>1, <2>1, <3>1 DEF Counted
  <2>5. Roles'
    <3>1. pending'[idSeq + 1] = Hello
      BY <2>1, <1>4 DEF Spawned
    <3>2. \A j \in Job, i \in Id : pending'[i] # NoCb /\ Touches(j, i)' => j = spawned + 1
      <4> SUFFICES ASSUME NEW j \in Job, NEW i \in Id, pending'[i] # NoCb, Touches(j, i)'
                   PROVE  j = spawned + 1
        OBVIOUS
      <4>1. i = idSeq + 1
        BY <2>2
      <4>2. ~Touches(j, i)
        <5>1. ~(idSeq + 1 <= idSeq)
          BY <1>1
        <5> QED BY <4>1, <5>1 DEF IInv, Fresh
      <4> QED BY <1>4, <4>2 DEF Spawned
    <3> QED BY <1>2, <2>1, <3>1, <3>2 DEF Roles
  <2> QED BY <1>2, <2>3, <2>4, <2>5
<1> QED BY <1>3, <1>4

\* Everybody is failed, and a new process is spawned or none is left.
LEMMA AllFailed ==
  ASSUME IInv, TypeOK', NEW mid \in SUBSET (Req \ asked),
         asked' = asked \cup mid,
         ans' = Called(Stranded \cup mid, 0),
         waiters' = <<>>, dest' = dest, ready' = FALSE,
         Spawned \/ Unmanned
  PROVE  IInv'
<1>1. \A k \in DOMAIN waiters' : dest[waiters'[k]] = 0
  OBVIOUS
<1>2. Fresh' /\ Counted' /\ Roles' /\ \A i \in Id : pending'[i] \notin Req
  BY <1>1, Replaced
<1>3. Custody' /\ AnswerFromOwnProcess'
  BY <1>2, CustodyFails
<1> QED BY <1>2, <1>3 DEF IInv

\* A request joins those who wait for the handshake, which is in flight or starts.
LEMMA OneWaits ==
  ASSUME IInv, TypeOK', NEW r \in Req \ asked,
         asked' = asked \cup {r},
         waiters' = Append(waiters, r),
         ~ready, UNCHANGED <<ready, dest, ans>>,
         \/ job = 0 /\ Spawned
         \/ /\ job # 0 /\ UNCHANGED <<spawned, job, idSeq, pending>>
            /\ \A j \in Job, i \in Id : Touches(j, i)' => Touches(j, i)
  PROVE  IInv'
<1>1. /\ waiters \in Seq(Req) /\ Len(waiters) \in Nat /\ DOMAIN waiters = 1..Len(waiters)
      /\ DOMAIN waiters' = 1..(Len(waiters) + 1)
      /\ \A k \in 1..Len(waiters) : waiters'[k] = waiters[k]
      /\ waiters'[Len(waiters) + 1] = r
  BY AppendProperties, LenProperties DEF IInv, TypeOK
<1>2. \A k \in DOMAIN waiters' : \/ k \in DOMAIN waiters /\ waiters'[k] = waiters[k]
                                 \/ k = Len(waiters) + 1 /\ waiters'[k] = r
  BY <1>1
<1>3. ans[r] = <<>> /\ dest[r] = 0 /\ r \notin Stranded
  BY StrandedUncalled
<1>4. \A k \in DOMAIN waiters' : dest[waiters'[k]] = 0
  BY <1>2, <1>3 DEF IInv, Roles
<1>5. Fresh' /\ Counted' /\ Roles' /\ \A i \in Id : pending'[i] \in Req => pending'[i] = pending[i]
  <2>1. CASE job = 0 /\ Spawned
    <3>1. ready' = FALSE
      BY <2>1 DEF IInv, TypeOK
    <3> QED BY <1>4, <2>1, <3>1, Replaced
  <2>2. CASE /\ job # 0 /\ UNCHANGED <<spawned, job, idSeq, pending>>
             /\ \A j \in Job, i \in Id : Touches(j, i)' => Touches(j, i)
    <3>1. Fresh'
      BY <2>2 DEF IInv, Fresh
    <3>2. Counted'
      BY <2>2 DEF IInv, Counted, Sent
    <3>3. Roles'
      BY <1>4, <2>2 DEF IInv, Roles
    <3> QED BY <2>2, <3>1, <3>2, <3>3
  <2> QED BY <2>1, <2>2
<1>6. \A i \in Id : pending[i] \in Req => pending'[i] = pending[i]
  <2>1. CASE job = 0
    BY <2>1, Bounds DEF IInv, Roles
  <2>2. CASE job # 0
    BY <2>2
  <2> QED BY <2>1, <2>2
<1>7. Custody'
  <2>1. \A x \in Req \ asked' : ans'[x] = <<>> /\ dest'[x] = 0
    BY DEF IInv, Custody
  <2>2. \A i \in Id : pending'[i] \in Req => pending'[i] \in asked' /\ ans'[pending'[i]] = <<>>
    BY <1>5 DEF IInv, Custody
  <2>3. \A k \in DOMAIN waiters' : waiters'[k] \in asked' /\ ans'[waiters'[k]] = <<>>
    BY <1>2, <1>3 DEF IInv, Custody
  <2>4. \A i \in Id, k \in DOMAIN waiters' : pending'[i] # waiters'[k]
    <3> SUFFICES ASSUME NEW i \in Id, NEW k \in DOMAIN waiters', pending'[i] = waiters'[k]
                 PROVE  FALSE
      OBVIOUS
    <3>1. waiters'[k] \in Req
      BY <1>1, <1>2 DEF IInv, Custody, TypeOK
    <3>2. pending[i] = waiters'[k]
      BY <1>5, <3>1
    <3> QED BY <1>2, <1>3, <3>1, <3>2 DEF IInv, Custody, Stranded
  <2>5. \A i, k \in Id : pending'[i] = pending'[k] /\ pending'[i] \in Req => i = k
    BY <1>5 DEF IInv, Custody
  <2>6. \A i, k \in DOMAIN waiters' : waiters'[i] = waiters'[k] => i = k
    <3>1. \A k \in DOMAIN waiters : waiters[k] # r
      BY DEF IInv, Custody
    <3> QED BY <1>2, <3>1 DEF IInv, Custody
  <2>7. \A x \in asked' : ans'[x] = <<>> => x \in Stranded'
    <3> SUFFICES ASSUME NEW x \in asked', ans[x] = <<>> PROVE x \in Stranded'
      OBVIOUS
    <3>1. x \in Req
      BY DEF IInv, TypeOK
    <3>2. CASE x = r
      BY <1>1, <3>1, <3>2 DEF Stranded, ToSet
    <3>3. CASE x # r
      <4>1. x \in Stranded
        BY <3>3 DEF IInv, Custody
      <4>2. CASE \E i \in Id : pending[i] = x
        BY <1>6, <3>1, <4>2 DEF Stranded
      <4>3. CASE x \in ToSet(waiters)
        <5>1. PICK k \in DOMAIN waiters : waiters[k] = x
          BY <4>3 DEF ToSet
        <5>2. k \in DOMAIN waiters' /\ waiters'[k] = x
          BY <1>1, <5>1
        <5> QED BY <3>1, <5>2 DEF Stranded, ToSet
      <4> QED BY <4>1, <4>2, <4>3 DEF Stranded
    <3> QED BY <3>2, <3>3
  <2>8. \A x \in Req : Len(ans'[x]) <= 1
    BY DEF IInv, Custody
  <2> QED BY <2>1, <2>2, <2>3, <2>4, <2>5, <2>6, <2>7, <2>8 DEF Custody
<1>8. AnswerFromOwnProcess'
  BY DEF IInv, AnswerFromOwnProcess
<1> QED BY <1>5, <1>7, <1>8 DEF IInv

\* The requests of w are sent: each for the first time, under ids of their own.
LEMMA AllSent ==
  ASSUME IInv, TypeOK', NEW w \in Seq(Req),
         \A i, k \in DOMAIN w : w[i] = w[k] => i = k,
         \A k \in DOMAIN w : dest[w[k]] = 0 /\ ans[w[k]] = <<>>,
         \A i \in Id, k \in DOMAIN w : pending[i] # w[k],
         NEW stored \in [Id -> Req \cup {Hello, NoCb}],
         \A i \in Id : stored[i] = pending[i] \/ (stored[i] = NoCb /\ pending[i] \notin Req),
         job # 0, Send(w, stored),
         asked' = asked \cup ToSet(w), waiters' = <<>>, ready' = TRUE,
         \A k \in DOMAIN waiters : waiters[k] \in ToSet(w),
         UNCHANGED <<spawned, job, ans>>,
         \A j \in Job, i \in Id :
            Touches(j, i)' => Touches(j, i)
                              \/ (j = job /\ i \in (idSeq + 1)..(idSeq + Len(w)))
  PROVE  IInv'
<1> DEFINE ids == (idSeq + 1)..(idSeq + Len(w))
<1>1. /\ Len(w) \in Nat /\ DOMAIN w = 1..Len(w) /\ idSeq \in Nat
      /\ ToSet(w) \subseteq Req /\ asked \subseteq Req
  <2>1. Len(w) \in Nat /\ DOMAIN w = 1..Len(w) /\ ToSet(w) \subseteq Req
    BY LenProperties, ElementOfSeq DEF ToSet
  <2>2. idSeq \in Nat
    BY SpawnId
  <2>3. asked \subseteq Req
    BY DEF IInv, TypeOK
  <2> QED BY <2>1, <2>2, <2>3
<1>2. /\ idSeq' = idSeq + Len(w)
      /\ \A i \in Id : pending'[i] = IF i \in ids THEN w[i - idSeq] ELSE stored[i]
      /\ \A r \in Req : dest'[r] = IF r \in ToSet(w) THEN job ELSE dest[r]
  BY DEF Send
<1>3. ids \subseteq Id /\ \A i \in ids : i - idSeq \in DOMAIN w
  <2>1. idSeq + Len(w) \in 0..MaxId
    BY SendIds
  <2>2. \A i \in ids : i \in 1..MaxId /\ i - idSeq \in 1..Len(w)
    BY <1>1, <2>1, Bounds
  <2> QED BY <1>1, <2>2, Bounds
<1>4. \A k \in DOMAIN w : idSeq + k \in ids /\ (idSeq + k) - idSeq = k
  BY <1>1
<1>5. \A i \in ids : i \in Id /\ ~(i <= idSeq) /\ pending[i] = NoCb
  BY <1>1, <1>3, Bounds DEF IInv, Fresh
<1> HIDE DEF ids
<1>6. \A i \in Id : \/ i \in ids /\ pending'[i] = w[i - idSeq] /\ w[i - idSeq] \in ToSet(w)
                    \/ i \notin ids /\ pending'[i] = pending[i]
                    \/ i \notin ids /\ pending'[i] = NoCb /\ pending[i] \notin Req
  BY <1>2, <1>3 DEF ToSet
<1>7. \A r \in ToSet(w) : dest[r] = 0 /\ ans[r] = <<>> /\ \A i \in Id : pending[i] # r
  BY DEF ToSet
<1>8. Fresh'
  <2>1. \A i \in Id : i \in ids \/ i <= idSeq => i <= idSeq + Len(w)
    BY <1>1, Bounds DEF ids
  <2>2. \A i \in Id : pending'[i] # NoCb => i \in ids \/ i <= idSeq
    BY <1>6 DEF IInv, Fresh
  <2>3. \A j \in Job, i \in Id : Touches(j, i)' => i \in ids \/ i <= idSeq
    BY DEF IInv, Fresh, ids
  <2> QED BY <1>2, <2>1, <2>2, <2>3 DEF Fresh
<1>9. Counted'
  <2>1. Sent' = Sent \cup ToSet(w)
    BY <1>1, <1>2 DEF Sent
  <2>2. Cardinality(Sent') = Cardinality(Sent) + Len(w)
    BY <2>1, SendIds
  <2>3. idSeq = spawned + Cardinality(Sent) /\ spawned \in Nat /\ Cardinality(Sent) \in Nat
    BY SpawnId DEF IInv, Counted
  <2>4. idSeq + Len(w) = spawned + (Cardinality(Sent) + Len(w))
    BY <1>1, <2>3
  <2> QED BY <1>2, <2>2, <2>4 DEF Counted
<1>10. Custody'
  <2>1. \A r \in Req : Len(ans'[r]) <= 1
    BY DEF IInv, Custody
  <2>2. \A r \in Req \ asked' : ans'[r] = <<>> /\ dest'[r] = 0
    BY <1>2 DEF IInv, Custody
  <2>3. \A i \in Id : pending'[i] \in Req => pending'[i] \in asked' /\ ans'[pending'[i]] = <<>>
    <3> SUFFICES ASSUME NEW i \in Id, pending'[i] \in Req
                 PROVE  pending'[i] \in asked' /\ ans[pending'[i]] = <<>>
      OBVIOUS
    <3>1. CASE pending'[i] \in ToSet(w)
      BY <1>7, <3>1
    <3>2. CASE pending'[i] = pending[i]
      BY <3>2 DEF IInv, Custody
    <3> QED BY <1>6, <3>1, <3>2, Bounds
  <2>4. DOMAIN waiters' = {}
    OBVIOUS
  <2>5. \A i, k \in Id : pending'[i] = pending'[k] /\ pending'[i] \in Req => i = k
    <3> SUFFICES ASSUME NEW i \in Id, NEW k \in Id,
                        pending'[i] = pending'[k], pending'[i] \in Req
                 PROVE  i = k
      OBVIOUS
    <3>1. CASE i \in ids /\ k \in ids
      <4>1. w[i - idSeq] = w[k - idSeq] /\ i - idSeq \in DOMAIN w /\ k - idSeq \in DOMAIN w
        BY <1>3, <1>6, <3>1
      <4>2. i - idSeq = k - idSeq
        BY <4>1
      <4>3. i \in Int /\ k \in Int
        BY Bounds
      <4> QED BY <1>1, <4>2, <4>3
    <3>2. CASE i \in ids /\ k \notin ids
      BY <1>6, <1>7, <3>2, Bounds
    <3>3. CASE i \notin ids /\ k \in ids
      BY <1>6, <1>7, <3>3, Bounds
    <3>4. CASE i \notin ids /\ k \notin ids
      BY <1>6, <3>4, Bounds DEF IInv, Custody
    <3> QED BY <3>1, <3>2, <3>3, <3>4
  <2>6. \A r \in asked' : ans'[r] = <<>> => r \in Stranded'
    <3> SUFFICES ASSUME NEW r \in asked', ans[r] = <<>> PROVE \E i \in Id : pending'[i] = r
      BY <1>1 DEF Stranded
    <3>1. CASE r \in ToSet(w)
      <4>1. PICK k \in DOMAIN w : w[k] = r
        BY <3>1 DEF ToSet
      <4>2. idSeq + k \in ids /\ idSeq + k \in Id /\ (idSeq + k) - idSeq = k
        BY <1>3, <1>4
      <4> QED BY <1>2, <4>1, <4>2
    <3>2. CASE r \notin ToSet(w)
      <4>1. r \in Stranded /\ r \notin ToSet(waiters)
        BY <3>2 DEF IInv, Custody, ToSet
      <4>2. PICK i \in Id : pending[i] = r
        BY <4>1 DEF Stranded
      <4>3. r \in Req /\ r # NoCb
        BY <1>1, Bounds
      <4>4. pending'[i] = r
        BY <1>5, <1>6, <4>2, <4>3
      <4> QED BY <4>4
    <3> QED BY <3>1, <3>2
  <2> QED BY <2>1, <2>2, <2>3, <2>4, <2>5, <2>6 DEF Custody
<1>11. Roles'
  <2>1. \A i \in Id, j \in Job : pending'[i] # NoCb /\ Touches(j, i)' => j = job
    <3> SUFFICES ASSUME NEW i \in Id, NEW j \in Job, pending'[i] # NoCb, Touches(j, i)'
                 PROVE  j = job
      OBVIOUS
    <3>1. CASE i \in ids
      <4>1. ~Touches(j, i)
        BY <1>5, <3>1 DEF IInv, Fresh
      <4> QED BY <4>1
    <3>2. CASE i \notin ids
      <4>1. pending[i] # NoCb /\ Touches(j, i)
        BY <1>6, <3>2 DEF ids
      <4> QED BY <4>1 DEF IInv, Roles
    <3> QED BY <3>1, <3>2
  <2>2. \A i \in Id : pending'[i] \in Req => dest'[pending'[i]] = job
    BY <1>2, <1>6, Bounds DEF IInv, Roles
  <2>3. DOMAIN waiters' = {}
    OBVIOUS
  <2> QED BY <2>1, <2>2, <2>3 DEF Roles
<1>12. AnswerFromOwnProcess'
  <2> SUFFICES ASSUME NEW r \in Req, NEW k \in DOMAIN ans[r], ans[r][k] # 0
               PROVE  ans[r][k] = dest'[r]
    BY DEF AnswerFromOwnProcess
  <2>1. r \notin ToSet(w)
    BY <1>7
  <2> QED BY <1>2, <2>1 DEF IInv, AnswerFromOwnProcess
<1> QED BY <1>8, <1>9, <1>10, <1>11, <1>12 DEF IInv

---------------------------------------------------------------------------
(* The pipes.                                                              *)

\* A chunk is taken from the front of a pipe, and names an id its process holds.
LEMMA Chunk ==
  ASSUME IInv, NEW j \in Job, pipe[j] # <<>>
  PROVE  /\ Head(pipe[j]) \in Half /\ Head(pipe[j]).id \in Id
         /\ Touches(j, Head(pipe[j]).id)
         /\ Tail(pipe[j]) \in Seq(Half)
         /\ \A k \in DOMAIN Tail(pipe[j]) :
               \E m \in DOMAIN pipe[j] : Tail(pipe[j])[k] = pipe[j][m]
<1> DEFINE s == pipe[j]
<1>1. s \in Seq(Half) /\ s # <<>>
  BY DEF IInv, TypeOK
<1> HIDE DEF s
<1>2. /\ Len(s) \in Nat /\ DOMAIN s = 1..Len(s) /\ Len(s) # 0
      /\ Head(s) \in Half /\ Tail(s) \in Seq(Half) /\ Len(Tail(s)) = Len(s) - 1
      /\ \A k \in 1..Len(Tail(s)) : Tail(s)[k] = s[k + 1]
  BY <1>1, LenProperties, HeadTailProperties, EmptySeq
<1>3. DOMAIN Tail(s) = 1..Len(Tail(s))
  BY <1>2, LenProperties
<1>4. \A k \in DOMAIN Tail(s) : k + 1 \in DOMAIN s /\ Tail(s)[k] = s[k + 1]
  BY <1>2, <1>3
<1>5. Head(s) = s[1] /\ 1 \in DOMAIN s
  BY <1>1, <1>2
<1>6. Head(s).id \in Id
  BY <1>2 DEF Half
<1>7. Touches(j, Head(s).id)
  BY <1>5 DEF Touches, s
<1> QED BY <1>2, <1>4, <1>6, <1>7 DEF s

\* What is cut out of a pipe was in it.
LEMMA Cut ==
  ASSUME NEW S, NEW s \in Seq(S), NEW m \in 1..(Len(s) + 1), NEW n \in 0..Len(s)
  PROVE  /\ SubSeq(s, m, n) \in Seq(S)
         /\ \A k \in DOMAIN SubSeq(s, m, n) :
               \E x \in DOMAIN s : SubSeq(s, m, n)[k] = s[x]
<1>1. Len(s) \in Nat /\ DOMAIN s = 1..Len(s) /\ \A i \in 1..Len(s) : s[i] \in S
  BY LenProperties, ElementOfSeq
<1>2. m \in Int /\ n \in Int /\ \A i \in m..n : i \in 1..Len(s)
  BY <1>1
<1>3. /\ SubSeq(s, m, n) \in Seq(S)
      /\ Len(SubSeq(s, m, n)) = IF m <= n THEN n - m + 1 ELSE 0
      /\ \A i \in 1..(n - m + 1) : SubSeq(s, m, n)[i] = s[m + i - 1]
  BY <1>1, <1>2, SubSeqProperties
<1>4. DOMAIN SubSeq(s, m, n) = 1..Len(SubSeq(s, m, n))
  BY <1>3, LenProperties
<1>5. \A k \in DOMAIN SubSeq(s, m, n) : k \in 1..(n - m + 1) /\ m + k - 1 \in DOMAIN s
  BY <1>1, <1>2, <1>3, <1>4
<1> QED BY <1>3, <1>5

\* A pipe from which something is taken touches no other id.
LEMMA Shrinks ==
  ASSUME IInv, NEW j \in Job, NEW s \in Seq(Half),
         \A k \in DOMAIN s : \E m \in DOMAIN pipe[j] : s[k] = pipe[j][m],
         pipe' = [pipe EXCEPT ![j] = s],
         \A x \in Job : inbox'[x] \subseteq inbox[x]
  PROVE  /\ pipe' \in [Job -> Seq(Half)]
         /\ \A x \in Job, y \in Id : Touches(x, y)' => Touches(x, y)
<1>1. /\ pipe \in [Job -> Seq(Half)]
      /\ \A x \in Job : pipe'[x] = IF x = j THEN s ELSE pipe[x]
  BY DEF IInv, TypeOK
<1>2. pipe' \in [Job -> Seq(Half)]
  BY <1>1
<1>3. ASSUME NEW x \in Job, NEW y \in Id, Touches(x, y)' PROVE Touches(x, y)
  <2>1. CASE x = j
    BY <1>1, <1>3, <2>1 DEF Touches
  <2>2. CASE x # j
    BY <1>1, <1>3, <2>2 DEF Touches
  <2> QED BY <2>1, <2>2
<1> QED BY <1>2, <1>3

---------------------------------------------------------------------------
(* The steps of the processes and of on_stdout that move no callback.      *)

\* A process answers what it read.
LEMMA ServeStep ==
  ASSUME IInv, NEW j \in Job, NEW i \in Id, Serve(j, i)
  PROVE  IInv'
<1>1. /\ inbox \in [Job -> SUBSET Id] /\ pipe \in [Job -> Seq(Half)]
      /\ i \in inbox[j]
      /\ inbox' = [inbox EXCEPT ![j] = @ \ {i}]
      /\ pipe' = [pipe EXCEPT ![j] = @ \o Answer(j, i)]
  BY DEF IInv, TypeOK, Serve
<1>2. /\ Answer(j, i) \in Seq(Half) /\ Len(Answer(j, i)) = 2
      /\ \A k \in 1..2 : Answer(j, i)[k].id = i
  <2>1. [job |-> j, id |-> i, half |-> "a"] \in Half /\ [job |-> j, id |-> i, half |-> "b"] \in Half
    BY DEF Half
  <2> QED BY <2>1 DEF Answer
<1> DEFINE s == pipe[j]
           t == Answer(j, i)
<1>3. s \in Seq(Half) /\ t \in Seq(Half)
  BY <1>1, <1>2
<1>4. \A k \in 1..2 : t[k].id = i
  BY <1>2
<1>5. Len(t) = 2
  BY <1>2
<1> HIDE DEF s, t
<1>6. /\ s \o t \in Seq(Half) /\ Len(s) \in Nat /\ DOMAIN s = 1..Len(s)
      /\ DOMAIN (s \o t) = 1..(Len(s) + 2)
      /\ \A k \in 1..(Len(s) + 2) : (s \o t)[k] = IF k <= Len(s) THEN s[k] ELSE t[k - Len(s)]
  <2>1. Len(s) \in Nat /\ DOMAIN s = 1..Len(s)
    BY <1>3, LenProperties
  <2>2. /\ s \o t \in Seq(Half) /\ Len(s \o t) = Len(s) + Len(t)
        /\ \A k \in 1..(Len(s) + Len(t)) :
              (s \o t)[k] = IF k <= Len(s) THEN s[k] ELSE t[k - Len(s)]
    BY <1>3, ConcatProperties
  <2>3. DOMAIN (s \o t) = 1..Len(s \o t)
    BY <2>2, LenProperties
  <2> QED BY <1>5, <2>1, <2>2, <2>3
<1>7. \A k \in DOMAIN (s \o t) : (s \o t)[k].id = i \/ (k \in DOMAIN s /\ (s \o t)[k] = s[k])
  <2> SUFFICES ASSUME NEW k \in 1..(Len(s) + 2)
               PROVE  (s \o t)[k].id = i \/ (k \in DOMAIN s /\ (s \o t)[k] = s[k])
    BY <1>6
  <2>1. CASE k <= Len(s)
    BY <1>6, <2>1
  <2>2. CASE ~(k <= Len(s))
    <3>1. k - Len(s) \in 1..2
      BY <1>6, <2>2
    <3> QED BY <1>4, <1>6, <2>2, <3>1
  <2> QED BY <2>1, <2>2
<1>8. /\ \A x \in Job : pipe'[x] = IF x = j THEN s \o t ELSE pipe[x]
      /\ \A x \in Job : inbox'[x] = IF x = j THEN inbox[j] \ {i} ELSE inbox[x]
  BY <1>1 DEF s, t
<1>9. inbox' \in [Job -> SUBSET Id] /\ pipe' \in [Job -> Seq(Half)]
  <2>1. pipe' = [pipe EXCEPT ![j] = s \o t]
    BY <1>1 DEF s, t
  <2>2. inbox[j] \ {i} \in SUBSET Id
    BY <1>1
  <2> QED BY <1>1, <1>6, <2>1, <2>2
<1>10. ASSUME NEW x \in Job, NEW y \in Id, Touches(x, y)' PROVE Touches(x, y)
  <2>1. CASE x # j
    BY <1>8, <1>10, <2>1 DEF Touches
  <2>2. CASE x = j /\ y = i
    BY <1>1, <2>2 DEF Touches
  <2>3. CASE x = j /\ y # i
    <3>1. y \in inbox[j] \/ \E k \in DOMAIN (s \o t) : (s \o t)[k].id = y
      BY <1>8, <1>10, <2>3 DEF Touches
    <3>2. y \in inbox[j] \/ \E k \in DOMAIN s : s[k].id = y
      BY <1>7, <2>3, <3>1
    <3> QED BY <2>3, <3>2 DEF Touches, s
  <2> QED BY <2>1, <2>2, <2>3
<1>11. UNCHANGED <<proc, spawned, job, ready, idSeq, pending, waiters, tail, asked,
                   dest, ans, stops, lost>>
  BY DEF Serve
<1>12. TypeOK'
  BY <1>9, <1>11 DEF IInv, TypeOK
<1> QED BY <1>10, <1>11, <1>12, Quiet

\* A process dies, perhaps inside a line.
LEMMA DieStep ==
  ASSUME IInv, NEW j \in Job, Die(j)
  PROVE  IInv'
<1>1. /\ proc \in [Job -> ProcState] /\ inbox \in [Job -> SUBSET Id]
      /\ pipe \in [Job -> Seq(Half)]
      /\ proc' = [proc EXCEPT ![j] = "dead"] /\ inbox' = [inbox EXCEPT ![j] = {}]
  BY DEF IInv, TypeOK, Die
<1>2. /\ proc' \in [Job -> ProcState] /\ inbox' \in [Job -> SUBSET Id]
      /\ \A x \in Job : inbox'[x] \subseteq inbox[x]
  BY <1>1 DEF ProcState
<1>3. UNCHANGED <<spawned, job, ready, idSeq, pending, waiters, tail, asked, dest,
                  ans, stops, lost>>
  BY DEF Die
<1>4. pipe' \in [Job -> Seq(Half)] /\ \A x \in Job, y \in Id : Touches(x, y)' => Touches(x, y)
  <2>1. CASE pipe' = pipe
    <3>1. ASSUME NEW x \in Job, NEW y \in Id, Touches(x, y)' PROVE Touches(x, y)
      BY <1>2, <2>1, <3>1 DEF Touches
    <3> QED BY <1>1, <2>1, <3>1
  <2>2. CASE pipe[j] # <<>> /\ pipe' = [pipe EXCEPT ![j] = Front(@)]
    <3> DEFINE s == pipe[j]
    <3>1. s \in Seq(Half) /\ s # <<>> /\ pipe' = [pipe EXCEPT ![j] = SubSeq(s, 1, Len(s) - 1)]
      BY <1>1, <2>2 DEF Front
    <3>2. ASSUME NEW k \in DOMAIN SubSeq(s, 1, Len(s) - 1)
          PROVE  \E m \in DOMAIN pipe[j] : SubSeq(s, 1, Len(s) - 1)[k] = pipe[j][m]
      <4> HIDE DEF s
      <4>1. Len(s) \in Nat /\ Len(s) # 0
        BY <3>1, LenProperties, EmptySeq
      <4>2. 1 \in 1..(Len(s) + 1) /\ Len(s) - 1 \in 0..Len(s)
        BY <4>1
      <4>3. \E m \in DOMAIN s : SubSeq(s, 1, Len(s) - 1)[k] = s[m]
        BY <3>1, <3>2, <4>2, Cut
      <4> QED BY <4>3 DEF s
    <3>3. SubSeq(s, 1, Len(s) - 1) \in Seq(Half)
      <4> HIDE DEF s
      <4>1. Len(s) \in Nat /\ Len(s) # 0
        BY <3>1, LenProperties, EmptySeq
      <4>2. 1 \in 1..(Len(s) + 1) /\ Len(s) - 1 \in 0..Len(s)
        BY <4>1
      <4> QED BY <3>1, <4>2, Cut
    <3> DEFINE f == SubSeq(s, 1, Len(s) - 1)
    <3>4. f \in Seq(Half) /\ pipe' = [pipe EXCEPT ![j] = f]
      BY <3>1, <3>3
    <3>5. \A k \in DOMAIN f : \E m \in DOMAIN pipe[j] : f[k] = pipe[j][m]
      BY <3>2
    <3> HIDE DEF s, f
    <3> QED BY <1>2, <3>4, <3>5, Shrinks
  <2> QED BY <2>1, <2>2 DEF Die
<1>5. TypeOK'
  BY <1>2, <1>3, <1>4 DEF IInv, TypeOK
<1> QED BY <1>3, <1>4, <1>5, Quiet

\* A chunk is delivered that answers nobody.
LEMMA DeliverPartStep ==
  ASSUME IInv, NEW j \in Job, DeliverPart(j) \/ DeliverIgnored(j)
  PROVE  IInv'
<1>1. /\ pipe[j] # <<>>
      /\ pipe' = [pipe EXCEPT ![j] = Tail(pipe[j])]
      /\ tail' = Append(tail, Head(pipe[j])) \/ tail' = <<>>
      /\ UNCHANGED <<proc, spawned, inbox, job, ready, idSeq, pending, waiters, asked,
                     dest, ans, stops, lost>>
  BY DEF DeliverPart, DeliverIgnored, LineEnds
<1>2. pipe' \in [Job -> Seq(Half)] /\ \A x \in Job, y \in Id : Touches(x, y)' => Touches(x, y)
  BY <1>1, Chunk, Shrinks
<1>3. tail' \in Seq(Half)
  <2>1. tail \in Seq(Half) /\ Head(pipe[j]) \in Half
    BY <1>1, Chunk DEF IInv, TypeOK
  <2>2. Append(tail, Head(pipe[j])) \in Seq(Half)
    BY <2>1, AppendProperties
  <2>3. <<>> \in Seq(Half)
    OBVIOUS
  <2> QED BY <1>1, <2>2, <2>3
<1>4. TypeOK'
  BY <1>1, <1>2, <1>3 DEF IInv, TypeOK
<1> QED BY <1>1, <1>2, <1>4, Quiet

---------------------------------------------------------------------------
(* The steps of on_stdout that call or move callbacks.                     *)

\* The answer goes to its callback; one that raises takes the burst with it.
LEMMA AnswerStep ==
  ASSUME IInv, NEW j \in Job,
         DeliverAnswer(j) \/ \E n \in 0..Cardinality(Req) : DeliverRaises(j, n)
  PROVE  IInv'
<1> DEFINE i == Head(pipe[j]).id
<1>1. pipe[j] # <<>>
  BY DEF DeliverAnswer, DeliverRaises, LineEnds
<1>2. i \in Id /\ Touches(j, i)
  BY <1>1, Chunk
<1>3. /\ pending[i] \in Req
      /\ pending' = [pending EXCEPT ![i] = NoCb] /\ ans' = Called({pending[i]}, j)
      /\ tail' = <<>> /\ lost' \in BOOLEAN
      /\ UNCHANGED <<proc, spawned, inbox, job, ready, idSeq, waiters, asked, dest, stops>>
  BY Bounds DEF DeliverAnswer, DeliverRaises, Stored, IInv, TypeOK
<1>4. pipe' \in [Job -> Seq(Half)] /\ \A x \in Job, y \in Id : Touches(x, y)' => Touches(x, y)
  <2>1. \A x \in Job : inbox'[x] \subseteq inbox[x]
    BY <1>3
  <2>2. CASE pipe' = [pipe EXCEPT ![j] = Tail(pipe[j])]
    BY <1>1, <2>1, <2>2, Chunk, Shrinks
  <2>3. ASSUME NEW n \in 0..Cardinality(Req), 2 * n < Len(pipe[j]),
               pipe' = [pipe EXCEPT ![j] = SubSeq(@, 2 + 2 * n, Len(@))]
        PROVE  /\ pipe' \in [Job -> Seq(Half)]
               /\ \A x \in Job, y \in Id : Touches(x, y)' => Touches(x, y)
    <3> DEFINE s == pipe[j]
               f == SubSeq(s, 2 + 2 * n, Len(s))
    <3>1. s \in Seq(Half) /\ pipe' = [pipe EXCEPT ![j] = f]
      BY <2>3 DEF IInv, TypeOK
    <3>2. 2 * n < Len(s)
      BY <2>3
    <3>3. f \in Seq(Half) /\ \A k \in DOMAIN f : \E m \in DOMAIN s : f[k] = s[m]
      <4> HIDE DEF s
      <4>1. Len(s) \in Nat /\ n \in Nat
        BY <3>1, Bounds, LenProperties
      <4>2. 2 + 2 * n \in 1..(Len(s) + 1) /\ Len(s) \in 0..Len(s)
        BY <3>2, <4>1
      <4> QED BY <3>1, <4>2, Cut
    <3>4. \A k \in DOMAIN f : \E m \in DOMAIN pipe[j] : f[k] = pipe[j][m]
      BY <3>3
    <3> HIDE DEF s, f
    <3> QED BY <2>1, <3>1, <3>3, <3>4, Shrinks
  <2> QED BY <2>2, <2>3 DEF DeliverAnswer, DeliverRaises
<1>5. TypeOK'
  <2>1. pending' \in [Id -> Req \cup {Hello, NoCb}]
    BY <1>3 DEF IInv, TypeOK
  <2>2. ans' \in [Req -> Seq(0..MaxJobs)]
    <3>1. j \in 0..MaxJobs
      BY Bounds
    <3>2. \A r \in {pending[i]} : r \in Req => ans[r] = <<>>
      BY <1>2, <1>3 DEF IInv, Custody
    <3> HIDE DEF i
    <3> QED BY <1>3, <3>1, <3>2, CalledAt
  <2>3. tail' \in Seq(Half)
    BY <1>3
  <2> HIDE DEF i
  <2> QED BY <1>3, <1>4, <2>1, <2>2, <2>3 DEF IInv, TypeOK
<1> HIDE DEF i
<1>6. UNCHANGED <<spawned, job, ready, idSeq, waiters, asked, dest>>
  BY <1>3
<1> QED BY <1>2, <1>3, <1>4, <1>5, <1>6, OneAnswered

\* Sending to a process: ids for the requests of w, which it reads if it is up.
LEMMA SendStep ==
  ASSUME IInv, NEW w \in Seq(Req), NEW stored \in [Id -> Req \cup {Hello, NoCb}],
         \A i, k \in DOMAIN w : w[i] = w[k] => i = k,
         \A k \in DOMAIN w : dest[w[k]] = 0,
         job # 0, Send(w, stored),
         \A x \in Job : \A k \in DOMAIN pipe'[x] : \E m \in DOMAIN pipe[x] : pipe'[x][k] = pipe[x][m]
  PROVE  /\ idSeq' \in 0..MaxId /\ pending' \in [Id -> Req \cup {Hello, NoCb}]
         /\ inbox' \in [Job -> SUBSET Id] /\ dest' \in [Req -> 0..MaxJobs]
         /\ \A j \in Job, i \in Id :
               Touches(j, i)' => Touches(j, i)
                                 \/ (j = job /\ i \in (idSeq + 1)..(idSeq + Len(w)))
<1> DEFINE ids == (idSeq + 1)..(idSeq + Len(w))
<1>1. Len(w) \in Nat /\ DOMAIN w = 1..Len(w) /\ \A k \in 1..Len(w) : w[k] \in Req
  BY LenProperties, ElementOfSeq
<1>2. idSeq + Len(w) \in 0..MaxId /\ idSeq \in Nat
  BY SendIds, SpawnId
<1>3. ids \subseteq Id /\ \A i \in ids : w[i - idSeq] \in Req
  <2>1. \A i \in ids : i \in 1..MaxId /\ i - idSeq \in 1..Len(w)
    BY <1>1, <1>2, Bounds
  <2> QED BY <1>1, <2>1, Bounds
<1>4. job \in Job /\ job \in 0..MaxJobs
  BY Bounds DEF IInv, TypeOK
<1>5. /\ idSeq' = idSeq + Len(w)
      /\ pending' = [i \in Id |-> IF i \in ids THEN w[i - idSeq] ELSE stored[i]]
      /\ inbox' = [inbox EXCEPT ![job] = IF proc[job] = "up" THEN @ \cup ids ELSE @]
      /\ dest' = [r \in Req |-> IF r \in ToSet(w) THEN job ELSE dest[r]]
  BY DEF Send
<1> HIDE DEF ids
<1>6. idSeq' \in 0..MaxId
  BY <1>2, <1>5
<1>7. pending' \in [Id -> Req \cup {Hello, NoCb}]
  BY <1>3, <1>5
<1>8. dest' \in [Req -> 0..MaxJobs]
  BY <1>4, <1>5 DEF IInv, TypeOK
<1>9. inbox \in [Job -> SUBSET Id]
  BY DEF IInv, TypeOK
<1>10. inbox' \in [Job -> SUBSET Id]
  BY <1>3, <1>4, <1>5, <1>9
<1>11. \A x \in Job, y \in Id : y \in inbox'[x] => y \in inbox[x] \/ (x = job /\ y \in ids)
  BY <1>4, <1>5, <1>9
<1>12. \A j \in Job, i \in Id : Touches(j, i)' => Touches(j, i) \/ (j = job /\ i \in ids)
  BY <1>11 DEF Touches
<1> QED BY <1>6, <1>7, <1>8, <1>10, <1>12 DEF ids

\* The handshake's answer: everybody who waited is sent.
LEMMA HelloStep ==
  ASSUME IInv, NEW j \in Job, DeliverHello(j)
  PROVE  IInv'
<1> DEFINE i == Head(pipe[j]).id
           stored == [pending EXCEPT ![i] = NoCb]
<1>1. /\ pipe[j] # <<>> /\ pending[i] = Hello
      /\ ready' = TRUE /\ waiters' = <<>> /\ tail' = <<>>
      /\ Send(waiters, stored)
      /\ pipe' = [pipe EXCEPT ![j] = Tail(pipe[j])]
      /\ UNCHANGED <<proc, spawned, job, asked, ans, stops, lost>>
  BY DEF DeliverHello, LineEnds, Stored
<1>2. i \in Id
  BY <1>1, Chunk
<1>3. /\ stored \in [Id -> Req \cup {Hello, NoCb}]
      /\ \A y \in Id : stored[y] = IF y = i THEN NoCb ELSE pending[y]
  BY <1>2 DEF IInv, TypeOK
<1>4. job # 0
  BY <1>1, <1>2, Bounds DEF IInv, Roles
<1>5. \A y \in Id : stored[y] = pending[y] \/ (stored[y] = NoCb /\ pending[y] \notin Req)
  BY <1>1, <1>3, Bounds
<1> HIDE DEF stored, i
<1>6. waiters \in Seq(Req)
  BY DEF IInv, TypeOK
<1>7. /\ \A x, k \in DOMAIN waiters : waiters[x] = waiters[k] => x = k
      /\ \A k \in DOMAIN waiters : dest[waiters[k]] = 0 /\ ans[waiters[k]] = <<>>
      /\ \A y \in Id, k \in DOMAIN waiters : pending[y] # waiters[k]
  BY DEF IInv, Custody, Roles
<1>8. /\ pipe' \in [Job -> Seq(Half)]
      /\ \A x \in Job : \A k \in DOMAIN pipe'[x] : \E m \in DOMAIN pipe[x] : pipe'[x][k] = pipe[x][m]
  <2>1. pipe \in [Job -> Seq(Half)]
    BY DEF IInv, TypeOK
  <2>2. /\ Tail(pipe[j]) \in Seq(Half)
        /\ \A k \in DOMAIN Tail(pipe[j]) :
              \E m \in DOMAIN pipe[j] : Tail(pipe[j])[k] = pipe[j][m]
    BY <1>1, Chunk
  <2>3. \A x \in Job : pipe'[x] = IF x = j THEN Tail(pipe[j]) ELSE pipe[x]
    BY <1>1, <2>1
  <2> QED BY <1>1, <2>1, <2>2, <2>3
<1>9. /\ idSeq' \in 0..MaxId /\ pending' \in [Id -> Req \cup {Hello, NoCb}]
      /\ inbox' \in [Job -> SUBSET Id] /\ dest' \in [Req -> 0..MaxJobs]
      /\ \A x \in Job, y \in Id :
            Touches(x, y)' => Touches(x, y)
                              \/ (x = job /\ y \in (idSeq + 1)..(idSeq + Len(waiters)))
  BY <1>1, <1>3, <1>4, <1>6, <1>7, <1>8, SendStep
<1>10. TypeOK'
  <2>1. tail' \in Seq(Half) /\ waiters' \in Seq(Req) /\ ready' \in BOOLEAN
    BY <1>1
  <2> QED BY <1>1, <1>8, <1>9, <2>1 DEF IInv, TypeOK
<1>11. asked' = asked \cup ToSet(waiters)
  BY <1>1 DEF ToSet, IInv, Custody
<1>12. \A k \in DOMAIN waiters : waiters[k] \in ToSet(waiters)
  BY DEF ToSet
<1>13. UNCHANGED <<spawned, job, ans>>
  BY <1>1
<1> QED BY <1>1, <1>3, <1>4, <1>5, <1>6, <1>7, <1>9, <1>10, <1>11, <1>12, <1>13, AllSent

---------------------------------------------------------------------------
(* Processes come and go.                                                  *)

\* jobstart: the next process holds the handshake's id and nothing else new.
LEMMA SpawnStep ==
  ASSUME IInv, NEW procs \in [Job -> ProcState], Spawn(procs), pipe' = pipe
  PROVE  /\ spawned + 1 \in Job /\ idSeq + 1 \in Id
         /\ spawned' = spawned + 1 /\ job' = spawned + 1 /\ idSeq' = idSeq + 1
         /\ spawned' \in 0..MaxJobs /\ job' \in 0..MaxJobs /\ idSeq' \in 0..MaxId
         /\ proc' \in [Job -> ProcState] /\ inbox' \in [Job -> SUBSET Id]
         /\ \A j \in Job, i \in Id :
               Touches(j, i)' => Touches(j, i) \/ (j = spawned + 1 /\ i = idSeq + 1)
<1>1. spawned + 1 \in Job /\ idSeq + 1 \in Id /\ spawned \in Nat /\ idSeq \in Nat
  BY SpawnId DEF Spawn
<1>2. spawned + 1 \in 0..MaxJobs /\ idSeq + 1 \in 0..MaxId
  BY <1>1, Bounds
<1>3. /\ spawned' = spawned + 1 /\ job' = spawned + 1 /\ idSeq' = idSeq + 1
      /\ proc' = [procs EXCEPT ![spawned + 1] = "up"]
      /\ inbox' = [inbox EXCEPT ![spawned + 1] = {idSeq + 1}]
  BY DEF Spawn
<1>4. inbox \in [Job -> SUBSET Id]
  BY DEF IInv, TypeOK
<1>5. proc' \in [Job -> ProcState]
  BY <1>3 DEF ProcState
<1>6. /\ inbox' \in [Job -> SUBSET Id]
      /\ \A j \in Job : inbox'[j] = IF j = spawned + 1 THEN {idSeq + 1} ELSE inbox[j]
  BY <1>1, <1>3, <1>4
<1>7. \A j \in Job, i \in Id :
         Touches(j, i)' => Touches(j, i) \/ (j = spawned + 1 /\ i = idSeq + 1)
  BY <1>6 DEF Touches
<1> QED BY <1>1, <1>2, <1>3, <1>5, <1>6, <1>7

\* teardown, with a request made from inside it or not.
LEMMA TeardownStep ==
  ASSUME IInv, NEW procs \in [Job -> ProcState], NEW mid \in Reentrant,
         Teardown(procs, mid),
         pipe' = pipe, dest' = dest, lost' = lost, stops' \in 0..MaxStops
  PROVE  IInv'
<1>1. /\ asked' = asked \cup mid /\ ans' = Called(Stranded \cup mid, 0)
      /\ ready' = FALSE /\ waiters' = <<>> /\ tail' = <<>>
      /\ \/ Spawn(procs) /\ pending' = [i \in Id |-> IF i = idSeq + 1 THEN Hello ELSE NoCb]
         \/ /\ job' = 0 /\ proc' = procs /\ pending' = [i \in Id |-> NoCb]
            /\ UNCHANGED <<spawned, idSeq, inbox>>
  BY DEF Teardown
<1>2. mid \in SUBSET (Req \ asked)
  BY DEF Reentrant
<1>3. /\ Spawned \/ Unmanned
      /\ spawned' \in 0..MaxJobs /\ job' \in 0..MaxJobs /\ idSeq' \in 0..MaxId
      /\ proc' \in [Job -> ProcState] /\ inbox' \in [Job -> SUBSET Id]
      /\ pending' \in [Id -> Req \cup {Hello, NoCb}]
  <2>1. CASE /\ Spawn(procs)
             /\ pending' = [i \in Id |-> IF i = idSeq + 1 THEN Hello ELSE NoCb]
    <3>1. pending' \in [Id -> Req \cup {Hello, NoCb}]
      BY <2>1
    <3>2. \A i \in Id : pending'[i] = IF i = idSeq + 1 THEN Hello ELSE NoCb
      BY <2>1
    <3>3. Spawned
      BY <2>1, <3>2, SpawnStep DEF Spawned
    <3> QED BY <2>1, <3>1, <3>3, SpawnStep
  <2>2. CASE /\ job' = 0 /\ proc' = procs /\ pending' = [i \in Id |-> NoCb]
             /\ UNCHANGED <<spawned, idSeq, inbox>>
    <3>1. pending' \in [Id -> Req \cup {Hello, NoCb}]
      BY <2>2
    <3>2. \A i \in Id : pending'[i] = NoCb
      BY <2>2
    <3>3. \A j \in Job, i \in Id : Touches(j, i)' => Touches(j, i)
      BY <2>2 DEF Touches
    <3>4. Unmanned
      BY <2>2, <3>2, <3>3 DEF Unmanned
    <3>5. spawned' \in 0..MaxJobs /\ idSeq' \in 0..MaxId /\ inbox' \in [Job -> SUBSET Id]
      BY <2>2 DEF IInv, TypeOK
    <3>6. job' \in 0..MaxJobs
      BY <2>2, Bounds
    <3>7. proc' \in [Job -> ProcState]
      BY <2>2
    <3> QED BY <3>1, <3>4, <3>5, <3>6, <3>7
  <2> QED BY <1>1, <2>1, <2>2
<1>4. TypeOK'
  <2>1. ans' \in [Req -> Seq(0..MaxJobs)]
    <3>1. \A r \in Stranded \cup mid : r \in Req => ans[r] = <<>>
      BY <1>2, StrandedUncalled
    <3>2. ans' = Called(Stranded \cup mid, 0)
      BY <1>1
    <3> QED BY <3>1, <3>2, FailedType
  <2>2. asked' \in SUBSET Req /\ waiters' \in Seq(Req) /\ tail' \in Seq(Half) /\ ready' \in BOOLEAN
    <3>1. asked' = asked \cup mid /\ waiters' = <<>> /\ tail' = <<>> /\ ready' = FALSE
      BY <1>1
    <3>2. asked \in SUBSET Req
      BY DEF IInv, TypeOK
    <3>3. asked' \in SUBSET Req
      BY <1>2, <3>1, <3>2
    <3>4. waiters' \in Seq(Req)
      BY <3>1
    <3>5. tail' \in Seq(Half)
      BY <3>1
    <3>6. ready' \in BOOLEAN
      BY <3>1
    <3> QED BY <3>3, <3>4, <3>5, <3>6
  <2>3. /\ pipe' \in [Job -> Seq(Half)] /\ dest' \in [Req -> 0..MaxJobs]
        /\ lost' \in BOOLEAN /\ stops' \in 0..MaxStops
    BY DEF IInv, TypeOK
  <2> QED BY <1>3, <2>1, <2>2, <2>3 DEF TypeOK
<1> QED BY <1>1, <1>2, <1>3, <1>4, AllFailed

\* stop().
LEMMA StopStep ==
  ASSUME IInv, NEW mid \in Reentrant, Stop(mid)
  PROVE  IInv'
<1> DEFINE procs == [j \in Job |-> IF j = job /\ proc[j] = "up" THEN "term" ELSE proc[j]]
<1>1. procs \in [Job -> ProcState]
  BY DEF IInv, TypeOK, ProcState
<1>2. Teardown(procs, mid) /\ pipe' = pipe /\ dest' = dest /\ lost' = lost
  BY DEF Stop
<1>3. stops' \in 0..MaxStops
  <2>1. stops < MaxStops /\ stops' = stops + 1 /\ stops \in 0..MaxStops
    BY DEF Stop, IInv, TypeOK
  <2>2. stops + 1 \in 0..MaxStops
    BY <2>1, Bounds
  <2> QED BY <2>1, <2>2
<1> HIDE DEF procs
<1> QED BY <1>1, <1>2, <1>3, TeardownStep

\* on_exit, whichever process it is about.
LEMMA OnExitStep ==
  ASSUME IInv, NEW j \in Job, NEW mid \in Reentrant, OnExit(j, mid)
  PROVE  IInv'
<1> DEFINE procs == [proc EXCEPT ![j] = "gone"]
<1>1. procs \in [Job -> ProcState]
  BY DEF IInv, TypeOK, ProcState
<1>2. Teardown(procs, mid) /\ pipe' = pipe /\ dest' = dest /\ lost' = lost
  BY DEF OnExit
<1>3. stops' \in 0..MaxStops
  BY DEF OnExit, IInv, TypeOK
<1> HIDE DEF procs
<1> QED BY <1>1, <1>2, <1>3, TeardownStep

\* The handshake failed: everybody who waited for it is failed.
LEMMA BadHelloStep ==
  ASSUME IInv, NEW j \in Job, DeliverBadHello(j)
  PROVE  IInv'
<1>1. /\ pipe[j] # <<>>
      /\ ready' = FALSE /\ job' = 0 /\ pending' = [i \in Id |-> NoCb]
      /\ ans' = Called(Stranded, 0) /\ waiters' = <<>> /\ tail' = <<>>
      /\ pipe' = [pipe EXCEPT ![j] = Tail(pipe[j])]
      /\ UNCHANGED <<proc, spawned, inbox, idSeq, asked, dest, stops, lost>>
  BY DEF DeliverBadHello, LineEnds
<1>2. pipe' \in [Job -> Seq(Half)] /\ \A x \in Job, y \in Id : Touches(x, y)' => Touches(x, y)
  BY <1>1, Chunk, Shrinks
<1>3. Unmanned
  BY <1>1, <1>2 DEF Unmanned
<1>4. TypeOK'
  <2>1. ans' \in [Req -> Seq(0..MaxJobs)]
    <3>1. \A r \in Stranded : r \in Req => ans[r] = <<>>
      BY StrandedUncalled
    <3>2. ans' = Called(Stranded, 0)
      BY <1>1
    <3> QED BY <3>1, <3>2, FailedType
  <2>2. /\ waiters' \in Seq(Req) /\ tail' \in Seq(Half) /\ ready' \in BOOLEAN
        /\ job' \in 0..MaxJobs
    <3>1. waiters' = <<>> /\ tail' = <<>> /\ ready' = FALSE /\ job' = 0
      BY <1>1
    <3>2. job' \in 0..MaxJobs
      BY <3>1, Bounds
    <3>3. waiters' \in Seq(Req)
      BY <3>1
    <3>4. tail' \in Seq(Half)
      BY <3>1
    <3>5. ready' \in BOOLEAN
      BY <3>1
    <3> QED BY <3>2, <3>3, <3>4, <3>5
  <2>3. pending' \in [Id -> Req \cup {Hello, NoCb}]
    BY <1>1
  <2> QED BY <1>1, <1>2, <2>1, <2>2, <2>3 DEF IInv, TypeOK
<1>5. {} \in SUBSET (Req \ asked) /\ asked' = asked \cup {} /\ ans' = Called(Stranded \cup {}, 0)
  <2>1. Stranded \cup {} = Stranded /\ asked \cup {} = asked
    OBVIOUS
  <2> QED BY <1>1, <2>1
<1> QED BY <1>1, <1>3, <1>4, <1>5, AllFailed

---------------------------------------------------------------------------
(* The requests.                                                           *)

\* request() on a handshaken daemon.
LEMMA RequestSendStep ==
  ASSUME IInv, NEW r \in Req, RequestSend(r)
  PROVE  IInv'
<1> DEFINE w == <<r>>
<1>1. /\ r \in Req \ asked /\ ready = TRUE /\ job # 0 /\ asked' = asked \cup {r}
      /\ Send(w, pending)
      /\ UNCHANGED <<proc, spawned, pipe, job, ready, waiters, tail, ans, stops, lost>>
  BY DEF RequestSend, IInv, TypeOK
<1>2. w \in Seq(Req) /\ ToSet(w) = {r} /\ DOMAIN w # {} /\ \A k \in DOMAIN w : w[k] = r
  BY Once DEF ToSet
<1>3. \A i, k \in DOMAIN w : w[i] = w[k] => i = k
  OBVIOUS
<1> HIDE DEF w
<1>4. ans[r] = <<>> /\ dest[r] = 0 /\ r \notin Stranded
  BY <1>1, StrandedUncalled
<1>5. /\ \A k \in DOMAIN w : dest[w[k]] = 0 /\ ans[w[k]] = <<>>
      /\ \A i \in Id, k \in DOMAIN w : pending[i] # w[k]
  BY <1>2, <1>4 DEF Stranded
<1>6. waiters = <<>>
  BY <1>1 DEF IInv, Roles
<1>7. /\ pending \in [Id -> Req \cup {Hello, NoCb}]
      /\ \A i \in Id : pending[i] = pending[i] \/ (pending[i] = NoCb /\ pending[i] \notin Req)
  BY DEF IInv, TypeOK
<1>8. \A x \in Job : \A k \in DOMAIN pipe'[x] : \E m \in DOMAIN pipe[x] : pipe'[x][k] = pipe[x][m]
  BY <1>1
<1>9. /\ idSeq' \in 0..MaxId /\ pending' \in [Id -> Req \cup {Hello, NoCb}]
      /\ inbox' \in [Job -> SUBSET Id] /\ dest' \in [Req -> 0..MaxJobs]
      /\ \A x \in Job, y \in Id :
            Touches(x, y)' => Touches(x, y)
                              \/ (x = job /\ y \in (idSeq + 1)..(idSeq + Len(w)))
  BY <1>1, <1>2, <1>3, <1>5, <1>7, <1>8, SendStep
<1>10. TypeOK'
  <2>1. asked' \in SUBSET Req
    BY <1>1 DEF IInv, TypeOK
  <2> QED BY <1>1, <1>9, <2>1 DEF IInv, TypeOK
<1>11. /\ asked' = asked \cup ToSet(w) /\ waiters' = <<>> /\ ready' = TRUE
       /\ \A k \in DOMAIN waiters : waiters[k] \in ToSet(w)
       /\ UNCHANGED <<spawned, job, ans>>
  BY <1>1, <1>2, <1>6
<1> QED BY <1>1, <1>2, <1>3, <1>5, <1>7, <1>9, <1>10, <1>11, AllSent

\* request() during a handshake.
LEMMA RequestWaitStep ==
  ASSUME IInv, NEW r \in Req, RequestWait(r)
  PROVE  IInv'
<1>1. /\ r \in Req \ asked /\ ~ready /\ job # 0
      /\ asked' = asked \cup {r} /\ waiters' = Append(waiters, r)
      /\ UNCHANGED <<proc, spawned, inbox, pipe, job, ready, idSeq, pending, tail,
                     dest, ans, stops, lost>>
  BY DEF RequestWait
<1>2. \A j \in Job, i \in Id : Touches(j, i)' => Touches(j, i)
  BY <1>1 DEF Touches
<1>3. TypeOK'
  <2>1. waiters' \in Seq(Req)
    BY <1>1, AppendProperties DEF IInv, TypeOK
  <2>2. asked' \in SUBSET Req
    BY <1>1 DEF IInv, TypeOK
  <2> QED BY <1>1, <2>1, <2>2 DEF IInv, TypeOK
<1>4. UNCHANGED <<ready, dest, ans>> /\ UNCHANGED <<spawned, job, idSeq, pending>>
  BY <1>1
<1> QED BY <1>1, <1>2, <1>3, <1>4, OneWaits

\* request() without a process.
LEMMA RequestSpawnStep ==
  ASSUME IInv, NEW r \in Req, RequestSpawn(r)
  PROVE  IInv'
<1>1. /\ r \in Req \ asked /\ job = 0
      /\ asked' = asked \cup {r} /\ waiters' = Append(waiters, r)
      /\ Spawn(proc) /\ pending' = [pending EXCEPT ![idSeq + 1] = Hello]
      /\ UNCHANGED <<pipe, ready, tail, dest, ans, stops, lost>>
  BY DEF RequestSpawn
<1>2. proc \in [Job -> ProcState] /\ pipe' = pipe
  BY <1>1 DEF IInv, TypeOK
<1>3. ~ready /\ \A i \in Id : pending[i] = NoCb
  BY <1>1 DEF IInv, Roles
<1>4. /\ pending' \in [Id -> Req \cup {Hello, NoCb}]
      /\ \A i \in Id : pending'[i] = IF i = idSeq + 1 THEN Hello ELSE NoCb
  <2>1. pending \in [Id -> Req \cup {Hello, NoCb}] /\ idSeq + 1 \in Id
    BY <1>1, <1>2, SpawnStep DEF IInv, TypeOK
  <2> QED BY <1>1, <1>3, <2>1
<1>5. Spawned
  BY <1>1, <1>2, <1>4, SpawnStep DEF Spawned
<1>6. TypeOK'
  <2>1. waiters' \in Seq(Req)
    BY <1>1, AppendProperties DEF IInv, TypeOK
  <2>2. asked' \in SUBSET Req
    BY <1>1 DEF IInv, TypeOK
  <2>3. /\ spawned' \in 0..MaxJobs /\ job' \in 0..MaxJobs /\ idSeq' \in 0..MaxId
        /\ proc' \in [Job -> ProcState] /\ inbox' \in [Job -> SUBSET Id]
    BY <1>1, <1>2, SpawnStep
  <2> QED BY <1>1, <1>4, <2>1, <2>2, <2>3 DEF IInv, TypeOK
<1>7. UNCHANGED <<ready, dest, ans>>
  BY <1>1
<1> QED BY <1>1, <1>3, <1>5, <1>6, <1>7, OneWaits

\* request() that can spawn no process.
LEMMA RequestNoEngineStep ==
  ASSUME IInv, NEW r \in Req, RequestNoEngine(r)
  PROVE  IInv'
<1>1. /\ r \in Req \ asked /\ job = 0
      /\ asked' = asked \cup {r} /\ ans' = Called(ToSet(waiters) \cup {r}, 0)
      /\ waiters' = <<>>
      /\ UNCHANGED <<proc, spawned, inbox, pipe, job, ready, idSeq, pending, tail,
                     dest, stops, lost>>
  BY DEF RequestNoEngine
<1>2. ready = FALSE /\ \A i \in Id : pending[i] = NoCb
  BY <1>1 DEF IInv, Roles, TypeOK
<1>3. Stranded = ToSet(waiters)
  <2>1. {x \in Req : \E i \in Id : pending[i] = x} = {}
    BY <1>2, Bounds
  <2> QED BY <2>1 DEF Stranded
<1>4. \A j \in Job, i \in Id : Touches(j, i)' => Touches(j, i)
  BY <1>1 DEF Touches
<1>5. Unmanned
  BY <1>1, <1>2, <1>4 DEF Unmanned
<1>6. {r} \in SUBSET (Req \ asked)
  BY <1>1
<1>7. ans' = Called(Stranded \cup {r}, 0)
  BY <1>1, <1>3
<1>8. TypeOK'
  <2>1. ans' \in [Req -> Seq(0..MaxJobs)]
    <3>1. \A x \in Stranded \cup {r} : x \in Req => ans[x] = <<>>
      BY <1>1, StrandedUncalled
    <3> QED BY <1>7, <3>1, FailedType
  <2>2. asked' \in SUBSET Req /\ waiters' \in Seq(Req)
    BY <1>1 DEF IInv, TypeOK
  <2> QED BY <1>1, <2>1, <2>2 DEF IInv, TypeOK
<1>9. ready' = FALSE /\ dest' = dest
  BY <1>1, <1>2
<1> QED BY <1>1, <1>5, <1>6, <1>7, <1>8, <1>9, AllFailed

---------------------------------------------------------------------------
(* The inductive invariant.                                                *)

\* Nothing was asked, spawned or sent yet.
LEMMA InitIInv == Init => IInv
<1> SUFFICES ASSUME Init PROVE IInv
  OBVIOUS
<1>1. TypeOK
  <2>1. <<>> \in Seq(Half) /\ <<>> \in Seq(Req) /\ <<>> \in Seq(0..MaxJobs)
    OBVIOUS
  <2>2. 0 \in 0..MaxJobs /\ 0 \in 0..MaxId /\ 0 \in 0..MaxStops
    BY Bounds
  <2> QED BY <2>1, <2>2 DEF Init, TypeOK, ProcState
<1>2. \A j \in Job, i \in Id : pending[i] = NoCb /\ ~Touches(j, i)
  <2>1. \A j \in Job, i \in Id : i \notin inbox[j] /\ DOMAIN pipe[j] = {}
    BY DEF Init
  <2>2. \A i \in Id : pending[i] = NoCb
    BY DEF Init
  <2> QED BY <2>1, <2>2 DEF Touches
<1>3. Fresh
  <2>1. \A i \in Id : pending[i] = NoCb
    BY DEF Init
  <2> QED BY <1>2, <2>1 DEF Fresh
<1>4. Counted
  <2>1. Sent = {}
    BY DEF Init, Sent
  <2> QED BY <2>1, FS_EmptySet DEF Init, Counted
<1>5. pending = [i \in Id |-> NoCb] /\ waiters = <<>> /\ asked = {} /\ NoCb \notin Req
  BY Bounds DEF Init
<1>6. /\ \A r \in Req : ans[r] = <<>> /\ dest[r] = 0
      /\ \A i \in Id : pending[i] \notin Req
      /\ DOMAIN waiters = {}
  BY <1>5 DEF Init
<1>7. Custody
  <2>1. \A r \in Req : Len(ans[r]) <= 1
    BY <1>6
  <2> QED BY <1>5, <1>6, <2>1 DEF Custody
<1>8. Roles
  BY <1>5, <1>6 DEF Init, Roles
<1>9. AnswerFromOwnProcess
  BY <1>6 DEF AnswerFromOwnProcess
<1> QED BY <1>1, <1>3, <1>4, <1>7, <1>8, <1>9 DEF IInv

\* Every step keeps it.
LEMMA NextIInv == IInv /\ [Next]_vars => IInv'
<1> SUFFICES ASSUME IInv, [Next]_vars PROVE IInv'
  OBVIOUS
<1>1. ASSUME NEW r \in Req, Request(r) PROVE IInv'
  BY <1>1, RequestSendStep, RequestWaitStep, RequestSpawnStep, RequestNoEngineStep DEF Request
<1>2. ASSUME NEW mid \in Reentrant, Stop(mid) PROVE IInv'
  BY <1>2, StopStep
<1>3. ASSUME NEW j \in Job, Die(j) \/ Deliver(j) PROVE IInv'
  BY <1>3, DieStep, DeliverPartStep, AnswerStep, HelloStep, BadHelloStep DEF Deliver
<1>4. ASSUME NEW j \in Job, NEW i \in Id, Serve(j, i) PROVE IInv'
  BY <1>4, ServeStep
<1>5. ASSUME NEW j \in Job, NEW mid \in Reentrant, OnExit(j, mid) PROVE IInv'
  BY <1>5, OnExitStep
<1>6. CASE UNCHANGED vars
  <2>1. TypeOK'
    BY <1>6 DEF vars, IInv, TypeOK
  <2>2. UNCHANGED <<spawned, job, ready, idSeq, pending, waiters, asked, dest, ans>>
    BY <1>6 DEF vars
  <2>3. \A j \in Job, i \in Id : Touches(j, i)' => Touches(j, i)
    BY <1>6 DEF vars, Touches
  <2> QED BY <2>1, <2>2, <2>3, Quiet
<1> QED BY <1>1, <1>2, <1>3, <1>4, <1>5, <1>6 DEF Next

\* daemon.lua keeps the inductive invariant: one hand for each callback, one
\* process for each id.
THEOREM Invariance == Spec => []IInv
BY InitIInv, NextIInv, PTL DEF Spec

---------------------------------------------------------------------------
(* What it means for whoever issues a request.                             *)

\* A callback in one hand is counted once.
LEMMA OneHand == IInv => CallbackCustody
<1> SUFFICES ASSUME IInv, NEW r \in asked
             PROVE  Len(ans[r]) + Cardinality({i \in Id : pending[i] = r})
                      + Cardinality({i \in DOMAIN waiters : waiters[i] = r}) = 1
  BY DEF CallbackCustody
<1> DEFINE stored  == {i \in Id : pending[i] = r}
           waiting == {i \in DOMAIN waiters : waiters[i] = r}
<1>1. r \in Req /\ ans[r] \in Seq(0..MaxJobs)
  BY DEF IInv, TypeOK
<1>2. Len(ans[r]) \in Nat /\ Len(ans[r]) <= 1 /\ (ans[r] = <<>> <=> Len(ans[r]) = 0)
  BY <1>1, LenProperties, EmptySeq DEF IInv, Custody
<1>3. stored # {} => ans[r] = <<>> /\ waiting = {}
  BY <1>1 DEF IInv, Custody
<1>4. waiting # {} => ans[r] = <<>> /\ stored = {}
  BY <1>1 DEF IInv, Custody
<1>5. ans[r] = <<>> => stored # {} \/ waiting # {}
  BY DEF IInv, Custody, Stranded, ToSet
<1>6. \A i, k \in stored : i = k
  BY <1>1 DEF IInv, Custody
<1>7. \A i, k \in waiting : i = k
  BY DEF IInv, Custody
<1> HIDE DEF stored, waiting
<1>8. stored # {} => Cardinality(stored) = 1
  <2> SUFFICES ASSUME stored # {} PROVE Cardinality(stored) = 1
    OBVIOUS
  <2>1. PICK x : stored = {x}
    BY <1>6
  <2> QED BY <2>1, FS_Singleton
<1>9. waiting # {} => Cardinality(waiting) = 1
  <2> SUFFICES ASSUME waiting # {} PROVE Cardinality(waiting) = 1
    OBVIOUS
  <2>1. PICK x : waiting = {x}
    BY <1>7
  <2> QED BY <2>1, FS_Singleton
<1>10. (stored = {} => Cardinality(stored) = 0) /\ (waiting = {} => Cardinality(waiting) = 0)
  BY FS_EmptySet
<1>11. Len(ans[r]) + Cardinality(stored) + Cardinality(waiting) = 1
  <2>1. CASE stored # {}
    BY <1>2, <1>3, <1>8, <1>10, <2>1
  <2>2. CASE waiting # {}
    BY <1>2, <1>4, <1>9, <1>10, <2>2
  <2>3. CASE stored = {} /\ waiting = {}
    <3>1. Len(ans[r]) = 1
      <4>1. ans[r] # <<>>
        BY <1>5, <2>3
      <4>2. Len(ans[r]) # 0
        BY <1>2, <4>1
      <4>3. \A n \in Nat : n <= 1 /\ n # 0 => n = 1
        OBVIOUS
      <4> QED BY <1>2, <4>2, <4>3
    <3>2. Cardinality(stored) = 0 /\ Cardinality(waiting) = 0
      BY <1>10, <2>3
    <3> QED BY <3>1, <3>2
  <2> QED BY <2>1, <2>2, <2>3
<1> QED BY <1>11 DEF stored, waiting

\* Whoever waits has somebody to wait for.
LEMMA Manned == IInv => NobodyStranded
<1> SUFFICES ASSUME IInv PROVE NobodyStranded
  OBVIOUS
<1>1. job = 0 => ~ready /\ Stranded = {}
  <2> SUFFICES ASSUME job = 0 PROVE ~ready /\ Stranded = {}
    OBVIOUS
  <2>1. ~ready /\ waiters = <<>> /\ \A i \in Id : pending[i] = NoCb
    BY DEF IInv, Roles
  <2>2. ToSet(waiters) = {}
    BY <2>1 DEF ToSet
  <2> QED BY <2>1, <2>2, Bounds DEF Stranded
<1>2. \A r \in Req, i \in Id : pending[i] = r => dest[r] = job
  BY DEF IInv, Roles
<1>3. (ready => waiters = <<>>) /\ (~ready /\ job # 0 => \E i \in Id : pending[i] = Hello)
  BY DEF IInv, Roles
<1> QED BY <1>1, <1>2, <1>3 DEF NobodyStranded

\* Every variable of the client has its type; in particular the ids never run
\* past their bound, one for each request and each handshake (daemon.lua:274, 375).
THEOREM ClientTypeCorrect == Spec => []TypeOK
<1>1. IInv => TypeOK
  BY DEF IInv
<1> QED BY <1>1, Invariance, PTL

\* The callback of every request issued is in exactly one hand, waiting, stored
\* or called, once, through any stops, crashes, failed handshakes and requests
\* made from inside teardown (daemon.lua:236-258, 273-315, 369-380).
THEOREM CustodyCorrect == Spec => []CallbackCustody
BY OneHand, Invariance, PTL

\* Nobody waits for a process that is not there, and whoever waits for a
\* handshake has one in flight (daemon.lua:236-253, 320-330).
THEOREM NobodyStrandedCorrect == Spec => []NobodyStranded
BY Manned, Invariance, PTL

\* Every result a callback is called with comes from the process the request
\* was sent to, though processes overlap, a process that was told to stop still
\* sends, and the table knows only ids (daemon.lua:178-186).
THEOREM OwnProcessAnswers == Spec => []AnswerFromOwnProcess
<1>1. IInv => AnswerFromOwnProcess
  BY DEF IInv
<1> QED BY <1>1, Invariance, PTL
===============================================================================
