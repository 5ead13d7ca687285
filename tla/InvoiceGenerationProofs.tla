---------------------- MODULE InvoiceGenerationProofs -----------------------
(***************************************************************************)
(* Proofs about the invoice requests and the limiter that admits them, for *)
(* every finite set of requests and every number of slots.                 *)
(*                                                                         *)
(* The semaphore neither loses nor makes a slot, and a slot is free while  *)
(* a request waits only until a request that was handed one runs on.  And  *)
(* InvoiceGeneration composes the limiter with the handler: whatever that  *)
(* does, the limiter in it is the limiter of RequestLimiter, so that what  *)
(* is proved of the one holds of the other.                                *)
(*                                                                         *)
(* The second half is about the handler itself: who holds the locks of a   *)
(* load (LocksInv), where second invoices and equal numbers come from      *)
(* (DuplicatesInv), and what the files show (NumbersInv).                  *)
(***************************************************************************)
EXTENDS InvoiceGeneration, FiniteSetTheorems, WellFoundedInduction, TLAPS

-----------------------------------------------------------------------------
(* The inductive invariant.  Type correctness needs the link between queue *)
(* and stages: the queue must hold waiting requests only, each once, for   *)
(* else a request could be handed two slots.                               *)

\* The queue holds the waiting requests.
QueueIsWaiting ==
    \A r \in Requests :
        stage[r] = "waiting" <=> \E i \in 1 .. Len(queue) : queue[i] = r

\* No request is in the queue twice.
QueueIsDistinct ==
    \A i, j \in 1 .. Len(queue) : queue[i] = queue[j] => i = j

IInv ==
    /\ LimiterTypeOK
    /\ QueueIsWaiting
    /\ QueueIsDistinct
    /\ SlotsConserved
    /\ NoIdleSlot

\* Those that hold a slot, when the stages are s.
HoldersIn(s) == {r \in Requests : s[r] \in {"granted", "inside"}}

-----------------------------------------------------------------------------
(* Counting holders.                                                       *)

\* Any stages have finitely many holders.
LEMMA HoldersFinite ==
    ASSUME NEW s
    PROVE  IsFiniteSet(HoldersIn(s)) /\ Cardinality(HoldersIn(s)) \in Nat
<1>1. HoldersIn(s) \subseteq Requests BY DEF HoldersIn
<1>2. IsFiniteSet(HoldersIn(s)) BY <1>1, RequestsAssumption, FS_Subset
<1> QED BY <1>2, FS_CardinalityType

\* A request that gets a slot is one more holder.
LEMMA HolderAdded ==
    ASSUME NEW s \in [Requests -> Stage], NEW r \in Requests, NEW v \in Stage,
           s[r] \notin {"granted", "inside"}, v \in {"granted", "inside"}
    PROVE  Cardinality(HoldersIn([s EXCEPT ![r] = v])) = Cardinality(HoldersIn(s)) + 1
<1>1. HoldersIn([s EXCEPT ![r] = v]) = HoldersIn(s) \cup {r} BY DEF HoldersIn
<1>2. r \notin HoldersIn(s) BY DEF HoldersIn
<1> QED BY <1>1, <1>2, HoldersFinite, FS_AddElement

\* A request that gives its slot back is one holder less.
LEMMA HolderRemoved ==
    ASSUME NEW s \in [Requests -> Stage], NEW r \in Requests, NEW v \in Stage,
           s[r] \in {"granted", "inside"}, v \notin {"granted", "inside"}
    PROVE  Cardinality(HoldersIn([s EXCEPT ![r] = v])) = Cardinality(HoldersIn(s)) - 1
<1>1. HoldersIn([s EXCEPT ![r] = v]) = HoldersIn(s) \ {r} BY DEF HoldersIn
<1>2. r \in HoldersIn(s) BY DEF HoldersIn
<1> QED BY <1>1, <1>2, HoldersFinite, FS_RemoveElement

\* A request that neither gets nor gives back a slot changes nothing.
LEMMA HoldersKept ==
    ASSUME NEW s \in [Requests -> Stage], NEW r \in Requests, NEW v \in Stage,
           s[r] \in {"granted", "inside"} <=> v \in {"granted", "inside"}
    PROVE  HoldersIn([s EXCEPT ![r] = v]) = HoldersIn(s)
BY DEF HoldersIn

-----------------------------------------------------------------------------
(* Waking a waiter.                                                        *)

\* From stages, waiters and a value that satisfy the invariant (except that a
\* slot may be idle), Wake reaches a state that satisfies it.
LEMMA WakeKeeps ==
    ASSUME NEW rest \in [Requests -> Stage], NEW waiters \in Seq(Requests),
           NEW value \in 0 .. Capacity,
           \A r \in Requests :
               rest[r] = "waiting" <=> \E i \in 1 .. Len(waiters) : waiters[i] = r,
           \A i, j \in 1 .. Len(waiters) : waiters[i] = waiters[j] => i = j,
           value + Cardinality(HoldersIn(rest)) = Capacity,
           Wake(rest, waiters, value)
    PROVE  IInv'
<1>1. CASE waiters = <<>> \/ value = 0
  <2>1. stage' = rest /\ queue' = waiters /\ free' = value BY <1>1 DEF Wake
  <2>2. Holders' = HoldersIn(rest) BY <2>1 DEF Holders, HoldersIn
  <2>3. SlotsConserved' BY <2>1, <2>2 DEF SlotsConserved
  <2>4. NoIdleSlot' BY <1>1, <2>1 DEF NoIdleSlot
  <2> QED BY <2>1, <2>3, <2>4
          DEF IInv, LimiterTypeOK, QueueIsWaiting, QueueIsDistinct
<1>2. CASE waiters # <<>> /\ value # 0
  <2> DEFINE h == Head(waiters)
             n == Len(waiters)
  <2>1. /\ stage' = [rest EXCEPT ![h] = "granted"]
        /\ queue' = Tail(waiters)
        /\ free' = value - 1
    BY <1>2 DEF Wake
  <2>2. /\ n \in Nat \ {0}
        /\ h \in Requests /\ h = waiters[1] /\ rest[h] = "waiting"
    <3>1. n \in Nat \ {0} /\ h = waiters[1] /\ h \in Requests BY <1>2
    <3> QED BY <3>1
  <2>3. /\ Tail(waiters) \in Seq(Requests)
        /\ Len(Tail(waiters)) = n - 1
        /\ \A i \in 1 .. n - 1 : Tail(waiters)[i] = waiters[i + 1]
    BY <1>2
  <2>4. value \in Nat /\ Capacity \in Nat /\ value - 1 \in 0 .. Capacity
    BY <1>2, CapacityAssumption
  <2>5. LimiterTypeOK' BY <2>1, <2>2, <2>3, <2>4 DEF LimiterTypeOK, Stage
  <2>6. ASSUME NEW r \in Requests
        PROVE  stage'[r] = "waiting" <=> \E i \in 1 .. Len(queue') : queue'[i] = r
    <3>1. CASE r = h
      <4>1. stage'[r] # "waiting" BY <3>1, <2>1, <2>2
      <4>2. ASSUME NEW i \in 1 .. n - 1, waiters[i + 1] = r PROVE FALSE
        <5>1. i + 1 \in 1 .. n /\ 1 \in 1 .. n /\ waiters[i + 1] = waiters[1]
          BY <2>2, <3>1, <4>2
        <5> QED BY <5>1
      <4> QED BY <4>1, <4>2, <2>1, <2>3
    <3>2. CASE r # h
      <4>1. stage'[r] = rest[r] BY <3>2, <2>1, <2>2
      <4>2. ASSUME NEW i \in 1 .. n, waiters[i] = r
            PROVE  \E k \in 1 .. n - 1 : waiters[k + 1] = r
        <5>1. i # 1 BY <2>2, <3>2, <4>2
        <5>2. i - 1 \in 1 .. n - 1 /\ (i - 1) + 1 = i BY <5>1, <2>2
        <5> QED BY <5>2, <4>2
      <4>3. ASSUME NEW k \in 1 .. n - 1, waiters[k + 1] = r
            PROVE  \E i \in 1 .. n : waiters[i] = r
        <5>1. k + 1 \in 1 .. n BY <2>2
        <5> QED BY <5>1, <4>3
      <4> QED BY <4>1, <4>2, <4>3, <2>1, <2>3
    <3> QED BY <3>1, <3>2
  <2>7. ASSUME NEW i \in 1 .. n - 1, NEW j \in 1 .. n - 1,
               Tail(waiters)[i] = Tail(waiters)[j]
        PROVE  i = j
    <3>1. i + 1 \in 1 .. n /\ j + 1 \in 1 .. n /\ waiters[i + 1] = waiters[j + 1]
      BY <2>2, <2>3, <2>7
    <3> QED BY <3>1
  <2>8. SlotsConserved'
    <3>1. Holders' = HoldersIn([rest EXCEPT ![h] = "granted"])
      BY <2>1 DEF Holders, HoldersIn
    <3>2. Cardinality(Holders') = Cardinality(HoldersIn(rest)) + 1
      BY <3>1, <2>2, HolderAdded DEF Stage
    <3>3. Cardinality(HoldersIn(rest)) \in Nat BY HoldersFinite
    <3> QED BY <3>2, <3>3, <2>1, <2>4 DEF SlotsConserved
  <2>9. NoIdleSlot'
    <3>1. stage'[h] = "granted" BY <2>1, <2>2
    <3> QED BY <3>1, <2>2 DEF NoIdleSlot
  <2> QED BY <2>1, <2>3, <2>5, <2>6, <2>7, <2>8, <2>9
          DEF IInv, QueueIsWaiting, QueueIsDistinct
<1> QED BY <1>1, <1>2

-----------------------------------------------------------------------------
(* Leaving the queue.                                                      *)

\* The queue without a waiting request holds the other waiting requests.
LEMMA OthersWait ==
    ASSUME LimiterTypeOK, QueueIsWaiting, QueueIsDistinct,
           NEW r \in Requests, stage[r] = "waiting"
    PROVE  /\ Others(r) \in Seq(Requests)
           /\ \A q \in Requests :
                 (stage[q] = "waiting" /\ q # r) <=>
                     \E i \in 1 .. Len(Others(r)) : Others(r)[i] = q
           /\ \A i, j \in 1 .. Len(Others(r)) : Others(r)[i] = Others(r)[j] => i = j
<1> DEFINE n == Len(queue)
           p == Position(r)
<1>1. queue \in Seq(Requests) /\ n \in Nat /\ \A i \in 1 .. n : queue[i] \in Requests
  BY DEF LimiterTypeOK
<1>2. p \in 1 .. n /\ queue[p] = r
  <2>1. \E i \in 1 .. n : queue[i] = r BY DEF QueueIsWaiting
  <2> QED BY <2>1 DEF Position
<1> HIDE DEF p
<1>3. n - 1 \in Nat BY <1>1, <1>2
<1>4. Others(r) = [k \in 1 .. n - 1 |-> queue[IF k < p THEN k ELSE k + 1]]
  BY DEF Others, p
<1>5. \A k \in 1 .. n - 1 :
         /\ (IF k < p THEN k ELSE k + 1) \in 1 .. n
         /\ (IF k < p THEN k ELSE k + 1) # p
  BY <1>1, <1>2
<1>6. /\ Others(r) \in Seq(Requests)
      /\ Len(Others(r)) = n - 1
      /\ \A k \in 1 .. n - 1 : Others(r)[k] = queue[IF k < p THEN k ELSE k + 1]
  BY <1>1, <1>3, <1>4, <1>5
<1>7. ASSUME NEW q \in Requests
      PROVE  (stage[q] = "waiting" /\ q # r) <=>
                 \E k \in 1 .. n - 1 : Others(r)[k] = q
  <2>1. ASSUME stage[q] = "waiting", q # r
        PROVE  \E k \in 1 .. n - 1 : Others(r)[k] = q
    <3>1. PICK i \in 1 .. n : queue[i] = q BY <2>1 DEF QueueIsWaiting
    <3>2. i # p BY <3>1, <2>1, <1>2
    <3>3. CASE i < p
      <4>1. i \in 1 .. n - 1 /\ Others(r)[i] = queue[i] BY <3>3, <1>2, <1>6
      <4> QED BY <4>1, <3>1
    <3>4. CASE i > p
      <4>1. i - 1 \in 1 .. n - 1 /\ ~ (i - 1 < p) /\ (i - 1) + 1 = i
        BY <3>4, <1>2
      <4>2. Others(r)[i - 1] = queue[i] BY <4>1, <1>6
      <4> QED BY <4>1, <4>2, <3>1
    <3> QED BY <3>2, <3>3, <3>4, <1>2
  <2>2. ASSUME NEW k \in 1 .. n - 1, Others(r)[k] = q
        PROVE  stage[q] = "waiting" /\ q # r
    <3> DEFINE i == IF k < p THEN k ELSE k + 1
    <3>1. i \in 1 .. n /\ i # p /\ queue[i] = q BY <1>5, <1>6, <2>2
    <3>2. stage[q] = "waiting" BY <3>1 DEF QueueIsWaiting
    <3>3. q # r BY <3>1, <1>2 DEF QueueIsDistinct
    <3> QED BY <3>2, <3>3
  <2> QED BY <2>1, <2>2
<1>8. ASSUME NEW i \in 1 .. n - 1, NEW j \in 1 .. n - 1, Others(r)[i] = Others(r)[j]
      PROVE  i = j
  <2>1. (IF i < p THEN i ELSE i + 1) = (IF j < p THEN j ELSE j + 1)
    BY <1>5, <1>6, <1>8 DEF QueueIsDistinct
  <2> QED BY <2>1, <1>2
<1> QED BY <1>6, <1>7, <1>8

-----------------------------------------------------------------------------
(* The steps.                                                              *)

\* A new request takes a free slot or queues up.
LEMMA ArriveKeeps ==
    ASSUME IInv, NEW r \in Requests, Arrive(r)
    PROVE  IInv'
<1> USE DEF IInv
<1>1. stage[r] = "outside" BY DEF Arrive
<1>2. CASE free > 0 /\ queue = <<>> /\ \A q \in Requests : stage[q] # "granted"
  <2>1. stage' = [stage EXCEPT ![r] = "inside"] /\ free' = free - 1 /\ queue' = queue
    BY <1>2 DEF Arrive
  <2>2. LimiterTypeOK' BY <2>1, <1>2, CapacityAssumption DEF LimiterTypeOK, Stage
  <2>3. QueueIsWaiting' BY <2>1, <1>1 DEF QueueIsWaiting, LimiterTypeOK
  <2>4. QueueIsDistinct' BY <2>1 DEF QueueIsDistinct
  <2>5. SlotsConserved'
    <3>1. Holders' = HoldersIn([stage EXCEPT ![r] = "inside"]) /\ Holders = HoldersIn(stage)
      BY <2>1 DEF Holders, HoldersIn
    <3>2. Cardinality(Holders') = Cardinality(Holders) + 1
      BY <3>1, <1>1, HolderAdded DEF LimiterTypeOK, Stage
    <3>3. Cardinality(Holders) \in Nat BY <3>1, HoldersFinite
    <3> QED BY <3>2, <3>3, <2>1, CapacityAssumption DEF SlotsConserved, LimiterTypeOK
  <2>6. NoIdleSlot' BY <2>1, <1>2 DEF NoIdleSlot
  <2> QED BY <2>2, <2>3, <2>4, <2>5, <2>6
<1>3. CASE ~ (free > 0 /\ queue = <<>> /\ \A q \in Requests : stage[q] # "granted")
  <2> DEFINE n == Len(queue)
  <2>1. stage' = [stage EXCEPT ![r] = "waiting"] /\ free' = free
        /\ queue' = Append(queue, r)
    BY <1>3 DEF Arrive
  <2>2. /\ queue \in Seq(Requests) /\ n \in Nat
        /\ Len(queue') = n + 1 /\ queue'[n + 1] = r
        /\ \A i \in 1 .. n : queue'[i] = queue[i]
    BY <2>1 DEF LimiterTypeOK
  <2>3. \A i \in 1 .. n : queue[i] # r BY <1>1 DEF QueueIsWaiting
  <2>4. LimiterTypeOK' BY <2>1 DEF LimiterTypeOK, Stage
  <2>5. ASSUME NEW q \in Requests
        PROVE  stage'[q] = "waiting" <=> \E i \in 1 .. Len(queue') : queue'[i] = q
    <3>1. CASE q = r
      <4>1. stage'[q] = "waiting" BY <3>1, <2>1 DEF LimiterTypeOK
      <4>2. n + 1 \in 1 .. Len(queue') BY <2>2
      <4> QED BY <4>1, <4>2, <2>2, <3>1
    <3>2. CASE q # r
      <4>1. stage'[q] = stage[q] BY <3>2, <2>1 DEF LimiterTypeOK
      <4>2. ASSUME NEW i \in 1 .. n + 1, queue'[i] = q
            PROVE  \E k \in 1 .. n : queue[k] = q
        <5>1. i \in 1 .. n BY <4>2, <2>2, <3>2
        <5> QED BY <5>1, <4>2, <2>2
      <4>3. ASSUME NEW k \in 1 .. n, queue[k] = q
            PROVE  \E i \in 1 .. n + 1 : queue'[i] = q
        <5>1. k \in 1 .. n + 1 BY <2>2
        <5> QED BY <5>1, <4>3, <2>2
      <4> QED BY <4>1, <4>2, <4>3, <2>2 DEF QueueIsWaiting
    <3> QED BY <3>1, <3>2
  <2>6. ASSUME NEW i \in 1 .. n + 1, NEW j \in 1 .. n + 1, queue'[i] = queue'[j]
        PROVE  i = j
    <3>1. CASE i \in 1 .. n /\ j \in 1 .. n
      BY <3>1, <2>2, <2>6 DEF QueueIsDistinct
    <3>2. CASE i = n + 1 \/ j = n + 1
      BY <3>2, <2>2, <2>3, <2>6
    <3> QED BY <3>1, <3>2, <2>2
  <2>7. SlotsConserved'
    <3>1. Holders' = HoldersIn([stage EXCEPT ![r] = "waiting"]) /\ Holders = HoldersIn(stage)
      BY <2>1 DEF Holders, HoldersIn
    <3>2. Holders' = Holders
      BY <3>1, <1>1, HoldersKept DEF LimiterTypeOK, Stage
    <3> QED BY <3>2, <2>1 DEF SlotsConserved
  <2>8. NoIdleSlot'
    <3>1. ASSUME free > 0 PROVE \E q \in Requests : stage[q] = "granted"
      BY <3>1, <1>3 DEF NoIdleSlot
    <3>2. ASSUME NEW q \in Requests, stage[q] = "granted" PROVE stage'[q] = "granted"
      BY <3>2, <2>1, <1>1 DEF LimiterTypeOK
    <3> QED BY <3>1, <3>2, <2>1 DEF NoIdleSlot
  <2> QED BY <2>2, <2>4, <2>5, <2>6, <2>7, <2>8 DEF QueueIsWaiting, QueueIsDistinct
<1> QED BY <1>2, <1>3

\* The request that runs on keeps its slot and hands on another.
LEMMA ResumeKeeps ==
    ASSUME IInv, NEW r \in Requests, Resume(r)
    PROVE  IInv'
<1> USE DEF IInv
<1> DEFINE rest == [stage EXCEPT ![r] = "inside"]
<1>1. stage[r] = "granted" /\ Wake(rest, queue, free) BY DEF Resume
<1>2. rest \in [Requests -> Stage] BY DEF LimiterTypeOK, Stage
<1>3. queue \in Seq(Requests) /\ free \in 0 .. Capacity BY DEF LimiterTypeOK
<1>4. \A q \in Requests :
         rest[q] = "waiting" <=> \E i \in 1 .. Len(queue) : queue[i] = q
  BY <1>1 DEF QueueIsWaiting, LimiterTypeOK
<1>5. \A i, j \in 1 .. Len(queue) : queue[i] = queue[j] => i = j
  BY DEF QueueIsDistinct
<1>6. free + Cardinality(HoldersIn(rest)) = Capacity
  <2>1. HoldersIn(rest) = HoldersIn(stage)
    BY <1>1, HoldersKept DEF LimiterTypeOK, Stage
  <2> QED BY <2>1 DEF SlotsConserved, Holders, HoldersIn
<1> HIDE DEF rest, IInv
<1> QED BY <1>1, <1>2, <1>3, <1>4, <1>5, <1>6, WakeKeeps

\* A request that holds a slot and ends in stage v gives the slot back.
LEMMA ReleaseKeeps ==
    ASSUME IInv, NEW r \in Requests, NEW v \in {"refused", "ended"},
           stage[r] \in {"granted", "inside"},
           Release([stage EXCEPT ![r] = v], queue)
    PROVE  IInv'
<1> USE DEF IInv
<1> DEFINE rest == [stage EXCEPT ![r] = v]
<1>1. Wake(rest, queue, free + 1) BY DEF Release
<1>2. rest \in [Requests -> Stage] BY DEF LimiterTypeOK, Stage
<1>3. queue \in Seq(Requests) /\ free \in 0 .. Capacity BY DEF LimiterTypeOK
<1>4. \A q \in Requests :
         rest[q] = "waiting" <=> \E i \in 1 .. Len(queue) : queue[i] = q
  BY DEF QueueIsWaiting, LimiterTypeOK
<1>5. \A i, j \in 1 .. Len(queue) : queue[i] = queue[j] => i = j
  BY DEF QueueIsDistinct
<1>6. free + 1 + Cardinality(HoldersIn(rest)) = Capacity /\ free + 1 \in 0 .. Capacity
  <2>1. Cardinality(HoldersIn(rest)) = Cardinality(HoldersIn(stage)) - 1
    BY HolderRemoved DEF LimiterTypeOK, Stage
  <2>2. /\ Cardinality(HoldersIn(rest)) \in Nat
        /\ Cardinality(HoldersIn(stage)) \in Nat
    BY HoldersFinite
  <2>3. free + Cardinality(HoldersIn(stage)) = Capacity
    BY DEF SlotsConserved, Holders, HoldersIn
  <2> QED BY <2>1, <2>2, <2>3, <1>3, CapacityAssumption
<1> QED BY <1>1, <1>2, <1>3, <1>4, <1>5, <1>6, WakeKeeps

\* A wait that times out leaves the queue, or gives back the slot that it was
\* handed.
LEMMA TimeOutKeeps ==
    ASSUME IInv, NEW r \in Requests, TimeOut(r)
    PROVE  IInv'
<1>1. CASE stage[r] = "granted"
  BY <1>1, ReleaseKeeps DEF TimeOut
<1>2. CASE stage[r] = "waiting"
  <2>1. stage' = [stage EXCEPT ![r] = "refused"] /\ queue' = Others(r) /\ free' = free
    BY <1>2 DEF TimeOut
  <2>2. /\ Others(r) \in Seq(Requests)
        /\ \A q \in Requests :
              (stage[q] = "waiting" /\ q # r) <=>
                  \E i \in 1 .. Len(Others(r)) : Others(r)[i] = q
        /\ \A i, j \in 1 .. Len(Others(r)) : Others(r)[i] = Others(r)[j] => i = j
    BY <1>2, OthersWait DEF IInv
  <2>3. LimiterTypeOK' BY <2>1, <2>2 DEF IInv, LimiterTypeOK, Stage
  <2>4. QueueIsWaiting' BY <2>1, <2>2 DEF IInv, QueueIsWaiting, LimiterTypeOK
  <2>5. QueueIsDistinct' BY <2>1, <2>2 DEF QueueIsDistinct
  <2>6. SlotsConserved'
    <3>1. Holders' = HoldersIn([stage EXCEPT ![r] = "refused"]) /\ Holders = HoldersIn(stage)
      BY <2>1 DEF Holders, HoldersIn
    <3>2. Holders' = Holders
      BY <3>1, <1>2, HoldersKept DEF IInv, LimiterTypeOK, Stage
    <3> QED BY <3>2, <2>1 DEF IInv, SlotsConserved
  <2>7. NoIdleSlot'
    <3>1. ASSUME queue' # <<>>, free > 0
          PROVE  \E q \in Requests : stage[q] = "granted"
      <4>1. queue # <<>> BY <1>2 DEF IInv, QueueIsWaiting, LimiterTypeOK
      <4> QED BY <4>1, <3>1 DEF IInv, NoIdleSlot
    <3>2. ASSUME NEW q \in Requests, stage[q] = "granted" PROVE stage'[q] = "granted"
      BY <3>2, <2>1, <1>2 DEF IInv, LimiterTypeOK
    <3> QED BY <3>1, <3>2, <2>1 DEF NoIdleSlot
  <2> QED BY <2>3, <2>4, <2>5, <2>6, <2>7 DEF IInv
<1> QED BY <1>1, <1>2 DEF TimeOut

\* A process that starts has all its slots and no requests.
LEMMA RestartKeeps ==
    ASSUME IInv, RestartLimiter
    PROVE  IInv'
<1>1. /\ queue' = <<>> /\ free' = Capacity
      /\ stage' \in [Requests -> {"outside", "refused", "ended"}]
  BY DEF RestartLimiter, IInv, LimiterTypeOK, Stage
<1>2. Holders' = {} BY <1>1 DEF Holders
<1>3. SlotsConserved' BY <1>1, <1>2, FS_EmptySet, CapacityAssumption DEF SlotsConserved
<1>4. LimiterTypeOK' BY <1>1, CapacityAssumption DEF LimiterTypeOK, Stage
<1>5. QueueIsWaiting' /\ QueueIsDistinct' /\ NoIdleSlot'
  BY <1>1 DEF QueueIsWaiting, QueueIsDistinct, NoIdleSlot
<1> QED BY <1>3, <1>4, <1>5 DEF IInv

-----------------------------------------------------------------------------
(* The theorems.                                                           *)

\* No request has arrived, and all slots are free.
LEMMA InitSatisfies == LimiterInit => IInv
<1> SUFFICES ASSUME LimiterInit PROVE IInv
  OBVIOUS
<1>1. Holders = {} BY DEF LimiterInit, Holders
<1>2. SlotsConserved BY <1>1, FS_EmptySet, CapacityAssumption
      DEF LimiterInit, SlotsConserved
<1>3. LimiterTypeOK BY CapacityAssumption DEF LimiterInit, LimiterTypeOK, Stage
<1>4. QueueIsWaiting /\ QueueIsDistinct /\ NoIdleSlot
  BY DEF LimiterInit, QueueIsWaiting, QueueIsDistinct, NoIdleSlot
<1> QED BY <1>2, <1>3, <1>4 DEF IInv

\* Arrivals, timeouts, ends and restarts preserve the invariant.
LEMMA NextKeeps == IInv /\ [LimiterNext]_limiterVars => IInv'
<1> SUFFICES ASSUME IInv, [LimiterNext]_limiterVars PROVE IInv'
  OBVIOUS
<1>1. ASSUME NEW r \in Requests, Arrive(r) PROVE IInv' BY <1>1, ArriveKeeps
<1>2. ASSUME NEW r \in Requests, Resume(r) PROVE IInv' BY <1>2, ResumeKeeps
<1>3. ASSUME NEW r \in Requests, TimeOut(r) PROVE IInv' BY <1>3, TimeOutKeeps
<1>4. ASSUME NEW r \in Requests, Finish(r) PROVE IInv'
  BY <1>4, ReleaseKeeps DEF Finish
<1>5. CASE RestartLimiter BY <1>5, RestartKeeps
<1>6. CASE UNCHANGED limiterVars
  BY <1>6 DEF limiterVars, IInv, LimiterTypeOK, QueueIsWaiting, QueueIsDistinct,
              SlotsConserved, NoIdleSlot, Holders
<1> QED BY <1>1, <1>2, <1>3, <1>4, <1>5, <1>6 DEF LimiterNext

\* The invariant holds in every behaviour.
LEMMA InvariantHolds == LimiterSpec => []IInv
BY InitSatisfies, NextKeeps, PTL DEF LimiterSpec

\* The limiter's state is well typed, for all requests and slots.
THEOREM LimiterTypeCorrect == LimiterSpec => []LimiterTypeOK
<1>1. IInv => LimiterTypeOK BY DEF IInv
<1> QED BY <1>1, InvariantHolds, PTL

\* The slots that are free and those that are held are always all the slots
\* of the bucket: a timeout that races a grant, a handler that fails and a
\* restart neither lose nor make one.
THEOREM SlotsAlwaysConserved == LimiterSpec => []SlotsConserved
<1>1. IInv => SlotsConserved BY DEF IInv
<1> QED BY <1>1, InvariantHolds, PTL

\* While a request waits, no slot is free but for a request that was handed
\* one and has not run on yet.
THEOREM NoSlotStaysIdle == LimiterSpec => []NoIdleSlot
<1>1. IInv => NoIdleSlot BY DEF IInv
<1> QED BY <1>1, InvariantHolds, PTL

\* Never are there more requests in handlers than slots.
THEOREM AtMostCapacityInside ==
    LimiterSpec => [](Cardinality({r \in Requests : stage[r] = "inside"}) \leq Capacity)
<1> DEFINE Inside == {r \in Requests : stage[r] = "inside"}
<1>1. IInv => Cardinality(Inside) \leq Capacity
  <2> SUFFICES ASSUME IInv PROVE Cardinality(Inside) \leq Capacity
    OBVIOUS
  <2>1. Inside \subseteq Holders /\ Holders = HoldersIn(stage)
    BY DEF Holders, HoldersIn
  <2>2. IsFiniteSet(Holders) /\ Cardinality(Holders) \in Nat
    BY <2>1, HoldersFinite
  <2>3. Cardinality(Inside) \in Nat /\ Cardinality(Inside) \leq Cardinality(Holders)
    BY <2>1, <2>2, FS_Subset, FS_CardinalityType
  <2> QED BY <2>2, <2>3, CapacityAssumption DEF IInv, SlotsConserved, LimiterTypeOK
<1> QED BY <1>1, InvariantHolds, PTL

-----------------------------------------------------------------------------
(* The composition.                                                        *)


\* Each step of the composition is one of the limiter or leaves it alone.
LEMMA StepOfLimiter == [Next]_vars => [LimiterNext]_limiterVars
<1> SUFFICES ASSUME [Next]_vars PROVE [LimiterNext]_limiterVars
  OBVIOUS
<1>1. ASSUME NEW r \in Requests, Arrive(r) PROVE LimiterNext
  BY <1>1 DEF LimiterNext
<1>2. ASSUME NEW r \in Requests, GoOn(r) PROVE [LimiterNext]_limiterVars
  <2>1. CASE (Resume(r) \/ TimeOut(r)) /\ UNCHANGED invoiceVars
    BY <2>1 DEF LimiterNext
  <2>2. ASSUME NEW l \in Loads, NEW force \in BOOLEAN, ReadLoad(r, l, force)
        PROVE  UNCHANGED limiterVars
    BY <2>2 DEF ReadLoad, limiterVars
  <2>3. CASE TakeLock(r) BY <2>3 DEF TakeLock, limiterVars
  <2>4. CASE DraftNumber(r) BY <2>4 DEF DraftNumber, limiterVars
  <2>5. CASE FlushNumber(r) BY <2>5 DEF FlushNumber, limiterVars
  <2>6. CASE SaveFile(r) BY <2>6 DEF SaveFile, limiterVars
  <2>7. CASE FlushDocument(r) BY <2>7 DEF FlushDocument, limiterVars
  <2>8. CASE Commit(r)
    <3>1. Finish(r) BY <2>8 DEF Commit
    <3> QED BY <3>1 DEF LimiterNext
  <2>9. CASE FlushFlag(r) BY <2>9 DEF FlushFlag, limiterVars
  <2> QED BY <1>2, <2>1, <2>2, <2>3, <2>4, <2>5, <2>6, <2>7, <2>8, <2>9
          DEF GoOn, Handle
<1>3. CASE Other
  <2>1. CASE Restart
    <3>1. RestartLimiter BY <2>1 DEF Restart
    <3> QED BY <3>1 DEF LimiterNext
  <2>2. ASSUME NEW r \in Requests, Fail(r) PROVE LimiterNext
    <3>1. Finish(r) BY <2>2 DEF Fail, RollBack
    <3> QED BY <3>1 DEF LimiterNext
  <2>3. ASSUME NEW l \in Loads, BeginPatch(l) PROVE UNCHANGED limiterVars
    BY <2>3 DEF BeginPatch, limiterVars
  <2>4. ASSUME NEW l \in Loads, NEW typed \in {0, Manual}, CommitPatch(l, typed)
        PROVE  UNCHANGED limiterVars
    BY <2>4 DEF CommitPatch, limiterVars
  <2>5. ASSUME NEW l \in Loads, NEW d \in Uploads, UploadInvoice(l, d)
        PROVE  UNCHANGED limiterVars
    BY <2>5 DEF UploadInvoice, limiterVars
  <2>6. ASSUME NEW d \in Doc, LoseFile(d) PROVE UNCHANGED limiterVars
    BY <2>6 DEF LoseFile, limiterVars
  <2> QED BY <1>3, <2>1, <2>2, <2>3, <2>4, <2>5, <2>6 DEF Other
<1>4. CASE UNCHANGED vars BY <1>4 DEF vars
<1> QED BY <1>1, <1>2, <1>3, <1>4 DEF Next

\* The composition implements the limiter.
THEOREM ImplementsLimiter == Spec => LimiterSpec
<1>1. Init => LimiterInit BY DEF Init
<1> QED BY <1>1, StepOfLimiter, PTL DEF Spec, LimiterSpec

\* Generations that fail, that are refused and that a restart ends lose no
\* slot of their bucket.
THEOREM GenerationsConserveSlots == Spec => []SlotsConserved
BY ImplementsLimiter, SlotsAlwaysConserved, PTL

\* However generations interleave, a slot is free while a request waits only
\* until a request that was handed one has run on.
THEOREM GenerationsLeaveNoSlotIdle == Spec => []NoIdleSlot
BY ImplementsLimiter, NoSlotStaysIdle, PTL

-----------------------------------------------------------------------------
(* The handler's invariant.  The locks and the freshness of new rows say   *)
(* who can be between which two steps; on them rest what is claimed of     *)
(* duplicates and of the numbers that files show.                          *)

\* The steps of a request under the generation lock of its load.
Generating == {"locked", "drafted", "ready", "saved"}
Holding == Generating \cup {"answering"}

\* A request under the lock has it.
LocksHeld ==
    \A r \in Active : request[r].at \in Holding => lock[request[r].load] = r

\* A request that has written its document, or the flag, and not committed has
\* the row lock.
RowLocksHeld ==
    \A r \in Active :
        (\/ request[r].at = "answered"
         \/ request[r].at = "released" /\ request[r].doc # None)
            => rowLock[request[r].load] = r

\* Requests are active inside the limiter only, ...
ActiveAreInside == \A r \in Active : stage[r] = "inside"

\* ... and their rows appear as they end: a new row's name is fresh.
RowsAreOld ==
    \A l \in Loads : \A r \in rows[l] \cap Requests : stage[r] = "ended"

\* A row is of one load.
RowsApart ==
    \A l, m \in Loads : \A d \in rows[l] : d \in rows[m] => l = m

NewestIsRow ==
    \A l \in Loads :
        IF newest[l] = None THEN rows[l] = {} ELSE newest[l] \in rows[l]

\* The document of a request is a row of its load, or the one it will insert.
DocsSound ==
    \A r \in Active :
        /\ request[r].at \in {"read", "answering", "answered"} => request[r].doc = None
        /\ request[r].at = "saved" => request[r].doc # None
        /\ request[r].doc = r => request[r].at \in {"saved", "released"}
        /\ request[r].doc \in {None, r} \cup rows[request[r].load]

\* Who renders the invoice has a number.
NumbersGiven ==
    \A r \in Active :
        (\/ request[r].at \in {"drafted", "ready", "saved"}
         \/ request[r].at = "released" /\ request[r].doc # None)
            => request[r].number # 0

\* The newest invoice was not received later than the last.
TimesSound == \A l \in Loads : received[l] <= clock[l]

LocksInv ==
    /\ InvoicesTypeOK /\ TimesSound
    /\ LocksHeld /\ RowLocksHeld
    /\ ActiveAreInside /\ RowsAreOld
    /\ RowsApart /\ NewestIsRow /\ DocsSound /\ NumbersGiven

\* The requests that will insert a row.
Inserting ==
    {r \in Active : \/ request[r].doc = None /\ request[r].at \in Generating
                    \/ request[r].doc = r}

\* A request that will insert a row beside another overlapped its request.
InsertionsOverlap ==
    \A r \in Inserting :
        /\ \A d \in rows[request[r].load] \cap Requests : {d, r} \in overlapped
        /\ \A q \in Inserting \ {r} :
               request[q].load = request[r].load => {q, r} \in overlapped

\* Two loads whose numbers are drafted, or one that has the number drafted for
\* the other, overlapped.
DraftsOverlap ==
    \A r \in Drafting :
        /\ request[r].number > 0
        /\ \A q \in Drafting :
               request[q].load # request[r].load
                   => {request[q].load, request[r].load} \in overlapped
        /\ \A m \in Loads :
               Listed = Loads /\ m # request[r].load /\ number[m] = request[r].number
                   => {m, request[r].load} \in overlapped

DuplicatesInv ==
    /\ InsertionsOverlap /\ SecondInvoiceOverlapped
    /\ DraftsOverlap /\ SameNumberOverlapped

\* What an undisturbed request has read of the number is still so.
NumbersCurrent ==
    \A r \in Active \ disturbed :
        request[r].number # 0 /\ ~request[r].drafted
            => number[request[r].load] = request[r].number

\* The file that r writes.
Own(r) == [number |-> request[r].number, by |-> r]

SavingOn(l, d) == {q \in ActiveOn(l) : request[q].at = "saved" /\ request[q].doc = d}

\* A file that a request has written is its own until it releases the lock,
\* and until it commits unless another writes it again.
FilesSound ==
    \A r \in Active :
        LET d == request[r].doc IN
        /\ request[r].at = "saved" => file[d] \in {None, Own(r)}
        /\ request[r].at = "released" /\ d # None =>
              \/ file[d] \in {None, Own(r)}
              \/ file[d].by \in disturbed
              \/ SavingOn(request[r].load, d) # {}

\* The requests that have written the newest invoice of l and not committed.
Writers(l) ==
    {r \in ActiveOn(l) : /\ request[r].at \in {"saved", "released"}
                         /\ request[r].doc = newest[l]}

\* Is the newest invoice stale?
Stale(l) == updated[l] >= received[l]

\* Will a correction that is under way not make it stale?
Late(l) == Overtaken(l, received[l])

\* NewestShowsNumber, where such a correction counts as a disturbance already.
NewestSound ==
    \A l \in Loads :
        \/ newest[l] = None \/ file[newest[l]] = None
        \/ file[newest[l]].by \in {None} \cup disturbed
        \/ Writers(l) # {}
        \/ /\ ~Late(l)
           /\ Stale(l) \/ file[newest[l]].number = number[l]

NumbersInv == NumbersCurrent /\ FilesSound /\ NewestSound

-----------------------------------------------------------------------------
(* How the limiter moves requests.                                         *)

\* Waking leaves those alone who do not wait.
LEMMA WakeLeaves ==
    ASSUME NEW rest \in [Requests -> Stage], NEW value,
           \A i \in 1 .. Len(queue) : rest[queue[i]] = "waiting",
           queue \in Seq(Requests), Wake(rest, queue, value),
           NEW q \in Requests, rest[q] # "waiting"
    PROVE  stage'[q] = rest[q]
<1>1. CASE queue = <<>> \/ value = 0 BY <1>1 DEF Wake
<1>2. CASE queue # <<>> /\ value # 0
  <2>1. Head(queue) = queue[1] /\ 1 \in 1 .. Len(queue) BY <1>2
  <2>2. rest[Head(queue)] = "waiting" BY <2>1
  <2>3. stage' = [rest EXCEPT ![Head(queue)] = "granted"] BY <1>2 DEF Wake
  <2> QED BY <2>2, <2>3
<1> QED BY <1>1, <1>2

\* A step of one request does not move another that is inside or has ended.
LEMMA OthersKeepTheirStage ==
    ASSUME IInv, NEW r \in Requests,
           Arrive(r) \/ Resume(r) \/ TimeOut(r) \/ Finish(r),
           NEW q \in Requests, q # r, stage[q] \in {"inside", "ended"}
    PROVE  stage'[q] = stage[q]
<1>1. /\ stage \in [Requests -> Stage] /\ queue \in Seq(Requests)
      /\ \A i \in 1 .. Len(queue) : queue[i] \in Requests /\ stage[queue[i]] = "waiting"
  <2>1. stage \in [Requests -> Stage] /\ queue \in Seq(Requests)
    BY DEF IInv, LimiterTypeOK
  <2>2. \A i \in 1 .. Len(queue) : queue[i] \in Requests BY <2>1
  <2> QED BY <2>1, <2>2 DEF IInv, QueueIsWaiting
<1>2. CASE Arrive(r) BY <1>1, <1>2 DEF Arrive
<1>3. ASSUME NEW v \in {"inside", "refused", "ended"}, NEW value,
             stage[r] # "waiting", Wake([stage EXCEPT ![r] = v], queue, value)
      PROVE  stage'[q] = stage[q]
  <2> DEFINE rest == [stage EXCEPT ![r] = v]
  <2>1. rest \in [Requests -> Stage] BY <1>1 DEF Stage
  <2>2. \A i \in 1 .. Len(queue) : rest[queue[i]] = "waiting" BY <1>1, <1>3
  <2>3. rest[q] = stage[q] BY <1>1
  <2> QED BY <1>1, <1>3, <2>1, <2>2, <2>3, WakeLeaves
<1>4. CASE Resume(r) BY <1>3, <1>4 DEF Resume
<1>5. CASE TimeOut(r) BY <1>1, <1>3, <1>5 DEF TimeOut, Release
<1>6. CASE Finish(r) BY <1>3, <1>6 DEF Finish, Release
<1> QED BY <1>2, <1>4, <1>5, <1>6

\* A request that has finished has ended.
LEMMA FinishedHasEnded ==
    ASSUME IInv, NEW r \in Requests, Finish(r)
    PROVE  stage'[r] = "ended"
<1> DEFINE rest == [stage EXCEPT ![r] = "ended"]
<1>1. /\ stage \in [Requests -> Stage] /\ queue \in Seq(Requests)
      /\ \A i \in 1 .. Len(queue) : queue[i] \in Requests /\ stage[queue[i]] = "waiting"
  <2>1. stage \in [Requests -> Stage] /\ queue \in Seq(Requests)
    BY DEF IInv, LimiterTypeOK
  <2>2. \A i \in 1 .. Len(queue) : queue[i] \in Requests BY <2>1
  <2> QED BY <2>1, <2>2 DEF IInv, QueueIsWaiting
<1>2. rest \in [Requests -> Stage] /\ rest[r] = "ended" BY <1>1 DEF Stage
<1>3. \A i \in 1 .. Len(queue) : rest[queue[i]] = "waiting" BY <1>1 DEF Finish
<1>4. Wake(rest, queue, free + 1) BY DEF Finish, Release
<1> QED BY <1>1, <1>2, <1>3, <1>4, WakeLeaves

-----------------------------------------------------------------------------
(* The requests' records.                                                  *)

\* A request is active if and only if it has a record of its own.
LEMMA ActiveHasRecord ==
    ASSUME InvoicesTypeOK, NEW r \in Requests
    PROVE  /\ r \in Active <=> request[r] \in Request
           /\ r \in Active <=> request[r].at # "none"
<1>1. request[r] \in Request \cup {NoRequest} BY DEF InvoicesTypeOK
<1>2. \A x \in Request : x.at # "none" /\ x # NoRequest BY DEF Request, NoRequest
<1> QED BY <1>1, <1>2 DEF Active, NoRequest

\* A step that gives r the record v.
LEMMA RecordReplaced ==
    ASSUME InvoicesTypeOK, NEW r \in Requests, NEW v \in Request,
           request' = [request EXCEPT ![r] = v]
    PROVE  /\ request' \in [Requests -> Request \cup {NoRequest}]
           /\ request'[r] = v
           /\ \A q \in Requests : q # r => request'[q] = request[q]
           /\ Active' = Active \cup {r}
<1>1. request \in [Requests -> Request \cup {NoRequest}] BY DEF InvoicesTypeOK
<1>2. v # NoRequest
  <2>1. \A x \in Request : x.at # "none" BY DEF Request
  <2> QED BY <2>1 DEF NoRequest
<1> QED BY <1>1, <1>2 DEF Active

\* A step in which r ends.
LEMMA RecordDropped ==
    ASSUME InvoicesTypeOK, NEW r \in Requests,
           request' = [request EXCEPT ![r] = NoRequest]
    PROVE  /\ request' \in [Requests -> Request \cup {NoRequest}]
           /\ request'[r] = NoRequest
           /\ \A q \in Requests : q # r => request'[q] = request[q]
           /\ Active' = Active \ {r}
BY DEF Active, InvoicesTypeOK

\* A finite set of numbers that is not empty has a greatest element.
LEMMA GreatestNumber ==
    ASSUME NEW S, IsFiniteSet(S), S \subseteq Nat, S # {}
    PROVE  \E m \in S : \A n \in S : m >= n
<1> DEFINE Greatest(U) == \E m \in U : \A n \in U : m >= n
           Sizes == {k \in Nat : \E U \in SUBSET S :
                        U # {} /\ Cardinality(U) = k /\ ~Greatest(U)}
<1> SUFFICES ASSUME ~Greatest(S) PROVE FALSE
  OBVIOUS
<1>1. Sizes # {}
  <2>1. Cardinality(S) \in Nat BY FS_CardinalityType
  <2> QED BY <2>1
<1>2. PICK k \in Sizes : \A j \in Sizes : ~(j < k)
  <2>1. \E x \in Sizes : \A y \in Sizes : <<y, x>> \notin OpToRel(<, Nat)
    <3> HIDE DEF Sizes
    <3>1. Sizes \subseteq Nat BY DEF Sizes
    <3> QED BY <1>1, <3>1, WFMin, NatLessThanWellFounded
  <2> QED BY <2>1 DEF OpToRel
<1>3. PICK U \in SUBSET S : U # {} /\ Cardinality(U) = k /\ ~Greatest(U)
  OBVIOUS
<1>4. PICK x : x \in U BY <1>3
<1>5. IsFiniteSet(U) BY FS_Subset
<1>6. IsFiniteSet(U \ {x}) /\ Cardinality(U \ {x}) = k - 1
  BY <1>3, <1>4, <1>5, FS_RemoveElement
<1>7. U \ {x} # {}
  <2> SUFFICES ASSUME U = {x} PROVE FALSE
    BY <1>4
  <2> QED BY <1>3
<1>8. Greatest(U \ {x})
  <2>1. Cardinality(U \ {x}) \in Nat BY <1>6, FS_CardinalityType
  <2>2. k - 1 \notin Sizes BY <1>2
  <2> QED BY <1>6, <1>7, <2>1, <2>2
<1>9. PICK m \in U \ {x} : \A n \in U \ {x} : m >= n BY <1>8
<1>10. m \in Nat /\ x \in Nat BY <1>4
<1>11. CASE m >= x
  <2>1. \A n \in U : m >= n BY <1>9, <1>11
  <2> QED BY <2>1, <1>3
<1>12. CASE x >= m
  <2>1. \A n \in U : x >= n BY <1>9, <1>10, <1>12
  <2> QED BY <2>1, <1>3, <1>4
<1> QED BY <1>10, <1>11, <1>12

\* The next number is greater than each that it was counted from.
LEMMA NextNumberIsNew ==
    ASSUME InvoicesTypeOK, NEW l \in Loads
    PROVE  /\ NextNumber(l) \in Nat \ {0}
           /\ \A m \in Listed \ {l} : number[m] # NextNumber(l)
<1> DEFINE D == {m \in Listed \ {l} : number[m] > 0}
           N == {number[m] : m \in D}
           f == [m \in D |-> number[m]]
<1>1. number \in [Loads -> Int] BY DEF InvoicesTypeOK
<1>2. IsFiniteSet(D)
  <2>1. D \subseteq Loads BY DEF Listed
  <2> QED BY <2>1, LoadsAssumption, FS_Subset
<1>3. IsFiniteSet(N)
  <2>1. f \in Surjection(D, N) BY DEF Surjection
  <2> QED BY <2>1, <1>2, FS_Surjection
<1>4. N \subseteq Nat
  <2>1. Listed \subseteq Loads BY DEF Listed
  <2>2. \A m \in D : number[m] \in Nat BY <1>1, <2>1
  <2> QED BY <2>2
<1>5. IsFiniteSet({0} \cup N)
  <2> HIDE DEF N
  <2>1. IsFiniteSet(N \cup {0}) BY <1>3, FS_AddElement
  <2>2. N \cup {0} = {0} \cup N OBVIOUS
  <2> QED BY <2>1, <2>2
<1>6. \E m \in {0} \cup N : \A n \in {0} \cup N : m >= n
  <2> HIDE DEF N
  <2>1. {0} \cup N \subseteq Nat /\ {0} \cup N # {} BY <1>4
  <2> QED BY <1>5, <2>1, GreatestNumber
<1>7. /\ Max({0} \cup N) \in {0} \cup N
      /\ \A n \in {0} \cup N : Max({0} \cup N) >= n
  <2> HIDE DEF N
  <2> QED BY <1>6 DEF Max
<1>8. NextNumber(l) = 1 + Max({0} \cup N) BY DEF NextNumber
<1>9. Max({0} \cup N) \in Nat BY <1>4, <1>7
<1>10. \A m \in Listed \ {l} : number[m] \in Int
  BY <1>1 DEF Listed
<1>11. ASSUME NEW m \in Listed \ {l}, number[m] = NextNumber(l) PROVE FALSE
  <2>1. number[m] > 0 BY <1>8, <1>9, <1>11
  <2>2. number[m] \in {0} \cup N BY <2>1
  <2>3. Max({0} \cup N) >= number[m] BY <2>2, <1>7
  <2> QED BY <2>3, <1>8, <1>9, <1>10, <1>11
<1> QED BY <1>8, <1>9, <1>11

-----------------------------------------------------------------------------
(* Each step keeps the locks and the documents sound.                      *)

\* The records of the other requests, once r has v.
Changed(r, v) ==
    /\ request' \in [Requests -> Request \cup {NoRequest}]
    /\ request'[r] = v
    /\ \A q \in Requests : q # r => request'[q] = request[q]
    /\ Active' = Active \cup {r}

\* The facts of an active request that each of its steps needs.
LEMMA ActiveFacts ==
    ASSUME LocksInv, NEW r \in Requests, request[r].at # "none"
    PROVE  /\ InvoicesTypeOK /\ Active \subseteq Requests
           /\ r \in Active /\ request[r] \in Request /\ request[r].load \in Loads
           /\ None \notin Requests /\ r # None
           /\ newest[request[r].load] \in Doc \cup {None}
<1>1. InvoicesTypeOK /\ Active \subseteq Requests BY DEF LocksInv, Active
<1>2. r \in Active /\ request[r] \in Request BY <1>1, ActiveHasRecord
<1>3. request[r].load \in Loads BY <1>2 DEF Request
<1> QED BY <1>1, <1>2, <1>3, UploadsAssumption DEF InvoicesTypeOK

\* Overlaps are named as before when no request begins to insert or to draft.
LEMMA DuplicatesKept ==
    ASSUME DuplicatesInv, InvoicesTypeOK, rows' = rows,
           overlapped \subseteq overlapped',
           \A l \in Loads : number'[l] # number[l] => number'[l] \in {0, Manual},
           Inserting' \subseteq Inserting,
           \A q \in Inserting' : request'[q].load = request[q].load,
           Drafting' \subseteq Drafting,
           \A q \in Drafting' : /\ request'[q].load = request[q].load
                                /\ request'[q].number = request[q].number
    PROVE  DuplicatesInv'
<1>1. InsertionsOverlap' BY DEF DuplicatesInv, InsertionsOverlap
<1>2. SecondInvoiceOverlapped' BY DEF DuplicatesInv, SecondInvoiceOverlapped
<1>3. ~(0 > 0) /\ ~(Manual > 0) BY DEF Manual
<1>4. Listed' = Listed BY DEF Listed
<1>5. DraftsOverlap' BY <1>3, <1>4 DEF DuplicatesInv, DraftsOverlap
<1>6. SameNumberOverlapped' BY <1>3, <1>4 DEF DuplicatesInv, SameNumberOverlapped
<1> QED BY <1>1, <1>2, <1>5, <1>6 DEF DuplicatesInv

\* Steps of r before it writes its file leave the files sound.
LEMMA EarlyMoveKeepsFiles ==
    ASSUME InvoicesTypeOK, FilesSound, NewestSound,
           NEW r \in Requests, NEW v, Changed(r, v),
           request[r].at \notin {"saved", "released"}, v.at # "saved",
           v.at = "released" => v.doc = None,
           number' = number, newest' = newest, file' = file,
           received' = received, updated' = updated, patching' = patching,
           disturbed' = disturbed
    PROVE  FilesSound' /\ NewestSound'
<1>1. Active \subseteq Requests BY DEF Active
<1>2. \A l, d : SavingOn(l, d) \subseteq SavingOn(l, d)'
  BY <1>1 DEF SavingOn, ActiveOn, Changed
<1>3. \A l : Writers(l) \subseteq Writers(l)'
  BY <1>1 DEF Writers, ActiveOn, Changed
<1>4. FilesSound'
  <2> SUFFICES ASSUME NEW q \in Active', request'[q].at \in {"saved", "released"},
                      request'[q].at = "released" => request'[q].doc # None
               PROVE  /\ request'[q].at = "saved" =>
                             file[request'[q].doc] \in {None, Own(q)'}
                      /\ request'[q].at = "released" =>
                            \/ file[request'[q].doc] \in {None, Own(q)'}
                            \/ file[request'[q].doc].by \in disturbed
                            \/ SavingOn(request[q].load, request[q].doc)' # {}
    BY <1>1 DEF FilesSound, Changed
  <2>1. q # r /\ q \in Active /\ request'[q] = request[q] BY <1>1 DEF Changed
  <2>2. Own(q)' = Own(q) BY <2>1 DEF Own
  <2> QED BY <2>1, <2>2, <1>2 DEF FilesSound
<1>5. NewestSound' BY <1>3 DEF NewestSound, Late, Overtaken, Stale
<1> QED BY <1>4, <1>5

LEMMA ReadLoadKeeps ==
    ASSUME LocksInv, DuplicatesInv, NumbersInv, LimiterTypeOK', NEW r \in Requests, NEW l \in Loads,
           NEW force \in BOOLEAN, ReadLoad(r, l, force)
    PROVE  LocksInv' /\ DuplicatesInv' /\ NumbersInv'
<1> DEFINE v == [at |-> "read", load |-> l, force |-> force, number |-> number[l],
                 has_invoice |-> newest[l] # None, began |-> clock[l],
                 drafted |-> FALSE, doc |-> None]
<1>1. InvoicesTypeOK /\ Active \subseteq Requests BY DEF LocksInv, Active
<1>2. v \in Request
  <2>1. PICK x \in BOOLEAN : x = (newest[l] # None) OBVIOUS
  <2>2. number[l] \in Int /\ clock[l] \in Nat BY <1>1 DEF InvoicesTypeOK
  <2>3. v = [at |-> "read", load |-> l, force |-> force, number |-> number[l],
             has_invoice |-> x, began |-> clock[l], drafted |-> FALSE, doc |-> None]
    BY <2>1
  <2> HIDE DEF v
  <2> QED BY <2>2, <2>3 DEF Request
<1>3. Changed(r, v) BY <1>1, <1>2, RecordReplaced DEF ReadLoad, Changed
<1>4. /\ number' = number /\ rows' = rows /\ newest' = newest /\ file' = file
      /\ clock' = clock /\ received' = received /\ updated' = updated
      /\ patching' = patching /\ lock' = lock
      /\ rowLock' = rowLock /\ overlapped' = overlapped /\ disturbed' = disturbed
      /\ events' = events /\ stage' = stage /\ stage[r] = "inside"
  BY DEF ReadLoad, times, history, limiterVars
<1>5. /\ v.at = "read" /\ v.load = l /\ v.doc = None
      /\ v.number = number[l] /\ v.drafted = FALSE
  OBVIOUS
<1> HIDE DEF v
<1>6. InvoicesTypeOK' BY <1>1, <1>3, <1>4 DEF InvoicesTypeOK, Changed
<1>7. LocksHeld' /\ RowLocksHeld'
  BY <1>1, <1>3, <1>4, <1>5 DEF LocksInv, LocksHeld, RowLocksHeld, Changed, Holding, Generating
<1>8. ActiveAreInside' /\ RowsAreOld'
  BY <1>3, <1>4, <1>5 DEF LocksInv, ActiveAreInside, RowsAreOld, Changed
<1>9. RowsApart' /\ NewestIsRow' /\ TimesSound'
  BY <1>4 DEF LocksInv, RowsApart, NewestIsRow, TimesSound
<1>10. DocsSound'
  <2>1. r # None BY UploadsAssumption
  <2> QED BY <1>1, <1>3, <1>4, <1>5, <2>1 DEF LocksInv, DocsSound, Changed
<1>11. NumbersGiven' BY <1>1, <1>3, <1>4, <1>5 DEF LocksInv, NumbersGiven, Changed
<1>12. LocksInv' BY <1>6, <1>7, <1>8, <1>9, <1>10, <1>11 DEF LocksInv
<1>13. DuplicatesInv'
  <2>1. Inserting' \subseteq Inserting /\ Drafting' \subseteq Drafting
    <3>1. r # None BY UploadsAssumption
    <3> QED BY <1>1, <1>3, <1>5, <3>1 DEF Inserting, Drafting, Changed, Generating
  <2>2. /\ \A q \in Inserting' : request'[q].load = request[q].load
        /\ \A q \in Drafting' : request'[q] = request[q]
    <3>1. r \notin Active BY DEF ReadLoad, Active
    <3>2. Inserting \subseteq Active /\ Drafting \subseteq Active
      BY DEF Inserting, Drafting
    <3> QED BY <1>1, <1>3, <2>1, <3>1, <3>2 DEF Changed
  <2> QED BY <1>1, <1>4, <2>1, <2>2, DuplicatesKept
<1>14. NumbersInv'
  <2>1. FilesSound' /\ NewestSound'
    BY <1>1, <1>3, <1>4, <1>5, EarlyMoveKeepsFiles DEF NumbersInv, ReadLoad, NoRequest
  <2>2. NumbersCurrent'
    BY <1>1, <1>3, <1>4, <1>5 DEF NumbersInv, NumbersCurrent, Changed
  <2> QED BY <2>1, <2>2 DEF NumbersInv
<1> QED BY <1>12, <1>13, <1>14

LEMMA TakeLockKeeps ==
    ASSUME LocksInv, DuplicatesInv, NumbersInv, LimiterTypeOK', NEW r \in Requests,
           TakeLock(r)
    PROVE  LocksInv' /\ DuplicatesInv' /\ NumbersInv'
<1> DEFINE l == request[r].load
           doc == newest[l]
           answered == doc # None /\ ~request[r].force /\ file[doc] # None
           at == IF ~answered THEN "locked"
                 ELSE IF request[r].has_invoice THEN "released" ELSE "answering"
           v == [request[r] EXCEPT !.at = at,
                                   !.doc = IF answered THEN request[r].doc ELSE doc]
<1>1. /\ InvoicesTypeOK /\ Active \subseteq Requests
      /\ r \in Active /\ request[r] \in Request /\ l \in Loads
      /\ None \notin Requests /\ r # None /\ doc \in Doc \cup {None}
      /\ request[r].at = "read" /\ lock[l] = None
  BY ActiveFacts DEF TakeLock
<1>2. /\ v \in Request /\ v.load = l /\ v.at = at
      /\ v.doc = (IF answered THEN request[r].doc ELSE doc)
      /\ v.number = request[r].number /\ v.drafted = request[r].drafted
  <2>1. at \in {"locked", "released", "answering"} OBVIOUS
  <2>2. (IF answered THEN request[r].doc ELSE doc) \in Doc \cup {None}
    BY <1>1 DEF Request
  <2> HIDE DEF at, answered
  <2> QED BY <1>1, <2>1, <2>2 DEF Request
<1>3. Changed(r, v)
  <2>1. request' = [request EXCEPT ![r] = v]
    <3>1. \A x \in Request : /\ [x EXCEPT !.at = "released"]
                                  = [x EXCEPT !.at = "released", !.doc = x.doc]
                             /\ [x EXCEPT !.at = "answering"]
                                  = [x EXCEPT !.at = "answering", !.doc = x.doc]
      BY DEF Request
    <3>2. CASE answered /\ request[r].has_invoice
      BY <1>1, <3>1, <3>2 DEF TakeLock, FirstInvoice
    <3>3. CASE answered /\ ~request[r].has_invoice
      BY <1>1, <3>1, <3>3 DEF TakeLock, FirstInvoice
    <3>4. CASE ~answered BY <3>4 DEF TakeLock, FirstInvoice
    <3> QED BY <3>2, <3>3, <3>4
  <2> HIDE DEF v
  <2> QED BY <1>1, <1>2, <2>1, RecordReplaced DEF Changed
<1>4. /\ number' = number /\ rows' = rows /\ newest' = newest /\ file' = file
      /\ clock' = clock /\ received' = received /\ updated' = updated
      /\ patching' = patching
      /\ rowLock' = rowLock /\ disturbed' = disturbed
      /\ events' = events /\ stage' = stage
      /\ lock' = (IF at = "released" THEN lock ELSE [lock EXCEPT ![l] = r])
      /\ overlapped' \subseteq SUBSET (Requests \cup Loads)
      /\ overlapped \subseteq overlapped'
      /\ \A q \in Active : q # r /\ request[q].load = l /\ request[q].at = "released"
            => {r, q} \in overlapped'
  BY <1>1 DEF TakeLock, FirstInvoice, times, limiterVars, InvoicesTypeOK, ActiveOn
<1>5. request[r].doc = None BY <1>1 DEF LocksInv, DocsSound
<1>6. doc # None => doc \in rows[l] BY <1>1 DEF LocksInv, NewestIsRow
<1>7. /\ lock' \in [Loads -> Requests \cup {None}]
      /\ \A m \in Loads : m # l => lock'[m] = lock[m]
      /\ at # "released" => lock'[l] = r
  BY <1>1, <1>4 DEF InvoicesTypeOK
<1>8. doc # r
  <2>1. stage[r] = "inside" BY <1>1 DEF LocksInv, ActiveAreInside
  <2> QED BY <1>1, <1>6, <2>1 DEF LocksInv, RowsAreOld
<1>9a. at \in {"locked", "released", "answering"} /\ (at = "locked" <=> ~answered)
  OBVIOUS
<1> HIDE DEF v, at, answered, doc
<1>9. \A q \in Active : request[q].load \in Loads
  BY <1>1, ActiveHasRecord DEF Request
<1>10. InvoicesTypeOK' BY <1>1, <1>2, <1>3, <1>4, <1>7 DEF InvoicesTypeOK, Changed
<1>11. LocksHeld'
  BY <1>1, <1>2, <1>3, <1>4, <1>7, <1>9, <1>9a DEF LocksInv, LocksHeld, Changed, Holding, Generating
<1>12. RowLocksHeld'
  BY <1>1, <1>2, <1>3, <1>4, <1>5, <1>9a DEF LocksInv, RowLocksHeld, Changed
<1>13. ActiveAreInside' /\ RowsAreOld'
  BY <1>1, <1>3, <1>4 DEF LocksInv, ActiveAreInside, RowsAreOld, Changed
<1>14. RowsApart' /\ NewestIsRow' /\ TimesSound'
  BY <1>4 DEF LocksInv, RowsApart, NewestIsRow, TimesSound
<1>15. DocsSound'
  BY <1>1, <1>2, <1>3, <1>4, <1>5, <1>6, <1>8, <1>9a DEF LocksInv, DocsSound, Changed
<1>16. NumbersGiven' BY <1>1, <1>2, <1>3, <1>5, <1>9a DEF LocksInv, NumbersGiven, Changed
<1>17. LocksInv' BY <1>10, <1>11, <1>12, <1>13, <1>14, <1>15, <1>16 DEF LocksInv
<1>18. NumbersInv'
  <2>1. FilesSound' /\ NewestSound'
    BY <1>1, <1>2, <1>3, <1>4, <1>5, <1>9a, EarlyMoveKeepsFiles DEF NumbersInv
  <2>2. NumbersCurrent'
    BY <1>1, <1>2, <1>3, <1>4 DEF NumbersInv, NumbersCurrent, Changed
  <2> QED BY <2>1, <2>2 DEF NumbersInv
<1>19. /\ Drafting' = Drafting
       /\ \A q \in Drafting : /\ request'[q].load = request[q].load
                             /\ request'[q].number = request[q].number
  BY <1>1, <1>2, <1>3 DEF Drafting, Changed
<1>20. InsertionsOverlap'
  <2>1. \A q \in Inserting' : q # r => q \in Inserting /\ request'[q] = request[q]
    BY <1>1, <1>3 DEF Inserting, Changed
  <2>2. ASSUME r \in Inserting' PROVE ~answered /\ rows[l] = {}
    <3>1. ~answered /\ doc = None
      BY <1>1, <1>2, <1>3, <1>5, <1>8, <1>9a, <2>2 DEF Inserting, Changed, Generating
    <3> QED BY <1>1, <3>1 DEF LocksInv, NewestIsRow, doc
  <2>3. ASSUME r \in Inserting', NEW q \in Inserting, q # r, request[q].load = l
        PROVE  {q, r} \in overlapped' /\ {r, q} \in overlapped'
    <3>1. q \in Active BY DEF Inserting
    <3>2. request[q].at \notin Holding
      BY <1>1, <2>3, <3>1 DEF LocksInv, LocksHeld, Holding, Generating
    <3>3. request[q].at = "released"
      BY <3>1, <3>2, <2>3 DEF LocksInv, DocsSound, Inserting, Holding, Generating
    <3>4. {q, r} = {r, q} OBVIOUS
    <3> QED BY <1>4, <2>3, <3>1, <3>3, <3>4
  <2>4. ASSUME NEW p \in Inserting', NEW d \in rows[request'[p].load] \cap Requests
        PROVE  {d, p} \in overlapped'
    BY <1>2, <1>3, <1>4, <2>1, <2>2, <2>4
       DEF DuplicatesInv, InsertionsOverlap, Changed
  <2>5. ASSUME NEW p \in Inserting', NEW q \in Inserting', q # p,
               request'[q].load = request'[p].load
        PROVE  {q, p} \in overlapped'
    <3>1. CASE p # r /\ q # r
      BY <1>4, <2>1, <2>5, <3>1 DEF DuplicatesInv, InsertionsOverlap
    <3>2. CASE p = r BY <1>2, <1>3, <2>1, <2>3, <2>5, <3>2 DEF Changed
    <3>3. CASE q = r BY <1>2, <1>3, <2>1, <2>3, <2>5, <3>3 DEF Changed
    <3> QED BY <3>1, <3>2, <3>3
  <2> QED BY <1>4, <2>4, <2>5 DEF InsertionsOverlap
<1>21. SecondInvoiceOverlapped'
  BY <1>4 DEF DuplicatesInv, SecondInvoiceOverlapped
<1>22. Listed' = Listed BY DEF Listed
<1>23. DraftsOverlap'
  BY <1>4, <1>19, <1>22 DEF DuplicatesInv, DraftsOverlap
<1>24. SameNumberOverlapped'
  BY <1>4, <1>22 DEF DuplicatesInv, SameNumberOverlapped
<1> QED BY <1>17, <1>18, <1>20, <1>21, <1>23, <1>24 DEF DuplicatesInv

\* A step that only moves r on, under the lock or from it.
LEMMA MoveKeepsLocks ==
    ASSUME LocksInv, NEW r \in Requests, NEW v \in Request,
           request[r].at \in {"locked", "drafted"}, v.at \in {"drafted", "ready"},
           v.load = request[r].load, v.doc = request[r].doc, v.number # 0,
           Changed(r, v),
           rows' = rows, newest' = newest, lock' = lock, stage' = stage,
           clock' = clock, received' = received,
           \A l \in Loads : rowLock[l] # None => rowLock'[l] = rowLock[l]
    PROVE  /\ LocksHeld' /\ RowLocksHeld' /\ ActiveAreInside' /\ RowsAreOld'
           /\ RowsApart' /\ NewestIsRow' /\ TimesSound'
           /\ DocsSound' /\ NumbersGiven'
           /\ Inserting' = Inserting
           /\ \A q \in Active : request'[q].load = request[q].load
<1>1. /\ InvoicesTypeOK /\ Active \subseteq Requests
      /\ r \in Active /\ request[r] \in Request /\ None \notin Requests
  BY ActiveFacts
<1>2. \A q \in Active : request[q].load \in Loads
  BY <1>1, ActiveHasRecord DEF Request
<1>3. LocksHeld' BY <1>1 DEF LocksInv, LocksHeld, Changed, Holding, Generating
<1>4. RowLocksHeld' BY <1>1, <1>2 DEF LocksInv, RowLocksHeld, Changed
<1>5. ActiveAreInside' /\ RowsAreOld'
  BY <1>1 DEF LocksInv, ActiveAreInside, RowsAreOld, Changed
<1>6. RowsApart' /\ NewestIsRow' /\ TimesSound'
  BY DEF LocksInv, RowsApart, NewestIsRow, TimesSound
<1>7. DocsSound' BY <1>1 DEF LocksInv, DocsSound, Changed
<1>8. NumbersGiven' BY <1>1 DEF LocksInv, NumbersGiven, Changed
<1>9. Inserting' = Inserting BY <1>1 DEF Inserting, Changed, Generating
<1>10. \A q \in Active : request'[q].load = request[q].load BY <1>1 DEF Changed
<1> QED BY <1>3, <1>4, <1>5, <1>6, <1>7, <1>8, <1>9, <1>10

LEMMA DraftNumberKeeps ==
    ASSUME LocksInv, DuplicatesInv, NumbersInv, LimiterTypeOK', NEW r \in Requests,
           DraftNumber(r)
    PROVE  LocksInv' /\ DuplicatesInv' /\ NumbersInv'
<1> DEFINE l == request[r].load
           v == IF request[r].number # 0 THEN [request[r] EXCEPT !.at = "ready"]
                ELSE [request[r] EXCEPT !.at = "drafted", !.drafted = TRUE,
                                        !.number = NextNumber(l)]
<1>1. /\ InvoicesTypeOK /\ Active \subseteq Requests
      /\ r \in Active /\ request[r] \in Request /\ l \in Loads
      /\ request[r].at = "locked"
  BY ActiveFacts DEF DraftNumber
<1>2. NextNumber(l) \in Nat \ {0} /\ \A m \in Listed \ {l} : number[m] # NextNumber(l)
  <2> HIDE DEF l
  <2> QED BY <1>1, NextNumberIsNew
<1>3. /\ v \in Request /\ v.load = l /\ v.doc = request[r].doc
      /\ v.at \in {"drafted", "ready"} /\ v.number # 0
      /\ IF request[r].number # 0
         THEN v.drafted = request[r].drafted /\ v.number = request[r].number
         ELSE v.drafted = TRUE /\ v.number = NextNumber(l)
  <2>1. CASE request[r].number # 0 BY <1>1, <2>1 DEF Request
  <2>2. CASE request[r].number = 0
    <3>1. PICK n \in Nat \ {0} : n = NextNumber(l) BY <1>2
    <3>2. PICK x \in Request : x = request[r] BY <1>1
    <3>3. v = [x EXCEPT !.at = "drafted", !.drafted = TRUE, !.number = n]
      BY <2>2, <3>1, <3>2
    <3> HIDE DEF v
    <3>4. /\ v \in Request /\ v.load = x.load /\ v.doc = x.doc
          /\ v.at = "drafted" /\ v.number = n /\ v.drafted = TRUE
      <4>1. v.load = x.load /\ v.doc = x.doc
        BY <3>1, <3>2, <3>3 DEF Request
      <4>2. v.at = "drafted" /\ v.number = n
        BY <3>1, <3>2, <3>3 DEF Request
      <4>3. v.drafted = TRUE
        BY <3>1, <3>2, <3>3 DEF Request
      <4>4. v \in Request
        <5>1. /\ x.force \in BOOLEAN /\ x.has_invoice \in BOOLEAN
              /\ x.load \in Loads /\ x.began \in Nat /\ x.doc \in Doc \cup {None}
          BY <3>2 DEF Request
        <5>2. v = [at |-> "drafted", load |-> x.load, force |-> x.force,
                   number |-> n, has_invoice |-> x.has_invoice, began |-> x.began,
                   drafted |-> TRUE, doc |-> x.doc]
          BY <3>2, <3>3 DEF Request
        <5>3. n \in Int BY <3>1
        <5> QED BY <5>1, <5>2, <5>3 DEF Request
      <4> QED BY <4>1, <4>2, <4>3, <4>4
    <3> QED BY <2>2, <3>1, <3>2, <3>4
  <2> QED BY <2>1, <2>2
<1>4. Changed(r, v)
  <2>1. request' = [request EXCEPT ![r] = v] BY DEF DraftNumber
  <2> HIDE DEF v
  <2> QED BY <1>1, <1>3, <2>1, RecordReplaced DEF Changed
<1>5. /\ number' = number /\ rows' = rows /\ newest' = newest /\ file' = file
      /\ clock' = clock /\ received' = received /\ updated' = updated
      /\ patching' = patching /\ lock' = lock
      /\ rowLock' = rowLock /\ disturbed' = disturbed
      /\ events' = events /\ stage' = stage
  BY DEF DraftNumber, times, limiterVars
<1>6. /\ overlapped' \subseteq SUBSET (Requests \cup Loads)
      /\ overlapped \subseteq overlapped'
      /\ request[r].number = 0 =>
            \A q \in Drafting : {l, request[q].load} \in overlapped'
  <2>1. \A q \in Active : request[q].load \in Loads
    BY <1>1, ActiveHasRecord DEF Request
  <2> QED BY <1>1, <2>1 DEF DraftNumber, InvoicesTypeOK, Drafting
<1> HIDE DEF v
<1>7. InvoicesTypeOK' BY <1>1, <1>3, <1>4, <1>5, <1>6 DEF InvoicesTypeOK, Changed
<1>8. /\ LocksInv' /\ Inserting' = Inserting
      /\ \A q \in Active : request'[q].load = request[q].load
  BY <1>1, <1>3, <1>4, <1>5, <1>7, MoveKeepsLocks DEF LocksInv
<1>9. NumbersInv'
  <2>1. FilesSound' /\ NewestSound'
    BY <1>1, <1>3, <1>4, <1>5, EarlyMoveKeepsFiles DEF NumbersInv
  <2>2. NumbersCurrent'
    BY <1>1, <1>3, <1>4, <1>5 DEF NumbersInv, NumbersCurrent, Changed
  <2> QED BY <2>1, <2>2 DEF NumbersInv
<1>10. Listed' = Listed BY DEF Listed
<1>11. InsertionsOverlap'
  <2>1. Inserting \subseteq Active BY DEF Inserting
  <2> QED BY <1>5, <1>6, <1>8, <2>1 DEF DuplicatesInv, InsertionsOverlap
<1>12. \A q \in Drafting' : q # r => q \in Drafting /\ request'[q] = request[q]
  BY <1>1, <1>4 DEF Drafting, Changed
<1>13. ASSUME r \in Drafting', request[r].number # 0
       PROVE  r \in Drafting
  BY <1>1, <1>3, <1>4, <1>13 DEF Drafting, Changed
<1>14. DraftsOverlap'
  <2>1. CASE request[r].number # 0
    <3>1. /\ Drafting' \subseteq Drafting
          /\ \A q \in Drafting' : /\ request'[q].load = request[q].load
                                 /\ request'[q].number = request[q].number
      BY <1>1, <1>3, <1>4, <1>12, <1>13, <2>1 DEF Changed
    <3> QED BY <1>5, <1>6, <1>10, <3>1 DEF DuplicatesInv, DraftsOverlap
  <2>2. CASE request[r].number = 0
    <3>1. r \notin Drafting
      BY <2>2 DEF DuplicatesInv, DraftsOverlap
    <3>2. request'[r].load = l /\ request'[r].number = NextNumber(l)
      BY <1>3, <1>4, <2>2 DEF Changed
    <3>3. ASSUME NEW p \in Drafting' PROVE request'[p].number > 0
      BY <1>2, <1>12, <3>2 DEF DuplicatesInv, DraftsOverlap
    <3>4. ASSUME NEW p \in Drafting', NEW q \in Drafting',
                 request'[q].load # request'[p].load
          PROVE  {request'[q].load, request'[p].load} \in overlapped'
      <4>1. \A k \in Drafting : /\ {l, request[k].load} \in overlapped'
                                /\ {request[k].load, l} \in overlapped'
        <5>1. \A k \in Drafting : {l, request[k].load} = {request[k].load, l}
          OBVIOUS
        <5> QED BY <1>6, <2>2, <5>1
      <4>2. CASE p = r BY <1>12, <3>2, <3>4, <4>1, <4>2
      <4>3. CASE q = r BY <1>12, <3>2, <3>4, <4>1, <4>3
      <4>4. CASE p # r /\ q # r
        BY <1>6, <1>12, <3>4, <4>4 DEF DuplicatesInv, DraftsOverlap
      <4> QED BY <4>2, <4>3, <4>4
    <3>5. ASSUME NEW p \in Drafting', NEW m \in Loads, Listed = Loads,
                 m # request'[p].load, number[m] = request'[p].number
          PROVE  {m, request'[p].load} \in overlapped'
      <4>1. CASE p = r BY <1>2, <3>2, <3>5, <4>1
      <4>2. CASE p # r
        BY <1>6, <1>12, <3>5, <4>2 DEF DuplicatesInv, DraftsOverlap
      <4> QED BY <4>1, <4>2
    <3> QED BY <1>5, <1>10, <3>3, <3>4, <3>5 DEF DraftsOverlap
  <2> QED BY <2>1, <2>2
<1>15. SecondInvoiceOverlapped' /\ SameNumberOverlapped'
  BY <1>5, <1>6, <1>10 DEF DuplicatesInv, SecondInvoiceOverlapped, SameNumberOverlapped
<1> QED BY <1>8, <1>9, <1>11, <1>14, <1>15 DEF DuplicatesInv

LEMMA FlushNumberKeeps ==
    ASSUME LocksInv, DuplicatesInv, NumbersInv, LimiterTypeOK', NEW r \in Requests,
           FlushNumber(r)
    PROVE  LocksInv' /\ DuplicatesInv' /\ NumbersInv'
<1> DEFINE l == request[r].load
           v == [request[r] EXCEPT !.at = "ready"]
<1>1. /\ InvoicesTypeOK /\ Active \subseteq Requests
      /\ r \in Active /\ request[r] \in Request /\ l \in Loads
      /\ request[r].at = "drafted" /\ rowLock[l] = None
  BY ActiveFacts DEF FlushNumber
<1>2. /\ v \in Request /\ v.load = l /\ v.doc = request[r].doc /\ v.at = "ready"
      /\ v.number = request[r].number /\ v.drafted = request[r].drafted
      /\ v.number # 0
  BY <1>1 DEF Request, LocksInv, NumbersGiven
<1>3. Changed(r, v)
  <2>1. request' = [request EXCEPT ![r] = v] BY DEF FlushNumber
  <2> HIDE DEF v
  <2> QED BY <1>1, <1>2, <2>1, RecordReplaced DEF Changed
<1>4. /\ number' = number /\ rows' = rows /\ newest' = newest /\ file' = file
      /\ clock' = clock /\ received' = received /\ updated' = updated
      /\ patching' = patching /\ lock' = lock
      /\ overlapped' = overlapped /\ disturbed' = disturbed
      /\ events' = events /\ stage' = stage
      /\ rowLock' = [rowLock EXCEPT ![l] = r]
  BY DEF FlushNumber, times, limiterVars, history
<1>5. /\ rowLock' \in [Loads -> Requests \cup {None}]
      /\ \A m \in Loads : rowLock[m] # None => rowLock'[m] = rowLock[m]
  BY <1>1, <1>4 DEF InvoicesTypeOK
<1> HIDE DEF v
<1>6. InvoicesTypeOK' BY <1>1, <1>2, <1>3, <1>4, <1>5 DEF InvoicesTypeOK, Changed
<1>7. /\ LocksInv' /\ Inserting' = Inserting
      /\ \A q \in Active : request'[q].load = request[q].load
  BY <1>1, <1>2, <1>3, <1>4, <1>5, <1>6, MoveKeepsLocks DEF LocksInv
<1>8. NumbersInv'
  <2>1. FilesSound' /\ NewestSound'
    BY <1>1, <1>2, <1>3, <1>4, EarlyMoveKeepsFiles DEF NumbersInv
  <2>2. NumbersCurrent'
    BY <1>1, <1>2, <1>3, <1>4 DEF NumbersInv, NumbersCurrent, Changed
  <2> QED BY <2>1, <2>2 DEF NumbersInv
<1>9. Drafting' = Drafting BY <1>1, <1>2, <1>3 DEF Drafting, Changed
<1>10. /\ \A q \in Inserting' : request'[q].load = request[q].load
       /\ \A q \in Drafting' : /\ request'[q].load = request[q].load
                              /\ request'[q].number = request[q].number
  BY <1>1, <1>2, <1>3, <1>7 DEF Inserting, Drafting, Changed
<1>11. DuplicatesInv' BY <1>1, <1>4, <1>7, <1>9, <1>10, DuplicatesKept
<1> QED BY <1>7, <1>8, <1>11

LEMMA FlushFlagKeeps ==
    ASSUME LocksInv, DuplicatesInv, NumbersInv, LimiterTypeOK', NEW r \in Requests,
           FlushFlag(r)
    PROVE  LocksInv' /\ DuplicatesInv' /\ NumbersInv'
<1> DEFINE l == request[r].load
           v == [request[r] EXCEPT !.at = "answered"]
<1>1. /\ InvoicesTypeOK /\ Active \subseteq Requests
      /\ r \in Active /\ request[r] \in Request /\ l \in Loads
      /\ None \notin Requests
      /\ request[r].at = "answering" /\ rowLock[l] = None /\ request[r].doc = None
  BY ActiveFacts DEF FlushFlag, LocksInv, DocsSound
<1>2. /\ v \in Request /\ v.load = l /\ v.doc = None /\ v.at = "answered"
      /\ v.number = request[r].number /\ v.drafted = request[r].drafted
  BY <1>1 DEF Request
<1>3. Changed(r, v)
  <2>1. request' = [request EXCEPT ![r] = v] BY DEF FlushFlag
  <2> HIDE DEF v
  <2> QED BY <1>1, <1>2, <2>1, RecordReplaced DEF Changed
<1>4. /\ number' = number /\ rows' = rows /\ newest' = newest /\ file' = file
      /\ clock' = clock /\ received' = received /\ updated' = updated
      /\ patching' = patching
      /\ overlapped' = overlapped /\ disturbed' = disturbed
      /\ events' = events /\ stage' = stage
      /\ rowLock' = [rowLock EXCEPT ![l] = r]
      /\ lock' = [lock EXCEPT ![l] = None]
  BY DEF FlushFlag, times, limiterVars, history
<1>5. /\ rowLock' \in [Loads -> Requests \cup {None}] /\ rowLock'[l] = r
      /\ lock' \in [Loads -> Requests \cup {None}]
      /\ \A m \in Loads : m # l => lock'[m] = lock[m] /\ rowLock'[m] = rowLock[m]
  BY <1>1, <1>4 DEF InvoicesTypeOK
<1>6. lock[l] = r BY <1>1 DEF LocksInv, LocksHeld, Holding
<1>7. \A q \in Active : request[q].load \in Loads
  BY <1>1, ActiveHasRecord DEF Request
<1> HIDE DEF v
<1>8. InvoicesTypeOK' BY <1>1, <1>2, <1>3, <1>4, <1>5 DEF InvoicesTypeOK, Changed
<1>9. LocksHeld'
  BY <1>1, <1>2, <1>3, <1>5, <1>6, <1>7
     DEF LocksInv, LocksHeld, Changed, Holding, Generating
<1>10. RowLocksHeld'
  BY <1>1, <1>2, <1>3, <1>5, <1>7 DEF LocksInv, RowLocksHeld, Changed
<1>11. /\ ActiveAreInside' /\ RowsAreOld' /\ RowsApart' /\ NewestIsRow'
       /\ TimesSound'
  BY <1>1, <1>3, <1>4
     DEF LocksInv, ActiveAreInside, RowsAreOld, RowsApart, NewestIsRow, TimesSound,
         Changed
<1>12. DocsSound' BY <1>1, <1>2, <1>3, <1>4, ActiveFacts DEF LocksInv, DocsSound, Changed
<1>13. NumbersGiven' BY <1>1, <1>2, <1>3 DEF LocksInv, NumbersGiven, Changed
<1>14. LocksInv' BY <1>8, <1>9, <1>10, <1>11, <1>12, <1>13 DEF LocksInv
<1>15. DuplicatesInv'
  <2>1. Drafting' = Drafting BY <1>1, <1>2, <1>3 DEF Drafting, Changed
  <2>2. Inserting' \subseteq Inserting
    BY <1>1, <1>2, <1>3, ActiveFacts DEF Inserting, Changed, Generating
  <2>3. /\ \A q \in Inserting' : request'[q].load = request[q].load
        /\ \A q \in Drafting' : /\ request'[q].load = request[q].load
                               /\ request'[q].number = request[q].number
    BY <1>1, <1>2, <1>3 DEF Inserting, Drafting, Changed
  <2> QED BY <1>1, <1>4, <2>1, <2>2, <2>3, DuplicatesKept
<1>16. FilesSound' /\ NewestSound'
  BY <1>1, <1>2, <1>3, <1>4, EarlyMoveKeepsFiles DEF NumbersInv
<1>17. NumbersCurrent'
  BY <1>1, <1>2, <1>3, <1>4 DEF NumbersInv, NumbersCurrent, Changed
<1> QED BY <1>14, <1>15, <1>16, <1>17 DEF NumbersInv

\* A document is of one load: a row of another load is no request's document.
LEMMA DocumentIsOfItsLoad ==
    ASSUME LocksInv, NEW r \in Active, request[r].doc # None
    PROVE  /\ \A m \in Loads : request[r].doc \in rows[m] => m = request[r].load
           /\ \A m \in Loads : newest[m] = request[r].doc => m = request[r].load
           /\ \A q \in Active : q # r /\ request[q].doc = request[r].doc
                  => request[q].load = request[r].load
<1>1. /\ InvoicesTypeOK /\ Active \subseteq Requests /\ None \notin Requests
      /\ \A q \in Active : request[q].load \in Loads /\ stage[q] = "inside"
  BY ActiveHasRecord, UploadsAssumption
     DEF Active, Request, LocksInv, ActiveAreInside
<1>2. \A q \in Active, m \in Loads : q \notin rows[m]
  BY <1>1 DEF LocksInv, RowsAreOld
<1>3. \A q \in Active : request[q].doc \in {None, q} \cup rows[request[q].load]
  BY DEF LocksInv, DocsSound
<1>4. \A m \in Loads : request[r].doc \in rows[m] => m = request[r].load
  BY <1>1, <1>2, <1>3 DEF LocksInv, RowsApart
<1>5. \A m \in Loads : newest[m] = request[r].doc => request[r].doc \in rows[m]
  BY DEF LocksInv, NewestIsRow
<1>6. ASSUME NEW q \in Active, q # r, request[q].doc = request[r].doc
      PROVE  request[q].load = request[r].load
  <2>1. CASE request[r].doc = r
    <3>1. r \in rows[request[q].load] BY <1>3, <1>6, <2>1, <1>1
    <3> QED BY <3>1, <1>1, <1>2
  <2>2. CASE request[q].doc = q
    <3>1. q \in rows[request[r].load] BY <1>1, <1>3, <1>6, <2>2
    <3> QED BY <3>1, <1>1, <1>2
  <2>3. CASE request[r].doc # r /\ request[q].doc # q
    <3>1. request[r].doc \in rows[request[r].load] /\ request[r].doc \in rows[request[q].load]
      BY <1>3, <1>6, <2>3
    <3> QED BY <3>1, <1>1, <1>4
  <2> QED BY <2>1, <2>2, <2>3
<1> QED BY <1>4, <1>5, <1>6

LEMMA SaveFileKeeps ==
    ASSUME LocksInv, DuplicatesInv, NumbersInv, LimiterTypeOK', NEW r \in Requests,
           SaveFile(r)
    PROVE  LocksInv' /\ DuplicatesInv' /\ NumbersInv'
<1> DEFINE l == request[r].load
           doc == IF request[r].doc = None THEN r ELSE request[r].doc
           v == [request[r] EXCEPT !.at = "saved", !.doc = doc]
<1>1. /\ InvoicesTypeOK /\ Active \subseteq Requests
      /\ r \in Active /\ request[r] \in Request /\ l \in Loads
      /\ None \notin Requests /\ r # None
      /\ request[r].at = "ready"
  BY ActiveFacts DEF SaveFile
<1>2. doc \in Doc /\ doc # None
  <2>1. request[r].doc \in Doc \cup {None} BY <1>1 DEF Request
  <2> QED BY <1>1, <2>1 DEF Doc
<1>3. /\ v \in Request /\ v.load = l /\ v.doc = doc /\ v.at = "saved"
      /\ v.number = request[r].number /\ v.drafted = request[r].drafted
  <2> HIDE DEF doc
  <2> QED BY <1>1, <1>2 DEF Request
<1>4. Changed(r, v)
  <2>1. request' = [request EXCEPT ![r] = v] BY DEF SaveFile
  <2> HIDE DEF v
  <2> QED BY <1>1, <1>3, <2>1, RecordReplaced DEF Changed
<1>5. /\ number' = number /\ rows' = rows /\ newest' = newest
      /\ clock' = clock /\ received' = received /\ updated' = updated
      /\ patching' = patching /\ lock' = lock
      /\ rowLock' = rowLock /\ overlapped' = overlapped /\ disturbed' = disturbed
      /\ events' = events /\ stage' = stage
      /\ file' = [file EXCEPT ![doc] = Own(r)]
  BY DEF SaveFile, times, limiterVars, history, Own
<1>6. Own(r) \in File /\ Own(r)' = Own(r)
  BY <1>1, <1>3, <1>4 DEF Own, File, Request, Changed
<1>7. /\ file' \in [Doc -> File \cup {None}] /\ file'[doc] = Own(r)
      /\ \A d \in Doc : d # doc => file'[d] = file[d]
  BY <1>1, <1>2, <1>5, <1>6 DEF InvoicesTypeOK
<1>8. lock[l] = r BY <1>1 DEF LocksInv, LocksHeld, Holding, Generating
<1>9. request[r].doc # r BY <1>1 DEF LocksInv, DocsSound
<1> HIDE DEF v, doc
<1>10. InvoicesTypeOK' BY <1>1, <1>3, <1>4, <1>5, <1>7 DEF InvoicesTypeOK, Changed
<1>11. LocksHeld' /\ RowLocksHeld'
  BY <1>1, <1>3, <1>4, <1>5, <1>8 DEF LocksInv, LocksHeld, RowLocksHeld, Changed, Holding, Generating
<1>12. /\ ActiveAreInside' /\ RowsAreOld' /\ RowsApart' /\ NewestIsRow'
       /\ TimesSound'
  BY <1>1, <1>4, <1>5
     DEF LocksInv, ActiveAreInside, RowsAreOld, RowsApart, NewestIsRow, TimesSound,
         Changed
<1>13. DocsSound'
  BY <1>1, <1>2, <1>3, <1>4, <1>5 DEF LocksInv, DocsSound, Changed, doc
<1>14. NumbersGiven' BY <1>1, <1>3, <1>4 DEF LocksInv, NumbersGiven, Changed
<1>15. LocksInv' BY <1>10, <1>11, <1>12, <1>13, <1>14 DEF LocksInv
<1>16. DuplicatesInv'
  <2>1. Drafting' = Drafting BY <1>1, <1>3, <1>4 DEF Drafting, Changed
  <2>2. Inserting' \subseteq Inserting
    BY <1>1, <1>3, <1>4, <1>9 DEF Inserting, Changed, doc, Generating
  <2>3. /\ \A q \in Inserting' : request'[q].load = request[q].load
        /\ \A q \in Drafting' : /\ request'[q].load = request[q].load
                               /\ request'[q].number = request[q].number
    BY <1>1, <1>3, <1>4 DEF Inserting, Drafting, Changed
  <2> QED BY <1>1, <1>5, <2>1, <2>2, <2>3, DuplicatesKept
<1>17. NumbersCurrent'
  BY <1>1, <1>3, <1>4, <1>5 DEF NumbersInv, NumbersCurrent, Changed
<1>18. \A q \in Active : request[q].doc # None => request[q].doc \in Doc
  BY <1>1, ActiveHasRecord DEF Request
<1>19. /\ \A m, d : m = l /\ d = doc => r \in SavingOn(m, d)'
       /\ \A m, d : SavingOn(m, d) \subseteq SavingOn(m, d)'
  <2>1. \A m, d : m = l /\ d = doc => r \in SavingOn(m, d)'
    BY <1>1, <1>3, <1>4 DEF SavingOn, ActiveOn, Changed
  <2>2. \A m, d : SavingOn(m, d) \subseteq SavingOn(m, d)'
    BY <1>1, <1>3, <1>4 DEF SavingOn, ActiveOn, Changed
  <2> QED BY <2>1, <2>2
<1>20. \A q \in Active : q # r /\ request[q].doc = doc => request[q].load = l
  <2>1. CASE request[r].doc # None
    BY <1>1, <2>1, DocumentIsOfItsLoad DEF doc
  <2>2. CASE request[r].doc = None
    <3> SUFFICES ASSUME NEW q \in Active, q # r, request[q].doc = r PROVE FALSE
      BY <2>2 DEF doc
    <3>1. r \in rows[request[q].load] BY <1>1 DEF LocksInv, DocsSound
    <3>2. request[q].load \in Loads BY <1>1, ActiveHasRecord DEF Request
    <3> QED BY <1>1, <3>1, <3>2 DEF LocksInv, RowsAreOld, ActiveAreInside
  <2> QED BY <2>1, <2>2
<1>21. FilesSound'
  <2> SUFFICES ASSUME NEW q \in Active', request'[q].at \in {"saved", "released"},
                      request'[q].at = "released" => request'[q].doc # None
               PROVE  /\ request'[q].at = "saved" =>
                             file'[request'[q].doc] \in {None, Own(q)'}
                      /\ request'[q].at = "released" =>
                            \/ file'[request'[q].doc] \in {None, Own(q)'}
                            \/ file'[request'[q].doc].by \in disturbed'
                            \/ SavingOn(request[q].load, request[q].doc)' # {}
    BY <1>1, <1>3, <1>4 DEF FilesSound, Changed
  <2>1. CASE q = r BY <1>3, <1>4, <1>6, <1>7, <2>1 DEF Changed
  <2>2. CASE q # r
    <3>1. q \in Active /\ request'[q] = request[q] /\ Own(q)' = Own(q)
      BY <1>1, <1>4, <2>2 DEF Changed, Own
    <3>2. request[q].doc # None
      BY <3>1 DEF LocksInv, DocsSound
    <3>3. CASE request[q].doc = doc
      <4>1. request[q].load = l BY <1>20, <2>2, <3>1, <3>3
      <4>2. request[q].at # "saved"
        BY <1>8, <2>2, <3>1, <4>1 DEF LocksInv, LocksHeld, Holding, Generating
      <4>3. PICK m \in Loads, d \in Doc : m = l /\ d = doc BY <1>1, <1>2
      <4>4. r \in SavingOn(m, d)' BY <1>19, <4>3
      <4>5. request'[q].load = m /\ request'[q].doc = d BY <3>1, <3>3, <4>1, <4>3
      <4> QED BY <3>1, <4>2, <4>4, <4>5
    <3>4. CASE request[q].doc # doc
      <4>1. file'[request[q].doc] = file[request[q].doc]
        BY <1>7, <1>18, <3>1, <3>2, <3>4
      <4> QED BY <1>5, <1>19, <3>1, <4>1 DEF NumbersInv, FilesSound
    <3> QED BY <3>3, <3>4
  <2> QED BY <2>1, <2>2
<1>22. NewestSound'
  <2> SUFFICES ASSUME NEW m \in Loads, newest[m] # None
               PROVE  \/ file'[newest[m]] = None
                      \/ file'[newest[m]].by \in {None} \cup disturbed
                      \/ Writers(m)' # {}
                      \/ /\ ~Late(m)
                         /\ Stale(m) \/ file'[newest[m]].number = number[m]
    BY <1>5 DEF NewestSound, Late, Overtaken, Stale
  <2>1. Writers(m) \subseteq Writers(m)'
    BY <1>1, <1>3, <1>4, <1>5 DEF Writers, ActiveOn, Changed
  <2>2. newest[m] \in Doc /\ newest[m] \in rows[m]
    BY <1>1 DEF InvoicesTypeOK, LocksInv, NewestIsRow
  <2>3. CASE newest[m] = doc
    <3>1. doc # r BY <1>1, <2>2, <2>3 DEF LocksInv, RowsAreOld, ActiveAreInside
    <3>2. request[r].doc = doc BY <3>1 DEF doc
    <3>3. m = l BY <1>1, <1>2, <2>3, <3>2, DocumentIsOfItsLoad
    <3>4. r \in Writers(m)'
      BY <1>1, <1>3, <1>4, <1>5, <2>3, <3>3 DEF Writers, ActiveOn, Changed
    <3> QED BY <3>4
  <2>4. CASE newest[m] # doc
    BY <1>7, <2>1, <2>2, <2>4 DEF NumbersInv, NewestSound
  <2> QED BY <2>3, <2>4
<1> QED BY <1>15, <1>16, <1>17, <1>21, <1>22 DEF NumbersInv

LEMMA FlushDocumentKeeps ==
    ASSUME LocksInv, DuplicatesInv, NumbersInv, LimiterTypeOK', NEW r \in Requests,
           FlushDocument(r)
    PROVE  LocksInv' /\ DuplicatesInv' /\ NumbersInv'
<1> DEFINE l == request[r].load
           v == [request[r] EXCEPT !.at = "released"]
<1>1. /\ InvoicesTypeOK /\ Active \subseteq Requests
      /\ r \in Active /\ request[r] \in Request /\ l \in Loads
      /\ None \notin Requests /\ r # None
      /\ request[r].at = "saved" /\ rowLock[l] \in {None, r}
  BY ActiveFacts DEF FlushDocument
<1>2. /\ v \in Request /\ v.load = l /\ v.doc = request[r].doc /\ v.at = "released"
      /\ v.number = request[r].number /\ v.drafted = request[r].drafted
  BY <1>1 DEF Request
<1>3. Changed(r, v)
  <2>1. request' = [request EXCEPT ![r] = v] BY DEF FlushDocument
  <2> HIDE DEF v
  <2> QED BY <1>1, <1>2, <2>1, RecordReplaced DEF Changed
<1>4. /\ number' = number /\ rows' = rows /\ newest' = newest /\ file' = file
      /\ clock' = [clock EXCEPT ![l] = clock[l] + 1] /\ received' = received /\ updated' = updated
      /\ patching' = patching
      /\ overlapped' = overlapped /\ disturbed' = disturbed
      /\ events' = events /\ stage' = stage
      /\ rowLock' = [rowLock EXCEPT ![l] = r]
      /\ lock' = [lock EXCEPT ![l] = None]
  BY DEF FlushDocument, limiterVars, history
<1>5. /\ rowLock' \in [Loads -> Requests \cup {None}] /\ rowLock'[l] = r
      /\ lock' \in [Loads -> Requests \cup {None}]
      /\ clock' \in [Loads -> Nat]
      /\ \A m \in Loads : m # l => lock'[m] = lock[m] /\ rowLock'[m] = rowLock[m]
  BY <1>1, <1>4 DEF InvoicesTypeOK
<1>6. lock[l] = r BY <1>1 DEF LocksInv, LocksHeld, Holding, Generating
<1>7. \A q \in Active : request[q].load \in Loads
  BY <1>1, ActiveHasRecord DEF Request
<1> HIDE DEF v
<1>8. InvoicesTypeOK' BY <1>1, <1>2, <1>3, <1>4, <1>5 DEF InvoicesTypeOK, Changed
<1>9. LocksHeld'
  BY <1>1, <1>2, <1>3, <1>5, <1>6, <1>7 DEF LocksInv, LocksHeld, Changed, Holding, Generating
<1>10. \A q \in Active : q # r /\ request[q].at = "released" /\ request[q].doc # None
          => request[q].load # l
  BY <1>1 DEF LocksInv, RowLocksHeld
<1>11. RowLocksHeld'
  BY <1>1, <1>2, <1>3, <1>5, <1>7, <1>10 DEF LocksInv, RowLocksHeld, Changed
<1>12. ActiveAreInside' /\ RowsAreOld' /\ RowsApart' /\ NewestIsRow'
  BY <1>1, <1>3, <1>4
     DEF LocksInv, ActiveAreInside, RowsAreOld, RowsApart, NewestIsRow, Changed
<1>12a. TimesSound'
  <2> SUFFICES ASSUME NEW m \in Loads PROVE received[m] <= clock'[m]
    BY <1>4 DEF TimesSound
  <2>1. received[m] \in Nat /\ clock[m] \in Nat /\ received[m] <= clock[m]
    BY <1>1 DEF InvoicesTypeOK, LocksInv, TimesSound
  <2>2. clock'[m] \in {clock[m], clock[m] + 1} BY <1>1, <1>4 DEF InvoicesTypeOK
  <2> QED BY <2>1, <2>2
<1>13. DocsSound' BY <1>1, <1>2, <1>3, <1>4 DEF LocksInv, DocsSound, Changed
<1>14. NumbersGiven' BY <1>1, <1>2, <1>3 DEF LocksInv, NumbersGiven, Changed
<1>15. LocksInv' BY <1>8, <1>9, <1>11, <1>12, <1>12a, <1>13, <1>14 DEF LocksInv
<1>16. DuplicatesInv'
  <2>1. Drafting' = Drafting BY <1>1, <1>2, <1>3 DEF Drafting, Changed
  <2>2. Inserting' \subseteq Inserting
    BY <1>1, <1>2, <1>3 DEF Inserting, Changed, Generating
  <2>3. /\ \A q \in Inserting' : request'[q].load = request[q].load
        /\ \A q \in Drafting' : /\ request'[q].load = request[q].load
                               /\ request'[q].number = request[q].number
    BY <1>1, <1>2, <1>3 DEF Inserting, Drafting, Changed
  <2> QED BY <1>1, <1>4, <2>1, <2>2, <2>3, DuplicatesKept
<1>17. NumbersCurrent'
  BY <1>1, <1>2, <1>3, <1>4 DEF NumbersInv, NumbersCurrent, Changed
<1>18. FilesSound'
  <2> SUFFICES ASSUME NEW q \in Active', request'[q].at \in {"saved", "released"},
                      request'[q].at = "released" => request'[q].doc # None
               PROVE  /\ request'[q].at = "saved" =>
                             file[request'[q].doc] \in {None, Own(q)'}
                      /\ request'[q].at = "released" =>
                            \/ file[request'[q].doc] \in {None, Own(q)'}
                            \/ file[request'[q].doc].by \in disturbed
                            \/ SavingOn(request[q].load, request[q].doc)' # {}
    BY <1>1, <1>2, <1>3, <1>4 DEF FilesSound, Changed
  <2>1. CASE q = r
    <3>1. Own(r)' = Own(r) BY <1>2, <1>3 DEF Own, Changed
    <3>2. file[request[r].doc] \in {None, Own(r)}
      BY <1>1 DEF NumbersInv, FilesSound
    <3> QED BY <1>2, <1>3, <2>1, <3>1, <3>2 DEF Changed
  <2>2. CASE q # r
    <3>1. q \in Active /\ request'[q] = request[q] /\ Own(q)' = Own(q)
      BY <1>1, <1>3, <2>2 DEF Changed, Own
    <3>2. CASE request[q].at = "saved"
      BY <3>1, <3>2 DEF NumbersInv, FilesSound
    <3>3. CASE request[q].at = "released"
      <4>1. request[q].load # l BY <1>10, <2>2, <3>1, <3>3
      <4>2. SavingOn(request[q].load, request[q].doc)
              \subseteq SavingOn(request[q].load, request[q].doc)'
        BY <1>1, <1>3, <3>1, <4>1 DEF SavingOn, ActiveOn, Changed
      <4> QED BY <3>1, <3>3, <4>2 DEF NumbersInv, FilesSound
    <3> QED BY <3>1, <3>2, <3>3
  <2> QED BY <2>1, <2>2
<1>19. NewestSound'
  <2>1. \A m : Writers(m) \subseteq Writers(m)'
    BY <1>1, <1>2, <1>3, <1>4 DEF Writers, ActiveOn, Changed
  <2> QED BY <1>4, <2>1 DEF NumbersInv, NewestSound, Late, Overtaken, Stale
<1> QED BY <1>15, <1>16, <1>17, <1>18, <1>19 DEF NumbersInv

\* What the steps have in common in which no request goes on: some end, and
\* have been disturbed or leave nothing behind; files are lost; numbers are
\* corrected, which disturbs who has read them.
Quiet ==
    /\ Active' \subseteq Active
    /\ \A q \in Active' :
           /\ request'[q] = request[q]
           /\ stage'[q] = stage[q]
           /\ lock[request[q].load] = q => lock'[request[q].load] = q
           /\ rowLock[request[q].load] = q => rowLock'[request[q].load] = q
    /\ \A q \in Active \ Active' :
           \/ q \in disturbed'
           \/ request[q].at \in {"released", "answered"} /\ request[q].doc = None
    /\ \A q \in Requests : stage[q] = "ended" => stage'[q] = "ended"
    /\ clock' = clock /\ received' = received
    /\ rows' = rows /\ newest' = newest /\ overlapped' = overlapped
    /\ disturbed \subseteq disturbed'
    /\ \A d \in Doc : file'[d] \in {None, file[d]}
    /\ \A l \in Loads : number'[l] # number[l] =>
           number'[l] \in {0, Manual} /\ ActiveOn(l) \subseteq disturbed'
    /\ \A l \in Loads :
           \/ /\ number'[l] = number[l]
              /\ Late(l)' => Late(l)
              /\ Stale(l) => Stale(l)' \/ WriterOf(newest[l]) \subseteq disturbed'
           \/ ~Late(l)' /\ Stale(l)'
           \/ Late(l)

LEMMA QuietKeeps ==
    ASSUME LocksInv, DuplicatesInv, NumbersInv, InvoicesTypeOK', Quiet
    PROVE  LocksInv' /\ DuplicatesInv' /\ NumbersInv'
<1>1. /\ InvoicesTypeOK /\ Active \subseteq Requests /\ Active' \subseteq Active
      /\ \A q \in Active' : request'[q] = request[q] /\ stage'[q] = stage[q]
      /\ \A q \in Active : request[q] \in Request /\ request[q].load \in Loads
  <2>1. InvoicesTypeOK /\ Active \subseteq Requests BY DEF LocksInv, Active
  <2>2. \A q \in Active : request[q] \in Request BY <2>1, ActiveHasRecord
  <2>3. \A q \in Active : request[q].load \in Loads BY <2>2 DEF Request
  <2> QED BY <2>1, <2>2, <2>3 DEF Quiet
<1>2. LocksInv'
  <2>1. LocksHeld' /\ RowLocksHeld'
    BY <1>1 DEF LocksInv, LocksHeld, RowLocksHeld, Quiet
  <2>2. ActiveAreInside' /\ RowsAreOld'
    BY <1>1 DEF LocksInv, ActiveAreInside, RowsAreOld, Quiet
  <2>3. RowsApart' /\ NewestIsRow' /\ TimesSound'
    BY DEF LocksInv, RowsApart, NewestIsRow, TimesSound, Quiet
  <2>4. DocsSound' BY <1>1 DEF LocksInv, DocsSound, Quiet
  <2>5. NumbersGiven' BY <1>1 DEF LocksInv, NumbersGiven
  <2> QED BY <2>1, <2>2, <2>3, <2>4, <2>5 DEF LocksInv
<1>3. DuplicatesInv'
  <2>1. Inserting' \subseteq Inserting /\ Drafting' \subseteq Drafting
    BY <1>1 DEF Inserting, Drafting
  <2>2. Inserting' \subseteq Active' /\ Drafting' \subseteq Active'
    BY DEF Inserting, Drafting
  <2>3. /\ \A q \in Inserting' : request'[q].load = request[q].load
        /\ \A q \in Drafting' : /\ request'[q].load = request[q].load
                               /\ request'[q].number = request[q].number
    BY <1>1, <2>2
  <2>4. /\ rows' = rows /\ overlapped \subseteq overlapped'
        /\ \A l \in Loads : number'[l] # number[l] => number'[l] \in {0, Manual}
    BY DEF Quiet
  <2> QED BY <1>1, <2>1, <2>3, <2>4, DuplicatesKept
<1>4. NumbersCurrent'
  <2> SUFFICES ASSUME NEW q \in Active', q \notin disturbed', request[q].number # 0,
                      ~request[q].drafted
               PROVE  number'[request[q].load] = request[q].number
    BY <1>1 DEF NumbersCurrent
  <2>1. q \in Active /\ q \notin disturbed /\ q \in ActiveOn(request[q].load)
    BY <1>1 DEF Quiet, ActiveOn
  <2>2. number'[request[q].load] = number[request[q].load]
    BY <1>1, <2>1 DEF Quiet
  <2> QED BY <2>1, <2>2 DEF NumbersInv, NumbersCurrent
<1>5. \A q \in Active, d \in Doc :
          q \notin Active' /\ request[q].doc = d /\ request[q].at = "saved"
             => file[d] = None \/ file[d].by \in disturbed'
  <2> SUFFICES ASSUME NEW q \in Active, q \notin Active', request[q].at = "saved"
               PROVE  LET d == request[q].doc
                      IN  file[d] = None \/ file[d].by \in disturbed'
    OBVIOUS
  <2>1. q \in disturbed' BY DEF Quiet
  <2>2. file[request[q].doc] \in {None, Own(q)} BY DEF NumbersInv, FilesSound
  <2> QED BY <2>1, <2>2 DEF Own
<1>6. \A l, d : \A q \in SavingOn(l, d) : q \in Active' => q \in SavingOn(l, d)'
  BY <1>1 DEF SavingOn, ActiveOn
<1>7. \A d \in Doc : file'[d] # None => file'[d] = file[d]
  BY DEF Quiet
<1>8. disturbed \subseteq disturbed' BY DEF Quiet
<1>9. FilesSound'
  <2> SUFFICES ASSUME NEW q \in Active', request[q].at \in {"saved", "released"},
                      request[q].at = "released" => request[q].doc # None,
                      file'[request[q].doc] # None
               PROVE  /\ request[q].at = "saved" => file'[request[q].doc] = Own(q)
                      /\ request[q].at = "released" =>
                            \/ file'[request[q].doc] = Own(q)
                            \/ file'[request[q].doc].by \in disturbed'
                            \/ SavingOn(request[q].load, request[q].doc)' # {}
    BY <1>1 DEF FilesSound, Own
  <2>1. request[q].doc \in Doc
    BY <1>1 DEF LocksInv, DocsSound, Request
  <2>2. file'[request[q].doc] = file[request[q].doc] BY <1>7, <2>1
  <2>3. q \in Active /\ request'[q] = request[q] BY <1>1
  <2>4. CASE request[q].at = "saved"
    BY <2>2, <2>3, <2>4 DEF NumbersInv, FilesSound
  <2>5. CASE request[q].at = "released"
    <3>1. CASE SavingOn(request[q].load, request[q].doc) # {}
      <4>1. PICK p \in SavingOn(request[q].load, request[q].doc) : TRUE BY <3>1
      <4>2. p \in Active /\ request[p].doc = request[q].doc /\ request[p].at = "saved"
        BY <4>1 DEF SavingOn, ActiveOn
      <4>3. CASE p \in Active'
        <5>1. PICK m \in Loads, d \in Doc :
                  m = request[q].load /\ d = request[q].doc
          BY <1>1, <2>1
        <5>2. p \in SavingOn(m, d)' BY <1>6, <4>1, <4>3, <5>1
        <5> QED BY <2>3, <2>5, <5>1, <5>2
      <4>4. CASE p \notin Active' BY <1>5, <2>1, <2>2, <2>5, <4>2, <4>4
      <4> QED BY <4>3, <4>4
    <3>2. CASE SavingOn(request[q].load, request[q].doc) = {}
      BY <1>8, <2>2, <2>3, <2>5, <3>2 DEF NumbersInv, FilesSound
    <3> QED BY <3>1, <3>2
  <2> QED BY <2>4, <2>5
<1>10. NewestSound'
  <2> SUFFICES ASSUME NEW m \in Loads, newest[m] # None, file'[newest[m]] # None
               PROVE  \/ file'[newest[m]].by \in {None} \cup disturbed'
                      \/ Writers(m)' # {}
                      \/ /\ ~Late(m)'
                         /\ Stale(m)' \/ file'[newest[m]].number = number'[m]
    BY DEF NewestSound, Quiet
  <2>1. newest[m] \in Doc BY <1>1 DEF InvoicesTypeOK
  <2>2. file'[newest[m]] = file[newest[m]] BY <1>7, <2>1
  <2>3. CASE file[newest[m]].by \in {None} \cup disturbed BY <1>8, <2>2, <2>3
  <2>4. \A p \in Writers(m) : p \in Active' => p \in Writers(m)'
    BY <1>1 DEF Writers, ActiveOn, Quiet
  <2>5. CASE Writers(m) # {}
    <3>1. PICK p \in Writers(m) : TRUE BY <2>5
    <3>2. /\ p \in Active /\ request[p].doc = newest[m] /\ request[p].load = m
          /\ request[p].at \in {"saved", "released"}
      BY <3>1 DEF Writers, ActiveOn
    <3>3. CASE p \in Active' BY <2>4, <3>1, <3>3
    <3>4. CASE p \notin Active' /\ request[p].at = "saved"
      BY <1>5, <2>1, <2>2, <3>2, <3>4
    <3>5. CASE p \notin Active' /\ request[p].at = "released"
      <4>1. p \in disturbed' BY <3>2, <3>5 DEF Quiet
      <4>2. \/ file[newest[m]] \in {None, Own(p)} \/ file[newest[m]].by \in disturbed
            \/ SavingOn(m, newest[m]) # {}
        BY <3>2, <3>5 DEF NumbersInv, FilesSound
      <4>3. CASE SavingOn(m, newest[m]) # {}
        <5>1. PICK q \in SavingOn(m, newest[m]) : TRUE BY <4>3
        <5>2. /\ q \in Active /\ q \in Writers(m)
              /\ request[q].doc = newest[m] /\ request[q].at = "saved"
          BY <5>1 DEF SavingOn, Writers, ActiveOn
        <5>3. CASE q \in Active' BY <2>4, <5>2, <5>3
        <5>4. CASE q \notin Active' BY <1>5, <2>1, <2>2, <5>2, <5>4
        <5> QED BY <5>3, <5>4
      <4>4. CASE SavingOn(m, newest[m]) = {}
        BY <1>8, <2>2, <4>1, <4>2, <4>4 DEF Own
      <4> QED BY <4>3, <4>4
    <3> QED BY <3>2, <3>3, <3>4, <3>5
  <2>6. CASE Writers(m) = {} /\ file[newest[m]].by \notin {None} \cup disturbed
    <3>1. /\ ~Late(m)
          /\ Stale(m) \/ file[newest[m]].number = number[m]
      BY <2>2, <2>6 DEF NumbersInv, NewestSound
    <3>2. CASE WriterOf(newest[m]) \subseteq disturbed'
      <4>1. file[newest[m]] \in File
        BY <1>1, <2>1, <2>2 DEF InvoicesTypeOK
      <4> QED BY <2>2, <3>2, <4>1 DEF WriterOf, File
    <3> QED BY <2>2, <3>1, <3>2 DEF Quiet
  <2> QED BY <2>3, <2>5, <2>6
<1> QED BY <1>2, <1>3, <1>4, <1>9, <1>10 DEF NumbersInv

\* The limiter moves a request that is not active.
LEMMA LimiterStepKeeps ==
    ASSUME IInv, LocksInv, DuplicatesInv, NumbersInv, LimiterTypeOK',
           NEW r \in Requests, Arrive(r) \/ Resume(r) \/ TimeOut(r),
           UNCHANGED invoiceVars
    PROVE  LocksInv' /\ DuplicatesInv' /\ NumbersInv'
<1>1. /\ number' = number /\ rows' = rows /\ newest' = newest /\ file' = file
      /\ clock' = clock /\ received' = received /\ updated' = updated
      /\ patching' = patching /\ request' = request
      /\ lock' = lock /\ rowLock' = rowLock /\ overlapped' = overlapped
      /\ disturbed' = disturbed /\ events' = events
  BY DEF invoiceVars, times, history
<1>2. Active' = Active /\ Active \subseteq Requests BY <1>1 DEF Active
<1>3. stage[r] \notin {"inside", "ended"} BY DEF Arrive, Resume, TimeOut
<1>4. \A q \in Requests : stage[q] \in {"inside", "ended"} => stage'[q] = stage[q]
  BY <1>3, OthersKeepTheirStage
<1>5. \A q \in Active : stage'[q] = stage[q]
  BY <1>2, <1>4 DEF LocksInv, ActiveAreInside
<1>6. InvoicesTypeOK' BY <1>1 DEF LocksInv, InvoicesTypeOK
<1>7. Quiet BY <1>1, <1>2, <1>4, <1>5 DEF Quiet, Late, Overtaken, Stale
<1> QED BY <1>6, <1>7, QuietKeeps

LEMMA FailKeeps ==
    ASSUME IInv, LocksInv, DuplicatesInv, NumbersInv, LimiterTypeOK',
           NEW r \in Requests, Fail(r)
    PROVE  LocksInv' /\ DuplicatesInv' /\ NumbersInv'
<1>1. /\ InvoicesTypeOK /\ Active \subseteq Requests /\ r \in Active
      /\ None \notin Requests
  BY UploadsAssumption DEF LocksInv, Active, Fail
<1>2. /\ request' = [request EXCEPT ![r] = NoRequest]
      /\ lock' = [l \in Loads |-> IF lock[l] \in {r} THEN None ELSE lock[l]]
      /\ rowLock' = [l \in Loads |-> IF rowLock[l] = r THEN None ELSE rowLock[l]]
      /\ number' = number /\ rows' = rows /\ newest' = newest /\ file' = file
      /\ clock' = clock /\ received' = received /\ updated' = updated
      /\ patching' = patching /\ overlapped' = overlapped
      /\ disturbed' = disturbed \cup {r}
      /\ Finish(r) /\ events < MaxEvents /\ events' = events + 1
  BY DEF Fail, RollBack, Without, Event, times
<1>3. /\ request' \in [Requests -> Request \cup {NoRequest}]
      /\ \A q \in Requests : q # r => request'[q] = request[q]
      /\ Active' = Active \ {r}
  BY <1>1, <1>2, RecordDropped
<1>4. /\ \A q \in Requests : q # r /\ stage[q] \in {"inside", "ended"}
             => stage'[q] = stage[q]
      /\ stage[r] # "ended"
  BY <1>2, OthersKeepTheirStage DEF Finish
<1>5. \A q \in Active : q # r => stage'[q] = stage[q]
  BY <1>1, <1>4 DEF LocksInv, ActiveAreInside
<1>6. InvoicesTypeOK'
  <2>1. /\ lock' \in [Loads -> Requests \cup {None}]
        /\ rowLock' \in [Loads -> Requests \cup {None}]
        /\ disturbed' \subseteq Requests
    BY <1>1, <1>2 DEF InvoicesTypeOK
  <2>2. events' \in 0 .. MaxEvents
    BY <1>1, <1>2, BoundsAssumption DEF InvoicesTypeOK
  <2> QED BY <1>1, <1>2, <1>3, <2>1, <2>2 DEF InvoicesTypeOK
<1>7. \A q \in Active : request[q].load \in Loads
  BY <1>1, ActiveHasRecord DEF Request
<1>8. Quiet
  <2>1. \A q \in Active' :
            /\ request'[q] = request[q]
            /\ stage'[q] = stage[q]
            /\ lock[request[q].load] = q => lock'[request[q].load] = q
            /\ rowLock[request[q].load] = q => rowLock'[request[q].load] = q
    BY <1>1, <1>2, <1>3, <1>5, <1>7
  <2> QED BY <1>1, <1>2, <1>3, <1>4, <2>1 DEF Quiet, Late, Overtaken, Stale
<1> QED BY <1>6, <1>8, QuietKeeps

LEMMA RestartDropsRequests ==
    ASSUME LocksInv, DuplicatesInv, NumbersInv, LimiterTypeOK', Restart
    PROVE  LocksInv' /\ DuplicatesInv' /\ NumbersInv'
<1>1. InvoicesTypeOK /\ Active \subseteq Requests BY DEF LocksInv, Active
<1>2. /\ request' = [r \in Requests |-> NoRequest]
      /\ lock' = [l \in Loads |-> None]
      /\ rowLock' = [l \in Loads |-> None]
      /\ disturbed' = disturbed \cup Active
      /\ patching' = [l \in Loads |-> None]
      /\ number' = number /\ rows' = rows /\ newest' = newest /\ file' = file
      /\ clock' = clock /\ received' = received /\ updated' = updated
      /\ overlapped' = overlapped
      /\ events < MaxEvents /\ events' = events + 1
      /\ \A r \in Requests : stage[r] = "ended" => stage'[r] = "ended"
  BY DEF Restart, Event, RestartLimiter
<1>3. Active' = {} BY <1>2 DEF Active
<1>4. InvoicesTypeOK'
  <2>1. events' \in 0 .. MaxEvents
    BY <1>1, <1>2, BoundsAssumption DEF InvoicesTypeOK
  <2> QED BY <1>1, <1>2, <2>1 DEF InvoicesTypeOK
<1>5. Quiet BY <1>2, <1>3 DEF Quiet, Late, Overtaken, Stale
<1> QED BY <1>4, <1>5, QuietKeeps

LEMMA BeginPatchKeeps ==
    ASSUME LocksInv, DuplicatesInv, NumbersInv, LimiterTypeOK', NEW l \in Loads,
           BeginPatch(l)
    PROVE  LocksInv' /\ DuplicatesInv' /\ NumbersInv'
<1>1. InvoicesTypeOK /\ Active \subseteq Requests BY DEF LocksInv, Active
<1>2. /\ number' = number /\ rows' = rows /\ newest' = newest /\ file' = file
      /\ clock' = clock /\ received' = received /\ updated' = updated
      /\ request' = request /\ stage' = stage
      /\ lock' = lock /\ rowLock' = rowLock /\ overlapped' = overlapped
      /\ disturbed' = disturbed
      /\ events < MaxEvents /\ events' = events + 1
      /\ patching' = [patching EXCEPT ![l] = clock[l]]
  BY DEF BeginPatch, Event, limiterVars
<1>3. Active' = Active BY <1>2 DEF Active
<1>4. /\ patching' \in [Loads -> Nat \cup {None}]
      /\ \A m \in Loads : Late(m)' => Late(m)
  <2>1. clock[l] \in Nat /\ received[l] \in Nat /\ received[l] <= clock[l]
    BY <1>1 DEF InvoicesTypeOK, LocksInv, TimesSound
  <2>2. patching' \in [Loads -> Nat \cup {None}] BY <1>1, <1>2, <2>1 DEF InvoicesTypeOK
  <2>3. ASSUME NEW m \in Loads, m # l PROVE Late(m)' => Late(m)
    BY <1>1, <1>2, <2>3 DEF InvoicesTypeOK, Late, Overtaken
  <2>4. ~Late(l)' BY <1>1, <1>2, <2>1 DEF InvoicesTypeOK, Late, Overtaken
  <2> QED BY <2>2, <2>3, <2>4
<1>5. InvoicesTypeOK'
  <2>1. events' \in 0 .. MaxEvents
    BY <1>1, <1>2, BoundsAssumption DEF InvoicesTypeOK
  <2> QED BY <1>1, <1>2, <1>4, <2>1 DEF InvoicesTypeOK
<1>6. Quiet BY <1>2, <1>3, <1>4 DEF Quiet, Stale
<1> QED BY <1>5, <1>6, QuietKeeps

LEMMA CommitPatchKeeps ==
    ASSUME LocksInv, DuplicatesInv, NumbersInv, LimiterTypeOK', NEW l \in Loads,
           NEW typed \in {0, Manual}, CommitPatch(l, typed)
    PROVE  LocksInv' /\ DuplicatesInv' /\ NumbersInv'
<1>1. InvoicesTypeOK /\ Active \subseteq Requests BY DEF LocksInv, Active
<1>2. /\ rows' = rows /\ newest' = newest /\ file' = file
      /\ request' = request /\ stage' = stage
      /\ lock' = lock /\ rowLock' = rowLock /\ overlapped' = overlapped
      /\ events' = events
      /\ disturbed' = disturbed \cup ActiveOn(l)
      /\ clock' = clock /\ received' = received
      /\ patching[l] # None
      /\ patching' = [patching EXCEPT ![l] = None]
      /\ number' = [number EXCEPT ![l] = typed]
      /\ updated' = [updated EXCEPT ![l] = patching[l]]
  BY DEF CommitPatch, limiterVars
<1>3. Active' = Active BY <1>2 DEF Active
<1>4. ActiveOn(l) \subseteq Requests /\ typed \in Int
  BY <1>1 DEF ActiveOn, Manual
<1>5. InvoicesTypeOK'
  <2>1. /\ patching' \in [Loads -> Nat \cup {None}]
        /\ number' \in [Loads -> Int] /\ disturbed' \subseteq Requests
    BY <1>1, <1>2, <1>4 DEF InvoicesTypeOK
  <2>2. updated' \in [Loads -> Nat] BY <1>1, <1>2 DEF InvoicesTypeOK
  <2> QED BY <1>1, <1>2, <2>1, <2>2 DEF InvoicesTypeOK
<1>6. \A m \in Loads : number'[m] # number[m] =>
          number'[m] \in {0, Manual} /\ ActiveOn(m) \subseteq disturbed'
  BY <1>1, <1>2 DEF InvoicesTypeOK
<1>7. ASSUME NEW m \in Loads
      PROVE  \/ /\ number'[m] = number[m]
                /\ Late(m)' => Late(m)
                /\ Stale(m) => Stale(m)'
             \/ ~Late(m)' /\ Stale(m)'
             \/ Late(m)
  <2>1. CASE m # l
    BY <1>1, <1>2, <2>1 DEF InvoicesTypeOK, Late, Overtaken, Stale
  <2>2. CASE m = l /\ ~Late(l)
    <3>1. patching[l] \in Nat /\ received[l] \in Nat /\ ~(patching[l] < received[l])
      BY <1>1, <1>2, <2>2 DEF InvoicesTypeOK, Late, Overtaken
    <3>2. ~Late(l)' BY <1>1, <1>2 DEF InvoicesTypeOK, Late, Overtaken
    <3>3. Stale(l)' BY <1>1, <1>2, <3>1 DEF InvoicesTypeOK, Stale
    <3> QED BY <2>2, <3>2, <3>3
  <2>3. CASE m = l /\ Late(l) BY <2>3
  <2> QED BY <2>1, <2>2, <2>3
<1>8. Quiet BY <1>2, <1>3, <1>6, <1>7 DEF Quiet
<1> QED BY <1>5, <1>8, QuietKeeps

LEMMA LoseFileKeeps ==
    ASSUME LocksInv, DuplicatesInv, NumbersInv, LimiterTypeOK', NEW d \in Doc,
           LoseFile(d)
    PROVE  LocksInv' /\ DuplicatesInv' /\ NumbersInv'
<1>1. InvoicesTypeOK /\ Active \subseteq Requests BY DEF LocksInv, Active
<1>2. /\ number' = number /\ rows' = rows /\ newest' = newest
      /\ clock' = clock /\ received' = received /\ updated' = updated
      /\ patching' = patching
      /\ request' = request /\ stage' = stage
      /\ lock' = lock /\ rowLock' = rowLock /\ overlapped' = overlapped
      /\ disturbed' = disturbed
      /\ events < MaxEvents /\ events' = events + 1
      /\ file' = [file EXCEPT ![d] = None]
  BY DEF LoseFile, Event, times, limiterVars
<1>3. Active' = Active BY <1>2 DEF Active
<1>4. /\ file' \in [Doc -> File \cup {None}]
      /\ \A e \in Doc : file'[e] \in {None, file[e]}
  BY <1>1, <1>2 DEF InvoicesTypeOK
<1>5. InvoicesTypeOK'
  <2>1. events' \in 0 .. MaxEvents
    BY <1>1, <1>2, BoundsAssumption DEF InvoicesTypeOK
  <2> QED BY <1>1, <1>2, <1>4, <2>1 DEF InvoicesTypeOK
<1>6. Quiet BY <1>2, <1>3, <1>4 DEF Quiet, Late, Overtaken, Stale
<1> QED BY <1>5, <1>6, QuietKeeps

LEMMA StutteringKeeps ==
    ASSUME LocksInv, DuplicatesInv, NumbersInv, UNCHANGED vars
    PROVE  LocksInv' /\ DuplicatesInv' /\ NumbersInv'
<1>1. /\ number' = number /\ rows' = rows /\ newest' = newest /\ file' = file
      /\ clock' = clock /\ received' = received /\ updated' = updated
      /\ patching' = patching /\ request' = request
      /\ lock' = lock /\ rowLock' = rowLock /\ overlapped' = overlapped
      /\ disturbed' = disturbed /\ events' = events
      /\ stage' = stage /\ queue' = queue /\ free' = free
  BY DEF vars, invoiceVars, times, history, limiterVars
<1>2. Active' = Active BY <1>1 DEF Active
<1>3. InvoicesTypeOK' BY <1>1 DEF LocksInv, InvoicesTypeOK, LimiterTypeOK
<1>4. Quiet BY <1>1, <1>2 DEF Quiet, Late, Overtaken, Stale
<1> QED BY <1>3, <1>4, QuietKeeps

\* A row that is received becomes the newest of its load, and no other load
\* notices.
LEMMA ReceivedIsNewest ==
    ASSUME InvoicesTypeOK, NEW l \in Loads, NEW doc \in Doc, NEW t \in Nat,
           NEW t0 \in Nat, Receive(l, doc, t, t0)
    PROVE  /\ rows' \in [Loads -> SUBSET Doc] /\ rows'[l] = rows[l] \cup {doc}
           /\ newest' \in [Loads -> Doc \cup {None}] /\ newest'[l] = doc
           /\ received' \in [Loads -> Nat] /\ received'[l] = t
           /\ updated' \in [Loads -> Nat]
           /\ \A m \in Loads : m # l =>
                  /\ rows'[m] = rows[m] /\ newest'[m] = newest[m]
                  /\ received'[m] = received[m] /\ updated'[m] = updated[m]
<1>1. /\ rows' = [rows EXCEPT ![l] = rows[l] \cup {doc}]
      /\ newest' = [newest EXCEPT ![l] = doc]
      /\ received' = [received EXCEPT ![l] = t]
      /\ updated' = [updated EXCEPT ![l] = t0]
  BY DEF Receive
<1>2. rows' \in [Loads -> SUBSET Doc] /\ rows'[l] = rows[l] \cup {doc}
  BY <1>1 DEF InvoicesTypeOK
<1>3. newest' \in [Loads -> Doc \cup {None}] /\ newest'[l] = doc
  BY <1>1 DEF InvoicesTypeOK
<1>4. received' \in [Loads -> Nat] /\ received'[l] = t /\ updated' \in [Loads -> Nat]
  BY <1>1 DEF InvoicesTypeOK
<1>5. \A m \in Loads : m # l =>
          /\ rows'[m] = rows[m] /\ newest'[m] = newest[m]
          /\ received'[m] = received[m] /\ updated'[m] = updated[m]
  BY <1>1 DEF InvoicesTypeOK
<1> QED BY <1>2, <1>3, <1>4, <1>5

\* Rows stay apart, and the newest is one of them, when a row is received that
\* no other load has.
LEMMA ReceivedIsApart ==
    ASSUME LocksInv, NEW l \in Loads, NEW doc \in Doc, NEW t \in Nat,
           NEW t0 \in Nat, Receive(l, doc, t, t0),
           \A m \in Loads : doc \in rows[m] => m = l
    PROVE  RowsApart' /\ NewestIsRow' /\ \A m \in Loads : rows[m] \subseteq rows'[m]
<1>1. InvoicesTypeOK /\ None \notin Doc
  BY UploadsAssumption DEF LocksInv, Doc
<1>2. /\ rows'[l] = rows[l] \cup {doc} /\ newest'[l] = doc
      /\ \A m \in Loads : m # l => rows'[m] = rows[m] /\ newest'[m] = newest[m]
  BY <1>1, ReceivedIsNewest
<1>3. RowsApart' BY <1>2 DEF LocksInv, RowsApart
<1>4. NewestIsRow' BY <1>1, <1>2 DEF LocksInv, NewestIsRow
<1>5. \A m \in Loads : rows[m] \subseteq rows'[m] BY <1>2
<1> QED BY <1>3, <1>4, <1>5

LEMMA UploadInvoiceKeeps ==
    ASSUME LocksInv, DuplicatesInv, NumbersInv, LimiterTypeOK', NEW l \in Loads,
           NEW d \in Uploads, UploadInvoice(l, d)
    PROVE  LocksInv' /\ DuplicatesInv' /\ NumbersInv'
<1>1. /\ InvoicesTypeOK /\ Active \subseteq Requests
      /\ None \notin Doc /\ d \in Doc /\ d \notin Requests
      /\ \A m \in Loads : d \notin rows[m]
  BY UploadsAssumption DEF LocksInv, Active, Doc, UploadInvoice
<1>2. /\ number' = number /\ request' = request /\ stage' = stage
      /\ patching' = patching
      /\ lock' = lock /\ rowLock' = rowLock /\ overlapped' = overlapped
      /\ disturbed' = disturbed
      /\ events < MaxEvents /\ events' = events + 1
      /\ file' = [file EXCEPT ![d] = [number |-> Manual, by |-> None]]
      /\ clock' = [clock EXCEPT ![l] = clock[l] + 1]
      /\ Receive(l, d, clock[l] + 1, clock[l])
  BY DEF UploadInvoice, Event, limiterVars
<1>3. Active' = Active BY <1>2 DEF Active
<1>4. /\ file' \in [Doc -> File \cup {None}] /\ file'[d].by = None
      /\ \A e \in Doc : e # d => file'[e] = file[e]
  <2>1. [number |-> Manual, by |-> None] \in File BY DEF File, Manual
  <2> QED BY <1>1, <1>2, <2>1 DEF InvoicesTypeOK
<1>4a. /\ clock[l] \in Nat /\ clock[l] + 1 \in Nat /\ clock' \in [Loads -> Nat]
       /\ clock'[l] = clock[l] + 1
       /\ \A m \in Loads : m # l => clock'[m] = clock[m]
  BY <1>1, <1>2 DEF InvoicesTypeOK
<1>5. /\ rows'[l] = rows[l] \cup {d} /\ newest'[l] = d
      /\ received'[l] = clock[l] + 1
      /\ \A m \in Loads : m # l =>
             /\ rows'[m] = rows[m] /\ newest'[m] = newest[m]
             /\ received'[m] = received[m] /\ updated'[m] = updated[m]
  BY <1>1, <1>2, <1>4a, ReceivedIsNewest
<1>6. InvoicesTypeOK'
  <2>1. events' \in 0 .. MaxEvents
    BY <1>1, <1>2, BoundsAssumption DEF InvoicesTypeOK
  <2>2. /\ rows' \in [Loads -> SUBSET Doc]
        /\ newest' \in [Loads -> Doc \cup {None}]
        /\ received' \in [Loads -> Nat] /\ updated' \in [Loads -> Nat]
    BY <1>1, <1>2, <1>4a, ReceivedIsNewest
  <2> QED BY <1>1, <1>2, <1>4, <1>4a, <2>1, <2>2 DEF InvoicesTypeOK
<1>7. RowsApart' /\ NewestIsRow' /\ \A m \in Loads : rows[m] \subseteq rows'[m]
  BY <1>1, <1>2, <1>4a, ReceivedIsApart
<1>8. \A m \in Loads : rows'[m] \cap Requests = rows[m] \cap Requests
  BY <1>1, <1>5
<1>9. \A q \in Active : request[q] \in Request /\ request[q].load \in Loads
  BY <1>1, ActiveHasRecord DEF Request
<1>10. \A q \in Active : request[q].doc # d
  BY <1>1, <1>9 DEF LocksInv, DocsSound, Doc
<1>11. LocksInv'
  <2>1. LocksHeld' /\ RowLocksHeld' /\ ActiveAreInside'
    BY <1>2, <1>3 DEF LocksInv, LocksHeld, RowLocksHeld, ActiveAreInside
  <2>2. RowsAreOld' BY <1>2, <1>8 DEF LocksInv, RowsAreOld
  <2>3. DocsSound' BY <1>2, <1>3, <1>7, <1>9 DEF LocksInv, DocsSound
  <2>4. NumbersGiven' BY <1>2, <1>3 DEF LocksInv, NumbersGiven
  <2>5. TimesSound' BY <1>1, <1>4a, <1>5 DEF InvoicesTypeOK, LocksInv, TimesSound
  <2> QED BY <1>6, <1>7, <2>1, <2>2, <2>3, <2>4, <2>5 DEF LocksInv
<1>12. DuplicatesInv'
  <2>1. Inserting' = Inserting /\ Drafting' = Drafting /\ Listed' = Listed
    BY <1>2, <1>3 DEF Inserting, Drafting, Listed
  <2>2. Inserting \subseteq Active BY DEF Inserting
  <2>3. InsertionsOverlap'
    BY <1>2, <1>8, <1>9, <2>1, <2>2 DEF DuplicatesInv, InsertionsOverlap
  <2>4. SecondInvoiceOverlapped'
    BY <1>2, <1>8 DEF DuplicatesInv, SecondInvoiceOverlapped
  <2>5. DraftsOverlap' BY <1>2, <2>1 DEF DuplicatesInv, DraftsOverlap
  <2>6. SameNumberOverlapped'
    BY <1>2, <2>1 DEF DuplicatesInv, SameNumberOverlapped
  <2> QED BY <2>3, <2>4, <2>5, <2>6 DEF DuplicatesInv
<1>13. NumbersCurrent' BY <1>2, <1>3 DEF NumbersInv, NumbersCurrent
<1>14. FilesSound'
  <2> SUFFICES ASSUME NEW q \in Active, request[q].at \in {"saved", "released"},
                      request[q].at = "released" => request[q].doc # None
               PROVE  /\ request[q].at = "saved" =>
                             file'[request[q].doc] \in {None, Own(q)}
                      /\ request[q].at = "released" =>
                            \/ file'[request[q].doc] \in {None, Own(q)}
                            \/ file'[request[q].doc].by \in disturbed
                            \/ SavingOn(request[q].load, request[q].doc) # {}
    BY <1>2, <1>3 DEF FilesSound, Own, SavingOn, ActiveOn
  <2>1. request[q].doc \in Doc
    BY <1>9 DEF LocksInv, DocsSound, Request
  <2>2. file'[request[q].doc] = file[request[q].doc] BY <1>4, <1>10, <2>1
  <2> QED BY <2>2 DEF NumbersInv, FilesSound
<1>15. NewestSound'
  <2> SUFFICES ASSUME NEW m \in Loads
               PROVE  \/ newest'[m] = None \/ file'[newest'[m]] = None
                      \/ file'[newest'[m]].by \in {None} \cup disturbed
                      \/ Writers(m)' # {}
                      \/ /\ ~Late(m)'
                         /\ Stale(m)' \/ file'[newest'[m]].number = number[m]
    BY <1>2 DEF NewestSound
  <2>1. CASE m = l BY <1>4, <1>5, <2>1
  <2>2. CASE m # l /\ newest[m] # None
    <3>1. newest[m] \in rows[m] /\ newest[m] \in Doc
      BY <1>1, <2>2 DEF LocksInv, NewestIsRow, InvoicesTypeOK
    <3>2. file'[newest[m]] = file[newest[m]] BY <1>1, <1>4, <3>1
    <3>3. Writers(m)' = Writers(m)
      BY <1>2, <1>3, <1>5, <2>2 DEF Writers, ActiveOn
    <3>4. (Late(m)' <=> Late(m)) /\ (Stale(m)' <=> Stale(m))
      BY <1>2, <1>5, <2>2 DEF Late, Overtaken, Stale
    <3> QED BY <1>5, <2>2, <3>2, <3>3, <3>4 DEF NumbersInv, NewestSound
  <2>3. CASE m # l /\ newest[m] = None BY <1>5, <2>3
  <2> QED BY <2>1, <2>2, <2>3
<1> QED BY <1>11, <1>12, <1>13, <1>14, <1>15 DEF NumbersInv

LEMMA CommitKeeps ==
    ASSUME IInv, LocksInv, DuplicatesInv, NumbersInv, LimiterTypeOK',
           NEW r \in Requests, Commit(r)
    PROVE  LocksInv' /\ DuplicatesInv' /\ NumbersInv'
<1>1. /\ InvoicesTypeOK /\ Active \subseteq Requests
      /\ r \in Active /\ request[r] \in Request /\ request[r].load \in Loads
      /\ None \notin Requests /\ r # None
      /\ request[r].at \in {"released", "answered"}
  BY ActiveFacts DEF Commit
<1>2. PICK l \in Loads, doc \in Doc \cup {None} :
          l = request[r].load /\ doc = request[r].doc
  <2>1. request[r].doc \in Doc \cup {None} BY <1>1 DEF Request
  <2> QED BY <1>1, <2>1
<1>3. /\ request' = [request EXCEPT ![r] = NoRequest] /\ Finish(r)
      /\ file' = file /\ lock' = lock /\ overlapped' = overlapped /\ events' = events
      /\ clock' = clock /\ patching' = patching
  BY DEF Commit
<1>4. /\ request' \in [Requests -> Request \cup {NoRequest}]
      /\ \A q \in Requests : q # r => request'[q] = request[q]
      /\ Active' = Active \ {r}
  BY <1>1, <1>3, RecordDropped
<1>5. \A q \in Requests : q # r /\ stage[q] \in {"inside", "ended"}
          => stage'[q] = stage[q]
  BY <1>3, OthersKeepTheirStage
<1>6. stage'[r] = "ended" BY <1>3, FinishedHasEnded
<1>7. \A q \in Active : q # r => stage'[q] = stage[q]
  BY <1>1, <1>5 DEF LocksInv, ActiveAreInside
<1>8. \A q \in Active : request[q] \in Request /\ request[q].load \in Loads
  BY <1>1, ActiveHasRecord DEF Request
<1>9. /\ clock[l] \in Nat /\ request[r].began \in Nat
      /\ received \in [Loads -> Nat] /\ updated \in [Loads -> Nat]
  BY <1>1 DEF InvoicesTypeOK, Request
<1>10. CASE CommitAnswer(r)
  <2>1. /\ number' = number /\ rows' = rows /\ newest' = newest /\ received' = received
        /\ request[r].doc = None
    BY <1>10 DEF CommitAnswer
  <2>2. CASE request[r].at = "released"
    <3>1. updated' = updated /\ rowLock' = rowLock /\ disturbed' = disturbed
      BY <1>10, <2>2 DEF CommitAnswer
    <3>2. InvoicesTypeOK' BY <1>1, <1>3, <1>4, <2>1, <3>1 DEF InvoicesTypeOK
    <3>3. Quiet
      BY <1>1, <1>3, <1>4, <1>5, <1>6, <1>7, <2>1, <2>2, <3>1
         DEF Quiet, Late, Overtaken, Stale
    <3> QED BY <3>2, <3>3, QuietKeeps
  <2>3. CASE request[r].at = "answered"
    <3>1. /\ updated' = [updated EXCEPT ![l] = request[r].began]
          /\ rowLock' = [rowLock EXCEPT ![l] = None]
          /\ disturbed \subseteq disturbed' /\ disturbed' \subseteq Requests
          /\ updated[l] >= received[l] /\ received[l] > request[r].began
                => WriterOf(newest[l]) \subseteq disturbed'
      BY <1>1, <1>2, <1>10, <2>3 DEF CommitAnswer, InvoicesTypeOK, WriterOf
    <3>2. InvoicesTypeOK'
      BY <1>1, <1>3, <1>4, <1>9, <2>1, <3>1 DEF InvoicesTypeOK
    <3>3. rowLock[l] = r BY <1>1, <1>2, <2>3 DEF LocksInv, RowLocksHeld
    <3>4. \A q \in Active' :
              /\ request'[q] = request[q] /\ stage'[q] = stage[q]
              /\ rowLock[request[q].load] = q => rowLock'[request[q].load] = q
      BY <1>1, <1>4, <1>7, <1>8, <3>1, <3>3 DEF InvoicesTypeOK
    <3>5. \A m \in Loads : /\ Late(m)' <=> Late(m)
                           /\ m # l => (Stale(m)' <=> Stale(m))
      BY <1>3, <1>9, <2>1, <3>1 DEF Late, Overtaken, Stale
    <3>6. Stale(l) => Stale(l)' \/ WriterOf(newest[l]) \subseteq disturbed'
      <4>1. updated'[l] = request[r].began BY <1>9, <3>1
      <4> QED BY <1>9, <2>1, <3>1, <4>1 DEF Stale
    <3>7. Quiet
      BY <1>1, <1>3, <1>4, <1>5, <1>6, <2>1, <2>3, <3>1, <3>4, <3>5, <3>6 DEF Quiet
    <3> QED BY <3>2, <3>7, QuietKeeps
  <2> QED BY <1>1, <2>2, <2>3
<1>11. CASE CommitInvoice(r)
  <2>0. doc # None /\ request[r].at = "released"
    BY <1>1, <1>2, <1>11 DEF CommitInvoice, LocksInv, DocsSound
  <2>1. doc \in Doc BY <1>1, <1>2, <2>0 DEF Request
  <2>2. PICK n \in Int : n = request[r].number BY <1>1 DEF Request
  <2>3. PICK drafted \in BOOLEAN : drafted = request[r].drafted
    BY <1>1 DEF Request
  <2>4. /\ number' = [number EXCEPT ![l] = IF drafted THEN n ELSE number[l]]
        /\ Receive(l, doc, clock[l], request[r].began)
        /\ rowLock' = [rowLock EXCEPT ![l] = None]
        /\ disturbed' = disturbed
               \cup (IF Overtaken(l, clock[l]) THEN {r} ELSE {})
               \cup IF drafted THEN Misled(l, n) ELSE {}
    BY <1>2, <1>11, <2>2, <2>3 DEF CommitInvoice
  <2>5. /\ \A m \in Loads : doc \in rows[m] => m = l
        /\ \A q \in Active : q # r /\ request[q].doc = doc => request[q].load = l
    BY <1>1, <1>2, <2>0, DocumentIsOfItsLoad
  <2>6. /\ rows'[l] = rows[l] \cup {doc} /\ newest'[l] = doc
        /\ received'[l] = clock[l]
        /\ \A m \in Loads : m # l =>
               /\ rows'[m] = rows[m] /\ newest'[m] = newest[m]
               /\ received'[m] = received[m] /\ updated'[m] = updated[m]
    BY <1>1, <1>9, <2>1, <2>4, ReceivedIsNewest
  <2>7. /\ number' \in [Loads -> Int]
        /\ number'[l] = (IF drafted THEN n ELSE number[l])
        /\ \A m \in Loads : m # l => number'[m] = number[m]
    BY <1>1, <2>4 DEF InvoicesTypeOK
  <2>8. /\ rowLock' \in [Loads -> Requests \cup {None}]
        /\ \A m \in Loads : m # l => rowLock'[m] = rowLock[m]
    BY <1>1, <2>4 DEF InvoicesTypeOK
  <2>9. /\ disturbed \subseteq disturbed' /\ disturbed' \subseteq Requests
        /\ Overtaken(l, clock[l]) => r \in disturbed'
        /\ drafted => Misled(l, n) \subseteq disturbed'
    BY <1>1, <2>4 DEF InvoicesTypeOK, Misled, ActiveOn
  <2>10. InvoicesTypeOK'
    <3>1. /\ rows' \in [Loads -> SUBSET Doc]
          /\ newest' \in [Loads -> Doc \cup {None}]
          /\ received' \in [Loads -> Nat] /\ updated' \in [Loads -> Nat]
      BY <1>1, <1>9, <2>1, <2>4, ReceivedIsNewest
    <3> QED BY <1>1, <1>3, <1>4, <2>7, <2>8, <2>9, <3>1 DEF InvoicesTypeOK
  <2>11. RowsApart' /\ NewestIsRow' /\ \A m \in Loads : rows[m] \subseteq rows'[m]
    BY <1>9, <2>1, <2>4, <2>5, ReceivedIsApart
  <2>12. \A q \in Active' : q \in Active /\ q # r /\ request'[q] = request[q]
    BY <1>1, <1>4
  <2>13. doc \in Requests /\ doc \notin rows[l] => doc = r /\ r \in Inserting
    <3>1. doc \in {None, r} \cup rows[l] BY <1>1, <1>2 DEF LocksInv, DocsSound
    <3> QED BY <1>1, <1>2, <2>0, <3>1 DEF Inserting
  <2>14. LocksInv'
    <3>1. LocksHeld' BY <1>3, <2>12 DEF LocksInv, LocksHeld
    <3>2. rowLock[l] = r BY <1>1, <1>2, <2>0 DEF LocksInv, RowLocksHeld
    <3>3. RowLocksHeld'
      BY <1>8, <2>8, <2>12, <3>2 DEF LocksInv, RowLocksHeld
    <3>4. ActiveAreInside' BY <1>7, <2>12 DEF LocksInv, ActiveAreInside
    <3>5. RowsAreOld'
      <4>1. \A m \in Loads : \A q \in rows[m] \cap Requests : stage'[q] = "ended"
        BY <1>5, <1>6 DEF LocksInv, RowsAreOld
      <4>2. ASSUME NEW m \in Loads, NEW q \in rows'[m] \cap Requests
            PROVE  q \in rows[m] \/ q = r
        BY <2>6, <2>13
      <4> QED BY <1>6, <4>1, <4>2 DEF RowsAreOld
    <3>6. DocsSound' BY <1>8, <2>11, <2>12 DEF LocksInv, DocsSound
    <3>7. NumbersGiven' BY <2>12 DEF LocksInv, NumbersGiven
    <3>8. TimesSound' BY <1>3, <1>9, <2>6 DEF LocksInv, TimesSound
    <3> QED BY <2>10, <2>11, <3>1, <3>3, <3>4, <3>5, <3>6, <3>7, <3>8 DEF LocksInv
  <2>15. \A x, y : {x, y} = {y, x} OBVIOUS
  <2>16. Listed' = Listed BY DEF Listed
  <2>17. InsertionsOverlap'
    <3>1. \A q \in Inserting' : q \in Inserting /\ q \in Active /\ q # r
                                /\ request'[q] = request[q]
      BY <2>12 DEF Inserting
    <3>2. ASSUME NEW q \in Inserting', NEW d \in rows'[request[q].load] \cap Requests
          PROVE  {d, q} \in overlapped
      <4>1. CASE d \in rows[request[q].load]
        BY <3>1, <3>2, <4>1 DEF DuplicatesInv, InsertionsOverlap
      <4>2. CASE d \notin rows[request[q].load]
        <5>1. request[q].load = l /\ d = doc BY <1>8, <2>6, <3>1, <3>2, <4>2
        <5>2. d = r /\ r \in Inserting BY <2>13, <3>2, <4>2, <5>1
        <5> QED BY <1>2, <3>1, <5>1, <5>2 DEF DuplicatesInv, InsertionsOverlap
      <4> QED BY <4>1, <4>2
    <3>3. ASSUME NEW p \in Inserting', NEW q \in Inserting', q # p,
                 request[q].load = request[p].load
          PROVE  {q, p} \in overlapped
      BY <3>1, <3>3 DEF DuplicatesInv, InsertionsOverlap
    <3> QED BY <1>3, <3>1, <3>2, <3>3 DEF InsertionsOverlap
  <2>18. SecondInvoiceOverlapped'
    <3> SUFFICES ASSUME NEW m \in Loads, NEW d \in rows'[m] \cap Requests,
                        NEW e \in rows'[m] \cap Requests, d # e
                 PROVE  {d, e} \in overlapped
      BY <1>3 DEF SecondInvoiceOverlapped
    <3>1. CASE d \in rows[m] /\ e \in rows[m]
      BY <3>1 DEF DuplicatesInv, SecondInvoiceOverlapped
    <3>2. CASE d \in rows[m] /\ e \notin rows[m]
      <4>1. m = l /\ e = r /\ r \in Inserting BY <2>6, <2>13, <3>2
      <4> QED BY <1>2, <3>2, <4>1 DEF DuplicatesInv, InsertionsOverlap
    <3>3. CASE d \notin rows[m] /\ e \in rows[m]
      <4>1. m = l /\ d = r /\ r \in Inserting BY <2>6, <2>13, <3>3
      <4>2. {e, r} \in overlapped
        BY <1>2, <3>3, <4>1 DEF DuplicatesInv, InsertionsOverlap
      <4> QED BY <2>15, <4>1, <4>2
    <3>4. CASE d \notin rows[m] /\ e \notin rows[m] BY <2>6, <3>4
    <3> QED BY <3>1, <3>2, <3>3, <3>4
  <2>19. drafted => r \in Drafting /\ n > 0
    BY <1>1, <2>2, <2>3 DEF Drafting, DuplicatesInv, DraftsOverlap
  <2>20. DraftsOverlap'
    <3>1. \A q \in Drafting' : q \in Drafting /\ q # r /\ request'[q] = request[q]
      BY <2>12 DEF Drafting
    <3>2. ASSUME NEW q \in Drafting', NEW m \in Loads, Listed = Loads,
                 m # request[q].load, number'[m] = request[q].number
          PROVE  {m, request[q].load} \in overlapped
      <4>1. CASE number'[m] = number[m]
        BY <3>1, <3>2, <4>1 DEF DuplicatesInv, DraftsOverlap
      <4>2. CASE number'[m] # number[m]
        <5>1. m = l /\ drafted BY <2>7, <4>2
        <5>2. r \in Drafting BY <2>19, <5>1
        <5> QED BY <1>2, <3>1, <3>2, <5>1, <5>2 DEF DuplicatesInv, DraftsOverlap
      <4> QED BY <4>1, <4>2
    <3> QED BY <1>3, <2>16, <3>1, <3>2 DEF DuplicatesInv, DraftsOverlap
  <2>21. SameNumberOverlapped'
    <3> SUFFICES ASSUME Listed = Loads, NEW k \in Loads, NEW m \in Loads, k # m,
                        number'[k] = number'[m], number'[k] > 0
                 PROVE  {k, m} \in overlapped
      BY <1>3, <2>16 DEF SameNumberOverlapped
    <3>1. CASE number'[k] = number[k] /\ number'[m] = number[m]
      BY <3>1 DEF DuplicatesInv, SameNumberOverlapped
    <3>2. CASE number'[k] # number[k]
      <4>1. k = l /\ drafted BY <2>7, <3>2
      <4>2. number[m] = request[r].number BY <2>2, <2>7, <4>1
      <4>3. {m, k} \in overlapped
        BY <1>2, <2>19, <4>1, <4>2 DEF DuplicatesInv, DraftsOverlap
      <4> QED BY <2>15, <4>3
    <3>3. CASE number'[m] # number[m]
      <4>1. m = l /\ drafted BY <2>7, <3>3
      <4>2. number[k] = request[r].number BY <2>2, <2>7, <4>1
      <4> QED BY <1>2, <2>19, <4>1, <4>2 DEF DuplicatesInv, DraftsOverlap
    <3> QED BY <3>1, <3>2, <3>3
  <2>22. NumbersCurrent'
    <3> SUFFICES ASSUME NEW q \in Active', q \notin disturbed', request[q].number # 0,
                        ~request[q].drafted
                 PROVE  number'[request[q].load] = request[q].number
      BY <2>12 DEF NumbersCurrent
    <3>1. q \in Active \ disturbed BY <2>9, <2>12
    <3>2. number[request[q].load] = request[q].number
      BY <3>1 DEF NumbersInv, NumbersCurrent
    <3>3. CASE request[q].load # l \/ ~drafted BY <1>8, <2>7, <3>1, <3>2, <3>3
    <3>4. CASE request[q].load = l /\ drafted
      <4>1. q \notin Misled(l, n) BY <2>9, <3>4
      <4>2. request[q].number \in {0, n} BY <3>1, <3>4, <4>1 DEF Misled, ActiveOn
      <4> QED BY <2>7, <3>4, <4>2
    <3> QED BY <3>3, <3>4
  <2>23. \A k, d : SavingOn(k, d) \subseteq SavingOn(k, d)'
    BY <1>1, <1>4 DEF SavingOn, ActiveOn
  <2>24. FilesSound'
    <3> SUFFICES ASSUME NEW q \in Active', request[q].at \in {"saved", "released"},
                        request[q].at = "released" => request[q].doc # None
                 PROVE  /\ request[q].at = "saved" =>
                               file[request[q].doc] \in {None, Own(q)}
                        /\ request[q].at = "released" =>
                              \/ file[request[q].doc] \in {None, Own(q)}
                              \/ file[request[q].doc].by \in disturbed'
                              \/ SavingOn(request[q].load, request[q].doc)' # {}
      BY <1>3, <2>12 DEF FilesSound, Own
    <3>1. request'[q] = request[q] /\ q \in Active BY <2>12
    <3>2. PICK k \in Loads, d \in Doc \cup {None} :
              k = request[q].load /\ d = request[q].doc
      BY <1>8, <3>1 DEF Request
    <3>3. SavingOn(k, d) \subseteq SavingOn(k, d)' BY <2>23
    <3> QED BY <2>9, <3>1, <3>2, <3>3 DEF NumbersInv, FilesSound
  <2>25. NewestSound'
    <3> SUFFICES ASSUME NEW m \in Loads
                 PROVE  \/ newest'[m] = None \/ file[newest'[m]] = None
                        \/ file[newest'[m]].by \in {None} \cup disturbed'
                        \/ Writers(m)' # {}
                        \/ /\ ~Late(m)'
                           /\ Stale(m)' \/ file[newest'[m]].number = number'[m]
      BY <1>3 DEF NewestSound
    <3>1. CASE m = l
      <4> SUFFICES ASSUME file[doc] # None, file[doc].by \notin disturbed',
                          Writers(l)' = {}
                   PROVE  /\ ~Late(l)'
                          /\ file[doc].number = number'[l]
        BY <2>6, <3>1
      <4>1. SavingOn(l, doc) = {}
        <5>1. \A q \in SavingOn(l, doc) : q \in Writers(l)'
          BY <1>1, <1>4, <2>6 DEF SavingOn, Writers, ActiveOn
        <5> QED BY <5>1
      <4>2. file[doc] = Own(r)
        BY <1>1, <1>2, <2>0, <2>9, <4>1 DEF NumbersInv, FilesSound
      <4>3. file[doc].number = n /\ r \notin disturbed' BY <2>2, <4>2 DEF Own
      <4>4. ~Late(l)' BY <1>3, <2>6, <2>9, <4>3 DEF Late, Overtaken
      <4>5. CASE drafted BY <2>7, <4>3, <4>4, <4>5
      <4>6. CASE ~drafted
        <5>1. n # 0 BY <1>1, <1>2, <2>0, <2>2 DEF LocksInv, NumbersGiven
        <5>2. number[l] = n
          BY <1>1, <1>2, <2>2, <2>3, <2>9, <4>3, <4>6, <5>1
             DEF NumbersInv, NumbersCurrent
        <5> QED BY <2>7, <4>3, <4>4, <4>6, <5>2
      <4> QED BY <4>5, <4>6
    <3>2. CASE m # l
      <4>1. Writers(m) \subseteq Writers(m)'
        BY <1>1, <1>2, <1>4, <2>6, <3>2 DEF Writers, ActiveOn
      <4>2. (Late(m)' <=> Late(m)) /\ (Stale(m)' <=> Stale(m))
        BY <1>3, <2>6, <3>2 DEF Late, Overtaken, Stale
      <4> QED BY <2>6, <2>7, <2>9, <3>2, <4>1, <4>2 DEF NumbersInv, NewestSound
    <3> QED BY <3>1, <3>2
  <2>26. DuplicatesInv' BY <2>17, <2>18, <2>20, <2>21 DEF DuplicatesInv
  <2>27. NumbersInv' BY <2>22, <2>24, <2>25 DEF NumbersInv
  <2> QED BY <2>14, <2>26, <2>27
<1> QED BY <1>10, <1>11 DEF Commit

-----------------------------------------------------------------------------
(* The invariant of the composition.                                       *)

HandlerInv == LocksInv /\ DuplicatesInv /\ NumbersInv

LEMMA HandlerInit == Init => HandlerInv
<1> SUFFICES ASSUME Init PROVE HandlerInv
  OBVIOUS
<1>1. /\ LimiterTypeOK
      /\ number = [l \in Loads |-> 0] /\ rows = [l \in Loads |-> {}]
      /\ newest = [l \in Loads |-> None] /\ file = [d \in Doc |-> None]
      /\ clock = [l \in Loads |-> 0] /\ received = [l \in Loads |-> 0]
      /\ updated = [l \in Loads |-> 0] /\ patching = [l \in Loads |-> None]
      /\ request = [r \in Requests |-> NoRequest]
      /\ lock = [l \in Loads |-> None] /\ rowLock = [l \in Loads |-> None]
      /\ overlapped = {} /\ disturbed = {} /\ events = 0
  BY InitSatisfies DEF Init, IInv
<1>2. Active = {} BY <1>1 DEF Active
<1>3. InvoicesTypeOK BY <1>1, BoundsAssumption DEF InvoicesTypeOK
<1>4. LocksInv
  BY <1>1, <1>2, <1>3
     DEF LocksInv, LocksHeld, RowLocksHeld, ActiveAreInside, RowsAreOld, RowsApart,
         NewestIsRow, DocsSound, NumbersGiven, TimesSound
<1>5. Inserting = {} /\ Drafting = {} BY <1>2 DEF Inserting, Drafting
<1>6. DuplicatesInv
  BY <1>1, <1>5
     DEF DuplicatesInv, InsertionsOverlap, SecondInvoiceOverlapped, DraftsOverlap,
         SameNumberOverlapped
<1>7. NumbersInv
  BY <1>1, <1>2 DEF NumbersInv, NumbersCurrent, FilesSound, NewestSound
<1> QED BY <1>4, <1>6, <1>7 DEF HandlerInv

LEMMA HandlerKeeps == IInv /\ IInv' /\ HandlerInv /\ [Next]_vars => HandlerInv'
<1> SUFFICES ASSUME IInv, IInv', HandlerInv, [Next]_vars PROVE HandlerInv'
  OBVIOUS
<1> USE DEF HandlerInv
<1>1. LimiterTypeOK' BY DEF IInv
<1>2. ASSUME NEW r \in Requests, Arrive(r), UNCHANGED invoiceVars PROVE HandlerInv'
  BY <1>1, <1>2, LimiterStepKeeps
<1>3. ASSUME NEW r \in Requests, GoOn(r) PROVE HandlerInv'
  <2>1. CASE (Resume(r) \/ TimeOut(r)) /\ UNCHANGED invoiceVars
    BY <1>1, <2>1, LimiterStepKeeps
  <2>2. CASE Handle(r)
    <3>1. ASSUME NEW l \in Loads, NEW force \in BOOLEAN, ReadLoad(r, l, force)
          PROVE  HandlerInv'
      BY <1>1, <3>1, ReadLoadKeeps
    <3>2. CASE TakeLock(r) BY <1>1, <3>2, TakeLockKeeps
    <3>3. CASE DraftNumber(r) BY <1>1, <3>3, DraftNumberKeeps
    <3>4. CASE FlushNumber(r) BY <1>1, <3>4, FlushNumberKeeps
    <3>5. CASE SaveFile(r) BY <1>1, <3>5, SaveFileKeeps
    <3>6. CASE FlushDocument(r) BY <1>1, <3>6, FlushDocumentKeeps
    <3>7. CASE Commit(r) BY <1>1, <3>7, CommitKeeps
    <3>8. CASE FlushFlag(r) BY <1>1, <3>8, FlushFlagKeeps
    <3> QED BY <2>2, <3>1, <3>2, <3>3, <3>4, <3>5, <3>6, <3>7, <3>8 DEF Handle
  <2> QED BY <1>3, <2>1, <2>2 DEF GoOn
<1>4. CASE Other
  <2>1. CASE Restart BY <1>1, <2>1, RestartDropsRequests
  <2>2. ASSUME NEW r \in Requests, Fail(r) PROVE HandlerInv'
    BY <1>1, <2>2, FailKeeps
  <2>3. ASSUME NEW l \in Loads, BeginPatch(l) PROVE HandlerInv'
    BY <1>1, <2>3, BeginPatchKeeps
  <2>4. ASSUME NEW l \in Loads, NEW typed \in {0, Manual}, CommitPatch(l, typed)
        PROVE  HandlerInv'
    BY <1>1, <2>4, CommitPatchKeeps
  <2>5. ASSUME NEW l \in Loads, NEW d \in Uploads, UploadInvoice(l, d)
        PROVE  HandlerInv'
    BY <1>1, <2>5, UploadInvoiceKeeps
  <2>6. ASSUME NEW d \in Doc, LoseFile(d) PROVE HandlerInv'
    BY <1>1, <2>6, LoseFileKeeps
  <2> QED BY <1>4, <2>1, <2>2, <2>3, <2>4, <2>5, <2>6 DEF Other
<1>5. CASE UNCHANGED vars BY <1>5, StutteringKeeps
<1> QED BY <1>2, <1>3, <1>4, <1>5 DEF Next

LEMMA HandlerInvariantHolds == Spec => []HandlerInv
<1>1. Spec => []IInv BY ImplementsLimiter, InvariantHolds, PTL
<1>2. IInv /\ IInv' /\ HandlerInv /\ [Next]_vars => HandlerInv' BY HandlerKeeps
<1>3. Init => HandlerInv BY HandlerInit
<1> QED BY <1>1, <1>2, <1>3, PTL DEF Spec

\* Every state of the handler, its locks and its rows has its type.
THEOREM GenerationsTypeCorrect == Spec => []InvoicesTypeOK
<1>1. HandlerInv => InvoicesTypeOK BY DEF HandlerInv, LocksInv
<1> QED BY <1>1, HandlerInvariantHolds, PTL

\* However many requests, loads and corrections there are, no two loads share a
\* number and no load gets two generated invoices unless requests overlapped
\* (_ensure_load_invoice_number, _generate_and_persist_invoice_pdf).
THEOREM DuplicatesAlwaysOverlapped == Spec => []DuplicatesOverlapped
<1>1. HandlerInv => DuplicatesOverlapped
  BY DEF HandlerInv, DuplicatesInv, DuplicatesOverlapped
<1> QED BY <1>1, HandlerInvariantHolds, PTL

\* The invoice that the status names shows the number it tells, or is said to be
\* stale, unless its writer failed, was corrected under, or was overlapped,
\* or an answer turned updated_at back (_serialize_invoice_status, _invoice_staleness).
THEOREM NewestAlwaysShowsNumber == Spec => []NewestShowsNumber
<1>1. ASSUME HandlerInv PROVE NewestShowsNumber
  <2> SUFFICES ASSUME NEW l \in Loads, newest[l] # None, ~Stale(l),
                      \A r \in ActiveOn(l) : request[r].at \notin {"saved", "released"},
                      file[newest[l]] # None, file[newest[l]].by # None,
                      file[newest[l]].by \notin disturbed
               PROVE  file[newest[l]].number = number[l]
    BY DEF NewestShowsNumber, InvoiceStatus, invoice_staleness, FirstInvoice, Stale
  <2>1. Writers(l) = {} BY DEF Writers
  <2> QED BY <1>1, <2>1 DEF HandlerInv, NumbersInv, NewestSound
<1> QED BY <1>1, HandlerInvariantHolds, PTL
=============================================================================
