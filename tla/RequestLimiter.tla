--------------------------- MODULE RequestLimiter ---------------------------
(***************************************************************************)
(* RequestConcurrencyLimitMiddleware of core/middleware.py, for the        *)
(* requests of one bucket, organization and address: a request waits for   *)
(* one of the bucket's slots, is refused when the wait times out, and      *)
(* gives its slot back when its handler has returned or raised.            *)
(*                                                                         *)
(* The slots are an asyncio.Semaphore (of Python 3.11), which hands a free *)
(* slot to the first request in its queue; that request runs on later, and *)
(* may time out in between.  Until it has run on, those that arrive queue  *)
(* up, also when a slot is free.                                           *)
(***************************************************************************)
EXTENDS Naturals, Sequences, FiniteSets

CONSTANTS
    Requests,   \* requests, each made once, numbered as they arrive
    Capacity    \* the slots of the bucket

ASSUME CapacityAssumption == Capacity \in Nat \ {0}
ASSUME RequestsAssumption == IsFiniteSet(Requests) /\ Requests \subseteq Nat

VARIABLES
    stage,      \* where each request is
    queue,      \* the semaphore's waiters, first come first served
    free        \* the semaphore's value

limiterVars == <<stage, queue, free>>

Stage == {"outside", "waiting", "granted", "inside", "refused", "ended"}

Holders == {r \in Requests : stage[r] \in {"granted", "inside"}}

LimiterTypeOK ==
    /\ stage \in [Requests -> Stage]
    /\ queue \in Seq(Requests)
    /\ free \in 0 .. Capacity

LimiterInit ==
    /\ stage = [r \in Requests |-> "outside"]
    /\ queue = <<>>
    /\ free = Capacity

\* dispatch, up to the semaphore: a slot at once, or a place in the queue.
Arrive(r) ==
    /\ stage[r] = "outside" /\ \A q \in Requests : q < r => stage[q] # "outside"
    /\ IF free > 0 /\ queue = <<>> /\ \A q \in Requests : stage[q] # "granted"
       THEN /\ stage' = [stage EXCEPT ![r] = "inside"]
            /\ free' = free - 1
            /\ UNCHANGED queue
       ELSE /\ stage' = [stage EXCEPT ![r] = "waiting"]
            /\ queue' = Append(queue, r)
            /\ UNCHANGED free

\* The first waiter is handed a slot, if there is one.  `rest` are the stages
\* of the requests after the step that wakes it.
Wake(rest, waiters, value) ==
    IF waiters = <<>> \/ value = 0
    THEN stage' = rest /\ queue' = waiters /\ free' = value
    ELSE /\ stage' = [rest EXCEPT ![Head(waiters)] = "granted"]
         /\ queue' = Tail(waiters)
         /\ free' = value - 1

Release(rest, waiters) == Wake(rest, waiters, free + 1)

\* The request that was handed a slot goes on to its handler.
Resume(r) ==
    /\ stage[r] = "granted"
    /\ Wake([stage EXCEPT ![r] = "inside"], queue, free)

Position(r) == CHOOSE i \in 1 .. Len(queue) : queue[i] = r

\* The queue without r.
Others(r) ==
    [k \in 1 .. Len(queue) - 1 |-> queue[IF k < Position(r) THEN k ELSE k + 1]]

\* Mutant: the refused request releases a slot that it did not have.
MutantTimeOut(r) ==
    \/ stage[r] = "waiting" /\ Release([stage EXCEPT ![r] = "refused"], Others(r))
    \/ stage[r] = "granted" /\ Release([stage EXCEPT ![r] = "refused"], queue)

\* The wait ends with 429.  A slot handed over in the meantime goes back.
TimeOut(r) ==
    \/ /\ stage[r] = "waiting"
       /\ stage' = [stage EXCEPT ![r] = "refused"]
       /\ queue' = Others(r)
       /\ UNCHANGED free
    \/ /\ stage[r] = "granted"
       /\ Release([stage EXCEPT ![r] = "refused"], queue)

\* The handler has returned or raised.
Finish(r) ==
    /\ stage[r] = "inside"
    /\ Release([stage EXCEPT ![r] = "ended"], queue)

\* The process ends, and another starts with no requests.
RestartLimiter ==
    /\ stage' = [r \in Requests |->
           IF stage[r] \in {"waiting", "granted", "inside"} THEN "ended"
           ELSE stage[r]]
    /\ queue' = <<>>
    /\ free' = Capacity

-----------------------------------------------------------------------------
LimiterNext ==
    \/ \E r \in Requests : Arrive(r) \/ Resume(r) \/ TimeOut(r) \/ Finish(r)
    \/ RestartLimiter

LimiterSpec == LimiterInit /\ [][LimiterNext]_limiterVars

\* No slot is lost or made, however waits that time out, handlers that fail
\* and slots that are handed over interleave.
SlotsConserved == free + Cardinality(Holders) = Capacity

\* A slot stays free while a request waits only until a request that was
\* handed one has run on, and handed the free one on.
NoIdleSlot ==
    queue # <<>> /\ free > 0 => \E r \in Requests : stage[r] = "granted"
=============================================================================
