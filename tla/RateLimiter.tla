---------------------------- MODULE RateLimiter ----------------------------
(***************************************************************************)
(* RateLimitMiddleware of core/middleware.py: of the requests to one       *)
(* group of paths, from one address and with one credential, a window of   *)
(* time admits a fixed number; the others are refused, and told after how  *)
(* many seconds to call again.                                             *)
(*                                                                         *)
(* A bucket keeps the number of requests of its window and, here, the time *)
(* that the window has left, in ticks.  The callers are well behaved: one  *)
(* that was refused waits as long as it was told, not necessarily no       *)
(* longer, or gives up.                                                    *)
(***************************************************************************)
EXTENDS Integers

CONSTANTS
    Callers,
    Senders,          \* an address with the end of a credential, or with none
    Paths,            \* those that are requested
    MaxRequests,      \* of a window, for each group of settings
    WindowSeconds,    \* the length of a window
    TicksPerSecond,
    MaxCount,         \* bound: the requests of one window that are looked at
    MaxPass           \* bound: the ticks that pass between two requests

ASSUME TicksAssumption == TicksPerSecond \in Nat \ {0}
ASSUME WindowAssumption ==
    /\ MaxRequests \in [{"login", "public", "billing", "upload"} -> Nat \ {0}]
    /\ WindowSeconds \in [{"login", "public", "billing", "upload"} -> Nat \ {0}]
ASSUME BoundsAssumption == MaxCount \in Nat /\ MaxPass \in Nat

VARIABLES
    bucket,   \* _buckets
    caller    \* what each caller was told

rateVars == <<bucket, caller>>

Policy == {"auth_login", "password_reset", "demo_requests", "billing_checkout",
           "portal", "portal_upload", "document_upload"}

Keys == Policy \X Senders

Bucket == [count : Nat, left : Nat]

\* A key that has no bucket, or one whose window is over.
Expired == [count |-> 0, left |-> 0]

\* refusals: of this caller, in the window that its key is in.
Caller == [Keys -> [wait : Nat, refusals : Nat]]

RateTypeOK == bucket \in [Keys -> Bucket] /\ caller \in [Callers -> Caller]

RateInit ==
    /\ bucket = [k \in Keys |-> Expired]
    /\ caller = [c \in Callers |-> [k \in Keys |-> [wait |-> 0, refusals |-> 0]]]

-----------------------------------------------------------------------------
\* _policy_for_path: the driver's login has none, nor has a webhook.
policy_for_path(path) ==
    CASE path = "/auth/login" -> "auth_login"
      [] path \in {"/auth/request-password-reset", "/auth/reset-password"} ->
           "password_reset"
      [] path = "/demo-requests" -> "demo_requests"
      [] path = "/billing/checkout-session" -> "billing_checkout"
      [] path = "/portal/loads/{id}/documents/upload" -> "portal_upload"
      [] path \in {"/portal/me", "/portal/access-links", "/portal/loads/{id}"} ->
           "portal"
      [] path \in {"/documents", "/documents/upload", "/driver/documents/upload"} ->
           "document_upload"
      [] OTHER -> "none"

SettingsOf ==
    [auth_login |-> "login", password_reset |-> "login",
     demo_requests |-> "public", portal |-> "public",
     billing_checkout |-> "billing",
     portal_upload |-> "upload", document_upload |-> "upload"]

\* The request is counted, also one that is going to be refused.
Counted(k) ==
    IF bucket[k].left = 0
    THEN [count |-> 1, left |-> WindowSeconds[SettingsOf[k[1]]] * TicksPerSecond]
    ELSE [bucket[k] EXCEPT !.count = @ + 1]

\* Mutant: whole seconds, of which there may be none.
MutantRetryAfter(left) == left \div TicksPerSecond

\* Whole seconds, rounded down, but at least one.
RetryAfter(left) ==
    IF left < TicksPerSecond THEN 1 ELSE left \div TicksPerSecond

\* A caller that was refused keeps quiet for as long as it was told.
Answer(c, k) ==
    LET b == Counted(k)
        told == caller[c][k]
    IN  /\ told.wait = 0
        /\ b.count <= MaxCount
        /\ bucket' = [bucket EXCEPT ![k] = b]
        /\ caller' = [caller EXCEPT ![c][k] =
             IF b.count > MaxRequests[SettingsOf[k[1]]]
             THEN [wait |-> RetryAfter(b.left) * TicksPerSecond,
                   refusals |-> IF bucket[k].left = 0 THEN 1
                                ELSE told.refusals + 1]
             ELSE [wait |-> 0, refusals |-> 0]]

\* dispatch, which awaits nothing between reading the bucket and writing it.
Dispatch(c, path, sender) ==
    /\ policy_for_path(path) \in Policy
    /\ Answer(c, <<policy_for_path(path), sender>>)

\* The next requests of a caller that gave up have nothing to do with it.
GiveUp(c, k) ==
    /\ caller' = [caller EXCEPT ![c][k] = [wait |-> 0, refusals |-> 0]]
    /\ UNCHANGED bucket

\* Time passes.  A window that is over takes the refusals with it.
Pass(ticks) ==
    /\ bucket' = [k \in Keys |->
         IF bucket[k].left <= ticks THEN Expired
         ELSE [bucket[k] EXCEPT !.left = @ - ticks]]
    /\ caller' = [c \in Callers |-> [k \in Keys |->
         [wait |-> IF caller[c][k].wait <= ticks THEN 0
                   ELSE caller[c][k].wait - ticks,
          refusals |-> IF bucket[k].left <= ticks THEN 0
                       ELSE caller[c][k].refusals]]]

\* The process is restarted, and has no buckets; its callers still wait.
Restart ==
    /\ bucket' = [k \in Keys |-> Expired]
    /\ caller' = [c \in Callers |-> [k \in Keys |->
         [caller[c][k] EXCEPT !.refusals = 0]]]

RateNext ==
    \/ \E c \in Callers :
          \/ \E path \in Paths, sender \in Senders : Dispatch(c, path, sender)
          \/ \E k \in Keys : caller[c][k].refusals > 0 /\ GiveUp(c, k)
    \/ \E ticks \in 1 .. MaxPass : Pass(ticks)
    \/ Restart

RateSpec == RateInit /\ [][RateNext]_rateVars

-----------------------------------------------------------------------------
(* Properties.                                                             *)

\* A caller that waits as long as it was told is refused at most twice in one
\* window, although the seconds it is told are rounded down and others may use
\* its bucket: no window wears out a caller that obeys (retry_after).
RetriesReachTheNextWindow ==
    \A c \in Callers, k \in Keys : caller[c][k].refusals <= 2

\* Every wait but the first of a window lasts until the window is over, the
\* first falls short of it by less than a second, and what is over is not held
\* against a caller: the reason for RetriesReachTheNextWindow.
WaitsReachTheEnd ==
    \A c \in Callers, k \in Keys : LET told == caller[c][k] IN
       /\ told.refusals = 1 => bucket[k].left < told.wait + TicksPerSecond
       /\ told.refusals = 2 => bucket[k].left <= told.wait
       /\ bucket[k].left = 0 => told.refusals = 0
=============================================================================
