--------------------------- MODULE WebhookLedger ---------------------------
(***************************************************************************)
(* What a receiver of webhook events promises to their sender: an event is *)
(* recorded once, takes effect at most once, at the time at which it is    *)
(* recorded, and is acknowledged only when it has been recorded.           *)
(***************************************************************************)
EXTENDS Naturals

CONSTANT Events

VARIABLES
    recorded,      \* the events on record
    effects,       \* how often each event has taken effect
    acknowledged   \* the events that the sender need not send again

ledgerVars == <<recorded, effects, acknowledged>>

LedgerInit ==
    /\ recorded = {} /\ acknowledged = {}
    /\ effects = [e \in Events |-> 0]

Record(e) ==
    /\ e \notin recorded
    /\ recorded' = recorded \cup {e}
    /\ \/ effects' = [effects EXCEPT ![e] = 1]
       \/ UNCHANGED effects
    /\ UNCHANGED acknowledged

Acknowledge(e) ==
    /\ e \in recorded
    /\ acknowledged' = acknowledged \cup {e}
    /\ UNCHANGED <<recorded, effects>>

LedgerNext == \E e \in Events : Record(e) \/ Acknowledge(e)

LedgerSpec == LedgerInit /\ [][LedgerNext]_ledgerVars
=============================================================================
