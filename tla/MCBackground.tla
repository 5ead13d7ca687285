---------------------------- MODULE MCBackground ----------------------------
(***************************************************************************)
(* FollowUps and DocumentExtraction as TLC runs them, each as a part that  *)
(* is explored by itself.  A load has one row of each required type, and a *)
(* bill of lading that is uploaded later; a row that was deleted may be    *)
(* uploaded again.                                                         *)
(***************************************************************************)
EXTENDS FollowUps, DocumentExtraction, TLC

VARIABLE part   \* chosen at the start

mcVars == <<vars, extractionVars, part>>

MCDocs == 1 .. 4
MCTypeOf == <<"invoice", "rate_confirmation", "proof_of_delivery",
              "bill_of_lading">>
\* All is in order, as far as it was extracted.
MCFields ==
    [d \in MCDocs |->
        CASE d = 1 -> [Unread EXCEPT !.amount = 100, !.reference = 1]
          [] d = 2 -> [Unread EXCEPT !.reference = 1]
          [] d = 3 -> [Unread EXCEPT !.signature = "yes"]
          [] OTHER -> Unread]
MCLoadData == [amount |-> 100, reference |-> 1, lumper |-> FALSE, confidence |-> TRUE]
MCNoValue == NoValue

\* Packets are interchangeable, and so are requests.
MCSymmetry == Permutations(Packets) \cup Permutations(Clients)

MCInit == Init /\ ExtractionInit /\ part \in {"packets", "extraction"}

MCNext ==
    /\ \/ part = "packets" /\ Next /\ UNCHANGED extractionVars
       \/ part = "extraction" /\ ExtractionNext /\ UNCHANGED vars
    /\ UNCHANGED part

MCSpec == MCInit /\ [][MCNext]_mcVars
=============================================================================
