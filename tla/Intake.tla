------------------------------- MODULE Intake --------------------------------
(***************************************************************************)
(* What webhook ingress promises of a delivery, whatever processes handle  *)
(* it: the first body stored under a deduplication key is the only one     *)
(* ever acknowledged under it, and at most one review run is opened for    *)
(* the key, from exactly that body.                                        *)
(*                                                                         *)
(* Webhook implements this specification.                                  *)
(***************************************************************************)
CONSTANTS Keys,   \* deduplication keys
          Bodies  \* contents of a delivery

VARIABLES accepted,     \* key -> the bodies stored under it
          acknowledged, \* key -> the bodies answered with success
          admitted      \* key -> the bodies its run was opened with

intake == <<accepted, acknowledged, admitted>>

Init ==
    /\ accepted = [k \in Keys |-> {}]
    /\ acknowledged = [k \in Keys |-> {}]
    /\ admitted = [k \in Keys |-> {}]

\* The body may be acknowledged in the step that stores it, or not at all.
Accept(k, b) ==
    /\ accepted[k] = {}
    /\ accepted' = [accepted EXCEPT ![k] = {b}]
    /\ acknowledged' \in {acknowledged, [acknowledged EXCEPT ![k] = {b}]}
    /\ UNCHANGED admitted

\* A redelivery of the same content.
Acknowledge(k) ==
    /\ accepted[k] # {}
    /\ acknowledged' = [acknowledged EXCEPT ![k] = accepted[k]]
    /\ UNCHANGED <<accepted, admitted>>

Admit(k) ==
    /\ accepted[k] # {}
    /\ admitted[k] = {}
    /\ admitted' = [admitted EXCEPT ![k] = accepted[k]]
    /\ UNCHANGED <<accepted, acknowledged>>

Next == \E k \in Keys :
    \/ \E b \in Bodies : Accept(k, b)
    \/ Acknowledge(k)
    \/ Admit(k)

Spec == Init /\ [][Next]_intake

=============================================================================
