-------------------------- MODULE DeliveryContract --------------------------
(***************************************************************************)
(* What the way from a webhook to a build promises, without queues,        *)
(* workers and retries. An acceptance gives a delivery the credit for a    *)
(* number of builds. A build uses credit up, credit may be lost, and       *)
(* nothing else creates it. A delivery that is remembered is not accepted  *)
(* again.                                                                  *)
(***************************************************************************)
EXTENDS Naturals

CONSTANTS
    Deliveries,
    Allowance       \* builds one acceptance may lead to

VARIABLES
    remembered,     \* deliveries whose redelivery is refused
    accepted,       \* acceptances so far
    credit,         \* builds that may still follow from them
    builds          \* builds so far

vars == <<remembered, accepted, credit, builds>>

Init ==
    /\ remembered = {}
    /\ accepted = [d \in Deliveries |-> 0]
    /\ credit = [d \in Deliveries |-> 0]
    /\ builds = [d \in Deliveries |-> 0]

\* The delivery is answered with success; some or all of its credit may be lost at once.
Accept(d) ==
    /\ d \notin remembered
    /\ remembered' = remembered \union {d}
    /\ accepted' = [accepted EXCEPT ![d] = @ + 1]
    /\ \E c \in credit[d] .. credit[d] + Allowance : credit' = [credit EXCEPT ![d] = c]
    /\ UNCHANGED builds

\* The delivery is remembered although it was turned down.
Refuse(d) ==
    /\ d \notin remembered
    /\ remembered' = remembered \union {d}
    /\ UNCHANGED <<accepted, credit, builds>>

Build(d) ==
    /\ credit[d] > 0
    /\ credit' = [credit EXCEPT ![d] = @ - 1]
    /\ builds' = [builds EXCEPT ![d] = @ + 1]
    /\ UNCHANGED <<remembered, accepted>>

\* A restart or a permanent failure loses credit, a restart or time a memory.
Lose ==
    /\ remembered' \in SUBSET remembered
    /\ credit' \in [Deliveries -> Nat]
    /\ \A d \in Deliveries : credit'[d] <= credit[d]
    /\ UNCHANGED <<accepted, builds>>

Next == Lose \/ \E d \in Deliveries : Accept(d) \/ Refuse(d) \/ Build(d)

Spec == Init /\ [][Next]_vars

\* Builds never exceed what the acceptances allow.
WithinAllowance ==
    \A d \in Deliveries : builds[d] + credit[d] <= Allowance * accepted[d]
=============================================================================
