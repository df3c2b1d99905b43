----------------------------- MODULE MCDelivery -----------------------------
(* Small instances of Delivery. *)
EXTENDS Delivery, TLC

CONSTANTS d1, t1

MCHasCommit == {d1, t1}
MCStrategy == [t \in {t1} |-> "local"]
=============================================================================
