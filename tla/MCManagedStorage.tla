-------------------------- MODULE MCManagedStorage --------------------------
(* Small instances of ManagedStorage. *)
EXTENDS ManagedStorage, TLC

CONSTANTS vm, box, v1, v2

MCWorkloads == {vm, box}
MCVolumes == {v1, v2}
\* The two workloads share v1.
MCWanted == (vm :> {v1}) @@ (box :> {v1, v2})
MCPolicy == (v1 :> "Delete") @@ (v2 :> "Retain")
=============================================================================
