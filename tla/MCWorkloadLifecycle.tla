------------------------ MODULE MCWorkloadLifecycle ------------------------
(* Small instances of WorkloadLifecycle. *)
EXTENDS WorkloadLifecycle, TLC

CONSTANTS n1, n2

MCNodes == {n1, n2}
MCOneNode == {n1}
MCSymmetry == Permutations(MCNodes)

Create == [op |-> "apply", desired |-> "Running", rev |-> 1]
UpdateSpec == [op |-> "apply", desired |-> "Running", rev |-> 2]
Stop == [op |-> "setDesired", desired |-> "Stopped", rev |-> 1]
Delete == [op |-> "delete", desired |-> "Running", rev |-> 1]
Retry == [op |-> "retry", desired |-> "Running", rev |-> 1]

MCCreate == {Create}
MCCreateStopDelete == {Create, Stop, Delete}
MCCreateUpdate == {Create, UpdateSpec}
MCAllCalls == {Create, UpdateSpec, Stop, Delete, Retry}
=============================================================================
