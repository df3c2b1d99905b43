-------------------------- MODULE MCOperatingMode --------------------------
(***************************************************************************)
(* Model-checking instance of OperatingMode: one node, one workload and    *)
(* one client that runs every handler.                                     *)
(***************************************************************************)
EXTENDS OperatingMode

CONSTANTS n1, w1, c1

MCNodeIDs == {n1}
MCWorkloadIDs == {w1}
MCClients == {c1}
MCHandlers == [c \in MCClients |-> AllPlans]
=============================================================================
