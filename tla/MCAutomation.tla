---------------------------- MODULE MCAutomation ----------------------------
(* Small instances of Automation. *)
EXTENDS Automation, TLC

CONSTANTS r1, r2, scale, stop

MCReplicas == {r1, r2}
MCPolicies == {scale, stop}
MCActionType == (scale :> "scale_replicas") @@ (stop :> "set_desired_state")
=============================================================================
