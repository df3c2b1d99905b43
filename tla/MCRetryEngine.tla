--------------------------- MODULE MCRetryEngine ---------------------------
(***************************************************************************)
(* RetryEngine on small delays, in ticks. The counters of a record are told *)
(* apart as far as the configuration says; above that they stay where they *)
(* are, which changes nothing until a doubling overflows.                  *)
(***************************************************************************)
EXTENDS RetryEngine

MCAllFaults == {"NodeLost", "NoRuntime", "NoAnswer"}
=============================================================================
