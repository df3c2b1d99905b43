--------------------------- MODULE MCGatewayPool ---------------------------
(* GatewayPool for TLC: a configured host name of the leading scheduler, and  *)
(* the IP addresses of both schedulers, which DNS may give.                   *)
EXTENDS GatewayPool, TLC

MCOrder == <<"ip1", "ip2", "host1">>
MCInstance == [ip1 |-> "s1", host1 |-> "s1", ip2 |-> "s2"]
=============================================================================
