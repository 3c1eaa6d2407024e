---------------------------- MODULE MCGraphExchange ----------------------------
(***************************************************************************)
(* Three hosts in a row, of which the first also collects from the second,   *)
(* so that its entities come back to it; of the last two the addresses may   *)
(* be the same.  There is one process number, which each host has.           *)
(***************************************************************************)
EXTENDS GraphExchange, TLC

CONSTANTS host_a, host_b, host_c, ip_a, ip_b, ip_c

MCSyncs == {<<host_b, host_a>>, <<host_a, host_b>>, <<host_c, host_b>>}
MCAddresses == {(host_a :> ip_a) @@ (host_b :> ip_b) @@ (host_c :> ip_c),
                (host_a :> ip_a) @@ (host_b :> ip_b) @@ (host_c :> ip_b)}
MCFields == [k \in Things |-> {"ppid"}]
MCRelated == [k \in Things |-> {k}]
=============================================================================
