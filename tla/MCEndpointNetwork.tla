-------------------------- MODULE MCEndpointNetwork --------------------------
(* Values of the constants of EndpointNetwork for TLC. *)
EXTENDS EndpointNetwork

CONSTANTS i1, i2

OneInstance == {i1}
TwoInstances == {i1, i2}
TwoEndpoints == 1..2
OneNetwork == {"net"}
OneNIC == <<"eth0">>
OneNICOnNet == <<"net">>

\* One address free, next to the gateway's.
Tight == {[start |-> 1, end |-> 2, reserved |-> {1}]}

\* Two free addresses around the gateway's.
Roomy == {[start |-> 1, end |-> 3, reserved |-> {2}]}
=============================================================================
