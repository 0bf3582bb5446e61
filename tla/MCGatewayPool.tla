--------------------------- MODULE MCGatewayPool ---------------------------
(* Instantiates GatewayPool for TLC with one or two gateway addresses.    *)
EXTENDS GatewayPool

CONSTANTS k1, k2, nil

MCKeys1 == {k1}
MCKeys2 == {k1, k2}
=============================================================================
