------------------------------ MODULE MCRelay ------------------------------
EXTENDS Relay
CONSTANTS g, d, l1, l2, r1
GatewayAndNode == {g, d}
TwoLinks == {l1, l2}
OneReq == {r1}
=============================================================================
