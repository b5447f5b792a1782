------------------------------ MODULE MCAlerts ------------------------------
\* The instance of Alerts for TLC.
EXTENDS Alerts

CONSTANTS s1, r1, k1, d1, u1, w1, w2, h1

OneSku      == {s1}
OneRefund   == {r1}
OneTicket   == {k1}
OneDevice   == {d1}
TheOwner    == {u1}
TwoReplicas == {w1, w2}
OneHandler  == {h1}
=============================================================================
