--------------------------- MODULE MCOrderPayments ---------------------------
\* Instances of OrderPayments for TLC.
EXTENDS OrderPayments, TLC

CONSTANTS o1, h1, h2

OneOrder      == {o1}
OneHandler    == {h1}
TwoHandlers   == {h1, h2}
NoShortfall   == {}
\* checkout's link may be reported paid with another amount
FirstShort    == {<<o1, 1>>}
NoDecline     == {}
\* an attempt to pay checkout's link may fail before another succeeds
FirstDeclined == {<<o1, 1>>}
NoRefund      == {}
\* the owner may refund what was paid over checkout's link
FirstRefund   == {<<o1, 1>>}

HandlerSymmetry == Permutations(TwoHandlers)
=============================================================================
