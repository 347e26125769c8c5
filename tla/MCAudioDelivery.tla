--------------------------- MODULE MCAudioDelivery ---------------------------
(* Model-checking instances of AudioDelivery.                              *)
EXTENDS AudioDelivery

CONSTANTS r1, r2, r3

TwoResponses == {r1, r2}
ThreeResponses == {r1, r2, r3}
OneResponse == {r1}
=============================================================================
