--------------------------- MODULE MCHandheldApp ---------------------------
(* A user who records while connections break, or while the gateway shows  *)
(* cards; one who changes gateways and conversations while others do.      *)
EXTENDS HandheldApp

CONSTANTS g1, g2, c1, c2

Use(records, pieces, changing, sends, cuts, others) ==
  [captures |-> records, streams |-> records, pieces |-> pieces, changes |-> changing, commands |-> sends, breaks |-> cuts,
   switches |-> others, url |-> g1, selected |-> [u \in Url |-> c1]]

Users == {Use(1, 2, FALSE, {}, 1, 0), Use(1, 2, FALSE, {"card"}, 0, 0), Use(2, 1, FALSE, {}, 0, 0),
          Use(0, 0, TRUE, {}, 1, 1)}
=============================================================================
