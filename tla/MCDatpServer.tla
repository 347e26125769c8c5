---------------------------- MODULE MCDatpServer ----------------------------
(***************************************************************************)
(* Model-checking instances of DatpServer.                                 *)
(***************************************************************************)
EXTENDS DatpServer, TLC

CONSTANTS c1, c2, c3, d1, d2, h1, pi, hermes

ConnTriple == {c1, c2, c3}
Symmetry == Permutations(ConnTriple)

\* Three connections speak of one device, or two of them of two.
Untouched(d) ==
  /\ row[d] = 0 /\ device_registry[d] = NoEntry
  /\ \A t \in Task : dev[t] # d
  /\ \A c \in Conn : device_id[c] # d
ThreeOrTwo == Untouched(d2) \/ \E c \in Conn : ws[c] = "new"
=============================================================================
