----------------------------- MODULE MCPwaClient -----------------------------
(***************************************************************************)
(* Model-checking instance of PwaClient: two recordings while a connection *)
(* breaks twice, or breaks and the page is reloaded; a recording during a  *)
(* delivery; and two deliveries into a cache of one while the connection   *)
(* breaks twice and the page is reloaded.                                  *)
(***************************************************************************)
EXTENDS PwaClient

CONSTANTS r1, r2

Used(downs, sounds, cuts, restarts, delivered) ==
  [presses |-> downs, pieces |-> sounds, breaks |-> cuts, reloads |-> restarts, responses |-> delivered]

Usages ==
  {Used(2, 2, 2, 0, {}), Used(2, 2, 1, 1, {}), Used(1, 2, 1, 0, {r1}), Used(0, 0, 2, 1, {r1, r2})}
=============================================================================
