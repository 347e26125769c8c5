----------------------------- MODULE MCAttention -----------------------------
(* Model-checking instance of Attention: three devices, three priorities,  *)
(* and every configuration.                                                *)
EXTENDS Attention, TLC

CONSTANTS d1, d2, d3

Configs ==
  [require_explicit_release : BOOLEAN, enable_priority : BOOLEAN, auto_release : BOOLEAN,
   default_priority : {0, 1}]
Symmetry == Permutations(Device)
=============================================================================
