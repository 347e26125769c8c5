SPECIFICATION AttentionSpec
CONSTANTS
  d1 = d1
  d2 = d2
  d3 = d3
  Nobody = Nobody
  Device = {d1, d2, d3}
  Priority = {0, 1, 2}
  Config <- Configs
SYMMETRY Symmetry
INVARIANTS
  AttentionInv
