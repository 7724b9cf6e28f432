SPECIFICATION Spec
CONSTANTS
  Programs <- MCPrograms
  IntBits = 5
  MaskBits = 8
INVARIANT
  TreeDrawnRight
