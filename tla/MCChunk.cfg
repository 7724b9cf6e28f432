SPECIFICATION Spec
CONSTANTS
  Addresses = {p1, p2, p3}
  Values = {"u", "v"}
  GrowMin = 2
  MaxLength = 5
INVARIANTS
  ContentsKept
  NoBlockLost
SYMMETRY AddressSymmetry
