CONSTANTS
  Address = {a, b, c, d, e, zero}
  ZeroAddress = zero
  GenesisSigners = {a, b, c, d}
  Epoch = 7
  Word = 65536
  MaxNumber = 5
SPECIFICATION ChainSpec
SYMMETRY MCSymmetry
INVARIANTS AcceptedLives
CHECK_DEADLOCK FALSE
