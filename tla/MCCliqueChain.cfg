CONSTANTS
  Address = {a, b, c, d, e, zero}
  ZeroAddress = zero
  GenesisSigners = {a, b, c, d}
  Epoch = 6
  Word = 65536
  MaxNumber = 8
SPECIFICATION ChainSpec
SYMMETRY MCSymmetry
INVARIANTS VotesCounted  SomeoneMaySign ChecksAgree
PROPERTIES MajorityChanges
CHECK_DEADLOCK FALSE
