CONSTANTS
  Address = {a, b, zero}
  ZeroAddress = zero
  GenesisSigners = {a}
  Local = a
  Ballots <- MCBallots
  Proposable <- MCProposable
  Epoch = 2
  Word = 65536
  CheckpointInterval = 4
  InmemorySnapshots = 1
  ImmutabilityThreshold = 1
  NoSnapshot = NoSnapshot
  MaxNumber = 4
  MaxBlocks = 5
SPECIFICATION Spec
INVARIANTS SnapshotsTrue  
CHECK_DEADLOCK FALSE
