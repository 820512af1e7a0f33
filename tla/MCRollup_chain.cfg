\* Two proposers, a queue of up to three blocks: challenges against payments.
SPECIFICATION Spec
CONSTANTS
  Proposer = {p1, p2}
  Challenger = {c1}
  NoAddress = NoAddress
  BootProposer = NoAddress
  CHALLENGE_PERIOD = 1
  MinimumStake = 4
  InitialBlockStake = 2
  RotateProposerBlocks = 0
  ProposerSetCount = 1
  SprintsInSpan = 1
  MaximumSlots = 1
  InitialMaxProposers = 2
  Body <- Unpaid
  Salt = {s1}
  Seed = {0, 1}
  Value = {0, 4}
  NewMaxProposers = {}
  NewBlockStake = {}
  Calls = {}
  MaxTime = 4
  MaxBlocks = 3
  MaxEther = 8
  MaxCommits = 1
INVARIANTS TypeOK StakeInv SlashedXorReturned
PROPERTIES FinalNeverRolledBack LocksKept ImplementsBlockQueue
SYMMETRY Symmetry
CHECK_DEADLOCK FALSE
