\* Three proposers and no blocks: the circular list and the rotation.
SPECIFICATION Spec
CONSTANTS
  Proposer = {p1, p2, p3}
  Challenger = {c1}
  NoAddress = NoAddress
  BootProposer = p1
  CHALLENGE_PERIOD = 1
  MinimumStake = 4
  InitialBlockStake = 2
  RotateProposerBlocks = 0
  ProposerSetCount = 2
  SprintsInSpan = 2
  MaximumSlots = 1
  InitialMaxProposers = 3
  Body <- Unpaid
  Salt = {s1}
  Seed = {0, 1}
  Value = {4}
  NewMaxProposers = {1}
  NewBlockStake = {}
  Calls = {}
  MaxTime = 5
  MaxBlocks = 0
  MaxEther = 12
  MaxCommits = 1
INVARIANTS CurrentCopyFresh RingLinked
CHECK_DEADLOCK FALSE
