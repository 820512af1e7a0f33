\* One proposer and every call: deposits, fees, pauses, a block stake that changes.
SPECIFICATION Spec
CONSTANTS
  Proposer = {p1}
  Challenger = {c1}
  NoAddress = NoAddress
  BootProposer = NoAddress
  CHALLENGE_PERIOD = 1
  MinimumStake = 2
  InitialBlockStake = 2
  RotateProposerBlocks = 0
  ProposerSetCount = 1
  SprintsInSpan = 1
  MaximumSlots = 1
  InitialMaxProposers = 2
  Body <- TwoBodies
  Salt = {s1}
  Seed = {0, 1}
  Value = {0, 2}
  NewMaxProposers = {}
  NewBlockStake = {1}
  Calls = {"updateProposer", "withdraw", "pause"}
  MaxTime = 4
  MaxBlocks = 1
  MaxEther = 4
  MaxCommits = 1
PROPERTY ClaimsConserved
CHECK_DEADLOCK FALSE
