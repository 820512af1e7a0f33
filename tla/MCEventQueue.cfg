SPECIFICATION FairSpec
CONSTANTS
  Contracts = {"State", "Challenges", "Shield"}
  Transactions = {"propose", "challenge", "submit"}
  Contract <- Emitters
  Events <- Emitted
  CONFIRMATIONS = 4
  MaxDepth = 2
  MaxDelay = 1
  MaxHeight = 6
  MaxReorgs = 2
INVARIANTS TypeOK HandledFollowsChain
PROPERTY ConfirmedAreHandled
CHECK_DEADLOCK FALSE
