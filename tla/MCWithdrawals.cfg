SPECIFICATION Spec
CONSTANTS
  User = {alice, bob}
  NoAddress = NoAddress
  alice = alice
  bob = bob
  coin = coin
  Token = {coin}
  Fungible = {coin}
  FeeToken = coin
  ZERO = ZERO
  CHALLENGE_PERIOD = 1
  Limit <- Unlimited
  Calls = {"pause", "restrict"}
  MaxTime = 4
  MaxBlocks = 3
  MaxFees = 2
  Fee = {1}
  Note <- Notes
  Transaction <- Transactions
  Body <- Bodies
INVARIANTS TypeOK PaidStayFinal ShieldCoversChain FeesBacked PaidThroughOnce
CHECK_DEADLOCK FALSE
