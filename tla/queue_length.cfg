SPECIFICATION Spec
CONSTANTS
  admin = admin
  user = user
  a1 = a1
  a2 = a2
  controller = controller
  Users <- MCUsers
  Contracts <- NoUsers
  AccountAddrs <- MCAddrs
  Controller = controller
  Configs <- BaseConfigs
  Rewards = {2}
  Additions = {}
  Deposits = {0, 8}
  Spends = {}
  JobKinds <- OneShotKinds
  InitialFunds <- EightCoins
  MaxJobs = 2
  MaxDepth = 1
  MaxAge = 2
SYMMETRY SymmetricAddrs
INVARIANTS
  QIsQueueLength
