SPECIFICATION QuerySpec
CONSTANTS
  admin = admin
  user = user
  a1 = a1
  a2 = a2
  controller = controller
  Users <- MCUsers
  Contracts <- NoUsers
  AccountAddrs <- MCAddrs
  Controller = controller
  Configs <- QueryConfigs
  Rewards = {3}
  Additions = {2}
  Deposits = {0, 11}
  Spends = {}
  JobKinds <- MCKinds
  InitialFunds <- ElevenCoins
  MaxJobs = 3
  MaxDepth = 1
  MaxAge = 0
  QueryPageSize = 2
  Queries <- MCQueries
  Limits <- MCLimits
SYMMETRY SymmetricAddrs
INVARIANTS
  NothingShownTwice
  NothingPassedOver
  ShownJobsFound
