SPECIFICATION Spec
CONSTANTS
  admin = admin
  user = user
  a1 = a1
  a2 = a2
  controller = controller
  Users <- MCUsers
  Contracts <- MCUsers
  AccountAddrs <- MCAddrs
  Controller = controller
  Configs <- BaseConfigs
  Rewards = {3}
  Additions = {2}
  Deposits = {0, 8}
  Spends = {}
  JobKinds <- WithdrawingKinds
  InitialFunds <- EightCoins
  MaxJobs = 2
  MaxDepth = 2
  MaxAge = 2
SYMMETRY SymmetricAddrs
INVARIANTS
  TypeOK
  StoresPartitionIds
  QueueCounterCovers
  EscrowCovers
  OnePendingPerSeries
  StaleRewardBounded
PROPERTIES
  ImplementsLifecycle
  OnlyRaisesStayBehind
