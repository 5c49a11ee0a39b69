SPECIFICATION FairSpec
CONSTANTS
  admin = admin
  user = user
  a1 = a1
  a2 = a2
  controller = controller
  Users <- MCUsers
  Contracts <- NoUsers
  AccountAddrs <- MCAddrs
  Controller = controller
  Configs <- TwoConfigs
  Rewards = {2}
  Additions = {3}
  Deposits = {0, 7}
  Spends = {4}
  JobKinds <- TwoKinds
  InitialFunds <- SevenCoins
  MaxJobs = 2
  MaxDepth = 1
  MaxAge = 2
INVARIANTS
  EvictionPeriodOK
  EscrowExact
  AccountsSound
  AlwaysCancellable
  AlwaysEvictable
PROPERTIES
  ImplementsLifecycle
  EventuallySettled
