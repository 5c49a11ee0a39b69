SPECIFICATION MigrationSpec
CONSTANTS
  admin = admin
  user = user
  a1 = a1
  a2 = a2
  controller = controller
  Users <- MCUsers
  Contracts <- NoUsers
  AccountAddrs <- MCAddrs
  Controller = controller
  Configs <- MigrationConfigs
  Rewards = {2}
  Additions = {}
  Deposits = {0}
  Spends = {}
  JobKinds <- MCKinds
  InitialFunds <- NoFunds
  MaxJobs = 4
  MaxDepth = 1
  MaxAge = 1
  OldPending <- MCOldPending
  OldFinished <- MCOldFinished
  OldMsgs <- MCOldMsgs
  OldQ = 2
  OldAccounts <- MCOldAccounts
  OldBalance <- MCBalance
  Rank <- MCRank
  Limits = {1, 2}
INVARIANT
  PendingMsgsValid
