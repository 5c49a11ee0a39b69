SPECIFICATION Spec
CONSTANTS
  admin = admin
  user = user
  contract = contract
  luna = luna
  usd = usd
  swap = swap
  vote = vote
  Users <- MCUsers
  Contract = contract
  Names <- MCNames
  Denoms <- MCDenoms
  Amounts = {1, 2}
  Configs <- MCConfigs
  Given <- MCGiven
  Funds = 2
  Limits = {1, 2}
  MaxId = 3
INVARIANTS
  TemplatesTypeOK
  PagesComplete
PROPERTIES
  IdsNeverReused
  FeeNotSubsidized
