SPECIFICATION Spec
CONSTANTS
  luna = luna
  cw20 = cw20
  nft = nft
  other = other
  Owner = Owner
  WarpAddr = WarpAddr
  Account = Account
  Others <- MCOthers
  Fungible <- MCFungible
  Nfts <- MCNfts
  Supply <- MCSupply
  Amounts = {1, 2}
  Lists <- MCLists
  IbcMsgs <- MCIbcMsgs
  MaxTransfers = 1
  Revision = 1
  MaxHeight = 3
  MaxTime = 3
PROPERTY
  ListedTokenWithdrawn
