SPECIFICATION Spec
CONSTANTS
  Coins <- Fork_Coins
  Mine <- Fork_Mine
  Txs <- Fork_Txs
  Rings <- Fork_Rings
  Blocks <- Fork_Blocks
  Genesis = "0"
  Parent <- Fork_Parent
  Height <- Fork_Height
  Branch <- MC_Branch
  Coinbase <- Fork_Coinbase
  TxsOf <- Fork_TxsOf
  Outputs <- Fork_Outputs
  Spends <- Fork_Spends
  RingsOf <- Fork_RingsOf
  Members <- Fork_Members
  KeyRank <- MC_NoRank
  WalletTxs <- Fork_WalletTxs
  GroupSize = 3
  Maturity = 8
  NumberBlock = 24
  MaxRejections = 1
INVARIANTS
  TypeOK
  BalancesMatchBuckets
  ConfirmedTxMatchesBranch
  RingsMatchBranch
  BlocksGoThrough
PROPERTIES
  LedgerSpec
