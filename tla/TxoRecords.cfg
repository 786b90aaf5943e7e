SPECIFICATION RecordsSpec
CONSTANTS
  Coins <- MC_Coins
  Mine <- MC_Mine
  Txs <- MC_Txs
  Rings <- MC_Rings
  Blocks <- MC_Blocks
  Genesis = "0"
  Parent <- MC_Parent
  Height <- MC_Height
  Branch <- MC_Branch
  Coinbase <- MC_Coinbase
  TxsOf <- MC_TxsOf
  Outputs <- MC_Outputs
  Spends <- MC_Spends
  RingsOf <- MC_RingsOf
  Members <- MC_Members
  KeyRank <- MC_NoRank
  WalletTxs <- MC_WalletTxs
  GroupSize = 3
  Maturity = 3
  NumberBlock = 4
  MaxRejections = 1
  Zero = Zero
INVARIANTS
  OneBucket
  TotalIsSum
  NamesFresh
  RingsKnown
  SpentHere
