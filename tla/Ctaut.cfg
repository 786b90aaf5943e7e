SPECIFICATION TokenSpec
CONSTANTS
  Coins <- Coins_
  Txs <- Txs_
  WalletTxs <- WalletTxs_
  Rings <- Rings_
  Blocks <- Blocks_
  Parent <- Parent_
  Height <- Height_
  Coinbase <- Coinbase_
  TxsOf <- TxsOf_
  Outputs <- Outputs_
  Spends <- Spends_
  RingsOf <- RingsOf_
  Members <- Members_
  RootCoins <- RootCoins_
  AutOf <- AutOf_
  ReRegisters <- ReRegisters_
  Mine <- Coins_
  TokenCoins <- Coins_
  Genesis = "0"
  Branch <- MC_Branch
  KeyRank <- MC_NoRank
  GroupSize = 3
  Maturity = 8
  NumberBlock = 24
  MaxRejections = 1
INVARIANTS
  TokenTotals
  TokensMatchTxos
CHECK_DEADLOCK FALSE
