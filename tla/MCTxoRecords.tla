---------------------------- MODULE MCTxoRecords ----------------------------
(***************************************************************************)
(* A tree on which TxoRecords is model-checked.  The branches fork at      *)
(* height 4, where another copy of the wallet spends what the wallet's own *)
(* transaction spends.  At height 5, on either, a ring forms over a TXO    *)
(* received below the fork, with another hash, and with Maturity 3 the     *)
(* coinbases of heights 1 and 2 mature.  No fork is deeper than Maturity.  *)
(***************************************************************************)
EXTENDS TxoRecords, TLC

MC_Branch[b \in Blocks] ==
    IF b = Genesis THEN {b} ELSE {b} \cup MC_Branch[Parent[b]]

MC_Coins == {"k1", "k2", "a", "x", "g", "d", "e"}
MC_Mine == MC_Coins \ {"x"}
MC_Txs == {"f", "h", "p", "u", "v", "s"}
MC_WalletTxs == {"p", "u", "v"}
MC_Rings == {"R", "C", "D", "Dn"}
MC_Blocks == {"0", "1", "2", "3", "4", "5", "6", "4n", "5n"}
MC_Parent ==
    "1" :> "0" @@ "2" :> "1" @@ "3" :> "2" @@ "4" :> "3" @@ "5" :> "4" @@
    "6" :> "5" @@ "4n" :> "3" @@ "5n" :> "4n"
MC_Height ==
    "0" :> 0 @@ "1" :> 1 @@ "2" :> 2 @@ "3" :> 3 @@ "4" :> 4 @@ "5" :> 5 @@
    "6" :> 6 @@ "4n" :> 4 @@ "5n" :> 5
MC_Coinbase ==
    "1" :> {"k1"} @@ "2" :> {"k2"} @@ [b \in MC_Blocks |-> {}]
MC_TxsOf ==
    "1" :> {"f"} @@ "3" :> {"h"} @@ "4" :> {"p"} @@ "4n" :> {"s"} @@
    "6" :> {"u"} @@ [b \in MC_Blocks |-> {}]
MC_Outputs ==
    "f" :> {"a", "x"} @@ "h" :> {"g"} @@ "p" :> {"d"} @@ "s" :> {"e"} @@
    [t \in MC_Txs |-> {}]
MC_Spends ==
    "p" :> {<<"R", "a">>} @@ "s" :> {<<"R", "a">>} @@ "u" :> {<<"C", "k2">>} @@
    "v" :> {<<"D", "g">>} @@ [t \in MC_Txs |-> {}]
MC_RingsOf ==
    "2" :> {"R", "C"} @@ "5" :> {"D"} @@ "5n" :> {"Dn"} @@
    [b \in MC_Blocks |-> {}]
MC_Members ==
    "R" :> {"a", "x"} @@ "C" :> {"k1", "k2"} @@
    "D" :> {"d", "g"} @@ "Dn" :> {"e", "g"}
MC_NoRank == [b \in Blocks |-> 0]

\* What AlwaysOneBucket, NoneReadyEarly and NamesAlwaysFresh ask of the tree.
ASSUME TreeAsProved == CoinbasesStay
=============================================================================
