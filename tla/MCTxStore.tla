----------------------------- MODULE MCTxStore -----------------------------
(***************************************************************************)
(* A tree of blocks on which TxStore is model-checked.  Blocks are named   *)
(* after their height, with an n or an s for another branch.  The branches *)
(* fork at height 2, where the first ring forms (with other hashes), and   *)
(* at height 3, where a transaction of another copy of the wallet spends   *)
(* what the wallet's own spends.                                           *)
(***************************************************************************)
EXTENDS TxStore, TLC

\* Every ancestor of a block.
MC_Branch[b \in Blocks] ==
    IF b = Genesis THEN {b} ELSE {b} \cup MC_Branch[Parent[b]]

MC_NoRank == [b \in Blocks |-> 0]

Fork_Coins == {"k1", "a", "b", "x", "d", "e"}
Fork_Mine == Fork_Coins \ {"x"}
Fork_Txs == {"f1", "f2", "p", "q", "u", "s", "z"}
Fork_WalletTxs == {"p", "u"}
Fork_Rings == {"R", "C", "Rn", "D", "Dn"}
Fork_Blocks == {"0", "1", "2", "3", "4", "5", "2n", "3n", "3s", "4s", "5s"}
Fork_Parent ==
    "1" :> "0" @@ "2" :> "1" @@ "3" :> "2" @@ "4" :> "3" @@ "5" :> "4" @@
    "2n" :> "1" @@ "3n" :> "2n" @@
    "3s" :> "2" @@ "4s" :> "3s" @@ "5s" :> "4s"
Fork_Height ==
    "0" :> 0 @@ "1" :> 1 @@ "2" :> 2 @@ "3" :> 3 @@ "4" :> 4 @@ "5" :> 5 @@
    "2n" :> 2 @@ "3n" :> 3 @@ "3s" :> 3 @@ "4s" :> 4 @@ "5s" :> 5
Fork_Coinbase == [b \in Fork_Blocks |-> IF b = "1" THEN {"k1"} ELSE {}]
Fork_TxsOf ==
    "1" :> {"f1"} @@ "2" :> {"f2"} @@ "2n" :> {"f2"} @@
    "3" :> {"p"} @@ "4" :> {"q", "z"} @@ "3s" :> {"s"} @@ "4s" :> {"q"} @@
    [b \in Fork_Blocks |-> {}]
Fork_Outputs ==
    "f1" :> {"a"} @@ "f2" :> {"b", "x"} @@ "p" :> {"d"} @@ "s" :> {"e"} @@
    [t \in Fork_Txs |-> {}]
Fork_Spends ==
    "p" :> {<<"R", "a">>} @@ "s" :> {<<"R", "a">>} @@ "q" :> {<<"R", "b">>} @@
    "u" :> {<<"R", "a">>, <<"R", "b">>} @@ "z" :> {<<"R", "x">>} @@
    [t \in Fork_Txs |-> {}]
Fork_RingsOf ==
    "2" :> {"R", "C"} @@ "2n" :> {"Rn", "C"} @@ "5" :> {"D"} @@ "5s" :> {"Dn"} @@
    [b \in Fork_Blocks |-> {}]
Fork_Members ==
    "R" :> {"a", "b", "x"} @@ "Rn" :> {"a", "b", "x"} @@ "C" :> {"k1"} @@
    "D" :> {"d"} @@ "Dn" :> {"e"}

\* The tree satisfies what the theorems assume of one.
ASSUME TreeAsProved == NoCoinbaseUnmatured
=============================================================================
