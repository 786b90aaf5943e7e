----------------------------- MODULE MCCtaut -----------------------------
(***************************************************************************)
(* The tree of blocks on which CtautLedger is model-checked.  g registers  *)
(* a token with the root coins r1 and r2, m mints v with r1, x transfers   *)
(* it, and p, made by another copy of the wallet, re-registers with r2:    *)
(* after m in one branch, in its place in the other, where r1 is disabled  *)
(* although m may hold it.                                                 *)
(***************************************************************************)
EXTENDS CtautLedger, TLC

\* Every ancestor of a block.
MC_Branch[b \in Blocks] ==
    IF b = Genesis THEN {b} ELSE {b} \cup MC_Branch[Parent[b]]

MC_NoRank == [b \in Blocks |-> 0]

Coins_ == {"r1", "r2", "v", "n", "w"}
Txs_ == {"g", "m", "p", "x"}
WalletTxs_ == {"m", "x"}
Rings_ == {"R", "D", "N", "Nn"}
Blocks_ == {"0", "1", "2", "3", "4", "5", "6", "3n", "4n", "5n"}
Parent_ ==
    "1" :> "0" @@ "2" :> "1" @@ "3" :> "2" @@ "4" :> "3" @@ "5" :> "4" @@
    "6" :> "5" @@ "3n" :> "2" @@ "4n" :> "3n" @@ "5n" :> "4n"
Height_ ==
    "0" :> 0 @@ "1" :> 1 @@ "2" :> 2 @@ "3" :> 3 @@ "4" :> 4 @@ "5" :> 5 @@
    "6" :> 6 @@ "3n" :> 3 @@ "4n" :> 4 @@ "5n" :> 5
Coinbase_ == [b \in Blocks_ |-> {}]
TxsOf_ ==
    "1" :> {"g"} @@ "3" :> {"m"} @@ "4" :> {"p"} @@ "6" :> {"x"} @@
    "3n" :> {"p"} @@ [b \in Blocks_ |-> {}]
Outputs_ ==
    "g" :> {"r1", "r2"} @@ "m" :> {"v"} @@ "p" :> {"n"} @@ "x" :> {"w"}
Spends_ ==
    "g" :> {} @@ "m" :> {<<"R", "r1">>} @@ "p" :> {<<"R", "r2">>} @@
    "x" :> {<<"D", "v">>}
RingsOf_ ==
    "2" :> {"R"} @@ "5" :> {"D", "N"} @@ "5n" :> {"Nn"} @@
    [b \in Blocks_ |-> {}]
Members_ ==
    "R" :> {"r1", "r2"} @@ "D" :> {"v"} @@ "N" :> {"n"} @@ "Nn" :> {"n"}

RootCoins_ == {"r1", "r2", "n"}
AutOf_ == [c \in Coins_ |-> "aut"]
ReRegisters_ == [t \in Txs_ |-> IF t = "p" THEN {"aut"} ELSE {}]

\* The tree satisfies what the theorems assume of one.
ASSUME TreeAsProved == NoCoinbaseUnmatured /\ DisabledRinged /\ DisabledNotRestored /\ DisabledNotSpent
=============================================================================
