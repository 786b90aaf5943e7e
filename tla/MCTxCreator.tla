---------------------------- MODULE MCTxCreator ----------------------------
(***************************************************************************)
(* A wallet with two ring coins, of different versions, a coin whose value *)
(* is public, one of level "ct", and four tokens: two root coins, a hidden *)
(* and a public one.                                                       *)
(***************************************************************************)
EXTENDS TxCreator, TLC

MC_Coins == {"r1", "r2", "s1", "p1", "root1", "root2", "hid", "pub"}
MC_Amount == "r1" :> 9 @@ "r2" :> 6 @@ "s1" :> 7 @@ "p1" :> 6 @@ [c \in MC_Coins |-> 1]
MC_Version == "r2" :> 2 @@ [c \in MC_Coins |-> 1]
MC_Confirmations == "r1" :> 4 @@ [c \in MC_Coins |-> 9]
MC_Level == "r1" :> "ring" @@ "r2" :> "ring" @@ "s1" :> "single" @@ [c \in MC_Coins |-> "ct"]
MC_Token == {"root1", "root2", "hid", "pub"}
MC_Root == {"root1", "root2"}
MC_AddrKey == "root2" :> "B" @@ [c \in MC_Token |-> "A"]
MC_TokenValue == "hid" :> 3 @@ "pub" :> 2 @@ [c \in MC_Token |-> 0]
MC_HiddenToken == {"hid"}
MC_PublicRand == "r1" :> "none" @@ "r2" :> "none" @@ [c \in MC_Coins |-> c]

\* A ring input costs two, another one, a public value beside rings one more.
MC_RateFee(rings, others, public) == 2 * rings + others + (IF public = 0 THEN 0 ELSE 1)
MC_TokenFee(ins, keys) == ins + keys

Out(level, value) == [level |-> level, value |-> value]
Pay(outs, fee, named, consume, minconf) ==
    [outs |-> outs, fee |-> fee, scaled |-> fee = 0, named |-> named, minconf |-> minconf,
     consumePseudonymous |-> consume, changeToPseudonymous |-> consume]
\* 6 and 13 are what one or two of the coins are worth exactly.
MC_PayCommands ==
    {Pay(<<Out("ring", value)>>, fee, Automatic, consume, minconf) :
        value \in {4, 6, 8, 13, 18}, fee \in {0, 2}, consume \in {None, TRUE, FALSE}, minconf \in {1, 5}}
    \cup {Pay(<<Out("single", 5), Out("ring", 3)>>, fee, named, None, 1) :
             fee \in {0, 1},
             named \in {Automatic, <<{"r1", "s1"}>>, <<{"s1"}, {"r2"}>>, <<{"s1"}, {"s1", "r2"}>>}}
MC_RecipientLists ==
    {<<[value |-> 2, hidden |-> FALSE]>>,
     <<[value |-> 1, hidden |-> FALSE], [value |-> 3, hidden |-> TRUE]>>}
=============================================================================
