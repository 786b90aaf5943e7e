--------------------------- MODULE TxStoreProofs ---------------------------
(***************************************************************************)
(* What is proved of the transaction store for every tree of blocks, every *)
(* set of transactions and every maturity: type correctness; what the      *)
(* branch of a block says of outputs, rings and serial numbers; that the   *)
(* total is the sum of the partial balances; and that, as long as no       *)
(* rollback has to turn a matured coinbase back, the buckets are what the  *)
(* branch of the tip says, so that the store implements the ledger.  From  *)
(* that, what is proved of the records written with the TXOs (TxoRecords)  *)
(* and of the tokens beside them (CtautLedger).  Where a rollback does turn*)
(* coinbases back but leaves their blocks: that each TXO is in one bucket, *)
(* ready to be spent if it is offered, and under the right name.           *)
(***************************************************************************)
EXTENDS TxoRecords, CtautLedger, BlockTreeProofs, TLAPS, FiniteSetTheorems

-----------------------------------------------------------------------------
(* Balances *)

\* A balance stays one when TXOs are added to it or subtracted from it.
LEMMA PlusMinusType ==
    ASSUME NEW bal \in [Coins -> Int], NEW S
    PROVE  /\ Plus(bal, S) \in [Coins -> Int]
           /\ Minus(bal, S) \in [Coins -> Int]
  BY DEF Plus, Minus

\* What adding and subtracting does to the count of one TXO.
LEMMA PlusMinusAt ==
    ASSUME NEW bal \in [Coins -> Int], NEW S, NEW c \in Coins
    PROVE  /\ Plus(bal, S)[c] = bal[c] + (IF c \in S THEN 1 ELSE 0)
           /\ Minus(bal, S)[c] = bal[c] - (IF c \in S THEN 1 ELSE 0)
  BY DEF Plus, Minus

-----------------------------------------------------------------------------
(* Type correctness *)

\* The operators on the tree return wallet outputs.
LEMMA ChainTypes ==
    ASSUME NEW b \in Blocks
    PROVE  /\ CoinbaseOutput(b) \subseteq Coins
           /\ TransferOutputs(b) \subseteq Coins
           /\ \A r : Revealed(b, r) \subseteq Coins
  BY SetsAssumption DEF CoinbaseOutput, TransferOutputs, Revealed

\* A ring entry stays one when serial numbers of the block are added.
LEMMA RingTypes ==
    ASSUME TypeOK, NEW b \in Blocks, NEW r \in Rings
    PROVE  /\ utxoRing[r] \in RingState
           /\ NoRing \in RingState
           /\ AfterBlock(b, r) \in RingState
           /\ \A u \in RingState : SpentFlags(r, u) \subseteq Coins
  <1>1. utxoRing[r] \in RingState
    BY DEF TypeOK
  <1>2. Revealed(b, r) \subseteq Coins
    BY ChainTypes
  <1>3. AfterBlock(b, r) \in RingState
    BY <1>1, <1>2 DEF AfterBlock, RingState
  <1>4. NoRing \in RingState
    BY DEF NoRing, RingState
  <1>5. \A u \in RingState : SpentFlags(r, u) \subseteq Coins
    BY DEF SpentFlags, RingState
  <1> QED BY <1>1, <1>3, <1>4, <1>5

\* The initial state has the types.
LEMMA InitType == Init => TypeOK
  <1> SUFFICES ASSUME Init PROVE TypeOK
    OBVIOUS
  <1>1. CoinbaseOutput(Genesis) \subseteq Coins
    BY SetsAssumption DEF CoinbaseOutput
  <1>2. NoRing \in RingState
    BY DEF NoRing, RingState
  <1>3. NoInputs \in InputRecord
    BY <1>2 DEF NoInputs, InputRecord
  <1>4. ZeroBalance \in [Coins -> Int] /\ CountOf(CoinbaseOutput(Genesis)) \in [Coins -> Int]
    BY DEF ZeroBalance, CountOf
  <1> QED
    BY <1>1, <1>2, <1>3, <1>4, SetsAssumption, TreeAssumption, WalletTxsAssumption DEF Init, TypeOK

\* InsertTx keeps the types.
LEMMA InsertTxType ==
    ASSUME TypeOK, NEW t \in WalletTxs, InsertTx(t)
    PROVE  TypeOK'
  <1>1. t \in Txs
    BY WalletTxsAssumption
  <1>2. OwnInputs(t) \subseteq Coins
    BY DEF OwnInputs
  <1>3. RelevantTo(OwnInputs(t)) \subseteq Txs
    BY <1>2 DEF RelevantTo, TypeOK
  <1>4. /\ mature' \subseteq Coins
        /\ unconfirmed' \subseteq Coins
    BY <1>2 DEF InsertTx, TypeOK
  <1>5. /\ unconfirmedTx' \subseteq Txs
        /\ invalidTx' \subseteq Txs
        /\ confirmedTx' \subseteq Txs
    BY <1>1, <1>3 DEF InsertTx, TypeOK
  <1>6. relevant' \in [Coins -> SUBSET Txs]
    BY <1>1 DEF InsertTx, TypeOK
  <1>7. /\ spendableBal' \in [Coins -> Int]
        /\ unconfirmedBal' \in [Coins -> Int]
    BY PlusMinusType DEF InsertTx, TypeOK
  <1> QED
    BY <1>4, <1>5, <1>6, <1>7 DEF InsertTx, TypeOK, records, immature

\* InsertBlock keeps the types.
LEMMA InsertBlockType ==
    ASSUME TypeOK, NEW b \in Blocks, InsertBlock(b)
    PROVE  TypeOK'
  <1>1. /\ CoinbaseOutput(b) \subseteq Coins
        /\ TransferOutputs(b) \subseteq Coins
        /\ \A r : Revealed(b, r) \subseteq Coins
    BY ChainTypes
  <1>2. /\ NoRing \in RingState
        /\ \A r \in Rings : utxoRing[r] \in RingState /\ AfterBlock(b, r) \in RingState
    BY RingTypes DEF NoRing, RingState
  <1>3. /\ MaturedCoinbases(b) \subseteq Coins
        /\ GroupTransfers(b) \subseteq Coins
    <2>1. MaturedBlocks(b) \subseteq Blocks /\ GroupBlocks(b) \subseteq Blocks
      BY TreeAssumption DEF MaturedBlocks, GroupBlocks, Group
    <2> QED BY <2>1 DEF MaturedCoinbases, GroupTransfers, TypeOK
  <1>4. MaturedTransfers(b) \subseteq Coins
    BY <1>1, <1>3 DEF MaturedTransfers
  <1>5. tip' \in Blocks /\ blockRecords' \subseteq Blocks
    <2>1. RefetchedBlocks(b) \subseteq Blocks
      BY TreeAssumption DEF RefetchedBlocks, Group
    <2> QED BY <2>1 DEF InsertBlock, InsertBlockRecords, KeptRecords, TypeOK
  <1>6. blockOutputs' \in [Blocks -> SUBSET Coins]
    BY <1>1 DEF InsertBlock, InsertBlockRecords, OwnOutputs, TypeOK
  <1>7. blockInputs' \in [Blocks -> InputRecord]
    <2> DEFINE rec == [old |-> [r \in Rings |-> RecordedRing(b, r)],
                       sns |-> [r \in Rings |->
                                  IF r \in RingsTouched(b) THEN Revealed(b, r) ELSE {}]]
    <2>1. rec \in InputRecord
      BY <1>1, <1>2 DEF InputRecord, RecordedRing
    <2>2. blockInputs' = IF RingsTouched(b) = {} THEN blockInputs
                         ELSE [blockInputs EXCEPT ![b] = rec]
      BY DEF InsertBlock, InsertBlockRecords
    <2> QED BY <2>1, <2>2 DEF TypeOK
  <1>8. utxoRing' \in [Rings -> RingState]
    <2>1. \A r \in Rings :
             [mine |-> Members[r] \cap GroupCoins(b), got |-> {}] \in RingState
      BY SetsAssumption DEF RingState
    <2> QED BY <1>2, <2>1 DEF InsertBlock, InsertBlockRings
  <1>9. /\ unconfirmedTx' \subseteq Txs
        /\ invalidTx' \subseteq Txs
        /\ confirmedTx' \subseteq Txs
        /\ relevant' \in [Coins -> SUBSET Txs]
    BY SetsAssumption DEF InsertBlock, InsertBlockTxs, Accepted, Conflicts, TypeOK
  <1>10. /\ mature' \subseteq Coins
         /\ unconfirmed' \subseteq Coins
         /\ confirmed' \subseteq Coins
    BY <1>3, <1>4 DEF InsertBlock, InsertBlockTxos, SpentMature, SpentUnconfirmed, TypeOK
  <1>11. /\ immatureCB' \in [Blocks -> SUBSET Coins]
         /\ immatureTR' \in [Blocks -> SUBSET Coins]
    BY <1>1 DEF InsertBlock, InsertBlockTxos, TypeOK
  <1>12. /\ balance' \in [Coins -> Int]
         /\ spendableBal' \in [Coins -> Int]
         /\ immatureCBBal' \in [Coins -> Int]
         /\ immatureTRBal' \in [Coins -> Int]
         /\ unconfirmedBal' \in [Coins -> Int]
    BY PlusMinusType DEF InsertBlock, InsertBlockBalances, TypeOK
  <1>13. resend' \subseteq Txs /\ rejections' \in 0 .. MaxRejections
    BY DEF InsertBlock, TypeOK
  <1> QED
    BY <1>5, <1>6, <1>7, <1>8, <1>9, <1>10, <1>11, <1>12, <1>13 DEF TypeOK

\* Rollback keeps the types.
LEMMA RollbackType ==
    ASSUME TypeOK, NEW b \in Blocks, Rollback(b)
    PROVE  TypeOK'
  <1>1. tip' \in Blocks /\ blockRecords' \subseteq Blocks
    BY TreeAssumption DEF Rollback, TypeOK
  <1>2. /\ \A a \in Blocks : ToImmatureTR(a) \subseteq Coins
        /\ ImmatureTRUnringed(b) \in [Blocks -> SUBSET Coins]
    BY DEF ToImmatureTR, ImmatureTRUnringed, TypeOK
  <1>3. \A r \in Rings : /\ RingUnringed(b)[r] \in RingState
                         /\ blockInputs[b].old[r] \in RingState
    BY RingTypes DEF RingUnringed, TypeOK, InputRecord
  <1>4. Restored(b) \subseteq Coins
    <2>1. \A r \in Rings : RestoredFrom(b, r) \subseteq Coins
      BY <1>3 DEF RestoredFrom, RingState
    <2> QED BY <2>1 DEF Restored, SavedRings
  <1>5. /\ MatureRestored(b) \subseteq Coins
        /\ UnconfirmedRestored(b) \subseteq Coins
        /\ ConfirmedRestored(b) \subseteq Coins
    BY <1>4 DEF MatureRestored, UnconfirmedRestored, ConfirmedRestored,
                ConfirmedUnringed, TypeOK
  <1>6. /\ mature' \subseteq Coins
        /\ unconfirmed' \subseteq Coins
        /\ confirmed' \subseteq Coins
    BY <1>5 DEF Rollback, RollbackTxos
  <1>7. immatureTR' \in [Blocks -> SUBSET Coins]
    BY <1>2 DEF Rollback, RollbackTxos
  <1>8. immatureCB' \in [Blocks -> SUBSET Coins]
    <2>1. \A a : ToImmatureCB(b, a) \subseteq Coins
      BY <1>5 DEF ToImmatureCB
    <2> QED BY <2>1 DEF Rollback, RollbackTxos, TypeOK
  <1>9. utxoRing' \in [Rings -> RingState]
    BY <1>3 DEF Rollback, RollbackRings
  <1>10. /\ UnringedTxos(b) \subseteq Coins
         /\ UnmaturedTxos(b) \subseteq Coins
    <2>1. UndoneBlocks(b) \subseteq Blocks
      BY TreeAssumption DEF UndoneBlocks, Group
    <2>2. UnringedTxos(b) \subseteq Coins
      BY <1>2, <2>1 DEF UnringedTxos
    <2>3. UnmaturedTxos(b) \subseteq Coins
      BY <1>5 DEF UnmaturedTxos, ToImmatureCB
    <2> QED BY <2>2, <2>3
  <1>11. /\ unconfirmedTx' \subseteq Txs
         /\ invalidTx' \subseteq Txs
         /\ confirmedTx' \subseteq Txs
         /\ relevant' \in [Coins -> SUBSET Txs]
    BY DEF Rollback, RollbackTxs, TypeOK
  <1>12. /\ balance' \in [Coins -> Int]
         /\ spendableBal' \in [Coins -> Int]
         /\ immatureCBBal' \in [Coins -> Int]
         /\ immatureTRBal' \in [Coins -> Int]
         /\ unconfirmedBal' \in [Coins -> Int]
    BY PlusMinusType DEF Rollback, RollbackBalances, TypeOK
  <1>13. /\ blockOutputs' \in [Blocks -> SUBSET Coins]
         /\ blockInputs' \in [Blocks -> InputRecord]
         /\ resend' \subseteq Txs
         /\ rejections' \in 0 .. MaxRejections
    BY DEF Rollback, TypeOK
  <1> QED
    BY <1>1, <1>6, <1>7, <1>8, <1>9, <1>11, <1>12, <1>13 DEF TypeOK

\* The steps of the resend goroutine keep the types.
LEMMA ResendType ==
    ASSUME TypeOK,
           ResendRead \/ \E t \in Txs : ResendAccepted(t) \/ ResendRejected(t)
    PROVE  TypeOK'
  <1>1. CASE ResendRead
    BY <1>1 DEF ResendRead, TypeOK, records, immature, txos, txs, balances
  <1>2. CASE \E t \in Txs : ResendAccepted(t)
    BY <1>2 DEF ResendAccepted, TypeOK, records, immature, txos, txs, balances
  <1>3. ASSUME NEW t \in Txs, ResendRejected(t)
        PROVE  TypeOK'
    <2>1. rejections' \in 0 .. MaxRejections
      BY <1>3, WalletTxsAssumption DEF ResendRejected, TypeOK
    <2> QED
      BY <1>3, <2>1 DEF ResendRejected, DeleteRawUnmined, TypeOK, records, immature, balances
  <1> QED BY <1>1, <1>2, <1>3

\* Every bucket and every stored balance keeps its type in every reachable
\* state: in particular Rollback never writes anything but wallet outputs.
THEOREM TypeCorrect == Spec => []TypeOK
  <1>1. TypeOK /\ [Next]_vars => TypeOK'
    <2> SUFFICES ASSUME TypeOK, [Next]_vars PROVE TypeOK'
      OBVIOUS
    <2>1. CASE \E b \in Blocks : InsertBlock(b) \/ Rollback(b)
      BY <2>1, InsertBlockType, RollbackType
    <2>2. CASE \E t \in WalletTxs : InsertTx(t)
      BY <2>2, InsertTxType
    <2>3. CASE ResendRead \/ \E t \in Txs : ResendAccepted(t) \/ ResendRejected(t)
      BY <2>3, ResendType
    <2>4. CASE UNCHANGED vars
      BY <2>4 DEF vars, records, immature, txos, txs, balances, TypeOK
    <2> QED BY <2>1, <2>2, <2>3, <2>4 DEF Next
  <1> QED BY InitType, <1>1, PTL DEF Spec

-----------------------------------------------------------------------------
(* The total is the sum of the partial balances.  The invariant is         *)
(* inductive with type correctness alone: it says nothing of the buckets,  *)
(* so it holds in the states too where these and the balances disagree.    *)

\* InsertTx moves amounts from the spendable to the unconfirmed balance.
LEMMA InsertTxSum ==
    ASSUME TypeOK, TotalIsSum, NEW t \in WalletTxs, InsertTx(t)
    PROVE  TotalIsSum'
  <1> SUFFICES ASSUME NEW c \in Coins
               PROVE  balance'[c] = immatureCBBal'[c] + immatureTRBal'[c]
                                    + spendableBal'[c] + unconfirmedBal'[c]
    BY DEF TotalIsSum
  <1>1. /\ spendableBal' = Minus(spendableBal, OwnInputs(t))
        /\ unconfirmedBal' = Plus(unconfirmedBal, OwnInputs(t))
        /\ UNCHANGED <<balance, immatureCBBal, immatureTRBal>>
    BY DEF InsertTx
  <1> QED BY <1>1, PlusMinusAt DEF TypeOK, TotalIsSum

\* InsertBlock: what the block pays the wallet enters the total through an
\* immature balance, what it spends leaves the total through the spendable or
\* the unconfirmed one, and what matures only changes sides.
LEMMA InsertBlockSum ==
    ASSUME TypeOK, TotalIsSum, NEW b \in Blocks, InsertBlock(b)
    PROVE  TotalIsSum'
  <1> SUFFICES ASSUME NEW c \in Coins
               PROVE  balance'[c] = immatureCBBal'[c] + immatureTRBal'[c]
                                    + spendableBal'[c] + unconfirmedBal'[c]
    BY DEF TotalIsSum
  <1> DEFINE In(S) == IF c \in S THEN 1 ELSE 0
  <1> HIDE DEF In
  <1>1. /\ balance[c] \in Int /\ spendableBal[c] \in Int
        /\ immatureCBBal[c] \in Int /\ immatureTRBal[c] \in Int
        /\ unconfirmedBal[c] \in Int
    BY DEF TypeOK
  <1>2. balance'[c] = balance[c] + In(CoinbaseOutput(b)) + In(TransferOutputs(b))
                      - In(SpentMature(b)) - In(SpentUnconfirmed(b))
    BY <1>1 DEF InsertBlock, InsertBlockBalances, Plus, Minus, In
  <1>3. spendableBal'[c] = spendableBal[c] - In(SpentMature(b))
                           + In(MaturedCoinbases(b)) + In(MaturedTransfers(b))
    BY <1>1 DEF InsertBlock, InsertBlockBalances, Plus, Minus, In
  <1>4. /\ immatureCBBal'[c] = immatureCBBal[c] + In(CoinbaseOutput(b))
                               - In(MaturedCoinbases(b))
        /\ immatureTRBal'[c] = immatureTRBal[c] + In(TransferOutputs(b))
                               - In(MaturedTransfers(b))
        /\ unconfirmedBal'[c] = unconfirmedBal[c] - In(SpentUnconfirmed(b))
    BY <1>1 DEF InsertBlock, InsertBlockBalances, Plus, Minus, In
  <1>5. \A S : In(S) \in Int
    BY DEF In
  <1>6. balance[c] = immatureCBBal[c] + immatureTRBal[c]
                     + spendableBal[c] + unconfirmedBal[c]
    BY DEF TotalIsSum
  <1> QED
    BY <1>2, <1>3, <1>4, <1>5, <1>6, <1>1

\* Rollback: the TXOs that leave the confirmed bucket re-enter the total; the
\* others change sides, each found in exactly one of the three buckets.
LEMMA RollbackSum ==
    ASSUME TypeOK, TotalIsSum, NEW b \in Blocks, Rollback(b)
    PROVE  TotalIsSum'
  <1> SUFFICES ASSUME NEW c \in Coins
               PROVE  balance'[c] = immatureCBBal'[c] + immatureTRBal'[c]
                                    + spendableBal'[c] + unconfirmedBal'[c]
    BY DEF TotalIsSum
  <1> DEFINE In(S) == IF c \in S THEN 1 ELSE 0
  <1> HIDE DEF In
  <1>1. /\ balance[c] \in Int /\ spendableBal[c] \in Int
         /\ immatureCBBal[c] \in Int /\ immatureTRBal[c] \in Int
         /\ unconfirmedBal[c] \in Int
    BY DEF TypeOK
  <1>2. balance'[c] = balance[c] + In(UnringedConfirmed(b)) + In(Restored(b))
                      - In(DroppedCB(b)) - In(DroppedTR(b))
                      + In(UnmaturedConfirmed(b))
    <2> DEFINE total == Plus(Plus(balance, UnringedConfirmed(b)), Restored(b))
    <2>1. /\ total[c] = balance[c] + In(UnringedConfirmed(b)) + In(Restored(b))
          /\ total[c] \in Int
      BY <1>1 DEF Plus, In
    <2>2. balance' = Plus(Minus(Minus(total, DroppedCB(b)), DroppedTR(b)), UnmaturedConfirmed(b))
      BY DEF Rollback, RollbackBalances
    <2> HIDE DEF total
    <2>3. balance'[c] = total[c] - In(DroppedCB(b)) - In(DroppedTR(b)) + In(UnmaturedConfirmed(b))
      BY <2>1, <2>2 DEF Plus, Minus, In
    <2> QED
      BY <1>1, <2>1, <2>3 DEF In
  <1>3. spendableBal'[c] = spendableBal[c] - In(UnringedMature(b))
                           + In(Restored(b)) - In(UnmaturedMature(b))
    BY <1>1 DEF Rollback, RollbackBalances, Plus, Minus, In
  <1>4. immatureCBBal'[c] = immatureCBBal[c] - In(DroppedCB(b))
                            + In(UnmaturedMature(b) \cup UnmaturedUnconfirmed(b))
    BY <1>1 DEF Rollback, RollbackBalances, Plus, Minus, In
  <1>5. immatureTRBal'[c] = immatureTRBal[c] + In(UnringedTxos(b)) - In(DroppedTR(b))
    BY <1>1 DEF Rollback, RollbackBalances, Plus, Minus, In
  <1>6. unconfirmedBal'[c] = unconfirmedBal[c] - In(UnringedUnconfirmed(b))
                             - In(UnmaturedUnconfirmed(b)) + In(UnmaturedConfirmed(b))
    BY <1>1 DEF Rollback, RollbackBalances, Plus, Minus, In
  \* A TXO that becomes immature again leaves exactly one bucket.
  <1>7. In(UnringedTxos(b)) = In(UnringedMature(b)) + In(UnringedUnconfirmed(b))
                              + In(UnringedConfirmed(b))
    BY DEF UnringedMature, UnringedUnconfirmed, UnringedConfirmed, In
  <1>8. In(UnmaturedMature(b) \cup UnmaturedUnconfirmed(b))
          = In(UnmaturedMature(b)) + In(UnmaturedUnconfirmed(b))
    BY DEF UnmaturedMature, UnmaturedUnconfirmed, In
  <1>9. \A S : In(S) \in Int
    BY DEF In
  <1>10. balance[c] = immatureCBBal[c] + immatureTRBal[c]
                     + spendableBal[c] + unconfirmedBal[c]
    BY DEF TotalIsSum
  <1> QED
    BY <1>2, <1>3, <1>4, <1>5, <1>6, <1>7, <1>8, <1>9, <1>10, <1>1

\* The stored total is the sum of the four partial balances after every
\* sequence of InsertTx, InsertBlock, Rollback and DeleteRawUnmined, for every
\* tree of blocks and whatever the amounts are.
THEOREM TotalAlwaysSum == Spec => []TotalIsSum
  <1>1. Init => TotalIsSum
    BY SetsAssumption DEF Init, TotalIsSum, ZeroBalance, CountOf
  <1>2. TypeOK /\ TotalIsSum /\ [Next]_vars => TotalIsSum'
    <2> SUFFICES ASSUME TypeOK, TotalIsSum, [Next]_vars PROVE TotalIsSum'
      OBVIOUS
    <2>1. CASE \E b \in Blocks : InsertBlock(b) \/ Rollback(b)
      BY <2>1, InsertBlockSum, RollbackSum
    <2>2. CASE \E t \in WalletTxs : InsertTx(t)
      BY <2>2, InsertTxSum
    <2>3. CASE ResendRead \/ \E t \in Txs : ResendAccepted(t) \/ ResendRejected(t)
      BY <2>3 DEF ResendRead, ResendAccepted, ResendRejected, DeleteRawUnmined,
                  TotalIsSum, balances
    <2>4. CASE UNCHANGED vars
      BY <2>4 DEF vars, balances, TotalIsSum
    <2> QED BY <2>1, <2>2, <2>3, <2>4 DEF Next
  <1> QED BY TypeCorrect, <1>1, <1>2, PTL DEF Spec

-----------------------------------------------------------------------------
(* What the branch of a block says, from what that of its parent says *)

\* Outputs, rings and serial numbers of a branch are those of its parent and those
\* the block adds.
LEMMA ChainStep ==
    ASSUME NEW b \in Blocks \ {Genesis}
    PROVE  /\ Owned(b) = Owned(Parent[b]) \cup OwnOutputs(b)
           /\ RingsFormed(b) = RingsFormed(Parent[b])
                                  \cup (IF CompletesGroup(b) THEN RingsOf[b] ELSE {})
           /\ \A r : RevealedBy(b, r) = RevealedBy(Parent[b], r) \cup Revealed(b, r)
           /\ Ringed(b) = Ringed(Parent[b])
                 \cup (IF CompletesGroup(b) THEN UNION {Members[r] : r \in RingsOf[b]} ELSE {})
           /\ Matured(b) = Matured(Parent[b]) \cup UNION {Coinbase[x] : x \in MaturedBlocks(b)}
<1>1. Branch[b] = Branch[Parent[b]] \cup {b}
  BY ParentBelow
<1>2. Owned(b) = Owned(Parent[b]) \cup OwnOutputs(b)
  BY <1>1 DEF Owned
<1>3. RingsFormed(b) = RingsFormed(Parent[b]) \cup (IF CompletesGroup(b) THEN RingsOf[b] ELSE {})
  BY <1>1 DEF RingsFormed
<1>4. \A r : RevealedBy(b, r) = RevealedBy(Parent[b], r) \cup Revealed(b, r)
  BY <1>1 DEF RevealedBy
<1>5. Ringed(b) = Ringed(Parent[b])
                 \cup (IF CompletesGroup(b) THEN UNION {Members[r] : r \in RingsOf[b]} ELSE {})
  BY <1>3 DEF Ringed
<1>6. Matured(b) = Matured(Parent[b]) \cup UNION {Coinbase[x] : x \in MaturedBlocks(b)}
  BY <1>1 DEF Matured
<1> QED
  BY <1>2, <1>3, <1>4, <1>5, <1>6

\* What has been on the branch stays there.
LEMMA ChainGrows ==
    ASSUME NEW b \in Blocks, NEW a \in Branch[b]
    PROVE  /\ Owned(a) \subseteq Owned(b)
           /\ RingsFormed(a) \subseteq RingsFormed(b)
           /\ \A r : RevealedBy(a, r) \subseteq RevealedBy(b, r)
           /\ Matured(a) \subseteq Matured(b)
<1>1. Branch[a] \subseteq Branch[b]
  BY BranchBelow
<1> QED
  BY <1>1 DEF Owned, RingsFormed, RevealedBy, Matured

\* The outputs of a block and their kinds.
LEMMA OutputKinds ==
    ASSUME NEW b \in Blocks
    PROVE  /\ Created(b) \cap Mine = OwnOutputs(b)
           /\ Created(b) \subseteq Coins
           /\ CoinbaseOutput(b) \subseteq CoinbaseCoins
           /\ TransferOutputs(b) \cap CoinbaseCoins = {}
<1>1. /\ Coinbase[b] \subseteq Coins /\ TxsOf[b] \subseteq Txs
      /\ \A t \in TxsOf[b] : Outputs[t] \subseteq Coins /\ Outputs[t] \cap CoinbaseCoins = {}
  BY SetsAssumption, OutputsAssumption
<1>2. Created(b) \cap Mine = OwnOutputs(b)
  <2> DEFINE T == UNION {Outputs[t] : t \in TxsOf[b]}
  <2>1. Created(b) = Coinbase[b] \cup T
    BY Zenon DEF Created
  <2>2. TransferOutputs(b) = T \cap Mine
    BY Zenon DEF TransferOutputs
  <2> HIDE DEF T
  <2> QED
    BY <2>1, <2>2 DEF OwnOutputs, CoinbaseOutput
<1>3. Created(b) \subseteq Coins
  BY <1>1 DEF Created
<1>4. CoinbaseOutput(b) \subseteq CoinbaseCoins
  BY DEF CoinbaseOutput, CoinbaseCoins
<1>5. TransferOutputs(b) \cap CoinbaseCoins = {}
  BY <1>1 DEF TransferOutputs
<1> QED
  BY <1>2, <1>3, <1>4, <1>5

\* No output is created by two blocks of a branch.
LEMMA CreatedOnce ==
    ASSUME NEW b \in Blocks, NEW a \in Branch[b], NEW x \in Branch[b], a # x
    PROVE  Created(a) \cap Created(x) = {}
<1>1. a \in Blocks /\ x \in Blocks /\ Height[a] \in Nat /\ Height[x] \in Nat
  BY BranchBelow, TreeAssumption
<1>2. CASE Height[a] <= Height[x]
  BY <1>1, <1>2, BranchOrdered, OutputsAssumption
<1>3. CASE Height[x] <= Height[a]
  BY <1>1, <1>3, BranchOrdered, OutputsAssumption
<1> QED
  BY <1>1, <1>2, <1>3

\* The members of a ring are outputs of the branch, and those that are the
\* wallet's are owned.
LEMMA MembersCreated ==
    ASSUME NEW b \in Blocks, NEW r \in RingsFormed(b)
    PROVE  /\ r \in Rings
           /\ Members[r] \subseteq Coins
           /\ Members[r] \cap Mine \subseteq Owned(b)
           /\ Members[r] \cap Mine \subseteq Ringed(b)
<1>1. PICK x \in Branch[b] : CompletesGroup(x) /\ r \in RingsOf[x]
  BY DEF RingsFormed
<1>2. x \in Blocks /\ Branch[x] \subseteq Branch[b]
  BY BranchBelow
<1>3. r \in Rings /\ Members[r] \subseteq Coins
  BY <1>1, <1>2, SetsAssumption
<1>4. Members[r] \subseteq UNION {Created(a) : a \in Group(x)}
  BY <1>1, <1>2, RingsAssumption
<1>5. \A a \in Group(x) : a \in Branch[b] /\ a \in Blocks
  BY <1>2, BranchBelow DEF Group
<1>6. Members[r] \cap Mine \subseteq Owned(b)
  BY <1>4, <1>5, OutputKinds DEF Owned
<1>7. Members[r] \subseteq Ringed(b)
  BY DEF Ringed
<1> QED
  BY <1>3, <1>6, <1>7

\* No TXO is a member of two rings of a branch.
LEMMA OneRing ==
    ASSUME NEW b \in Blocks, NEW r \in RingsFormed(b), NEW q \in RingsFormed(b),
           NEW c \in Members[r], c \in Members[q]
    PROVE  r = q
<1>1. PICK x \in Branch[b] : CompletesGroup(x) /\ r \in RingsOf[x]
  BY DEF RingsFormed
<1>2. PICK y \in Branch[b] : CompletesGroup(y) /\ q \in RingsOf[y]
  BY DEF RingsFormed
<1>3. x \in Blocks /\ y \in Blocks /\ Height[x] \in Nat /\ Height[y] \in Nat
      /\ x \in Branch[x] /\ y \in Branch[y]
  BY BranchBelow, TreeAssumption
<1>4. CASE Height[x] <= Height[y]
  <2>1. x \in Branch[y]
    BY <1>3, <1>4, BranchOrdered
  <2>2. r \in RingsFormed(y)
    BY <1>1, <2>1 DEF RingsFormed
  <2> QED
    BY <1>2, <1>3, <2>2, RingsAssumption
<1>5. CASE Height[y] <= Height[x]
  <2>1. y \in Branch[x]
    BY <1>3, <1>5, BranchOrdered
  <2>2. q \in RingsFormed(x)
    BY <1>2, <2>1 DEF RingsFormed
  <2> QED
    BY <1>1, <1>3, <2>2, RingsAssumption
<1> QED
  BY <1>3, <1>4, <1>5

\* What a block reveals is of rings the branch had before it.
LEMMA RevealedKnown ==
    ASSUME NEW b \in Blocks, NEW r, NEW c \in Revealed(b, r)
    PROVE  /\ b # Genesis /\ Parent[b] \in Blocks
           /\ r \in RingsFormed(Parent[b]) /\ r \in Rings
           /\ c \in Members[r] /\ c \notin RevealedBy(Parent[b], r)
           /\ c \in CoinbaseCoins => c \in Matured(Parent[b])
<1>1. PICK t \in TxsOf[b] : <<r, c>> \in Spends[t]
  BY DEF Revealed
<1>2. b # Genesis
  BY <1>1, RingsAssumption
<1>3. Parent[b] \in Blocks
  BY <1>2, ParentBelow
<1>4. /\ r \in RingsFormed(Parent[b])
      /\ c \in Members[r] /\ c \notin RevealedBy(Parent[b], r)
      /\ c \in CoinbaseCoins => c \in Matured(Parent[b])
  BY <1>1, SpendsAssumption
<1> QED
  BY <1>2, <1>3, <1>4, MembersCreated

\* The serial numbers a branch has revealed are of members of its rings.
LEMMA RevealedByKnown ==
    ASSUME NEW b \in Blocks, NEW r, NEW c \in RevealedBy(b, r)
    PROVE  /\ r \in RingsFormed(b) /\ c \in Members[r] /\ r \in Rings
           /\ c \in CoinbaseCoins => c \in Matured(b)
<1>1. PICK a \in Branch[b] : c \in Revealed(a, r)
  BY DEF RevealedBy
<1>2. a \in Blocks
  BY BranchBelow
<1>3. /\ a # Genesis /\ Parent[a] \in Blocks
      /\ r \in RingsFormed(Parent[a]) /\ r \in Rings
      /\ c \in Members[r]
      /\ c \in CoinbaseCoins => c \in Matured(Parent[a])
  BY <1>1, <1>2, RevealedKnown
<1>4. Parent[a] \in Branch[b]
  <2>1. Parent[a] \in Branch[Parent[a]] /\ Branch[a] = Branch[Parent[a]] \cup {a}
    BY <1>2, <1>3, BranchBelow, ParentBelow
  <2> QED
    BY <2>1, BranchBelow
<1> QED
  BY <1>3, <1>4, ChainGrows

\* A TXO of the wallet is spent when the branch has revealed it, whichever ring
\* it is in.
LEMMA SpentIs ==
    ASSUME NEW b \in Blocks
    PROVE  /\ \A c \in Mine : \A r : c \in RevealedBy(b, r) => c \in Spent(b)
           /\ \A c \in Spent(b) : c \in Mine /\ \E r \in RingsFormed(b) : c \in RevealedBy(b, r)
<1>1. ASSUME NEW c \in Mine, NEW r, c \in RevealedBy(b, r) PROVE c \in Spent(b)
  <2>1. r \in RingsFormed(b) /\ c \in Members[r]
    BY <1>1, RevealedByKnown
  <2>2. c \in Owned(b)
    BY <2>1, MembersCreated
  <2> QED
    BY <1>1, <2>1, <2>2 DEF Spent
<1>2. Owned(b) \subseteq Mine
  <2>1. \A a : OwnOutputs(a) \subseteq Mine
    BY DEF OwnOutputs, CoinbaseOutput, TransferOutputs
  <2> QED
    BY <2>1 DEF Owned
<1> QED
  BY <1>1, <1>2 DEF Spent

\* Of the members of a ring of the branch, those are spent that it has revealed.
LEMMA SpentByRing ==
    ASSUME NEW b \in Blocks, NEW r \in RingsFormed(b), NEW c \in Members[r] \cap Mine
    PROVE  c \in Spent(b) <=> c \in RevealedBy(b, r)
<1>1. ASSUME c \in Spent(b) PROVE c \in RevealedBy(b, r)
  <2>1. PICK q \in RingsFormed(b) : c \in RevealedBy(b, q)
    BY <1>1, SpentIs
  <2>2. c \in Members[q]
    BY <2>1, RevealedByKnown
  <2>3. q = r
    BY <2>2, OneRing
  <2> QED
    BY <2>1, <2>3
<1> QED
  BY <1>1, SpentIs

\* What is spent was ready.
LEMMA SpentReady ==
    ASSUME NEW b \in Blocks PROVE Spent(b) \subseteq Ready(b) /\ Ready(b) \subseteq Owned(b)
<1> SUFFICES ASSUME NEW c \in Spent(b) PROVE c \in Ready(b)
  BY DEF Ready
<1>1. PICK r \in RingsFormed(b) : c \in RevealedBy(b, r)
  BY SpentIs
<1>2. /\ c \in Members[r] /\ c \in Mine /\ c \in Coins
      /\ c \in CoinbaseCoins => c \in Matured(b)
  BY <1>1, SpentIs, RevealedByKnown, SetsAssumption
<1> QED
  BY <1>2, MembersCreated DEF Ready

\* What the rings of a branch hold was created on the branch.
LEMMA RingedCreated ==
    ASSUME NEW b \in Blocks, NEW c \in Ringed(b)
    PROVE  \E a \in Branch[b] : c \in Created(a)
<1>1. PICK r \in RingsFormed(b) : c \in Members[r]
  BY DEF Ringed
<1>2. PICK x \in Branch[b] : CompletesGroup(x) /\ r \in RingsOf[x]
  BY DEF RingsFormed
<1>3. x \in Blocks /\ Branch[x] \subseteq Branch[b]
  BY BranchBelow
<1>4. c \in UNION {Created(a) : a \in Group(x)}
  BY <1>1, <1>2, <1>3, RingsAssumption
<1> QED
  BY <1>3, <1>4 DEF Group

\* A coinbase that has matured is in a ring: maturity is no shorter than a group.
LEMMA MaturedRinged ==
    ASSUME NEW b \in Blocks
    PROVE  /\ Matured(b) \subseteq Ringed(b)
           /\ Matured(b) \cap Mine \subseteq Owned(b)
<1> SUFFICES ASSUME NEW c \in Matured(b)
             PROVE  c \in Ringed(b) /\ (c \in Mine => c \in Owned(b))
  OBVIOUS
<1>1. PICK a \in Branch[b] : \E x \in MaturedBlocks(a) : c \in Coinbase[x]
  BY DEF Matured
<1>2. PICK x \in MaturedBlocks(a) : c \in Coinbase[x]
  BY <1>1
<1>3. a \in Blocks /\ Branch[a] \subseteq Branch[b] /\ Height[a] \in Nat
  BY BranchBelow, TreeAssumption
<1>4. x \in Branch[a] /\ Height[x] \in MaturedHeights(a) /\ x \in Blocks /\ Height[x] \in Nat
  BY <1>3, BranchBelow, TreeAssumption DEF MaturedBlocks
<1>5. Height[x] <= Height[a] - Maturity
  BY <1>3, <1>4, GroupAssumption DEF MaturedHeights
<1>6. PICK m \in Nat : Height[x] <= m /\ m < Height[x] + GroupSize /\ m % GroupSize = GroupSize - 1
  BY <1>4, GroupEnd
<1>7. m <= Height[a]
  BY <1>3, <1>4, <1>5, <1>6, GroupAssumption
<1>8. PICK y \in Branch[a] : Height[y] = m
  BY <1>3, <1>7, BranchFull
<1>9. y \in Blocks /\ y \in Branch[b] /\ CompletesGroup(y)
  BY <1>3, <1>6, <1>8, BranchBelow DEF CompletesGroup
<1>10. x \in Group(y)
  <2>1. x \in Branch[y]
    BY <1>3, <1>4, <1>6, <1>8, BranchOrdered
  <2> QED
    BY <2>1, <1>4, <1>6, <1>8, GroupAssumption DEF Group
<1>11. c \in Created(x)
  BY <1>2 DEF Created
<1>12. c \in UNION {Members[r] : r \in RingsOf[y]}
  BY <1>9, <1>10, <1>11, RingsAssumption
<1>13. RingsOf[y] \subseteq RingsFormed(b)
  BY <1>9 DEF RingsFormed
<1>14. c \in Ringed(b)
  BY <1>12, <1>13 DEF Ringed
<1>15. c \in Mine => c \in Owned(b)
  BY <1>11, <1>3, <1>4, OutputKinds DEF Owned
<1> QED
  BY <1>14, <1>15

\* The coinbases of a group that is just complete have not matured.
LEMMA GroupYoung ==
    ASSUME NEW b \in Blocks, NEW a \in Group(b)
    PROVE  Coinbase[a] \cap Matured(b) = {}
<1> SUFFICES ASSUME NEW c \in Coinbase[a], c \in Matured(b) PROVE FALSE
  OBVIOUS
<1>1. PICK y \in Branch[b] : \E x \in MaturedBlocks(y) : c \in Coinbase[x]
  BY DEF Matured
<1>2. PICK x \in MaturedBlocks(y) : c \in Coinbase[x]
  BY <1>1
<1>3. y \in Blocks /\ Branch[y] \subseteq Branch[b] /\ Height[y] \in Nat /\ Height[b] \in Nat
      /\ Height[y] <= Height[b]
  BY BranchBelow, TreeAssumption
<1>4. x \in Branch[b] /\ Height[x] \in MaturedHeights(y)
  BY <1>3 DEF MaturedBlocks
<1>5. Height[x] <= Height[y] - Maturity
  BY <1>3, <1>4, GroupAssumption DEF MaturedHeights
<1>6. a \in Branch[b] /\ a \in Blocks /\ Height[a] \in Nat /\ Height[a] > Height[b] - GroupSize
  BY BranchBelow, TreeAssumption DEF Group
<1>7. a # x
  BY <1>3, <1>5, <1>6, GroupAssumption
<1>8. c \in Created(a) /\ c \in Created(x)
  BY <1>2 DEF Created
<1> QED
  BY <1>4, <1>6, <1>7, <1>8, CreatedOnce

\* The outputs of the blocks of a group are in no ring before the group is complete.
LEMMA NewRing ==
    ASSUME NEW b \in Blocks, CompletesGroup(b), NEW a \in Group(b)
    PROVE  /\ b # Genesis /\ a \in Branch[b] /\ a \in Blocks
           /\ Created(a) \cap Ringed(Parent[b]) = {}
           /\ Created(a) \subseteq Ringed(b)
<1>1. b # Genesis
  BY RingsAssumption
<1>2. a \in Branch[b] /\ a \in Blocks
  BY BranchBelow DEF Group
<1>3. RingsFormed(b) = RingsFormed(Parent[b]) \cup RingsOf[b]
  BY <1>1, ChainStep
<1>4. ASSUME NEW c \in Created(a)
      PROVE  c \notin Ringed(Parent[b]) /\ c \in Ringed(b)
  <2>1. PICK r \in RingsOf[b] : c \in Members[r]
    BY <1>4, RingsAssumption
  <2>2. ASSUME c \in Ringed(Parent[b]) PROVE FALSE
    <3>1. PICK q \in RingsFormed(Parent[b]) : c \in Members[q]
      BY <2>2 DEF Ringed
    <3>2. q # r
      BY RingsAssumption
    <3> QED
      BY <1>3, <2>1, <3>1, <3>2, RingsAssumption
  <2> QED
    BY <1>3, <2>1, <2>2 DEF Ringed
<1> QED
  BY <1>1, <1>2, <1>4

\* What a block creates is new to the branch.
LEMMA Fresh ==
    ASSUME NEW b \in Blocks \ {Genesis}
    PROVE  /\ Created(b) \cap Ringed(Parent[b]) = {}
           /\ \A a \in Branch[Parent[b]] : a # b /\ Created(b) \cap Created(a) = {}
           /\ Coinbase[b] \cap Matured(b) = {}
<1>1. b \in Branch[b] /\ Branch[b] = Branch[Parent[b]] \cup {b} /\ Parent[b] \in Blocks
      /\ b \notin Branch[Parent[b]] /\ Height[b] \in Nat
  BY BranchBelow, ParentBelow, ParentBranch
<1>2. \A a \in Branch[Parent[b]] : a # b /\ Created(b) \cap Created(a) = {}
  BY <1>1, CreatedOnce
<1>3. Created(b) \cap Ringed(Parent[b]) = {}
  BY <1>1, <1>2, RingedCreated
<1>4. b \in Group(b)
  BY <1>1, GroupAssumption DEF Group
<1> QED
  BY <1>2, <1>3, <1>4, GroupYoung

\* Two multiples of the group size are a group apart.
LEMMA Multiples ==
    ASSUME NEW u \in Int, NEW v \in Int, u % GroupSize = 0, v % GroupSize = 0, u < v
    PROVE  v - u >= GroupSize
<1> DEFINE g == GroupSize
           p == u \div g
           q == v \div g
<1>1. g \in Nat /\ g > 0
  BY GroupAssumption
<1> HIDE DEF g
<1>2. p \in Int /\ q \in Int /\ u = g * p /\ v = g * q
  BY <1>1 DEF g
<1> HIDE DEF p, q
<1>3. g * (q - p) > 0 /\ v - u = g * (q - p)
  BY <1>1, <1>2
<1>4. q - p >= 1
  BY <1>1, <1>2, <1>3
<1> QED
  BY <1>1, <1>2, <1>3, <1>4 DEF g

\* A coinbase matures once.
LEMMA MaturedNew ==
    ASSUME NEW b \in Blocks \ {Genesis}, NEW x \in MaturedBlocks(b)
    PROVE  /\ x \in Branch[Parent[b]] /\ x \in Blocks
           /\ Coinbase[x] \cap Matured(Parent[b]) = {}
           /\ Coinbase[x] \subseteq Matured(b)
<1> DEFINE p == Parent[b]
<1>1. /\ Branch[b] = Branch[p] \cup {b} /\ p \in Blocks /\ Height[b] \in Nat
      /\ b \in Branch[b]
      /\ \A a \in Branch[p] : Height[a] < Height[b]
  BY BranchBelow, ParentBelow, ParentBranch
<1> HIDE DEF p
<1>2. /\ x \in Branch[b] /\ x \in Blocks /\ Height[x] \in Nat /\ MaturesGroup(b)
      /\ Height[x] \in MaturedHeights(b)
  BY BranchBelow, TreeAssumption DEF MaturedBlocks
<1>3. PICK i \in 0 .. GroupSize - 1 : Height[x] = Height[b] - Maturity - i
  BY <1>2 DEF MaturedHeights
<1>4. x \in Branch[p]
  BY <1>1, <1>2, <1>3, GroupAssumption
<1>5. ASSUME NEW c \in Coinbase[x], c \in Matured(p) PROVE FALSE
  <2>1. PICK z \in Branch[p] : \E y \in MaturedBlocks(z) : c \in Coinbase[y]
    BY <1>5 DEF Matured
  <2>2. PICK y \in MaturedBlocks(z) : c \in Coinbase[y]
    BY <2>1
  <2>3. z \in Blocks /\ Height[z] \in Nat /\ Branch[z] \subseteq Branch[p] /\ Height[z] < Height[b]
    BY <1>1, BranchBelow, TreeAssumption
  <2>4. y \in Branch[p] /\ Height[y] \in MaturedHeights(z) /\ MaturesGroup(z)
    BY <2>3 DEF MaturedBlocks
  <2>5. x = y
    <3>1. c \in Created(x) /\ c \in Created(y)
      BY <1>5, <2>2 DEF Created
    <3> QED
      BY <1>1, <1>4, <2>4, <3>1, CreatedOnce
  <2>6. PICK j \in 0 .. GroupSize - 1 : Height[y] = Height[z] - Maturity - j
    BY <2>4 DEF MaturedHeights
  <2>7. /\ (Height[b] - Maturity + 1) % GroupSize = 0
        /\ (Height[z] - Maturity + 1) % GroupSize = 0
    BY <1>2, <2>4 DEF MaturesGroup
  <2>8. (Height[b] - Maturity + 1) - (Height[z] - Maturity + 1) >= GroupSize
    <3> DEFINE u == Height[z] - Maturity + 1
               v == Height[b] - Maturity + 1
    <3>1. u \in Int /\ v \in Int /\ u < v
      BY <1>1, <2>3, GroupAssumption
    <3>2. u % GroupSize = 0 /\ v % GroupSize = 0
      BY <2>7
    <3> HIDE DEF u, v
    <3>3. v - u >= GroupSize
      BY <3>1, <3>2, Multiples
    <3> QED
      BY <3>3 DEF u, v
  <2> QED
    BY <1>1, <1>3, <2>3, <2>5, <2>6, <2>8, GroupAssumption
<1>6. Coinbase[x] \subseteq Matured(b)
  BY <1>1 DEF Matured
<1> QED
  BY <1>2, <1>4, <1>5, <1>6 DEF p

\* The wallet's TXOs that a block spends.
NewlySpent(b) == {c \in Mine : \E r \in Rings : c \in Revealed(b, r)}

\* A block spends TXOs that may be spent, none of them spent before.
LEMMA SpentStep ==
    ASSUME NEW b \in Blocks \ {Genesis}
    PROVE  /\ Spent(b) = Spent(Parent[b]) \cup NewlySpent(b)
           /\ Spent(Parent[b]) \cap NewlySpent(b) = {}
           /\ NewlySpent(b) \subseteq Ready(Parent[b])
<1> DEFINE p == Parent[b]
<1>1. p \in Blocks /\ \A r : RevealedBy(b, r) = RevealedBy(p, r) \cup Revealed(b, r)
  BY ParentBelow, ChainStep
<1> HIDE DEF p
<1>2. ASSUME NEW c \in NewlySpent(b)
      PROVE  c \in Spent(b) /\ c \notin Spent(p) /\ c \in Ready(p)
  <2>1. PICK r \in Rings : c \in Revealed(b, r)
    BY <1>2 DEF NewlySpent
  <2>2. /\ r \in RingsFormed(p) /\ c \in Members[r] /\ c \notin RevealedBy(p, r)
        /\ c \in CoinbaseCoins => c \in Matured(p)
    BY <2>1, RevealedKnown DEF p
  <2>3. c \in Mine /\ c \in Coins
    BY <1>2, SetsAssumption DEF NewlySpent
  <2>4. c \in Owned(p) /\ c \in Ringed(p)
    BY <1>1, <2>2, <2>3, MembersCreated
  <2>5. c \in Spent(b)
    BY <1>1, <2>1, <2>3, SpentIs
  <2>6. c \notin Spent(p)
    BY <1>1, <2>2, <2>3, SpentByRing
  <2> QED
    BY <2>2, <2>3, <2>4, <2>5, <2>6 DEF Ready
<1>3. ASSUME NEW c \in Spent(p) PROVE c \in Spent(b)
  <2>1. c \in Mine /\ \E r \in RingsFormed(p) : c \in RevealedBy(p, r)
    BY <1>1, SpentIs
  <2> QED
    BY <1>1, <2>1, SpentIs
<1>4. ASSUME NEW c \in Spent(b), c \notin Spent(p) PROVE c \in NewlySpent(b)
  <2>1. c \in Mine
    BY SpentIs
  <2>2. PICK r \in RingsFormed(b) : c \in RevealedBy(b, r)
    BY SpentIs
  <2>3. c \in Revealed(b, r) /\ r \in Rings
    BY <1>1, <1>4, <2>1, <2>2, SpentIs, MembersCreated
  <2> QED
    BY <2>1, <2>3 DEF NewlySpent
<1> QED
  BY <1>2, <1>3, <1>4 DEF p

\* The TXOs that may be spent from b on.
NewReady(b) ==
    (UNION {CoinbaseOutput(a) : a \in MaturedBlocks(b)})
    \cup (IF CompletesGroup(b) THEN UNION {TransferOutputs(a) : a \in Group(b)} ELSE {})

\* What a block makes ready, and that it was not ready before.
LEMMA ReadyStep ==
    ASSUME NEW b \in Blocks \ {Genesis}
    PROVE  /\ Ready(b) = Ready(Parent[b]) \cup NewReady(b)
           /\ Ready(Parent[b]) \cap NewReady(b) = {}
<1> DEFINE p == Parent[b]
<1>1. /\ p \in Blocks
      /\ Owned(b) = Owned(p) \cup OwnOutputs(b)
      /\ RingsFormed(b) = RingsFormed(p) \cup (IF CompletesGroup(b) THEN RingsOf[b] ELSE {})
      /\ Ringed(b) = Ringed(p)
            \cup (IF CompletesGroup(b) THEN UNION {Members[r] : r \in RingsOf[b]} ELSE {})
      /\ Matured(b) = Matured(p) \cup UNION {Coinbase[x] : x \in MaturedBlocks(b)}
  BY ParentBelow, ChainStep
<1>2. \A a \in MaturedBlocks(b) : /\ a \in Branch[p] /\ a \in Blocks
                                  /\ Coinbase[a] \cap Matured(p) = {}
                                  /\ Coinbase[a] \subseteq Matured(b)
  BY MaturedNew
<1>3. CompletesGroup(b) => \A a \in Group(b) : /\ a \in Branch[b] /\ a \in Blocks
                                               /\ Created(a) \cap Ringed(p) = {}
                                               /\ Created(a) \subseteq Ringed(b)
  BY NewRing
<1> HIDE DEF p
<1>4. \A a \in Blocks : /\ OwnOutputs(a) = Created(a) \cap Mine
                        /\ CoinbaseOutput(a) \subseteq CoinbaseCoins
                        /\ TransferOutputs(a) \cap CoinbaseCoins = {}
                        /\ Created(a) \subseteq Coins
  BY OutputKinds
<1>5. \A a : /\ CoinbaseOutput(a) = Coinbase[a] \cap Mine
             /\ OwnOutputs(a) = CoinbaseOutput(a) \cup TransferOutputs(a)
  BY DEF CoinbaseOutput, OwnOutputs
<1>6. \A a \in Branch[b] : OwnOutputs(a) \subseteq Owned(b)
  BY DEF Owned
<1>7. Branch[b] = Branch[p] \cup {b}
  BY ParentBelow DEF p
<1>8. ASSUME NEW a \in MaturedBlocks(b), NEW c \in CoinbaseOutput(a)
      PROVE  c \in Ready(b) /\ c \notin Ready(p)
  <2>1. c \in CoinbaseCoins /\ c \in Matured(b) /\ c \notin Matured(p) /\ c \in Coins
    BY <1>2, <1>4, <1>5, <1>8, SetsAssumption
  <2>2. c \in Owned(b)
    BY <1>2, <1>5, <1>6, <1>7, <1>8
  <2>3. c \in Ringed(b)
    BY <2>1, MaturedRinged
  <2> QED
    BY <2>1, <2>2, <2>3 DEF Ready
<1>9. ASSUME CompletesGroup(b), NEW a \in Group(b), NEW c \in TransferOutputs(a)
      PROVE  c \in Ready(b) /\ c \notin Ready(p)
  <2>1. c \in OwnOutputs(a) /\ c \in Created(a) /\ a \in Branch[b] /\ a \in Blocks
    BY <1>3, <1>4, <1>5, <1>9
  <2>2. c \in Ringed(b) /\ c \notin Ringed(p) /\ c \in Coins /\ c \notin CoinbaseCoins
    BY <1>3, <1>4, <1>9, <2>1
  <2> QED
    BY <1>6, <2>1, <2>2 DEF Ready
<1>10. ASSUME NEW c \in Ready(p) PROVE c \in Ready(b)
  BY <1>1, <1>10 DEF Ready
<1>11. ASSUME NEW c \in Ready(b), c \notin Ready(p) PROVE c \in NewReady(b)
  <2>1. c \in Owned(b) /\ c \in Ringed(b) /\ c \in Coins /\ c \in Mine
    <3>1. \A a \in Branch[b] : OwnOutputs(a) \subseteq Mine
      BY <1>4, BranchBelow
    <3> QED
      BY <1>11, <3>1, SetsAssumption DEF Ready, Owned
  <2>2. CASE c \in CoinbaseCoins
    <3>1. c \in Matured(b)
      BY <1>11, <2>2 DEF Ready
    <3>2. c \notin Matured(p)
      BY <1>1, <1>11, <2>1, <2>2, MaturedRinged DEF Ready
    <3>3. PICK x \in MaturedBlocks(b) : c \in Coinbase[x]
      BY <1>1, <3>1, <3>2
    <3> QED
      BY <1>5, <2>1, <3>3 DEF NewReady
  <2>3. CASE c \notin CoinbaseCoins
    <3>1. c \notin Ringed(p)
      <4>1. ASSUME c \in Ringed(p) PROVE FALSE
        <5>1. PICK r \in RingsFormed(p) : c \in Members[r]
          BY <4>1 DEF Ringed
        <5>2. c \in Owned(p)
          BY <1>1, <2>1, <5>1, MembersCreated
        <5> QED
          BY <1>11, <2>1, <2>3, <4>1, <5>2 DEF Ready
      <4> QED
        BY <4>1
    <3>2. CompletesGroup(b) /\ c \in UNION {Members[r] : r \in RingsOf[b]}
      BY <1>1, <2>1, <3>1
    <3>3. PICK a \in Group(b) : c \in Created(a)
      BY <3>2, RingsAssumption
    <3>4. a \in Blocks
      BY <1>3, <3>2
    <3>5. c \in TransferOutputs(a)
      BY <1>4, <1>5, <2>1, <2>3, <3>3, <3>4
    <3> QED
      BY <3>2, <3>5 DEF NewReady
  <2> QED
    BY <2>2, <2>3
<1>12. ASSUME NEW c \in NewReady(b) PROVE c \in Ready(b) /\ c \notin Ready(p)
  BY <1>8, <1>9, <1>12 DEF NewReady
<1> QED
  BY <1>10, <1>11, <1>12 DEF p

\* What is owned and not ready: coinbases that have not matured, and transfer
\* outputs that no ring holds.
ImmatureCBAt(b) == [a \in Blocks |-> IF a \in Branch[b] THEN CoinbaseOutput(a) \ Matured(b) ELSE {}]
ImmatureTRAt(b) == [a \in Blocks |-> IF a \in Branch[b] THEN TransferOutputs(a) \ Ringed(b) ELSE {}]

\* The two immature buckets hold what is owned and not ready.
LEMMA ImmatureIs ==
    ASSUME NEW b \in Blocks
    PROVE  (UNION {ImmatureCBAt(b)[a] : a \in Blocks}) \cup UNION {ImmatureTRAt(b)[a] : a \in Blocks}
              = Owned(b) \ Ready(b)
<1>1. Branch[b] \subseteq Blocks
  BY BranchBelow
<1>2. \A a \in Blocks : /\ CoinbaseOutput(a) \subseteq CoinbaseCoins
                        /\ TransferOutputs(a) \cap CoinbaseCoins = {}
                        /\ OwnOutputs(a) = CoinbaseOutput(a) \cup TransferOutputs(a)
                        /\ OwnOutputs(a) \subseteq Coins
  BY OutputKinds DEF OwnOutputs
<1>3. ASSUME NEW a \in Blocks, NEW c \in ImmatureCBAt(b)[a]
      PROVE  c \in Owned(b) \ Ready(b)
  <2>1. a \in Branch[b] /\ c \in CoinbaseOutput(a) /\ c \notin Matured(b)
    BY <1>3 DEF ImmatureCBAt
  <2> QED
    BY <1>2, <2>1 DEF Owned, Ready
<1>4. ASSUME NEW a \in Blocks, NEW c \in ImmatureTRAt(b)[a]
      PROVE  c \in Owned(b) \ Ready(b)
  <2>1. a \in Branch[b] /\ c \in TransferOutputs(a) /\ c \notin Ringed(b)
    BY <1>4 DEF ImmatureTRAt
  <2> QED
    BY <1>2, <2>1 DEF Owned, Ready
<1>5. ASSUME NEW c \in Owned(b) \ Ready(b)
      PROVE  \E a \in Blocks : c \in ImmatureCBAt(b)[a] \/ c \in ImmatureTRAt(b)[a]
  <2>1. PICK a \in Branch[b] : c \in OwnOutputs(a)
    BY <1>5 DEF Owned
  <2>2. a \in Blocks /\ c \in Coins
    BY <1>1, <1>2, <2>1
  <2>3. CASE c \in CoinbaseOutput(a)
    <3>1. c \in CoinbaseCoins
      BY <1>2, <2>2, <2>3
    <3>2. c \notin Matured(b)
      BY <1>5, <2>2, <3>1, MaturedRinged DEF Ready
    <3> QED
      BY <2>1, <2>2, <2>3, <3>2 DEF ImmatureCBAt
  <2>4. CASE c \in TransferOutputs(a)
    <3>1. c \notin CoinbaseCoins
      BY <1>2, <2>2, <2>4
    <3>2. c \notin Ringed(b)
      BY <1>5, <2>2, <3>1 DEF Ready
    <3> QED
      BY <2>1, <2>2, <2>4, <3>2 DEF ImmatureTRAt
  <2> QED
    BY <1>2, <2>1, <2>2, <2>3, <2>4
<1> QED
  BY <1>3, <1>4, <1>5

\* The wallet's TXOs a transaction of the tree spends, and the transactions of a
\* branch that spend some.
OwnSpends(t) == {c \in Mine : \E r \in Rings : <<r, c>> \in Spends[t]}
Spenders(b) == {t \in UNION {TxsOf[a] : a \in Branch[b]} : OwnSpends(t) # {}}

\* The inputs of a transaction are pairs of a ring and a serial number.
LEMMA InputPairs ==
    ASSUME NEW t \in Txs, NEW input \in Spends[t]
    PROVE  input[1] \in Rings /\ input[2] \in Coins /\ input = <<input[1], input[2]>>
<1>1. Spends[t] \subseteq Rings \X Coins
  BY SetsAssumption
<1> QED
  BY <1>1

\* What a transaction of a branch spends is spent on the branch.
LEMMA BranchTx ==
    ASSUME NEW b \in Blocks, NEW a \in Branch[b], NEW t \in TxsOf[a], NEW r, NEW c,
           <<r, c>> \in Spends[t]
    PROVE  /\ t \in Txs /\ r \in RingsFormed(b) /\ r \in Rings /\ c \in Members[r] /\ c \in Coins
           /\ c \in Revealed(a, r) /\ c \in RevealedBy(b, r)
           /\ c \in Mine => c \in Owned(b) /\ c \in Spent(b)
<1>1. a \in Blocks /\ t \in Txs
  BY BranchBelow, SetsAssumption
<1>2. c \in Coins
  <2>1. <<r, c>>[2] \in Coins
    BY <1>1, InputPairs
  <2> QED
    BY <2>1
<1>3. c \in Revealed(a, r)
  BY <1>2 DEF Revealed
<1>4. c \in RevealedBy(b, r)
  BY <1>3 DEF RevealedBy
<1>5. r \in RingsFormed(b) /\ c \in Members[r] /\ r \in Rings
  BY <1>4, RevealedByKnown
<1>6. c \in Mine => c \in Owned(b)
  BY <1>5, MembersCreated
<1>7. c \in Mine => c \in Spent(b)
  BY <1>4, SpentIs
<1> QED
  BY <1>1, <1>2, <1>3, <1>4, <1>5, <1>6, <1>7

\* Of a branch, the transactions that spend what the wallet owns are those that
\* spend anything of the wallet's.
LEMMA SpendersAre ==
    ASSUME NEW b \in Blocks
    PROVE  Spenders(b) = {t \in UNION {TxsOf[a] : a \in Branch[b]} :
                             \E input \in Spends[t] : input[2] \in Owned(b)}
<1>1. Owned(b) \subseteq Mine
  <2>1. \A a : OwnOutputs(a) \subseteq Mine
    BY DEF OwnOutputs, CoinbaseOutput, TransferOutputs
  <2> QED
    BY <2>1 DEF Owned
<1> SUFFICES ASSUME NEW a \in Branch[b], NEW t \in TxsOf[a]
             PROVE  OwnSpends(t) # {} <=> \E input \in Spends[t] : input[2] \in Owned(b)
  BY DEF Spenders
<1>2. t \in Txs
  BY BranchBelow, SetsAssumption
<1>3. ASSUME NEW c \in OwnSpends(t) PROVE \E input \in Spends[t] : input[2] \in Owned(b)
  <2>1. PICK r \in Rings : <<r, c>> \in Spends[t]
    BY <1>3 DEF OwnSpends
  <2>2. c \in Owned(b)
    BY <1>3, <2>1, BranchTx DEF OwnSpends
  <2>3. <<r, c>>[2] \in Owned(b)
    BY <2>2
  <2> QED
    BY <2>1, <2>3
<1>4. ASSUME NEW input \in Spends[t], input[2] \in Owned(b) PROVE input[2] \in OwnSpends(t)
  BY <1>1, <1>2, <1>4, InputPairs DEF OwnSpends
<1> QED
  BY <1>3, <1>4

\* The entry a ring has at a block: none before the ring is formed nor once the
\* branch has revealed every member that is the wallet's.
RingAt(b, r) ==
    IF r \in RingsFormed(b) /\ ~ (Members[r] \cap Mine \subseteq RevealedBy(b, r))
    THEN [mine |-> Members[r] \cap Mine, got |-> RevealedBy(b, r)]
    ELSE NoRing

\* What an entry says of its ring.
LEMMA RingAtIs ==
    ASSUME NEW b \in Blocks, NEW r
    PROVE  /\ RingAt(b, r) # NoRing <=>
                 r \in RingsFormed(b) /\ ~ (Members[r] \cap Mine \subseteq RevealedBy(b, r))
           /\ RingAt(b, r) # NoRing =>
                 /\ RingAt(b, r).mine = Members[r] \cap Mine
                 /\ RingAt(b, r).got = RevealedBy(b, r)
                 /\ SpentFlags(r, RingAt(b, r)) = Members[r] \cap Mine \cap RevealedBy(b, r)
           /\ RingAt(b, r).mine \subseteq Members[r] \cap Mine
<1>1. CASE r \in RingsFormed(b) /\ ~ (Members[r] \cap Mine \subseteq RevealedBy(b, r))
  <2>1. RingAt(b, r) = [mine |-> Members[r] \cap Mine, got |-> RevealedBy(b, r)]
    BY <1>1 DEF RingAt
  <2>2. RingAt(b, r).mine = Members[r] \cap Mine /\ RingAt(b, r).got = RevealedBy(b, r)
    BY <2>1
  <2>3. RingAt(b, r) # NoRing
    <3>1. NoRing.mine = {}
      BY DEF NoRing
    <3> QED
      BY <1>1, <2>2, <3>1
  <2>4. SpentFlags(r, RingAt(b, r)) = Members[r] \cap Mine \cap RevealedBy(b, r)
    BY <2>2 DEF SpentFlags
  <2> QED
    BY <1>1, <2>2, <2>3, <2>4
<1>2. CASE ~ (r \in RingsFormed(b) /\ ~ (Members[r] \cap Mine \subseteq RevealedBy(b, r)))
  <2>1. RingAt(b, r) = NoRing
    BY <1>2 DEF RingAt
  <2>2. NoRing.mine = {}
    BY DEF NoRing
  <2> QED
    BY <1>2, <2>1, <2>2
<1> QED
  BY <1>1, <1>2

\* How the entry of a ring changes with a block.
LEMMA RingAtStep ==
    ASSUME NEW b \in Blocks \ {Genesis}, NEW r
    PROVE  /\ r \notin RingsFormed(Parent[b]) =>
                 RingAt(Parent[b], r) = NoRing /\ Revealed(b, r) = {} /\ RevealedBy(b, r) = {}
           /\ r \notin RingsFormed(b) => RingAt(b, r) = NoRing
           /\ r \in RingsFormed(Parent[b]) => r \in RingsFormed(b) /\ ~ (CompletesGroup(b) /\ r \in RingsOf[b])
           /\ r \in RingsFormed(Parent[b]) /\ Revealed(b, r) = {} =>
                 RingAt(b, r) = RingAt(Parent[b], r)
           /\ r \in RingsFormed(Parent[b]) /\ RingAt(Parent[b], r) = NoRing => RingAt(b, r) = NoRing
           /\ RevealedBy(b, r) = RevealedBy(Parent[b], r) \cup Revealed(b, r)
           /\ RevealedBy(Parent[b], r) \cap Revealed(b, r) = {}
           /\ r \in RingsFormed(b) => r \in RingsFormed(Parent[b]) \/ (CompletesGroup(b) /\ r \in RingsOf[b])
           /\ CompletesGroup(b) /\ r \in RingsOf[b] => r \in RingsFormed(b) /\ r \notin RingsFormed(Parent[b])
<1> DEFINE p == Parent[b]
<1>1. /\ p \in Blocks
      /\ RingsFormed(b) = RingsFormed(p) \cup (IF CompletesGroup(b) THEN RingsOf[b] ELSE {})
      /\ RevealedBy(b, r) = RevealedBy(p, r) \cup Revealed(b, r)
  BY ParentBelow, ChainStep
<1>2. CompletesGroup(b) => RingsOf[b] \cap RingsFormed(p) = {}
  BY RingsAssumption
<1>3. \A c \in Revealed(b, r) : r \in RingsFormed(p) /\ c \notin RevealedBy(p, r)
  BY RevealedKnown
<1> HIDE DEF p
<1>4. \A c \in RevealedBy(p, r) : r \in RingsFormed(p)
  BY <1>1, RevealedByKnown
<1>5. r \in RingsFormed(p) /\ Revealed(b, r) = {} => RingAt(b, r) = RingAt(p, r)
  <2> SUFFICES ASSUME r \in RingsFormed(p), Revealed(b, r) = {} PROVE RingAt(b, r) = RingAt(p, r)
    OBVIOUS
  <2>1. RevealedBy(b, r) = RevealedBy(p, r) /\ r \in RingsFormed(b)
    BY <1>1
  <2> QED
    BY <2>1 DEF RingAt
<1>6. r \in RingsFormed(p) /\ RingAt(p, r) = NoRing => RingAt(b, r) = NoRing
  BY <1>1, RingAtIs
<1>7. r \notin RingsFormed(p) => RingAt(p, r) = NoRing
  BY DEF RingAt
<1>8. r \notin RingsFormed(b) => RingAt(b, r) = NoRing
  BY DEF RingAt
<1> QED
  BY <1>1, <1>2, <1>3, <1>4, <1>5, <1>6, <1>7, <1>8 DEF p

\* The immature TXOs of a branch: a block adds its own and takes those that it
\* matures or puts into rings.
AllCBAt(b) == UNION {ImmatureCBAt(b)[a] : a \in Blocks}
AllTRAt(b) == UNION {ImmatureTRAt(b)[a] : a \in Blocks}
NewMatured(b) == UNION {CoinbaseOutput(a) : a \in MaturedBlocks(b)}
NewTransfers(b) == IF CompletesGroup(b) THEN UNION {TransferOutputs(a) : a \in Group(b)} ELSE {}

\* What a block adds to the immature outputs of the branch, and what it takes.
LEMMA ImmatureSets ==
    ASSUME NEW b \in Blocks \ {Genesis}
    PROVE  /\ AllCBAt(b) = (AllCBAt(Parent[b]) \cup CoinbaseOutput(b)) \ NewMatured(b)
           /\ CoinbaseOutput(b) \cap AllCBAt(Parent[b]) = {}
           /\ NewMatured(b) \subseteq AllCBAt(Parent[b])
           /\ AllTRAt(b) = (AllTRAt(Parent[b]) \cup TransferOutputs(b)) \ NewTransfers(b)
           /\ TransferOutputs(b) \cap AllTRAt(Parent[b]) = {}
           /\ NewTransfers(b) \subseteq AllTRAt(Parent[b]) \cup TransferOutputs(b)
<1> DEFINE p == Parent[b]
<1>1. /\ p \in Blocks /\ Branch[b] = Branch[p] \cup {b} /\ b \in Branch[b] /\ b \notin Branch[p]
      /\ \A x \in Branch[b] : x \in Blocks
      /\ Ringed(b) = Ringed(p)
            \cup (IF CompletesGroup(b) THEN UNION {Members[r] : r \in RingsOf[b]} ELSE {})
      /\ Matured(b) = Matured(p) \cup UNION {Coinbase[x] : x \in MaturedBlocks(b)}
      /\ Height[b] \in Nat
  BY ParentBelow, ParentBranch, BranchBelow, ChainStep
<1>2. /\ Created(b) \cap Ringed(p) = {} /\ Coinbase[b] \cap Matured(b) = {}
      /\ \A a \in Branch[p] : Created(b) \cap Created(a) = {}
  BY Fresh
<1>3. \A x \in MaturedBlocks(b) : /\ x \in Branch[p] /\ x \in Blocks /\ Coinbase[x] \subseteq Matured(b)
                                  /\ Coinbase[x] \cap Matured(p) = {}
  BY MaturedNew
<1>4. CompletesGroup(b) =>
         /\ \A x \in Group(b) : x \in Branch[b] /\ Created(x) \subseteq Ringed(b) /\ Created(x) \cap Ringed(p) = {}
         /\ UNION {Members[r] : r \in RingsOf[b]} = UNION {Created(x) : x \in Group(b)}
         /\ b \in Group(b)
  BY <1>1, NewRing, RingsAssumption, GroupAssumption DEF Group
<1> HIDE DEF p
<1>5. \A x \in Blocks : /\ CoinbaseOutput(x) = Coinbase[x] \cap Mine
                        /\ TransferOutputs(x) \subseteq Created(x)
                        /\ Coinbase[x] \subseteq Created(x)
                        /\ Created(x) \cap Mine = CoinbaseOutput(x) \cup TransferOutputs(x)
                        /\ CoinbaseOutput(x) \subseteq CoinbaseCoins
                        /\ TransferOutputs(x) \cap CoinbaseCoins = {}
                        /\ TransferOutputs(x) \subseteq Mine
  BY OutputKinds DEF OwnOutputs, CoinbaseOutput, Created, TransferOutputs
<1>6. \A y \in Blocks : \A c : c \in AllCBAt(y) <=>
          \E a \in Branch[y] : c \in CoinbaseOutput(a) /\ c \notin Matured(y)
  <2> SUFFICES ASSUME NEW y \in Blocks, NEW c
               PROVE  c \in AllCBAt(y) <=>
                         \E a \in Branch[y] : c \in CoinbaseOutput(a) /\ c \notin Matured(y)
    OBVIOUS
  <2>1. \A a \in Branch[y] : a \in Blocks
    BY BranchBelow
  <2>2. \A a \in Blocks : ImmatureCBAt(y)[a]
                            = IF a \in Branch[y] THEN CoinbaseOutput(a) \ Matured(y) ELSE {}
    BY DEF ImmatureCBAt
  <2> QED
    BY <2>1, <2>2 DEF AllCBAt
<1>7. \A y \in Blocks : \A c : c \in AllTRAt(y) <=>
          \E a \in Branch[y] : c \in TransferOutputs(a) /\ c \notin Ringed(y)
  <2> SUFFICES ASSUME NEW y \in Blocks, NEW c
               PROVE  c \in AllTRAt(y) <=>
                         \E a \in Branch[y] : c \in TransferOutputs(a) /\ c \notin Ringed(y)
    OBVIOUS
  <2>1. \A a \in Branch[y] : a \in Blocks
    BY BranchBelow
  <2>2. \A a \in Blocks : ImmatureTRAt(y)[a]
                            = IF a \in Branch[y] THEN TransferOutputs(a) \ Ringed(y) ELSE {}
    BY DEF ImmatureTRAt
  <2> QED
    BY <2>1, <2>2 DEF AllTRAt
<1>8. AllCBAt(b) = (AllCBAt(p) \cup CoinbaseOutput(b)) \ NewMatured(b)
  <2>1. ASSUME NEW c \in AllCBAt(b)
        PROVE  c \in (AllCBAt(p) \cup CoinbaseOutput(b)) \ NewMatured(b)
    BY <1>1, <1>3, <1>5, <1>6, <2>1 DEF NewMatured
  <2>2. ASSUME NEW c \in CoinbaseOutput(b) PROVE c \in AllCBAt(b)
    BY <1>1, <1>2, <1>5, <1>6, <2>2
  <2>3. ASSUME NEW c \in AllCBAt(p), c \notin NewMatured(b) PROVE c \in AllCBAt(b)
    <3>1. PICK a \in Branch[p] : c \in CoinbaseOutput(a) /\ c \notin Matured(p)
      BY <1>1, <1>6, <2>3
    <3>2. c \in Mine
      BY <1>1, <1>5, <3>1
    <3>3. \A x \in MaturedBlocks(b) : c \notin Coinbase[x]
      BY <1>3, <1>5, <2>3, <3>2 DEF NewMatured
    <3> QED
      BY <1>1, <1>6, <3>1, <3>3
  <2> QED
    BY <2>1, <2>2, <2>3, <1>2, <1>3, <1>5 DEF NewMatured
<1>9. CoinbaseOutput(b) \cap AllCBAt(p) = {}
  BY <1>1, <1>2, <1>5, <1>6
<1>10. NewMatured(b) \subseteq AllCBAt(p)
  BY <1>1, <1>3, <1>5, <1>6 DEF NewMatured
<1>11. ASSUME NEW c \in AllTRAt(b)
       PROVE  c \in AllTRAt(p) \cup TransferOutputs(b) /\ c \notin NewTransfers(b)
  <2>1. PICK a \in Branch[b] : c \in TransferOutputs(a) /\ c \notin Ringed(b)
    BY <1>7, <1>11
  <2>2. c \in AllTRAt(p) \cup TransferOutputs(b)
    BY <1>1, <1>7, <2>1
  <2>3. c \notin NewTransfers(b)
    <3>1. CompletesGroup(b) => \A x \in Group(b) : c \notin TransferOutputs(x)
      BY <1>1, <1>4, <1>5, <2>1
    <3> QED
      BY <3>1 DEF NewTransfers
  <2> QED
    BY <2>2, <2>3
<1>12. ASSUME NEW c \in AllTRAt(p) \cup TransferOutputs(b), c \notin NewTransfers(b)
       PROVE  c \in AllTRAt(b)
  <2>1. PICK a \in Branch[b] : c \in TransferOutputs(a) /\ c \notin Ringed(p)
    <3>1. CASE c \in AllTRAt(p)
      BY <1>1, <1>7, <3>1
    <3>2. CASE c \in TransferOutputs(b)
      BY <1>1, <1>2, <1>5, <3>2
    <3> QED
      BY <1>12, <3>1, <3>2
  <2>2. c \in Mine /\ c \notin CoinbaseCoins
    BY <1>1, <1>5, <2>1
  <2>3. CompletesGroup(b) => \A x \in Group(b) : c \notin Created(x)
    <3> SUFFICES ASSUME CompletesGroup(b), NEW x \in Group(b), c \in Created(x) PROVE FALSE
      OBVIOUS
    <3>1. c \in TransferOutputs(x)
      BY <1>1, <1>4, <1>5, <2>2
    <3> QED
      BY <1>12, <3>1 DEF NewTransfers
  <2>4. c \notin Ringed(b)
    BY <1>1, <1>4, <2>1, <2>3
  <2> QED
    BY <1>7, <2>1, <2>4
<1>13. TransferOutputs(b) \cap AllTRAt(p) = {}
  BY <1>1, <1>2, <1>5, <1>7
<1>14. NewTransfers(b) \subseteq AllTRAt(p) \cup TransferOutputs(b)
  <2> SUFFICES ASSUME CompletesGroup(b), NEW x \in Group(b), NEW c \in TransferOutputs(x)
               PROVE  c \in AllTRAt(p) \cup TransferOutputs(b)
    BY DEF NewTransfers
  <2>1. x \in Branch[b] /\ c \notin Ringed(p)
    BY <1>1, <1>4, <1>5
  <2> QED
    BY <1>1, <1>7, <2>1
<1> QED
  BY <1>8, <1>9, <1>10, <1>11, <1>12, <1>13, <1>14 DEF p

-----------------------------------------------------------------------------
(* The inductive invariant: every bucket is what the branch of the tip      *)
(* says, and every record of a block is what its branch said.               *)

\* The record of the rings b spends from.
InputsOf(b) ==
    [old |-> [r \in Rings |-> IF r \in RingsSpentBy(b) THEN RingAt(Parent[b], r) ELSE NoRing],
     sns |-> [r \in Rings |-> IF RingAt(Parent[b], r) = NoRing THEN {} ELSE Revealed(b, r)]]

BucketsInv ==
    /\ immatureCB = ImmatureCBAt(tip)
    /\ immatureTR = ImmatureTRAt(tip)
    /\ confirmed = Spent(tip)
    /\ unconfirmed \subseteq Ready(tip) \ Spent(tip)
    /\ mature = (Ready(tip) \ Spent(tip)) \ unconfirmed

\* Records stay when their block is detached: they are right if there are any.
RecordsInv ==
    \A a \in Blocks :
        /\ blockOutputs[a] = {} \/ blockOutputs[a] = OwnOutputs(a)
        /\ a \in Branch[tip] => blockOutputs[a] = OwnOutputs(a)
        /\ a # Genesis => /\ blockInputs[a] = NoInputs \/ blockInputs[a] = InputsOf(a)
                          /\ a \in Branch[tip] => blockInputs[a] = InputsOf(a)

RingsInv == utxoRing = [r \in Rings |-> RingAt(tip, r)]

TxsInv ==
    /\ confirmedTx = Spenders(tip)
    /\ confirmedTx \cap unconfirmedTx = {} /\ confirmedTx \cap invalidTx = {}
    /\ unconfirmedTx \cap invalidTx = {}
    /\ \A c \in Coins : \A t \in relevant[c] :
          c \in Mine /\ \E r \in Rings : <<r, c>> \in Spends[t] /\ c \in Members[r]
    /\ \A t \in confirmedTx : \A c \in OwnSpends(t) : t \in relevant[c]
    /\ invalidTx \subseteq RelevantTo(Coins)

Inv == TypeOK /\ BucketsInv /\ RecordsInv /\ RingsInv /\ TxsInv /\ BalancesMatchBuckets

-----------------------------------------------------------------------------
(* InsertBlock *)

\* The rings a block touches, and what their entries are after it.
LEMMA TouchedIs ==
    ASSUME RingsInv, NEW b \in Blocks \ {Genesis}, Parent[b] = tip
    PROVE  /\ ~ DoubleSerialNumber(b)
           /\ \A r \in RingsTouched(b) :
                 /\ r \in Rings /\ r \in RingsFormed(tip) /\ r \in RingsFormed(b)
                 /\ Revealed(b, r) # {}
                 /\ utxoRing[r] = RingAt(tip, r) /\ utxoRing[r] # NoRing
                 /\ AfterBlock(b, r) = [mine |-> Members[r] \cap Mine, got |-> RevealedBy(b, r)]
                 /\ SpentFlags(r, AfterBlock(b, r)) = Members[r] \cap Mine \cap RevealedBy(b, r)
           /\ \A r \in Rings \ RingsTouched(b) : Revealed(b, r) = {} \/ RingAt(tip, r) = NoRing
           /\ \A c \in NewlySpent(b) : \E r \in RingsTouched(b) : c \in Members[r] /\ c \in Revealed(b, r)
<1>1. tip \in Blocks
  BY ParentBelow
<1>2. \A r \in Rings : utxoRing[r] = RingAt(tip, r)
  BY DEF RingsInv
<1>3. RingsTouched(b) = {r \in Rings : Revealed(b, r) # {} /\ RingAt(tip, r) # NoRing}
  BY <1>2 DEF RingsTouched, RingsSpentBy
<1>4. ASSUME NEW r \in RingsTouched(b)
      PROVE  /\ r \in Rings /\ r \in RingsFormed(tip) /\ r \in RingsFormed(b)
             /\ Revealed(b, r) # {}
             /\ utxoRing[r] = RingAt(tip, r) /\ utxoRing[r] # NoRing
             /\ AfterBlock(b, r) = [mine |-> Members[r] \cap Mine, got |-> RevealedBy(b, r)]
             /\ SpentFlags(r, AfterBlock(b, r)) = Members[r] \cap Mine \cap RevealedBy(b, r)
             /\ utxoRing[r].got \cap Revealed(b, r) = {}
  <2>1. r \in Rings /\ utxoRing[r] = RingAt(tip, r) /\ utxoRing[r] # NoRing /\ Revealed(b, r) # {}
    BY <1>2, <1>3, <1>4
  <2>2. /\ r \in RingsFormed(tip)
        /\ RingAt(tip, r).got = RevealedBy(tip, r)
        /\ RingAt(tip, r) = [mine |-> Members[r] \cap Mine, got |-> RevealedBy(tip, r)]
    <3>1. r \in RingsFormed(tip) /\ ~ (Members[r] \cap Mine \subseteq RevealedBy(tip, r))
      BY <1>1, <2>1, RingAtIs
    <3> QED
      BY <3>1 DEF RingAt
  <2>3. /\ RevealedBy(b, r) = RevealedBy(tip, r) \cup Revealed(b, r)
        /\ RevealedBy(tip, r) \cap Revealed(b, r) = {}
        /\ r \in RingsFormed(b)
    BY <2>2, RingAtStep
  <2>4. AfterBlock(b, r) = [mine |-> Members[r] \cap Mine, got |-> RevealedBy(b, r)]
    <3>1. utxoRing[r] = [mine |-> Members[r] \cap Mine, got |-> RevealedBy(tip, r)]
      BY <2>1, <2>2, Zenon
    <3>2. AfterBlock(b, r) = [mine |-> Members[r] \cap Mine,
                              got |-> RevealedBy(tip, r) \cup Revealed(b, r)]
      BY <3>1 DEF AfterBlock
    <3> QED
      BY <2>3, <3>2, Zenon
  <2>5. SpentFlags(r, AfterBlock(b, r)) = Members[r] \cap Mine \cap RevealedBy(b, r)
    BY <2>4 DEF SpentFlags
  <2> QED
    BY <2>1, <2>2, <2>3, <2>4, <2>5
<1>5. ~ DoubleSerialNumber(b)
  BY <1>4 DEF DoubleSerialNumber
<1>6. ASSUME NEW c \in NewlySpent(b)
      PROVE  \E r \in RingsTouched(b) : c \in Members[r] /\ c \in Revealed(b, r)
  <2>1. PICK r \in Rings : c \in Revealed(b, r)
    BY <1>6 DEF NewlySpent
  <2>2. r \in RingsFormed(tip) /\ c \in Members[r] /\ c \notin RevealedBy(tip, r)
    BY <2>1, RevealedKnown
  <2>3. RingAt(tip, r) # NoRing
    BY <1>1, <1>6, <2>2, RingAtIs DEF NewlySpent
  <2> QED
    BY <1>3, <2>1, <2>2, <2>3
<1> QED
  BY <1>3, <1>4, <1>5, <1>6

\* What the other blocks of a group hold when the group is complete.
LEMMA GroupIs ==
    ASSUME BucketsInv, RecordsInv, NEW b \in Blocks, CompletesGroup(b), Parent[b] = tip
    PROVE  /\ GroupCoins(b) = UNION {OwnOutputs(a) : a \in Group(b)}
           /\ GroupTransfers(b) \cup TransferOutputs(b) = UNION {TransferOutputs(a) : a \in Group(b)}
<1>1. /\ b # Genesis /\ tip \in Blocks /\ Branch[b] = Branch[tip] \cup {b} /\ b \in Branch[b]
      /\ Height[b] \in Nat
  <2>1. b # Genesis
    BY RingsAssumption
  <2> QED
    BY <2>1, ParentBelow, BranchBelow
<1>2. b \in Group(b)
  BY <1>1, GroupAssumption DEF Group
<1>3. ASSUME NEW a \in Group(b) \ {b}
      PROVE  /\ immatureTR[a] = TransferOutputs(a) /\ immatureCB[a] = CoinbaseOutput(a)
             /\ blockOutputs[a] = OwnOutputs(a)
  <2>1. a \in Blocks /\ a \in Branch[tip] /\ Created(a) \cap Ringed(tip) = {}
    BY <1>1, NewRing
  <2>2. Coinbase[a] \cap Matured(tip) = {}
    <3>1. Matured(tip) \subseteq Matured(b)
      BY <1>1, ChainStep
    <3> QED
      BY <3>1, GroupYoung
  <2>3. OwnOutputs(a) \subseteq Created(a) /\ TransferOutputs(a) \subseteq OwnOutputs(a)
    BY <2>1, OutputKinds DEF OwnOutputs
  <2>4. CoinbaseOutput(a) \subseteq Coinbase[a]
    BY DEF CoinbaseOutput
  <2> QED
    BY <2>1, <2>2, <2>3, <2>4 DEF BucketsInv, RecordsInv, ImmatureCBAt, ImmatureTRAt
<1>4. \A a : OwnOutputs(a) = CoinbaseOutput(a) \cup TransferOutputs(a)
  BY DEF OwnOutputs
<1>5. GroupTransfers(b) = UNION {TransferOutputs(a) : a \in Group(b) \ {b}}
  <2>1. \A a \in Group(b) \ {b} : TransferOutputs(a) # {} => a \in GroupBlocks(b)
    BY <1>3, <1>4 DEF GroupBlocks
  <2>2. GroupBlocks(b) \subseteq Group(b) \ {b}
    BY DEF GroupBlocks
  <2> QED
    BY <1>3, <2>1, <2>2 DEF GroupTransfers
<1>6. UNION {immatureCB[a] : a \in GroupBlocks(b)} = UNION {CoinbaseOutput(a) : a \in Group(b) \ {b}}
  <2>1. \A a \in Group(b) \ {b} : CoinbaseOutput(a) # {} => a \in GroupBlocks(b)
    BY <1>3, <1>4 DEF GroupBlocks
  <2>2. GroupBlocks(b) \subseteq Group(b) \ {b}
    BY DEF GroupBlocks
  <2> QED
    BY <1>3, <2>1, <2>2
<1>7. GroupCoins(b) = UNION {OwnOutputs(a) : a \in Group(b)}
  <2>1. GroupCoins(b) = CoinbaseOutput(b) \cup TransferOutputs(b)
           \cup (UNION {TransferOutputs(a) : a \in Group(b) \ {b}})
           \cup UNION {CoinbaseOutput(a) : a \in Group(b) \ {b}}
    BY <1>5, <1>6 DEF GroupCoins
  <2> QED
    BY <1>2, <1>4, <2>1
<1>8. GroupTransfers(b) \cup TransferOutputs(b) = UNION {TransferOutputs(a) : a \in Group(b)}
  BY <1>2, <1>5
<1> QED
  BY <1>7, <1>8

\* The entries of the rings after InsertBlock.
LEMMA InsertBlockRingsInv ==
    ASSUME Inv, NEW b \in Blocks, InsertBlock(b)
    PROVE  RingsInv'
<1>1. /\ b \in Blocks \ {Genesis} /\ Parent[b] = tip /\ tip' = b /\ InsertBlockRings(b) /\ RingsInv
      /\ BucketsInv /\ RecordsInv /\ tip \in Blocks
  BY ParentBelow DEF InsertBlock, InsertBlockRecords, Inv
<1>2. ASSUME NEW r \in Rings PROVE utxoRing'[r] = RingAt(b, r)
  <2>1. /\ r \notin RingsFormed(tip) => RingAt(tip, r) = NoRing /\ Revealed(b, r) = {} /\ RevealedBy(b, r) = {}
        /\ r \notin RingsFormed(b) => RingAt(b, r) = NoRing
        /\ r \in RingsFormed(tip) => r \in RingsFormed(b) /\ ~ (CompletesGroup(b) /\ r \in RingsOf[b])
        /\ r \in RingsFormed(tip) /\ Revealed(b, r) = {} => RingAt(b, r) = RingAt(tip, r)
        /\ r \in RingsFormed(tip) /\ RingAt(tip, r) = NoRing => RingAt(b, r) = NoRing
        /\ r \in RingsFormed(b) => r \in RingsFormed(tip) \/ (CompletesGroup(b) /\ r \in RingsOf[b])
        /\ CompletesGroup(b) /\ r \in RingsOf[b] => r \in RingsFormed(b) /\ r \notin RingsFormed(tip)
    BY <1>1, RingAtStep
  <2>2. /\ r \in RingsTouched(b) =>
             /\ r \in RingsFormed(tip) /\ r \in RingsFormed(b)
             /\ AfterBlock(b, r) = [mine |-> Members[r] \cap Mine, got |-> RevealedBy(b, r)]
             /\ SpentFlags(r, AfterBlock(b, r)) = Members[r] \cap Mine \cap RevealedBy(b, r)
        /\ r \notin RingsTouched(b) => Revealed(b, r) = {} \/ RingAt(tip, r) = NoRing
    BY <1>1, TouchedIs
  <2>3. CompletesGroup(b) /\ r \in RingsOf[b] => Members[r] \cap GroupCoins(b) = Members[r] \cap Mine
    <3> SUFFICES ASSUME CompletesGroup(b), r \in RingsOf[b]
                 PROVE  Members[r] \cap GroupCoins(b) = Members[r] \cap Mine
      OBVIOUS
    <3>1. GroupCoins(b) = UNION {OwnOutputs(a) : a \in Group(b)}
      BY <1>1, GroupIs
    <3>2. Members[r] \subseteq UNION {Created(a) : a \in Group(b)}
      BY RingsAssumption
    <3>3. \A a \in Group(b) : OwnOutputs(a) = Created(a) \cap Mine
      BY NewRing, OutputKinds
    <3> QED
      BY <3>1, <3>2, <3>3
  <2>4. NewRings(b) = IF CompletesGroup(b) THEN {q \in RingsOf[b] : Members[q] \cap GroupCoins(b) # {}} ELSE {}
    BY DEF NewRings
  <2>5. utxoRing'[r] = IF r \in NewRings(b)
                       THEN [mine |-> Members[r] \cap GroupCoins(b), got |-> {}]
                       ELSE IF r \notin RingsTouched(b) THEN RingAt(tip, r)
                       ELSE IF AllSpent(r, AfterBlock(b, r)) THEN NoRing
                       ELSE AfterBlock(b, r)
    BY <1>1 DEF InsertBlockRings, RingsInv
  <2>6. CASE r \in NewRings(b)
    <3>1. /\ CompletesGroup(b) /\ r \in RingsOf[b] /\ Members[r] \cap Mine # {}
          /\ r \in RingsFormed(b) /\ RevealedBy(b, r) = {}
      BY <2>1, <2>3, <2>4, <2>6
    <3>2. RingAt(b, r) = [mine |-> Members[r] \cap Mine, got |-> {}]
      BY <3>1 DEF RingAt
    <3> QED
      BY <2>3, <2>5, <2>6, <3>1, <3>2
  <2>7. CASE r \notin NewRings(b) /\ r \in RingsTouched(b)
    <3>1. AllSpent(r, AfterBlock(b, r)) <=> Members[r] \cap Mine \subseteq RevealedBy(b, r)
      <4>1. AfterBlock(b, r).mine = Members[r] \cap Mine
        BY <2>2, <2>7
      <4> QED
        BY <2>2, <2>7, <4>1 DEF AllSpent
    <3> QED
      BY <2>2, <2>5, <2>7, <3>1 DEF RingAt
  <2>8. CASE r \notin NewRings(b) /\ r \notin RingsTouched(b)
    <3>1. utxoRing'[r] = RingAt(tip, r)
      BY <2>5, <2>8
    <3>2. CASE r \in RingsFormed(tip)
      BY <2>1, <2>2, <2>8, <3>1, <3>2
    <3>3. CASE r \notin RingsFormed(tip) /\ r \in RingsFormed(b)
      <4>1. CompletesGroup(b) /\ r \in RingsOf[b] /\ Members[r] \cap Mine = {}
        BY <2>1, <2>3, <2>4, <2>8, <3>3
      <4>2. RingAt(b, r) = NoRing
        BY <4>1 DEF RingAt
      <4> QED
        BY <2>1, <3>1, <3>3, <4>2
    <3>4. CASE r \notin RingsFormed(b)
      BY <2>1, <3>1, <3>4
    <3> QED
      BY <3>2, <3>3, <3>4
  <2> QED
    BY <2>6, <2>7, <2>8
<1>3. utxoRing' = [r \in Rings |-> utxoRing'[r]]
  BY <1>1 DEF InsertBlockRings
<1> QED
  BY <1>1, <1>2, <1>3 DEF RingsInv

\* What InsertBlock moves: the TXOs newly spent leave the bucket they are in,
\* those newly ready leave the immature ones.
LEMMA InsertBlockMoves ==
    ASSUME Inv, NEW b \in Blocks \ {Genesis}, Parent[b] = tip
    PROVE  /\ SpentMature(b) = NewlySpent(b) \cap mature
           /\ SpentUnconfirmed(b) = NewlySpent(b) \cap unconfirmed
           /\ MaturedCoinbases(b) \cup MaturedTransfers(b) = NewReady(b)
           /\ MaturedCoinbases(b) \subseteq CoinbaseCoins /\ MaturedTransfers(b) \cap CoinbaseCoins = {}
           /\ MaturedCoinbases(b) = UNION {CoinbaseOutput(a) : a \in MaturedBlocks(b)}
           /\ MaturedTransfers(b) = IF CompletesGroup(b) THEN UNION {TransferOutputs(a) : a \in Group(b)}
                                    ELSE {}
<1>1. /\ tip \in Blocks /\ BucketsInv /\ RecordsInv /\ RingsInv
  BY ParentBelow DEF Inv
<1>2. /\ mature \cap unconfirmed = {} /\ mature \cup unconfirmed = Ready(tip) \ Spent(tip)
  BY <1>1 DEF BucketsInv
<1>3. /\ Spent(tip) \cap NewlySpent(b) = {} /\ NewlySpent(b) \subseteq Ready(tip)
  BY SpentStep
<1>4. \A c \in NewlySpent(b) : c \in SpentByBlock(b)
  <2> SUFFICES ASSUME NEW c \in NewlySpent(b) PROVE c \in SpentByBlock(b)
    OBVIOUS
  <2>1. PICK r \in RingsTouched(b) : c \in Members[r] /\ c \in Revealed(b, r)
    BY <1>1, TouchedIs
  <2>2. c \in Mine /\ c \in RevealedBy(b, r)
    BY <2>1, ChainStep DEF NewlySpent
  <2>3. c \in SpentFlags(r, AfterBlock(b, r))
    BY <1>1, <2>1, <2>2, TouchedIs
  <2> QED
    BY <2>3 DEF SpentByBlock
<1>5. \A c \in SpentByBlock(b) : c \notin Spent(tip) => c \in NewlySpent(b)
  <2> SUFFICES ASSUME NEW c \in SpentByBlock(b), c \notin Spent(tip) PROVE c \in NewlySpent(b)
    OBVIOUS
  <2>1. PICK r \in RingsTouched(b) : c \in SpentFlags(r, AfterBlock(b, r))
    BY DEF SpentByBlock
  <2>2. c \in Mine /\ c \in RevealedBy(b, r) /\ r \in Rings
    BY <1>1, <2>1, TouchedIs
  <2>3. c \in Revealed(b, r)
    BY <1>1, <2>2, ChainStep, SpentIs
  <2> QED
    BY <2>2, <2>3 DEF NewlySpent
<1>6. SpentMature(b) = NewlySpent(b) \cap mature
  BY <1>2, <1>4, <1>5 DEF SpentMature
<1>7. SpentUnconfirmed(b) = NewlySpent(b) \cap unconfirmed
  BY <1>2, <1>4, <1>5 DEF SpentUnconfirmed
<1>8. \A a \in MaturedBlocks(b) : immatureCB[a] = CoinbaseOutput(a) /\ a \in Blocks
  <2> SUFFICES ASSUME NEW a \in MaturedBlocks(b)
               PROVE  immatureCB[a] = CoinbaseOutput(a) /\ a \in Blocks
    OBVIOUS
  <2>1. a \in Branch[tip] /\ a \in Blocks /\ Coinbase[a] \cap Matured(tip) = {}
    BY MaturedNew
  <2> QED
    BY <1>1, <2>1 DEF BucketsInv, ImmatureCBAt, CoinbaseOutput
<1>9. MaturedCoinbases(b) = UNION {CoinbaseOutput(a) : a \in MaturedBlocks(b)}
  BY <1>8 DEF MaturedCoinbases
<1>10. MaturedTransfers(b) = IF CompletesGroup(b) THEN UNION {TransferOutputs(a) : a \in Group(b)}
                             ELSE {}
  BY <1>1, GroupIs DEF MaturedTransfers
<1>11. MaturedCoinbases(b) \cup MaturedTransfers(b) = NewReady(b)
  BY <1>9, <1>10 DEF NewReady
<1>12. MaturedCoinbases(b) \subseteq CoinbaseCoins
  BY <1>8, <1>9, OutputKinds
<1>13. MaturedTransfers(b) \cap CoinbaseCoins = {}
  BY <1>10, NewRing, OutputKinds
<1> QED
  BY <1>6, <1>7, <1>9, <1>10, <1>11, <1>12, <1>13

\* What a block does to the immature outputs of a branch.
LEMMA ImmatureStep ==
    ASSUME NEW b \in Blocks \ {Genesis}, NEW a \in Blocks
    PROVE  /\ a \in MaturedBlocks(b) => ImmatureCBAt(b)[a] = {} /\ a # b
           /\ a # b /\ a \notin MaturedBlocks(b) => ImmatureCBAt(b)[a] = ImmatureCBAt(Parent[b])[a]
           /\ CompletesGroup(b) /\ a \in Group(b) => ImmatureTRAt(b)[a] = {}
           /\ a # b /\ ~ (CompletesGroup(b) /\ a \in Group(b)) =>
                 ImmatureTRAt(b)[a] = ImmatureTRAt(Parent[b])[a]
           /\ ImmatureCBAt(b)[b] = CoinbaseOutput(b) /\ ImmatureCBAt(Parent[b])[b] = {}
           /\ ~ CompletesGroup(b) => ImmatureTRAt(b)[b] = TransferOutputs(b)
           /\ ImmatureTRAt(Parent[b])[b] = {}
<1> DEFINE p == Parent[b]
<1>1. /\ p \in Blocks /\ Branch[b] = Branch[p] \cup {b} /\ b \in Branch[b] /\ b \notin Branch[p]
      /\ \A x \in Branch[b] : x \in Blocks
      /\ Ringed(b) = Ringed(p)
            \cup (IF CompletesGroup(b) THEN UNION {Members[r] : r \in RingsOf[b]} ELSE {})
      /\ Matured(b) = Matured(p) \cup UNION {Coinbase[x] : x \in MaturedBlocks(b)}
  BY ParentBelow, ParentBranch, BranchBelow, ChainStep
<1>2. /\ Created(b) \cap Ringed(p) = {} /\ Coinbase[b] \cap Matured(b) = {}
  BY Fresh
<1>3. \A x \in MaturedBlocks(b) : x \in Branch[p] /\ x \in Blocks /\ Coinbase[x] \subseteq Matured(b)
  BY MaturedNew
<1>4. CompletesGroup(b) =>
         /\ \A x \in Group(b) : x \in Branch[b] /\ Created(x) \subseteq Ringed(b)
         /\ UNION {Members[r] : r \in RingsOf[b]} = UNION {Created(x) : x \in Group(b)}
  BY NewRing, RingsAssumption
<1> HIDE DEF p
<1>5. /\ CoinbaseOutput(a) \subseteq Coinbase[a] /\ CoinbaseOutput(b) \subseteq Coinbase[b]
      /\ TransferOutputs(a) \subseteq Created(a) /\ TransferOutputs(b) \subseteq Created(b)
      /\ Coinbase[a] \subseteq Created(a)
      /\ \A x : Coinbase[x] \subseteq Created(x)
  BY OutputKinds DEF OwnOutputs, CoinbaseOutput, Created
<1>6. ASSUME a \in MaturedBlocks(b) PROVE ImmatureCBAt(b)[a] = {} /\ a # b
  BY <1>1, <1>3, <1>5, <1>6 DEF ImmatureCBAt
<1>7. ASSUME a # b, a \notin MaturedBlocks(b) PROVE ImmatureCBAt(b)[a] = ImmatureCBAt(p)[a]
  <2>1. CASE a \in Branch[p]
    <3>1. \A x \in MaturedBlocks(b) : Coinbase[a] \cap Coinbase[x] = {}
      <4> SUFFICES ASSUME NEW x \in MaturedBlocks(b) PROVE Coinbase[a] \cap Coinbase[x] = {}
        OBVIOUS
      <4>1. x \in Branch[p] /\ a # x
        BY <1>3, <1>7
      <4>2. Created(a) \cap Created(x) = {}
        BY <1>1, <2>1, <4>1, CreatedOnce
      <4> QED
        BY <1>5, <4>2
    <3>2. CoinbaseOutput(a) \ Matured(b) = CoinbaseOutput(a) \ Matured(p)
      BY <1>1, <1>5, <3>1
    <3> QED
      BY <1>1, <2>1, <3>2 DEF ImmatureCBAt
  <2>2. CASE a \notin Branch[p]
    BY <1>1, <1>7, <2>2 DEF ImmatureCBAt
  <2> QED
    BY <2>1, <2>2
<1>8. ASSUME CompletesGroup(b), a \in Group(b) PROVE ImmatureTRAt(b)[a] = {}
  BY <1>4, <1>5, <1>8 DEF ImmatureTRAt
<1>9. ASSUME a # b, ~ (CompletesGroup(b) /\ a \in Group(b))
      PROVE  ImmatureTRAt(b)[a] = ImmatureTRAt(p)[a]
  <2>1. CASE a \in Branch[p]
    <3>1. CompletesGroup(b) => Created(a) \cap UNION {Members[r] : r \in RingsOf[b]} = {}
      <4> SUFFICES ASSUME CompletesGroup(b), NEW x \in Group(b)
                   PROVE  Created(a) \cap Created(x) = {}
        BY <1>4
      <4>1. x \in Branch[b] /\ a \in Branch[b] /\ a # x
        BY <1>1, <1>4, <1>9, <2>1
      <4> QED
        BY <4>1, CreatedOnce
    <3>2. TransferOutputs(a) \ Ringed(b) = TransferOutputs(a) \ Ringed(p)
      BY <1>1, <1>5, <3>1
    <3> QED
      BY <1>1, <2>1, <3>2 DEF ImmatureTRAt
  <2>2. CASE a \notin Branch[p]
    BY <1>1, <1>9, <2>2 DEF ImmatureTRAt
  <2> QED
    BY <2>1, <2>2
<1>10. ImmatureCBAt(b)[b] = CoinbaseOutput(b) /\ ImmatureCBAt(p)[b] = {} /\ ImmatureTRAt(p)[b] = {}
  BY <1>1, <1>2, <1>5 DEF ImmatureCBAt, ImmatureTRAt
<1>11. ~ CompletesGroup(b) => ImmatureTRAt(b)[b] = TransferOutputs(b)
  BY <1>1, <1>2, <1>5 DEF ImmatureTRAt
<1> QED
  BY <1>6, <1>7, <1>8, <1>9, <1>10, <1>11 DEF p

\* The buckets after InsertBlock.
LEMMA InsertBlockBucketsInv ==
    ASSUME Inv, NEW b \in Blocks, InsertBlock(b)
    PROVE  /\ BucketsInv'
           /\ unconfirmed' = unconfirmed \ Spent(b)
<1>1. /\ b \in Blocks \ {Genesis} /\ Parent[b] = tip /\ tip' = b /\ InsertBlockTxos(b)
      /\ BucketsInv /\ tip \in Blocks /\ b \in Branch[b] /\ Height[b] \in Nat
  BY ParentBelow, BranchBelow DEF InsertBlock, InsertBlockRecords, Inv
<1>2. /\ Spent(b) = Spent(tip) \cup NewlySpent(b)
      /\ Spent(tip) \cap NewlySpent(b) = {} /\ NewlySpent(b) \subseteq Ready(tip)
  BY <1>1, SpentStep
<1>3. Ready(b) = Ready(tip) \cup NewReady(b) /\ Ready(tip) \cap NewReady(b) = {}
  BY <1>1, ReadyStep
<1>4. /\ SpentMature(b) = NewlySpent(b) \cap mature
      /\ SpentUnconfirmed(b) = NewlySpent(b) \cap unconfirmed
      /\ MaturedCoinbases(b) \cup MaturedTransfers(b) = NewReady(b)
  BY <1>1, InsertBlockMoves
<1>5. Spent(tip) \subseteq Ready(tip)
  BY <1>1, SpentReady
<1>6. /\ confirmed = Spent(tip) /\ unconfirmed \subseteq Ready(tip) \ Spent(tip)
      /\ mature = (Ready(tip) \ Spent(tip)) \ unconfirmed
      /\ immatureCB = ImmatureCBAt(tip) /\ immatureTR = ImmatureTRAt(tip)
  BY <1>1 DEF BucketsInv
<1>7. /\ mature' = (mature \ (NewlySpent(b) \cap mature)) \cup NewReady(b)
      /\ unconfirmed' = unconfirmed \ (NewlySpent(b) \cap unconfirmed)
      /\ confirmed' = confirmed \cup (NewlySpent(b) \cap mature) \cup (NewlySpent(b) \cap unconfirmed)
  BY <1>1, <1>4 DEF InsertBlockTxos
<1>8. confirmed' = Spent(b) /\ unconfirmed' \subseteq Ready(b) \ Spent(b)
      /\ unconfirmed' = unconfirmed \ Spent(b)
  BY <1>2, <1>3, <1>6, <1>7
<1>9. mature' = (Ready(b) \ Spent(b)) \ unconfirmed'
  BY <1>2, <1>3, <1>5, <1>6, <1>7
<1>10. ASSUME NEW a \in Blocks PROVE immatureCB'[a] = ImmatureCBAt(b)[a]
  <2>1. immatureCB'[a] = IF a = b /\ CoinbaseOutput(b) # {} THEN CoinbaseOutput(b)
                         ELSE IF a \in MaturedBlocks(b) THEN {}
                         ELSE ImmatureCBAt(tip)[a]
    BY <1>1, <1>6 DEF InsertBlockTxos
  <2>2. /\ a \in MaturedBlocks(b) => ImmatureCBAt(b)[a] = {} /\ a # b
        /\ a # b /\ a \notin MaturedBlocks(b) => ImmatureCBAt(b)[a] = ImmatureCBAt(tip)[a]
        /\ ImmatureCBAt(b)[b] = CoinbaseOutput(b) /\ ImmatureCBAt(tip)[b] = {}
    BY <1>1, ImmatureStep
  <2> QED
    BY <2>1, <2>2
<1>11. ASSUME NEW a \in Blocks PROVE immatureTR'[a] = ImmatureTRAt(b)[a]
  <2>1. immatureTR'[a] = IF a = b /\ ~CompletesGroup(b) /\ TransferOutputs(b) # {} THEN TransferOutputs(b)
                         ELSE IF CompletesGroup(b) /\ a \in Group(b) \ {b} THEN {}
                         ELSE ImmatureTRAt(tip)[a]
    BY <1>1, <1>6 DEF InsertBlockTxos
  <2>2. /\ CompletesGroup(b) /\ a \in Group(b) => ImmatureTRAt(b)[a] = {}
        /\ a # b /\ ~ (CompletesGroup(b) /\ a \in Group(b)) =>
                 ImmatureTRAt(b)[a] = ImmatureTRAt(tip)[a]
        /\ ~ CompletesGroup(b) => ImmatureTRAt(b)[b] = TransferOutputs(b)
        /\ ImmatureTRAt(tip)[b] = {}
    BY <1>1, ImmatureStep
  <2>3. b \in Group(b)
    BY <1>1, GroupAssumption DEF Group
  <2> QED
    BY <2>1, <2>2, <2>3
<1>12. immatureCB' = ImmatureCBAt(b)
  <2>1. immatureCB' = [a \in Blocks |-> immatureCB'[a]]
    BY <1>1 DEF InsertBlockTxos
  <2> QED
    BY <1>10, <2>1 DEF ImmatureCBAt
<1>13. immatureTR' = ImmatureTRAt(b)
  <2>1. immatureTR' = [a \in Blocks |-> immatureTR'[a]]
    BY <1>1 DEF InsertBlockTxos
  <2> QED
    BY <1>11, <2>1 DEF ImmatureTRAt
<1> QED
  BY <1>1, <1>8, <1>9, <1>12, <1>13 DEF BucketsInv

\* The records of a block after InsertBlock: what it writes is what the branch
\* says, and where it writes nothing there is nothing to say.
LEMMA InsertBlockRecordsInv ==
    ASSUME Inv, NEW b \in Blocks, InsertBlock(b)
    PROVE  RecordsInv'
<1>1. /\ b \in Blocks \ {Genesis} /\ Parent[b] = tip /\ tip' = b /\ InsertBlockRecords(b)
      /\ RecordsInv /\ RingsInv /\ tip \in Blocks /\ Branch[b] = Branch[tip] \cup {b}
      /\ blockOutputs \in [Blocks -> SUBSET Coins] /\ blockInputs \in [Blocks -> InputRecord]
  BY ParentBelow DEF InsertBlock, InsertBlockRecords, Inv, TypeOK
<1> DEFINE rec == [old |-> [r \in Rings |-> RecordedRing(b, r)],
                   sns |-> [r \in Rings |-> IF r \in RingsTouched(b) THEN Revealed(b, r) ELSE {}]]
<1>2. \A r \in Rings : /\ RecordedRing(b, r) = IF r \in RingsSpentBy(b) THEN RingAt(tip, r) ELSE NoRing
                       /\ (IF r \in RingsTouched(b) THEN Revealed(b, r) ELSE {})
                             = (IF RingAt(tip, r) = NoRing THEN {} ELSE Revealed(b, r))
  <2> SUFFICES ASSUME NEW r \in Rings
               PROVE  /\ RecordedRing(b, r) = IF r \in RingsSpentBy(b) THEN RingAt(tip, r) ELSE NoRing
                      /\ (IF r \in RingsTouched(b) THEN Revealed(b, r) ELSE {})
                            = (IF RingAt(tip, r) = NoRing THEN {} ELSE Revealed(b, r))
    OBVIOUS
  <2>1. utxoRing[r] = RingAt(tip, r)
    BY <1>1 DEF RingsInv
  <2>2. r \in RingsTouched(b) <=> r \in RingsSpentBy(b) /\ RingAt(tip, r) # NoRing
    BY <2>1 DEF RingsTouched, RingsSpentBy
  <2>3. r \in RingsSpentBy(b) <=> Revealed(b, r) # {}
    BY DEF RingsSpentBy
  <2>4. RecordedRing(b, r) = IF r \in RingsTouched(b) THEN RingAt(tip, r) ELSE NoRing
    BY <2>1 DEF RecordedRing
  <2>5. RecordedRing(b, r) = IF r \in RingsSpentBy(b) THEN RingAt(tip, r) ELSE NoRing
    BY <2>2, <2>4
  <2>6. (IF r \in RingsTouched(b) THEN Revealed(b, r) ELSE {})
          = (IF RingAt(tip, r) = NoRing THEN {} ELSE Revealed(b, r))
    BY <2>2, <2>3
  <2> QED
    BY <2>5, <2>6
<1>3. rec = InputsOf(b)
  BY <1>1, <1>2 DEF InputsOf
<1>4. RingsTouched(b) = {} => rec = NoInputs
  BY DEF NoInputs, RecordedRing
<1> HIDE DEF rec
<1>5. blockInputs' = IF RingsTouched(b) = {} THEN blockInputs ELSE [blockInputs EXCEPT ![b] = rec]
  BY <1>1 DEF InsertBlockRecords, rec
<1>6. blockInputs[b] = NoInputs \/ blockInputs[b] = InputsOf(b)
  BY <1>1 DEF RecordsInv
<1>7. blockInputs'[b] = InputsOf(b)
  BY <1>1, <1>3, <1>4, <1>5, <1>6
<1>8. \A a \in Blocks : a # b => blockInputs'[a] = blockInputs[a]
  BY <1>1, <1>5
<1>9. blockOutputs' = IF OwnOutputs(b) = {} THEN blockOutputs
                      ELSE [blockOutputs EXCEPT ![b] = OwnOutputs(b)]
  BY <1>1 DEF InsertBlockRecords
<1>10. blockOutputs[b] = {} \/ blockOutputs[b] = OwnOutputs(b)
  BY <1>1 DEF RecordsInv
<1>11. blockOutputs'[b] = OwnOutputs(b)
  BY <1>1, <1>9, <1>10
<1>12. \A a \in Blocks : a # b => blockOutputs'[a] = blockOutputs[a]
  BY <1>1, <1>9
<1>13. ASSUME NEW a \in Blocks
       PROVE  /\ blockOutputs'[a] = {} \/ blockOutputs'[a] = OwnOutputs(a)
              /\ a \in Branch[b] => blockOutputs'[a] = OwnOutputs(a)
              /\ a # Genesis => /\ blockInputs'[a] = NoInputs \/ blockInputs'[a] = InputsOf(a)
                                /\ a \in Branch[b] => blockInputs'[a] = InputsOf(a)
  <2>1. CASE a = b
    BY <1>7, <1>11, <2>1
  <2>2. CASE a # b
    <3>1. a \in Branch[b] => a \in Branch[tip]
      BY <1>1, <2>2
    <3>2. blockOutputs'[a] = blockOutputs[a] /\ blockInputs'[a] = blockInputs[a]
      BY <1>8, <1>12, <2>2
    <3>3. /\ blockOutputs[a] = {} \/ blockOutputs[a] = OwnOutputs(a)
          /\ a \in Branch[tip] => blockOutputs[a] = OwnOutputs(a)
          /\ a # Genesis => /\ blockInputs[a] = NoInputs \/ blockInputs[a] = InputsOf(a)
                            /\ a \in Branch[tip] => blockInputs[a] = InputsOf(a)
      BY <1>1 DEF RecordsInv
    <3> QED
      BY <3>1, <3>2, <3>3
  <2> QED
    BY <2>1, <2>2
<1> QED
  BY <1>1, <1>13 DEF RecordsInv

\* The wallet's inputs of the transactions of the next block are found: their
\* rings are in the bucket.
LEMMA BlockInputsFound ==
    ASSUME RingsInv, NEW b \in Blocks \ {Genesis}, Parent[b] = tip, NEW t \in TxsOf[b]
    PROVE  OwnInputs(t) = OwnSpends(t)
<1>1. tip \in Blocks /\ t \in Txs /\ b \in Branch[b]
  BY ParentBelow, BranchBelow, SetsAssumption
<1>2. \A r \in Rings : utxoRing[r] = RingAt(tip, r)
  BY DEF RingsInv
<1>3. ASSUME NEW c \in OwnInputs(t) PROVE c \in OwnSpends(t)
  <2>1. PICK r \in Rings : <<r, c>> \in Spends[t] /\ c \in utxoRing[r].mine
    BY <1>3 DEF OwnInputs
  <2>2. c \in Mine
    BY <1>1, <1>2, <2>1, RingAtIs
  <2> QED
    BY <2>1, <2>2 DEF OwnSpends
<1>4. ASSUME NEW c \in OwnSpends(t) PROVE c \in OwnInputs(t)
  <2>1. PICK r \in Rings : <<r, c>> \in Spends[t]
    BY <1>4 DEF OwnSpends
  <2>2. c \in Revealed(b, r) /\ c \in Coins /\ c \in Members[r] /\ c \in Mine
    BY <1>1, <1>4, <2>1, BranchTx DEF OwnSpends
  <2>3. r \in RingsFormed(tip) /\ c \notin RevealedBy(tip, r)
    BY <2>2, RevealedKnown
  <2>4. c \in RingAt(tip, r).mine
    BY <1>1, <2>2, <2>3, RingAtIs
  <2> QED
    BY <1>2, <2>1, <2>2, <2>4 DEF OwnInputs
<1> QED
  BY <1>3, <1>4

\* The transaction buckets after InsertBlock.
LEMMA InsertBlockTxsInv ==
    ASSUME Inv, NEW b \in Blocks, InsertBlock(b)
    PROVE  TxsInv'
<1>1. /\ b \in Blocks \ {Genesis} /\ Parent[b] = tip /\ tip' = b /\ InsertBlockTxs(b)
      /\ RingsInv /\ TxsInv /\ tip \in Blocks /\ Branch[b] = Branch[tip] \cup {b} /\ b \in Branch[b]
      /\ TypeOK
  BY ParentBelow, BranchBelow DEF InsertBlock, InsertBlockRecords, Inv
<1>2. \A t \in TxsOf[b] : OwnInputs(t) = OwnSpends(t)
  BY <1>1, BlockInputsFound
<1>3. Accepted(b) = {t \in TxsOf[b] : OwnSpends(t) # {}}
  BY <1>2 DEF Accepted
<1>4. Spenders(b) = Spenders(tip) \cup Accepted(b)
  BY <1>1, <1>3 DEF Spenders
<1>5. /\ unconfirmedTx' = unconfirmedTx \ (Conflicts(b) \cup Accepted(b))
      /\ invalidTx' = (invalidTx \cup Conflicts(b)) \ Accepted(b)
      /\ confirmedTx' = confirmedTx \cup Accepted(b)
      /\ relevant' = [c \in Coins |-> relevant[c] \cup {t \in Accepted(b) : c \in OwnInputs(t)}]
  BY <1>1 DEF InsertBlockTxs
<1>6. /\ confirmedTx = Spenders(tip)
      /\ confirmedTx \cap unconfirmedTx = {} /\ confirmedTx \cap invalidTx = {}
      /\ unconfirmedTx \cap invalidTx = {}
      /\ \A c \in Coins : \A t \in relevant[c] :
            c \in Mine /\ \E r \in Rings : <<r, c>> \in Spends[t] /\ c \in Members[r]
      /\ \A t \in confirmedTx : \A c \in OwnSpends(t) : t \in relevant[c]
      /\ invalidTx \subseteq RelevantTo(Coins)
  BY <1>1 DEF TxsInv
<1>7. Conflicts(b) \subseteq unconfirmedTx /\ Conflicts(b) \subseteq RelevantTo(Coins)
  <2>1. \A t : OwnInputs(t) \subseteq Coins
    BY DEF OwnInputs
  <2>2. \A t : RelevantTo(OwnInputs(t)) \subseteq RelevantTo(Coins)
    BY <2>1 DEF RelevantTo
  <2> QED
    BY <2>2 DEF Conflicts
<1>8. confirmedTx' = Spenders(b)
  BY <1>4, <1>5, <1>6
<1>9. /\ confirmedTx' \cap unconfirmedTx' = {} /\ confirmedTx' \cap invalidTx' = {}
      /\ unconfirmedTx' \cap invalidTx' = {}
  BY <1>5, <1>6, <1>7
<1>10. \A c \in Coins : relevant'[c] = relevant[c] \cup {t \in Accepted(b) : c \in OwnInputs(t)}
  BY <1>5
<1>11. ASSUME NEW c \in Coins, NEW t \in relevant'[c]
       PROVE  c \in Mine /\ \E r \in Rings : <<r, c>> \in Spends[t] /\ c \in Members[r]
  <2>1. CASE t \in relevant[c]
    BY <1>6, <2>1
  <2>2. CASE t \in Accepted(b) /\ c \in OwnInputs(t)
    <3>1. t \in TxsOf[b] /\ c \in OwnSpends(t)
      BY <1>2, <1>3, <2>2
    <3>2. PICK r \in Rings : <<r, c>> \in Spends[t]
      BY <3>1 DEF OwnSpends
    <3>3. c \in Members[r]
      BY <1>1, <3>1, <3>2, BranchTx
    <3> QED
      BY <3>1, <3>2, <3>3 DEF OwnSpends
  <2> QED
    BY <1>10, <2>1, <2>2
<1>12. ASSUME NEW t \in confirmedTx', NEW c \in OwnSpends(t) PROVE t \in relevant'[c]
  <2>1. c \in Coins
    BY SetsAssumption DEF OwnSpends
  <2>2. CASE t \in confirmedTx
    BY <1>6, <1>10, <2>1, <2>2
  <2>3. CASE t \in Accepted(b)
    BY <1>2, <1>3, <1>10, <2>1, <2>3
  <2> QED
    BY <1>5, <2>2, <2>3
<1>13. invalidTx' \subseteq RelevantTo(Coins)'
  <2>1. RelevantTo(Coins) \subseteq RelevantTo(Coins)'
    BY <1>10 DEF RelevantTo
  <2> QED
    BY <1>5, <1>6, <1>7, <2>1
<1> QED
  BY <1>1, <1>8, <1>9, <1>11, <1>12, <1>13 DEF TxsInv

\* Counting the TXOs of a set: adding new ones to the count, taking some away.
LEMMA CountPlusMinus ==
    ASSUME NEW S, NEW T
    PROVE  /\ S \cap T = {} => Plus(CountOf(S), T) = CountOf(S \cup T)
           /\ T \subseteq S => Minus(CountOf(S), T) = CountOf(S \ T)
           /\ CountOf(S) \in [Coins -> Int]
<1>1. S \cap T = {} => Plus(CountOf(S), T) = CountOf(S \cup T)
  BY DEF Plus, CountOf
<1>2. T \subseteq S => Minus(CountOf(S), T) = CountOf(S \ T)
  BY DEF Minus, CountOf
<1> QED
  BY <1>1, <1>2 DEF CountOf

\* The balances after InsertBlock.
LEMMA InsertBlockBalancesInv ==
    ASSUME Inv, NEW b \in Blocks, InsertBlock(b)
    PROVE  BalancesMatchBuckets'
<1>1. /\ b \in Blocks \ {Genesis} /\ Parent[b] = tip /\ tip' = b /\ InsertBlockBalances(b)
      /\ InsertBlockTxos(b) /\ BucketsInv /\ TypeOK /\ BalancesMatchBuckets
      /\ BucketsInv' /\ rejections' = rejections
  BY InsertBlockBucketsInv DEF InsertBlock, InsertBlockRecords, Inv
<1>2. /\ SpentMature(b) = NewlySpent(b) \cap mature
      /\ SpentUnconfirmed(b) = NewlySpent(b) \cap unconfirmed
      /\ MaturedCoinbases(b) \cup MaturedTransfers(b) = NewReady(b)
      /\ MaturedCoinbases(b) \cap MaturedTransfers(b) = {}
      /\ MaturedCoinbases(b) = NewMatured(b) /\ MaturedTransfers(b) = NewTransfers(b)
  BY <1>1, InsertBlockMoves DEF Inv, NewMatured, NewTransfers
<1>3. /\ AllImmatureCB = AllCBAt(tip) /\ AllImmatureTR = AllTRAt(tip)
      /\ AllImmatureCB' = AllCBAt(b) /\ AllImmatureTR' = AllTRAt(b)
  BY <1>1 DEF BucketsInv, AllImmatureCB, AllImmatureTR, AllCBAt, AllTRAt
<1>4. /\ AllCBAt(b) = (AllCBAt(tip) \cup CoinbaseOutput(b)) \ NewMatured(b)
      /\ CoinbaseOutput(b) \cap AllCBAt(tip) = {}
      /\ NewMatured(b) \subseteq AllCBAt(tip)
      /\ AllTRAt(b) = (AllTRAt(tip) \cup TransferOutputs(b)) \ NewTransfers(b)
      /\ TransferOutputs(b) \cap AllTRAt(tip) = {}
      /\ NewTransfers(b) \subseteq AllTRAt(tip) \cup TransferOutputs(b)
  BY <1>1, ImmatureSets
<1>5. immatureCBBal' = CountOf(AllImmatureCB)'
  <2>1. immatureCBBal' = Minus(Plus(CountOf(AllCBAt(tip)), CoinbaseOutput(b)), NewMatured(b))
    BY <1>1, <1>2, <1>3 DEF InsertBlockBalances, BalancesMatchBuckets
  <2>2. Plus(CountOf(AllCBAt(tip)), CoinbaseOutput(b)) = CountOf(AllCBAt(tip) \cup CoinbaseOutput(b))
    BY <1>4, CountPlusMinus
  <2>3. NewMatured(b) \subseteq AllCBAt(tip) \cup CoinbaseOutput(b)
    BY <1>4
  <2>4. Minus(CountOf(AllCBAt(tip) \cup CoinbaseOutput(b)), NewMatured(b)) = CountOf(AllCBAt(b))
    <3>1. Minus(CountOf(AllCBAt(tip) \cup CoinbaseOutput(b)), NewMatured(b))
             = CountOf((AllCBAt(tip) \cup CoinbaseOutput(b)) \ NewMatured(b))
      BY <2>3, CountPlusMinus
    <3> QED
      BY <1>4, <3>1, Zenon
  <2> QED
    BY <1>3, <2>1, <2>2, <2>4 DEF CountOf
<1>6. immatureTRBal' = CountOf(AllImmatureTR)'
  <2>1. immatureTRBal' = Minus(Plus(CountOf(AllTRAt(tip)), TransferOutputs(b)), NewTransfers(b))
    BY <1>1, <1>2, <1>3 DEF InsertBlockBalances, BalancesMatchBuckets
  <2>2. Plus(CountOf(AllTRAt(tip)), TransferOutputs(b)) = CountOf(AllTRAt(tip) \cup TransferOutputs(b))
    BY <1>4, CountPlusMinus
  <2>3. NewTransfers(b) \subseteq AllTRAt(tip) \cup TransferOutputs(b)
    BY <1>4
  <2>4. Minus(CountOf(AllTRAt(tip) \cup TransferOutputs(b)), NewTransfers(b)) = CountOf(AllTRAt(b))
    <3>1. Minus(CountOf(AllTRAt(tip) \cup TransferOutputs(b)), NewTransfers(b))
             = CountOf((AllTRAt(tip) \cup TransferOutputs(b)) \ NewTransfers(b))
      BY <2>3, CountPlusMinus
    <3> QED
      BY <1>4, <3>1, Zenon
  <2> QED
    BY <1>3, <2>1, <2>2, <2>4 DEF CountOf
<1>7. ASSUME NEW c \in Coins
      PROVE  /\ unconfirmedBal'[c] - CountOf(unconfirmed)'[c] \in 0 .. rejections'
             /\ spendableBal'[c] = CountOf(mature)'[c] - (unconfirmedBal'[c] - CountOf(unconfirmed)'[c])
  <2> DEFINE In(S) == IF c \in S THEN 1 ELSE 0
  <2>1. /\ unconfirmedBal[c] - CountOf(unconfirmed)[c] \in 0 .. rejections
        /\ spendableBal[c] = CountOf(mature)[c] - (unconfirmedBal[c] - CountOf(unconfirmed)[c])
    BY <1>1, <1>7 DEF BalancesMatchBuckets
  <2>2. /\ CountOf(unconfirmed)[c] = In(unconfirmed) /\ CountOf(mature)[c] = In(mature)
        /\ CountOf(unconfirmed)'[c] = In(unconfirmed') /\ CountOf(mature)'[c] = In(mature')
    BY DEF CountOf
  <2>3. unconfirmedBal[c] \in Int /\ spendableBal[c] \in Int
    BY <1>1 DEF TypeOK
  <2>4. unconfirmedBal'[c] = unconfirmedBal[c] - In(SpentUnconfirmed(b))
    BY <1>1 DEF InsertBlockBalances, Minus, TypeOK
  <2>5. spendableBal'[c] = spendableBal[c] - In(SpentMature(b)) + In(MaturedCoinbases(b))
                           + In(MaturedTransfers(b))
    BY <1>1 DEF InsertBlockBalances, Plus, Minus, TypeOK
  <2>6. In(unconfirmed') = In(unconfirmed) - In(SpentUnconfirmed(b))
    BY <1>1, <1>2 DEF InsertBlockTxos
  <2>7. NewReady(b) \cap mature = {}
    BY <1>1, ReadyStep DEF BucketsInv
  <2>8. In(mature') = In(mature) - In(SpentMature(b)) + In(MaturedCoinbases(b)) + In(MaturedTransfers(b))
    <3>1. mature' = (mature \ SpentMature(b)) \cup MaturedCoinbases(b) \cup MaturedTransfers(b)
      BY <1>1 DEF InsertBlockTxos
    <3> QED
      BY <1>2, <2>7, <3>1
  <2>9. \A S : In(S) \in Int
    OBVIOUS
  <2> HIDE DEF In
  <2> QED
    BY <1>1, <2>1, <2>2, <2>3, <2>4, <2>5, <2>6, <2>8, <2>9
<1> QED
  BY <1>5, <1>6, <1>7 DEF BalancesMatchBuckets

-----------------------------------------------------------------------------
(* InsertTx and DeleteRawUnmined *)

\* Balances, when S moves from the mature bucket to the unconfirmed one.
LEMMA HoldBalances ==
    ASSUME TypeOK, BalancesMatchBuckets, NEW S, S \subseteq mature, mature \cap unconfirmed = {},
           mature' = mature \ S, unconfirmed' = unconfirmed \cup S,
           spendableBal' = Minus(spendableBal, S), unconfirmedBal' = Plus(unconfirmedBal, S),
           UNCHANGED <<immature, immatureCBBal, immatureTRBal, rejections>>
    PROVE  BalancesMatchBuckets'
<1>1. immatureCBBal' = CountOf(AllImmatureCB)' /\ immatureTRBal' = CountOf(AllImmatureTR)'
  BY DEF BalancesMatchBuckets, CountOf, AllImmatureCB, AllImmatureTR, immature
<1>2. ASSUME NEW c \in Coins
      PROVE  /\ unconfirmedBal'[c] - CountOf(unconfirmed)'[c] \in 0 .. rejections'
             /\ spendableBal'[c] = CountOf(mature)'[c] - (unconfirmedBal'[c] - CountOf(unconfirmed)'[c])
  <2>1. /\ unconfirmedBal[c] - CountOf(unconfirmed)[c] \in 0 .. rejections
        /\ spendableBal[c] = CountOf(mature)[c] - (unconfirmedBal[c] - CountOf(unconfirmed)[c])
        /\ unconfirmedBal[c] \in Int /\ spendableBal[c] \in Int
    BY <1>2 DEF BalancesMatchBuckets, TypeOK
  <2>2. /\ unconfirmedBal'[c] = unconfirmedBal[c] + (IF c \in S THEN 1 ELSE 0)
        /\ spendableBal'[c] = spendableBal[c] - (IF c \in S THEN 1 ELSE 0)
    BY <1>2 DEF Plus, Minus, TypeOK
  <2>3. /\ CountOf(unconfirmed)[c] \in Int /\ CountOf(mature)[c] \in Int
        /\ CountOf(unconfirmed)'[c] = CountOf(unconfirmed)[c] + (IF c \in S THEN 1 ELSE 0)
        /\ CountOf(mature)'[c] = CountOf(mature)[c] - (IF c \in S THEN 1 ELSE 0)
    BY <1>2 DEF CountOf
  <2> QED
    BY <2>1, <2>2, <2>3
<1> QED
  BY <1>1, <1>2 DEF BalancesMatchBuckets

\* The wallet's inputs that InsertTx finds are among those the transaction spends.
LEMMA OwnInputsKnown ==
    ASSUME RingsInv, tip \in Blocks, NEW t, NEW c \in OwnInputs(t)
    PROVE  c \in Coins /\ c \in Mine /\ \E r \in Rings : <<r, c>> \in Spends[t] /\ c \in Members[r]
<1>1. PICK r \in Rings : <<r, c>> \in Spends[t] /\ c \in utxoRing[r].mine
  BY DEF OwnInputs
<1>2. utxoRing[r] = RingAt(tip, r)
  BY DEF RingsInv
<1>3. c \in Members[r] /\ c \in Mine
  BY <1>1, <1>2, RingAtIs
<1> QED
  BY <1>1, <1>3 DEF OwnInputs

\* A transaction none of whose rings is missing is not confirmed when what it
\* finds can be spent, and shares nothing with one that is.
LEMMA InsertTxInv ==
    ASSUME Inv, NEW t \in WalletTxs, InsertTx(t)
    PROVE  Inv'
<1> DEFINE own == OwnInputs(t)
<1>1. /\ t \in Txs /\ TypeOK /\ TypeOK' /\ BucketsInv /\ RecordsInv /\ RingsInv /\ TxsInv
      /\ BalancesMatchBuckets /\ tip \in Blocks
  BY InsertTxType, WalletTxsAssumption DEF Inv, TypeOK
<1>2. /\ own \subseteq mature /\ t \notin unconfirmedTx
      /\ \A input \in Spends[t] : utxoRing[input[1]] # NoRing
      /\ mature' = mature \ own /\ unconfirmed' = unconfirmed \cup own
      /\ spendableBal' = Minus(spendableBal, own) /\ unconfirmedBal' = Plus(unconfirmedBal, own)
      /\ relevant' = [c \in Coins |-> IF c \in own THEN relevant[c] \cup {t} ELSE relevant[c]]
      /\ unconfirmedTx' = (unconfirmedTx \ (RelevantTo(own) \ {t})) \cup {t}
      /\ confirmedTx' = confirmedTx \ ((RelevantTo(own) \ {t}) \cup ({t} \cap RelevantTo(own)))
      /\ invalidTx' = (invalidTx \ ({t} \cap RelevantTo(own)))
                      \cup ((RelevantTo(own) \ {t}) \cap (unconfirmedTx \cup confirmedTx))
      /\ UNCHANGED <<records, immature, confirmed, utxoRing, balance,
                     immatureCBBal, immatureTRBal, resend, rejections>>
  BY DEF InsertTx
<1>3. \A c \in own : c \in Coins /\ c \in Mine /\ \E r \in Rings : <<r, c>> \in Spends[t] /\ c \in Members[r]
  BY <1>1, OwnInputsKnown
<1> HIDE DEF own
<1>4. /\ confirmed = Spent(tip) /\ unconfirmed \subseteq Ready(tip) \ Spent(tip)
      /\ mature = (Ready(tip) \ Spent(tip)) \ unconfirmed
      /\ immatureCB = ImmatureCBAt(tip) /\ immatureTR = ImmatureTRAt(tip)
  BY <1>1 DEF BucketsInv
<1>5. tip' = tip /\ UNCHANGED <<blockOutputs, blockInputs, immatureCB, immatureTR>>
  BY <1>2 DEF records, immature
<1>6. BucketsInv'
  BY <1>2, <1>4, <1>5 DEF BucketsInv
<1>7. RecordsInv' /\ RingsInv'
  BY <1>1, <1>2, <1>5 DEF RecordsInv, RingsInv
<1>8. BalancesMatchBuckets'
  BY <1>1, <1>2, <1>4, HoldBalances
<1>9. TxsInv'
  <2>1. /\ confirmedTx = Spenders(tip)
        /\ confirmedTx \cap unconfirmedTx = {} /\ confirmedTx \cap invalidTx = {}
        /\ unconfirmedTx \cap invalidTx = {}
        /\ \A c \in Coins : \A x \in relevant[c] :
              c \in Mine /\ \E r \in Rings : <<r, c>> \in Spends[x] /\ c \in Members[r]
        /\ \A x \in confirmedTx : \A c \in OwnSpends(x) : x \in relevant[c]
        /\ invalidTx \subseteq RelevantTo(Coins)
    BY <1>1 DEF TxsInv
  \* What a transaction of the branch spends is in the confirmed bucket.
  <2>2. ASSUME NEW x \in confirmedTx, NEW c \in OwnSpends(x) PROVE c \in Spent(tip)
    <3>1. PICK r \in Rings : <<r, c>> \in Spends[x]
      BY <2>2 DEF OwnSpends
    <3>2. PICK a \in Branch[tip] : x \in TxsOf[a]
      BY <2>1 DEF Spenders
    <3> QED
      BY <1>1, <2>2, <3>1, <3>2, BranchTx DEF OwnSpends
  <2>3. RelevantTo(own) \cap confirmedTx = {}
    <3> SUFFICES ASSUME NEW c \in own, NEW x \in relevant[c], x \in confirmedTx PROVE FALSE
      BY DEF RelevantTo
    <3>1. c \in OwnSpends(x)
      BY <1>3, <2>1 DEF OwnSpends
    <3> QED
      BY <1>2, <1>4, <2>2, <3>1
  \* Every input of t that is the wallet's is found.
  <2>4. \A c \in Mine : \A r \in Rings : <<r, c>> \in Spends[t] /\ c \in Members[r] => c \in own
    <3> SUFFICES ASSUME NEW c \in Mine, NEW r \in Rings, <<r, c>> \in Spends[t], c \in Members[r]
                 PROVE  c \in own
      OBVIOUS
    <3>1. <<r, c>>[1] = r /\ utxoRing[<<r, c>>[1]] # NoRing /\ c \in Coins
      BY <1>2, SetsAssumption
    <3>2. utxoRing[r] = RingAt(tip, r) /\ RingAt(tip, r) # NoRing
      BY <1>1, <3>1 DEF RingsInv
    <3>3. c \in utxoRing[r].mine
      BY <1>1, <3>2, RingAtIs
    <3> QED
      BY <3>1, <3>3 DEF own, OwnInputs
  <2>5. t \notin confirmedTx
    <3> SUFFICES ASSUME t \in confirmedTx PROVE FALSE
      OBVIOUS
    <3>1. PICK c \in OwnSpends(t) : TRUE
      BY <2>1 DEF Spenders
    <3>2. PICK r \in Rings : <<r, c>> \in Spends[t]
      BY <3>1 DEF OwnSpends
    <3>3. PICK a \in Branch[tip] : t \in TxsOf[a]
      BY <2>1 DEF Spenders
    <3>4. c \in Members[r] /\ c \in Mine
      BY <1>1, <3>1, <3>2, <3>3, BranchTx DEF OwnSpends
    <3>5. c \in own
      BY <2>4, <3>2, <3>4
    <3> QED
      BY <1>2, <1>4, <2>2, <3>1, <3>5
  <2>6. t \in invalidTx => t \in RelevantTo(own)
    <3> SUFFICES ASSUME t \in invalidTx PROVE t \in RelevantTo(own)
      OBVIOUS
    <3>1. PICK c \in Coins : t \in relevant[c]
      BY <2>1 DEF RelevantTo
    <3>2. c \in own
      BY <2>1, <2>4, <3>1
    <3> QED
      BY <3>1, <3>2 DEF RelevantTo
  <2>7. confirmedTx' = Spenders(tip)
    BY <1>2, <2>1, <2>3, <2>5
  <2>8. /\ confirmedTx' \cap unconfirmedTx' = {} /\ confirmedTx' \cap invalidTx' = {}
        /\ unconfirmedTx' \cap invalidTx' = {}
    BY <1>2, <2>1, <2>3, <2>5, <2>6
  <2>9. \A c \in Coins : relevant[c] \subseteq relevant'[c] /\ relevant'[c] \subseteq relevant[c] \cup {t}
                         /\ (c \notin own => relevant'[c] = relevant[c])
    BY <1>2
  <2>10. \A c \in Coins : \A x \in relevant'[c] :
            c \in Mine /\ \E r \in Rings : <<r, c>> \in Spends[x] /\ c \in Members[r]
    BY <1>3, <2>1, <2>9
  <2>11. \A x \in confirmedTx' : \A c \in OwnSpends(x) : x \in relevant'[c]
    <3>1. \A x : OwnSpends(x) \subseteq Coins
      BY SetsAssumption DEF OwnSpends
    <3> QED
      BY <1>2, <2>1, <2>9, <3>1
  <2>12. invalidTx' \subseteq RelevantTo(Coins)'
    <3>1. RelevantTo(own) \subseteq RelevantTo(Coins)
      BY <1>3 DEF RelevantTo
    <3>2. RelevantTo(Coins) \subseteq RelevantTo(Coins)'
      BY <2>9 DEF RelevantTo
    <3> QED
      BY <1>2, <2>1, <3>1, <3>2
  <2> QED
    BY <1>5, <2>7, <2>8, <2>10, <2>11, <2>12 DEF TxsInv
<1> QED
  BY <1>1, <1>6, <1>7, <1>8, <1>9 DEF Inv

\* A transaction that is turned down frees what it holds; the balances count it
\* as unconfirmed for good.
LEMMA ResendRejectedInv ==
    ASSUME Inv, NEW t \in Txs, ResendRejected(t)
    PROVE  Inv'
<1> DEFINE freed == OwnInputs(t) \cap unconfirmed
<1>1. /\ TypeOK /\ TypeOK' /\ BucketsInv /\ RecordsInv /\ RingsInv /\ TxsInv /\ BalancesMatchBuckets
  BY ResendType DEF Inv
<1>2. /\ mature' = mature \cup freed /\ unconfirmed' = unconfirmed \ freed
      /\ unconfirmedTx' = unconfirmedTx \ {t} /\ rejections' = rejections + 1
      /\ freed \subseteq unconfirmed
      /\ UNCHANGED <<records, immature, confirmed, utxoRing, invalidTx,
                     confirmedTx, relevant, balances>>
  BY DEF ResendRejected, DeleteRawUnmined
<1> HIDE DEF freed
<1>3. UNCHANGED <<tip, blockOutputs, blockInputs, immatureCB, immatureTR, spendableBal, unconfirmedBal,
                  immatureCBBal, immatureTRBal>>
  BY <1>2 DEF records, immature, balances
<1>4. BucketsInv'
  BY <1>1, <1>2, <1>3 DEF BucketsInv
<1>5. RecordsInv' /\ RingsInv'
  BY <1>1, <1>2, <1>3 DEF RecordsInv, RingsInv
<1>6. TxsInv'
  BY <1>1, <1>2, <1>3 DEF TxsInv, RelevantTo
<1>7. BalancesMatchBuckets'
  <2>1. immatureCBBal' = CountOf(AllImmatureCB)' /\ immatureTRBal' = CountOf(AllImmatureTR)'
    BY <1>1, <1>3 DEF BalancesMatchBuckets, CountOf, AllImmatureCB, AllImmatureTR
  <2>2. ASSUME NEW c \in Coins
        PROVE  /\ unconfirmedBal'[c] - CountOf(unconfirmed)'[c] \in 0 .. rejections'
               /\ spendableBal'[c] = CountOf(mature)'[c] - (unconfirmedBal'[c] - CountOf(unconfirmed)'[c])
    <3>1. /\ unconfirmedBal[c] - CountOf(unconfirmed)[c] \in 0 .. rejections
          /\ spendableBal[c] = CountOf(mature)[c] - (unconfirmedBal[c] - CountOf(unconfirmed)[c])
          /\ unconfirmedBal[c] \in Int /\ spendableBal[c] \in Int
          /\ rejections \in Nat
      BY <1>1, <2>2, WalletTxsAssumption DEF BalancesMatchBuckets, TypeOK
    <3>2. mature \cap unconfirmed = {}
      BY <1>1 DEF BucketsInv
    <3>3. /\ CountOf(unconfirmed)[c] \in Int /\ CountOf(mature)[c] \in Int
          /\ CountOf(unconfirmed)'[c] = CountOf(unconfirmed)[c] - (IF c \in freed THEN 1 ELSE 0)
          /\ CountOf(mature)'[c] = CountOf(mature)[c] + (IF c \in freed THEN 1 ELSE 0)
      BY <1>2, <2>2, <3>2 DEF CountOf
    <3> QED
      BY <1>2, <1>3, <3>1, <3>3
  <2> QED
    BY <2>1, <2>2 DEF BalancesMatchBuckets
<1> QED
  BY <1>1, <1>4, <1>5, <1>6, <1>7 DEF Inv

-----------------------------------------------------------------------------
(* Rollback *)

\* A set of blocks has one with the last key.
LEMMA LastKeyIs ==
    ASSUME NEW S \in SUBSET Blocks, S # {}
    PROVE  LastKey(S) \in S
<1> DEFINE n == Cardinality(Blocks)
           T == {n - KeyRank[b] : b \in S}
<1>1. n \in Nat /\ \A b \in Blocks : KeyRank[b] \in 0 .. n
  BY NumbersAssumption, FS_CardinalityType
<1> HIDE DEF n
<1>2. T \subseteq Nat /\ T # {}
  BY <1>1
<1>3. PICK m \in T : \A k \in T : ~ (<<k, m>> \in OpToRel(<, Nat))
  BY <1>2, WFMin, NatLessThanWellFounded
<1>4. \A k \in T : ~ (k < m)
  BY <1>2, <1>3 DEF OpToRel
<1>5. PICK a \in S : m = n - KeyRank[a]
  BY <1>2
<1>6. \A x \in S : ~ (n - KeyRank[x] < n - KeyRank[a])
  BY <1>4, <1>5
<1>7. \A x \in S : KeyRank[x] <= KeyRank[a]
  BY <1>1, <1>6
<1> QED
  BY <1>7 DEF LastKey

\* The coinbases written last are those of one of the blocks looked up.
LEMMA LastUnmaturedIs ==
    ASSUME NEW b \in Blocks, UnmaturedBlocks(b) # {}
    PROVE  /\ LastUnmatured(b) \in UnmaturedBlocks(b) /\ LastUnmatured(b) \in Blocks
           /\ MaturesGroup(b) /\ Height[LastUnmatured(b)] \in MaturedHeights(b)
<1>1. MaturesGroup(b)
  BY DEF UnmaturedBlocks
<1>2. ASSUME NEW a \in UnmaturedBlocks(b) PROVE a \in Blocks /\ Height[a] \in MaturedHeights(b)
  <2>1. PICK h \in MaturedHeights(b) : BlocksWithOutputs(h) # {} /\ a = LastKey(BlocksWithOutputs(h))
    BY <1>1, <1>2 DEF UnmaturedBlocks
  <2>2. BlocksWithOutputs(h) \subseteq Blocks
    BY DEF BlocksWithOutputs
  <2>3. a \in BlocksWithOutputs(h)
    BY <2>1, <2>2, LastKeyIs
  <2> QED
    BY <2>3 DEF BlocksWithOutputs
<1>3. \E a \in UnmaturedBlocks(b) : \A x \in UnmaturedBlocks(b) : Height[a] <= Height[x]
  BY <1>2, Lowest
<1>4. LastUnmatured(b) \in UnmaturedBlocks(b)
  BY <1>3 DEF LastUnmatured
<1> QED
  BY <1>1, <1>2, <1>4

\* Then Rollback finds no coinbase to turn back.
LEMMA NoneUnmatured ==
    ASSUME NoCoinbaseUnmatured, RecordsInv, NEW b \in Blocks, Detachable(b)
    PROVE  /\ UnmaturedTxos(b) = {}
           /\ UnmaturedBlocks(b) # {} => ToImmatureCB(b, LastUnmatured(b)) = {}
           /\ NewMatured(b) = {}
<1>1. ASSUME NEW a \in UnmaturedBlocks(b) PROVE a \in Blocks /\ ToImmatureCB(b, a) = {}
  <2>1. MaturesGroup(b)
    BY <1>1 DEF UnmaturedBlocks
  <2>2. PICK h \in MaturedHeights(b) : BlocksWithOutputs(h) # {} /\ a = LastKey(BlocksWithOutputs(h))
    BY <1>1, <2>1 DEF UnmaturedBlocks
  <2>3. BlocksWithOutputs(h) \subseteq Blocks
    BY DEF BlocksWithOutputs
  <2>4. a \in BlocksWithOutputs(h)
    BY <2>2, <2>3, LastKeyIs
  <2>5. a \in Blocks /\ Height[a] = h
    BY <2>4 DEF BlocksWithOutputs
  <2>6. CoinbaseOutput(a) = {}
    BY <2>1, <2>2, <2>5 DEF NoCoinbaseUnmatured
  <2>7. OwnOutputs(a) \cap CoinbaseCoins = {}
    BY <2>5, <2>6, OutputKinds DEF OwnOutputs
  <2>8. blockOutputs[a] \cap CoinbaseCoins = {}
    BY <2>5, <2>7 DEF RecordsInv
  <2> QED
    BY <2>5, <2>8 DEF ToImmatureCB
<1>2. UnmaturedTxos(b) = {}
  BY <1>1 DEF UnmaturedTxos
<1>3. UnmaturedBlocks(b) # {} => ToImmatureCB(b, LastUnmatured(b)) = {}
  BY <1>1, LastUnmaturedIs
<1>4. NewMatured(b) = {}
  <2> SUFFICES ASSUME NEW a \in MaturedBlocks(b) PROVE CoinbaseOutput(a) = {}
    BY DEF NewMatured
  <2>1. MaturesGroup(b) /\ a \in Blocks /\ Height[a] \in MaturedHeights(b)
    BY BranchBelow DEF MaturedBlocks
  <2> QED
    BY <2>1 DEF NoCoinbaseUnmatured
<1> QED
  BY <1>2, <1>3, <1>4

\* The first stage of Rollback: the transfer outputs of a completed group are
\* the ones to move back, none of them is spent, and its rings go.
LEMMA UnringedIs ==
    ASSUME Inv, NEW b \in Blocks \ {Genesis}, tip = b
    PROVE  /\ UnringedTxos(b) = NewTransfers(b) /\ UnringedConfirmed(b) = {}
           /\ UnringedTxos(b) \subseteq NewReady(b)
           /\ UnringedMature(b) = NewTransfers(b) \cap mature
           /\ UnringedUnconfirmed(b) = NewTransfers(b) \cap unconfirmed
           /\ \A a \in Blocks : a # b => ImmatureTRUnringed(b)[a] = ImmatureTRAt(Parent[b])[a]
           /\ ImmatureTRUnringed(b)[b] = TransferOutputs(b)
           /\ \A r \in Rings : RingUnringed(b)[r]
                 = IF CompletesGroup(b) /\ r \in RingsOf[b] THEN NoRing ELSE RingAt(b, r)
<1>1. /\ BucketsInv /\ RecordsInv /\ RingsInv /\ Parent[b] \in Blocks /\ b \in Branch[b]
      /\ Height[b] \in Nat
  BY ParentBelow, BranchBelow DEF Inv
<1>2. /\ confirmed = Spent(b) /\ unconfirmed \subseteq Ready(b) \ Spent(b)
      /\ mature = (Ready(b) \ Spent(b)) \ unconfirmed
      /\ immatureCB = ImmatureCBAt(b) /\ immatureTR = ImmatureTRAt(b)
  BY <1>1 DEF BucketsInv
<1>3. /\ Ready(b) = Ready(Parent[b]) \cup NewReady(b) /\ Ready(Parent[b]) \cap NewReady(b) = {}
  BY ReadyStep
<1>4. /\ Spent(b) = Spent(Parent[b]) \cup NewlySpent(b) /\ NewlySpent(b) \subseteq Ready(Parent[b])
      /\ Spent(Parent[b]) \subseteq Ready(Parent[b])
  BY <1>1, SpentStep, SpentReady
<1>5. mature \cup unconfirmed \cup confirmed = Ready(b)
  BY <1>2, <1>3, <1>4
<1>6. NewTransfers(b) \subseteq NewReady(b)
  BY DEF NewTransfers, NewReady
<1>7. ASSUME CompletesGroup(b), NEW a \in Group(b)
      PROVE  /\ blockOutputs[a] = OwnOutputs(a) /\ a \in Blocks
             /\ ToImmatureTR(a) = TransferOutputs(a) /\ StillImmatureCB(a) = CoinbaseOutput(a)
  <2>1. a \in Blocks /\ a \in Branch[b]
    BY <1>7, NewRing
  <2>2. immatureCB[a] = CoinbaseOutput(a)
    <3>1. Coinbase[a] \cap Matured(b) = {}
      BY GroupYoung
    <3> QED
      BY <1>2, <2>1, <3>1 DEF ImmatureCBAt, CoinbaseOutput
  <2>3. blockOutputs[a] = OwnOutputs(a)
    BY <1>1, <2>1 DEF RecordsInv
  <2>4. OwnOutputs(a) \ CoinbaseOutput(a) = TransferOutputs(a) /\ OwnOutputs(a) \cap CoinbaseOutput(a) = CoinbaseOutput(a)
    BY <2>1, OutputKinds DEF OwnOutputs
  <2>5. TransferOutputs(a) \subseteq Ready(b)
    BY <1>3, <1>6, <1>7 DEF NewTransfers
  <2>6. ToImmatureTR(a) = TransferOutputs(a)
    <3>1. ToImmatureTR(a) = TransferOutputs(a) \cap (mature \cup unconfirmed \cup confirmed)
      BY <2>2, <2>3, <2>4 DEF ToImmatureTR
    <3> QED
      BY <1>5, <2>5, <3>1
  <2> QED
    BY <2>1, <2>2, <2>3, <2>4, <2>6 DEF StillImmatureCB
<1>8. \A a : OwnOutputs(a) = CoinbaseOutput(a) \cup TransferOutputs(a)
  BY DEF OwnOutputs
<1>9. UnringedTxos(b) = NewTransfers(b)
  <2>1. CASE CompletesGroup(b)
    <3>1. UndoneBlocks(b) = {a \in Group(b) : OwnOutputs(a) # {}}
      BY <1>7, <2>1 DEF UndoneBlocks
    <3>2. \A c : c \in UnringedTxos(b) <=> \E a \in Group(b) : c \in TransferOutputs(a)
      BY <1>7, <1>8, <2>1, <3>1 DEF UnringedTxos
    <3> QED
      BY <2>1, <3>2 DEF NewTransfers
  <2>2. CASE ~ CompletesGroup(b)
    BY <2>2 DEF UndoneBlocks, UnringedTxos, NewTransfers
  <2> QED
    BY <2>1, <2>2
<1>10. NewTransfers(b) \cap Spent(b) = {}
  BY <1>3, <1>4, <1>6
<1>11. UnringedConfirmed(b) = {}
  BY <1>2, <1>3, <1>6, <1>9, <1>10 DEF UnringedConfirmed
<1>12. /\ UnringedMature(b) = NewTransfers(b) \cap mature
       /\ UnringedUnconfirmed(b) = NewTransfers(b) \cap unconfirmed
  BY <1>2, <1>9 DEF UnringedMature, UnringedUnconfirmed
<1>13. ASSUME NEW a \in Blocks
       PROVE  /\ a # b => ImmatureTRUnringed(b)[a] = ImmatureTRAt(Parent[b])[a]
              /\ a = b => ImmatureTRUnringed(b)[a] = TransferOutputs(b)
  <2>1. ImmatureTRUnringed(b)[a] = IF a \in UndoneBlocks(b) THEN ToImmatureTR(a) ELSE ImmatureTRAt(b)[a]
    BY <1>2 DEF ImmatureTRUnringed
  <2>2. /\ CompletesGroup(b) /\ a \in Group(b) => ImmatureTRAt(b)[a] = {}
        /\ a # b /\ ~ (CompletesGroup(b) /\ a \in Group(b)) =>
                 ImmatureTRAt(b)[a] = ImmatureTRAt(Parent[b])[a]
        /\ ~ CompletesGroup(b) => ImmatureTRAt(b)[b] = TransferOutputs(b)
    BY ImmatureStep
  <2>3. CASE CompletesGroup(b) /\ a \in Group(b)
    <3>1. ImmatureTRUnringed(b)[a] = TransferOutputs(a)
      <4>1. a \in UndoneBlocks(b) <=> OwnOutputs(a) # {}
        BY <1>7, <2>3 DEF UndoneBlocks
      <4> QED
        BY <1>7, <1>8, <2>1, <2>2, <2>3, <4>1
    <3>2. a # b => ImmatureTRAt(Parent[b])[a] = TransferOutputs(a)
      <4>1. Created(a) \cap Ringed(Parent[b]) = {} /\ a \in Branch[b] /\ a \in Blocks
        BY <2>3, NewRing
      <4>2. TransferOutputs(a) \subseteq Created(a)
        BY <1>8, <4>1, OutputKinds
      <4>3. a # b => a \in Branch[Parent[b]]
        BY <4>1, ParentBelow
      <4> QED
        BY <4>1, <4>2, <4>3 DEF ImmatureTRAt
    <3> QED
      BY <3>1, <3>2
  <2>4. CASE ~ (CompletesGroup(b) /\ a \in Group(b))
    <3>1. a \notin UndoneBlocks(b)
      BY <2>4 DEF UndoneBlocks
    <3>2. b \in Group(b)
      BY <1>1, GroupAssumption DEF Group
    <3> QED
      BY <2>1, <2>2, <2>4, <3>1, <3>2
  <2> QED
    BY <2>3, <2>4
<1>14. ASSUME NEW r \in Rings
       PROVE  RingUnringed(b)[r] = IF CompletesGroup(b) /\ r \in RingsOf[b] THEN NoRing ELSE RingAt(b, r)
  <2>1. utxoRing[r] = RingAt(b, r)
    BY <1>1 DEF RingsInv
  <2>2. RingUnringed(b)[r] = IF CompletesGroup(b) /\ r \in DeletedRings(b) THEN NoRing ELSE RingAt(b, r)
    BY <2>1 DEF RingUnringed
  <2>3. DeletedRings(b) \subseteq RingsOf[b]
    BY DEF DeletedRings
  <2>4. ASSUME CompletesGroup(b), r \in RingsOf[b], r \notin DeletedRings(b) PROVE RingAt(b, r) = NoRing
    <3>1. Members[r] \cap (UnringedTxos(b) \cup UNION {StillImmatureCB(a) : a \in UndoneBlocks(b)}) = {}
      BY <2>4 DEF DeletedRings
    <3>2. ASSUME NEW c \in Members[r] \cap Mine PROVE FALSE
      <4>1. PICK a \in Group(b) : c \in Created(a)
        BY <2>4, <3>2, RingsAssumption
      <4>2. c \in CoinbaseOutput(a) \cup TransferOutputs(a)
        BY <1>7, <1>8, <2>4, <3>2, <4>1, OutputKinds
      <4>3. a \in UndoneBlocks(b)
        BY <1>7, <1>8, <2>4, <4>2 DEF UndoneBlocks
      <4>4. CASE c \in CoinbaseOutput(a)
        BY <1>7, <2>4, <3>1, <3>2, <4>3, <4>4
      <4>5. CASE c \in TransferOutputs(a)
        BY <1>9, <2>4, <3>1, <3>2, <4>5 DEF NewTransfers
      <4> QED
        BY <4>2, <4>4, <4>5
    <3>3. Members[r] \cap Mine = {}
      BY <3>2
    <3> QED
      BY <3>3 DEF RingAt
  <2> QED
    BY <2>2, <2>3, <2>4
<1> QED
  BY <1>6, <1>9, <1>11, <1>12, <1>13, <1>14

\* The third stage: the TXOs restored are those the block spent.
LEMMA RestoredIs ==
    ASSUME Inv, NEW b \in Blocks \ {Genesis}, tip = b
    PROVE  /\ Restored(b) = NewlySpent(b) /\ ~ RollbackPanics(b)
           /\ \A r \in Rings : r \in SavedRings(b) <=> Revealed(b, r) # {} /\ RingAt(Parent[b], r) # NoRing
           /\ \A r \in SavedRings(b) : blockInputs[b].old[r] = RingAt(Parent[b], r)
<1> DEFINE p == Parent[b]
<1>1. /\ RecordsInv /\ BucketsInv /\ p \in Blocks /\ b \in Branch[b]
  BY ParentBelow, BranchBelow DEF Inv
<1> HIDE DEF p
<1>2. blockInputs[b] = InputsOf(b)
  BY <1>1 DEF RecordsInv
<1>3. \A r \in Rings : blockInputs[b].old[r] = IF r \in RingsSpentBy(b) THEN RingAt(p, r) ELSE NoRing
  BY <1>2 DEF InputsOf, p
<1>4. \A r \in Rings : r \in SavedRings(b) <=> Revealed(b, r) # {} /\ RingAt(p, r) # NoRing
  <2> SUFFICES ASSUME NEW r \in Rings
               PROVE  r \in SavedRings(b) <=> Revealed(b, r) # {} /\ RingAt(p, r) # NoRing
    OBVIOUS
  <2>1. r \in RingsSpentBy(b) <=> Revealed(b, r) # {}
    BY DEF RingsSpentBy
  <2>2. r \in SavedRings(b) <=> blockInputs[b].old[r] # NoRing
    BY DEF SavedRings
  <2> QED
    BY <1>3, <2>1, <2>2
<1>5. \A r \in SavedRings(b) : r \in Rings
  BY DEF SavedRings
<1>6. \A r \in SavedRings(b) : /\ blockInputs[b].old[r] = RingAt(p, r)
                               /\ blockInputs[b].sns[r] = Revealed(b, r)
  <2> SUFFICES ASSUME NEW r \in SavedRings(b)
               PROVE  /\ blockInputs[b].old[r] = RingAt(p, r)
                      /\ blockInputs[b].sns[r] = Revealed(b, r)
    OBVIOUS
  <2>1. blockInputs[b].sns[r] = IF RingAt(p, r) = NoRing THEN {} ELSE Revealed(b, r)
    BY <1>2, <1>5 DEF InputsOf, p
  <2> QED
    BY <1>3, <1>4, <1>5, <2>1 DEF RingsSpentBy
<1>7. ASSUME NEW r \in SavedRings(b)
      PROVE  RestoredFrom(b, r) = Members[r] \cap Mine \cap Revealed(b, r)
  <2>1. r \in Rings /\ RingAt(p, r) # NoRing /\ blockInputs[b].old[r] = RingAt(p, r)
    BY <1>4, <1>5, <1>6, <1>7
  <2>2. /\ RingAt(p, r).mine = Members[r] \cap Mine /\ r \in RingsFormed(p)
        /\ SpentFlags(r, RingAt(p, r)) = Members[r] \cap Mine \cap RevealedBy(p, r)
    BY <1>1, <2>1, RingAtIs
  <2>3. /\ r \in RingsFormed(b) /\ ~ (CompletesGroup(b) /\ r \in RingsOf[b])
        /\ RevealedBy(b, r) = RevealedBy(p, r) \cup Revealed(b, r)
        /\ RevealedBy(p, r) \cap Revealed(b, r) = {}
    BY <2>2, RingAtStep DEF p
  <2>4. RingUnringed(b)[r] = RingAt(b, r)
    BY <2>1, <2>3, UnringedIs
  <2>5. RestoredFrom(b, r) =
           IF RingAt(b, r) = NoRing THEN (Members[r] \cap Mine) \ RevealedBy(p, r)
           ELSE ((Members[r] \cap Mine) \ RevealedBy(p, r)) \cap RingAt(b, r).mine \cap Revealed(b, r)
    <3>1. blockInputs[b].old[r].mine \ SpentFlags(r, blockInputs[b].old[r])
             = (Members[r] \cap Mine) \ RevealedBy(p, r)
      BY <2>1, <2>2
    <3> QED
      BY <1>6, <1>7, <2>4, <3>1 DEF RestoredFrom
  <2>6. CASE RingAt(b, r) = NoRing
    <3>1. Members[r] \cap Mine \subseteq RevealedBy(b, r)
      BY <1>1, <2>3, <2>6, RingAtIs
    <3> QED
      BY <2>3, <2>5, <2>6, <3>1
  <2>7. CASE RingAt(b, r) # NoRing
    <3>1. RingAt(b, r).mine = Members[r] \cap Mine
      BY <2>7, RingAtIs
    <3> QED
      BY <2>3, <2>5, <2>7, <3>1
  <2> QED
    BY <2>6, <2>7
<1>8. Restored(b) = NewlySpent(b)
  <2>1. ASSUME NEW c \in Restored(b) PROVE c \in NewlySpent(b)
    <3>1. PICK r \in SavedRings(b) : c \in RestoredFrom(b, r)
      BY <2>1 DEF Restored
    <3> QED
      BY <1>5, <1>7, <3>1 DEF NewlySpent
  <2>2. ASSUME NEW c \in NewlySpent(b) PROVE c \in Restored(b)
    <3>1. PICK r \in Rings : c \in Revealed(b, r)
      BY <2>2 DEF NewlySpent
    <3>2. r \in RingsFormed(p) /\ c \in Members[r] /\ c \notin RevealedBy(p, r) /\ c \in Mine
      BY <2>2, <3>1, RevealedKnown DEF p, NewlySpent
    <3>3. RingAt(p, r) # NoRing
      BY <1>1, <3>2, RingAtIs
    <3>4. r \in SavedRings(b)
      BY <1>4, <3>1, <3>3
    <3> QED
      BY <1>7, <3>1, <3>2, <3>4 DEF Restored
  <2> QED
    BY <2>1, <2>2
<1>9. ~ RollbackPanics(b)
  <2>1. confirmed = Spent(b) /\ NewlySpent(b) \subseteq Spent(b)
    BY <1>1, SpentStep DEF BucketsInv
  <2>2. UnringedConfirmed(b) = {}
    BY UnringedIs
  <2> QED
    BY <1>8, <2>1, <2>2 DEF RollbackPanics, ConfirmedUnringed
<1> QED
  BY <1>4, <1>6, <1>8, <1>9 DEF p

\* The rings after Rollback.
LEMMA RollbackRingsInv ==
    ASSUME Inv, NEW b \in Blocks, Rollback(b)
    PROVE  RingsInv'
<1>1. /\ b \in Blocks \ {Genesis} /\ tip = b /\ tip' = Parent[b] /\ RollbackRings(b)
  BY DEF Rollback
<1>2. ASSUME NEW r \in Rings PROVE utxoRing'[r] = RingAt(Parent[b], r)
  <2>1. utxoRing'[r] = IF r \in SavedRings(b) THEN blockInputs[b].old[r] ELSE RingUnringed(b)[r]
    BY <1>1 DEF RollbackRings
  <2>2. RingUnringed(b)[r] = IF CompletesGroup(b) /\ r \in RingsOf[b] THEN NoRing ELSE RingAt(b, r)
    BY <1>1, UnringedIs
  <2>3. /\ r \in SavedRings(b) <=> Revealed(b, r) # {} /\ RingAt(Parent[b], r) # NoRing
        /\ r \in SavedRings(b) => blockInputs[b].old[r] = RingAt(Parent[b], r)
    BY <1>1, RestoredIs
  <2>4. /\ r \notin RingsFormed(Parent[b]) => RingAt(Parent[b], r) = NoRing
        /\ r \notin RingsFormed(b) => RingAt(b, r) = NoRing
        /\ r \in RingsFormed(Parent[b]) => ~ (CompletesGroup(b) /\ r \in RingsOf[b])
        /\ r \in RingsFormed(Parent[b]) /\ Revealed(b, r) = {} =>
                 RingAt(b, r) = RingAt(Parent[b], r)
        /\ r \in RingsFormed(Parent[b]) /\ RingAt(Parent[b], r) = NoRing => RingAt(b, r) = NoRing
        /\ r \in RingsFormed(b) => r \in RingsFormed(Parent[b]) \/ (CompletesGroup(b) /\ r \in RingsOf[b])
    BY <1>1, RingAtStep
  <2> QED
    BY <2>1, <2>2, <2>3, <2>4
<1>3. utxoRing' = [r \in Rings |-> utxoRing'[r]]
  BY <1>1 DEF RollbackRings
<1> QED
  BY <1>1, <1>2, <1>3 DEF RingsInv

\* The records after Rollback: it leaves them, and the branch is a part of what
\* it was.
LEMMA RollbackRecordsInv ==
    ASSUME Inv, NEW b \in Blocks, Rollback(b)
    PROVE  RecordsInv'
<1>1. /\ b \in Blocks \ {Genesis} /\ tip = b /\ tip' = Parent[b]
      /\ UNCHANGED <<blockOutputs, blockInputs>> /\ RecordsInv
      /\ Branch[Parent[b]] \subseteq Branch[b]
  BY ParentBelow DEF Rollback, Inv
<1> QED
  BY <1>1 DEF RecordsInv

\* The buckets after Rollback.
LEMMA RollbackBucketsInv ==
    ASSUME Inv, NoCoinbaseUnmatured, NEW b \in Blocks, Rollback(b)
    PROVE  BucketsInv' /\ unconfirmed' = unconfirmed \cap Ready(Parent[b])
<1> DEFINE p == Parent[b]
<1>1. /\ b \in Blocks \ {Genesis} /\ tip = b /\ tip' = p /\ Detachable(b) /\ RollbackTxos(b)
      /\ BucketsInv /\ RecordsInv /\ b \in Branch[b] /\ p \in Blocks
      /\ immatureCB \in [Blocks -> SUBSET Coins] /\ b \notin Branch[p]
  BY ParentBelow, ParentBranch, BranchBelow DEF Rollback, Inv, TypeOK
<1>2. /\ confirmed = Spent(b) /\ unconfirmed \subseteq Ready(b) \ Spent(b)
      /\ mature = (Ready(b) \ Spent(b)) \ unconfirmed
      /\ immatureCB = ImmatureCBAt(b) /\ immatureTR = ImmatureTRAt(b)
  BY <1>1 DEF BucketsInv
<1>3. /\ UnmaturedTxos(b) = {} /\ NewMatured(b) = {}
      /\ UnmaturedBlocks(b) # {} => ToImmatureCB(b, LastUnmatured(b)) = {}
  BY <1>1, NoneUnmatured
<1>4. /\ Restored(b) = NewlySpent(b)
  BY <1>1, RestoredIs
<1>5. /\ UnringedConfirmed(b) = {}
      /\ UnringedMature(b) = NewTransfers(b) \cap mature
      /\ UnringedUnconfirmed(b) = NewTransfers(b) \cap unconfirmed
      /\ \A a \in Blocks : a # b => ImmatureTRUnringed(b)[a] = ImmatureTRAt(p)[a]
  BY <1>1, UnringedIs
<1>6. NewReady(b) = NewTransfers(b)
  BY <1>3 DEF NewReady, NewTransfers, NewMatured
<1>7. /\ Ready(b) = Ready(p) \cup NewTransfers(b) /\ Ready(p) \cap NewTransfers(b) = {}
      /\ Spent(b) = Spent(p) \cup NewlySpent(b) /\ Spent(p) \cap NewlySpent(b) = {}
      /\ NewlySpent(b) \subseteq Ready(p) /\ Spent(p) \subseteq Ready(p)
  BY <1>1, <1>6, ReadyStep, SpentStep, SpentReady
<1>8. UnmaturedMature(b) = {} /\ UnmaturedUnconfirmed(b) = {} /\ UnmaturedConfirmed(b) = {}
  BY <1>3 DEF UnmaturedMature, UnmaturedUnconfirmed, UnmaturedConfirmed
<1>9. /\ mature' = (mature \ (NewTransfers(b) \cap mature)) \cup NewlySpent(b)
      /\ unconfirmed' = unconfirmed \ (NewTransfers(b) \cap unconfirmed)
      /\ confirmed' = confirmed \ NewlySpent(b)
  BY <1>1, <1>4, <1>5, <1>8 DEF RollbackTxos, MatureRestored, UnconfirmedRestored, ConfirmedRestored,
                                ConfirmedUnringed
<1>10. confirmed' = Spent(p)
  BY <1>2, <1>7, <1>9
<1>11. unconfirmed' \subseteq Ready(p) \ Spent(p) /\ unconfirmed' = unconfirmed \cap Ready(p)
  BY <1>2, <1>7, <1>9
<1>12. mature' = (Ready(p) \ Spent(p)) \ unconfirmed'
  BY <1>2, <1>7, <1>9
<1>13. immatureTR' = ImmatureTRAt(p)
  <2>1. immatureTR' = [ImmatureTRUnringed(b) EXCEPT ![b] = {}]
    BY <1>1 DEF RollbackTxos
  <2>2. ImmatureTRUnringed(b) = [a \in Blocks |-> ImmatureTRUnringed(b)[a]]
    BY DEF ImmatureTRUnringed
  <2>3. ImmatureTRAt(p)[b] = {}
    BY <1>1 DEF ImmatureTRAt
  <2>4. \A a \in Blocks : immatureTR'[a] = ImmatureTRAt(p)[a]
    BY <1>1, <1>5, <2>1, <2>2, <2>3
  <2>5. immatureTR' = [a \in Blocks |-> immatureTR'[a]]
    BY <2>1, <2>2
  <2> QED
    BY <2>4, <2>5 DEF ImmatureTRAt
<1>14. immatureCB' = ImmatureCBAt(p)
  <2>1. immatureCB' = [immatureCB EXCEPT ![b] = {}]
    BY <1>1, <1>3 DEF RollbackTxos
  <2>2. ASSUME NEW a \in Blocks PROVE immatureCB'[a] = ImmatureCBAt(p)[a]
    <3>1. CASE a = b
      BY <1>1, <2>1, <3>1 DEF ImmatureCBAt
    <3>2. CASE a # b /\ a \notin MaturedBlocks(b)
      BY <1>1, <1>2, <2>1, <3>2, ImmatureStep
    <3>3. CASE a # b /\ a \in MaturedBlocks(b)
      <4>1. CoinbaseOutput(a) = {}
        BY <1>3, <3>3 DEF NewMatured
      <4> QED
        BY <1>1, <1>2, <2>1, <3>3, <4>1 DEF ImmatureCBAt
    <3> QED
      BY <3>1, <3>2, <3>3
  <2>3. immatureCB' = [a \in Blocks |-> immatureCB'[a]]
    BY <1>1, <2>1
  <2> QED
    BY <2>2, <2>3 DEF ImmatureCBAt
<1> QED
  BY <1>1, <1>10, <1>11, <1>12, <1>13, <1>14 DEF BucketsInv

\* The transaction buckets after Rollback: of the confirmed transactions, those
\* relevant to what is restored are those of the block.
LEMMA RollbackTxsInv ==
    ASSUME Inv, NoCoinbaseUnmatured, NEW b \in Blocks, Rollback(b)
    PROVE  TxsInv'
<1> DEFINE p == Parent[b]
           unringed == RelevantTo(UnringedTxos(b))
           restored == RelevantTo(Restored(b))
<1>1. /\ b \in Blocks \ {Genesis} /\ tip = b /\ tip' = p /\ Detachable(b) /\ RollbackTxs(b)
      /\ TxsInv /\ RecordsInv /\ b \in Branch[b] /\ p \in Blocks /\ Branch[b] = Branch[p] \cup {b}
      /\ relevant' = relevant
  BY ParentBelow, BranchBelow DEF Rollback, RollbackTxs, Inv
<1>2. UnmaturedTxos(b) = {} /\ UnringedConfirmed(b) = {} /\ Restored(b) = NewlySpent(b)
  BY <1>1, NoneUnmatured, UnringedIs, RestoredIs
<1>3. RelevantTo({}) = {}
  BY DEF RelevantTo
<1> HIDE DEF unringed, restored, p
<1>4. /\ confirmedTx' = confirmedTx \ restored
      /\ invalidTx' = (invalidTx \cup (unringed \cap unconfirmedTx)) \ restored
      /\ unconfirmedTx' = (unconfirmedTx \ unringed)
                \cup (restored \cap (confirmedTx \cup (invalidTx \cup (unringed \cap unconfirmedTx))))
  BY <1>1, <1>2, <1>3 DEF RollbackTxs, unringed, restored
<1>5. /\ confirmedTx = Spenders(b)
      /\ confirmedTx \cap unconfirmedTx = {} /\ confirmedTx \cap invalidTx = {}
      /\ unconfirmedTx \cap invalidTx = {}
      /\ \A c \in Coins : \A t \in relevant[c] :
            c \in Mine /\ \E r \in Rings : <<r, c>> \in Spends[t] /\ c \in Members[r]
      /\ \A t \in confirmedTx : \A c \in OwnSpends(t) : t \in relevant[c]
      /\ invalidTx \subseteq RelevantTo(Coins)
  BY <1>1 DEF TxsInv
<1>6. restored = UNION {relevant[c] : c \in NewlySpent(b)} /\ NewlySpent(b) \subseteq Coins
  BY <1>2, SetsAssumption DEF restored, RelevantTo, NewlySpent
<1>7. ASSUME NEW t \in TxsOf[b], OwnSpends(t) # {} PROVE t \in restored
  <2>1. PICK c \in OwnSpends(t) : TRUE
    BY <1>7
  <2>2. PICK r \in Rings : <<r, c>> \in Spends[t]
    BY <2>1 DEF OwnSpends
  <2>3. c \in NewlySpent(b)
    BY <1>1, <2>1, <2>2, BranchTx DEF OwnSpends, NewlySpent
  <2>4. t \in confirmedTx
    BY <1>1, <1>5, <1>7 DEF Spenders
  <2> QED
    BY <1>5, <1>6, <2>1, <2>3, <2>4
<1>8. ASSUME NEW t \in Spenders(p), t \in restored PROVE FALSE
  <2>1. PICK c \in NewlySpent(b) : t \in relevant[c]
    BY <1>6, <1>8
  <2>2. c \in Mine /\ \E r \in Rings : <<r, c>> \in Spends[t] /\ c \in Members[r]
    BY <1>5, <1>6, <2>1
  <2>3. PICK r \in Rings : <<r, c>> \in Spends[t]
    BY <2>2
  <2>4. PICK a \in Branch[p] : t \in TxsOf[a]
    BY <1>8 DEF Spenders
  <2>5. c \in Spent(p)
    BY <1>1, <2>2, <2>3, <2>4, BranchTx
  <2> QED
    BY <1>1, <2>5, SpentStep DEF p
<1>9. Spenders(b) = Spenders(p) \cup {t \in TxsOf[b] : OwnSpends(t) # {}}
  BY <1>1 DEF Spenders
<1>10. confirmedTx' = Spenders(p)
  BY <1>4, <1>5, <1>7, <1>8, <1>9
<1>11. /\ confirmedTx' \cap unconfirmedTx' = {} /\ confirmedTx' \cap invalidTx' = {}
       /\ unconfirmedTx' \cap invalidTx' = {}
  BY <1>4, <1>5
<1>12. \A t \in confirmedTx' : \A c \in OwnSpends(t) : t \in relevant'[c]
  BY <1>1, <1>4, <1>5
<1>13. invalidTx' \subseteq RelevantTo(Coins)'
  <2>1. unringed \subseteq RelevantTo(Coins)
    <3>1. UnringedTxos(b) \subseteq Coins
      <4>1. UnringedTxos(b) = NewTransfers(b)
        BY <1>1, UnringedIs
      <4>2. \A a \in Group(b) : TransferOutputs(a) \subseteq Coins
        BY BranchBelow, ChainTypes DEF Group
      <4> QED
        BY <4>1, <4>2 DEF NewTransfers
    <3> QED
      BY <3>1 DEF unringed, RelevantTo
  <2>2. RelevantTo(Coins)' = RelevantTo(Coins)
    BY <1>1 DEF RelevantTo
  <2> QED
    BY <1>4, <1>5, <2>1, <2>2
<1> QED
  BY <1>1, <1>5, <1>10, <1>11, <1>12, <1>13 DEF TxsInv

\* The balances after Rollback.
LEMMA RollbackBalancesInv ==
    ASSUME Inv, NoCoinbaseUnmatured, NEW b \in Blocks, Rollback(b)
    PROVE  BalancesMatchBuckets'
<1> DEFINE p == Parent[b]
<1>1. /\ b \in Blocks \ {Genesis} /\ tip = b /\ tip' = p /\ Detachable(b) /\ RollbackBalances(b)
      /\ RollbackTxos(b) /\ BucketsInv /\ RecordsInv /\ b \in Branch[b] /\ p \in Blocks
      /\ TypeOK /\ BalancesMatchBuckets /\ BucketsInv' /\ rejections' = rejections
  BY ParentBelow, BranchBelow, RollbackBucketsInv DEF Rollback, Inv
<1>2. /\ UnmaturedTxos(b) = {} /\ NewMatured(b) = {}
      /\ Restored(b) = NewlySpent(b) /\ UnringedConfirmed(b) = {}
      /\ UnringedTxos(b) = NewTransfers(b)
      /\ UnringedMature(b) = NewTransfers(b) \cap mature
      /\ UnringedUnconfirmed(b) = NewTransfers(b) \cap unconfirmed
      /\ ImmatureTRUnringed(b)[b] = TransferOutputs(b)
  BY <1>1, NoneUnmatured, UnringedIs, RestoredIs
<1>3. /\ UnmaturedMature(b) = {} /\ UnmaturedUnconfirmed(b) = {} /\ UnmaturedConfirmed(b) = {}
  BY <1>2 DEF UnmaturedMature, UnmaturedUnconfirmed, UnmaturedConfirmed
<1>4. DroppedTR(b) = TransferOutputs(b) /\ DroppedCB(b) = CoinbaseOutput(b)
  <2>1. immatureCB[b] = CoinbaseOutput(b)
    BY <1>1, ImmatureStep DEF BucketsInv
  <2> QED
    BY <1>2, <2>1 DEF DroppedTR, DroppedCB
<1> HIDE DEF p
<1>5. /\ AllImmatureCB = AllCBAt(b) /\ AllImmatureTR = AllTRAt(b)
      /\ AllImmatureCB' = AllCBAt(p) /\ AllImmatureTR' = AllTRAt(p)
  BY <1>1 DEF BucketsInv, AllImmatureCB, AllImmatureTR, AllCBAt, AllTRAt
<1>6. /\ AllCBAt(b) = (AllCBAt(p) \cup CoinbaseOutput(b)) \ NewMatured(b)
      /\ CoinbaseOutput(b) \cap AllCBAt(p) = {}
      /\ AllTRAt(b) = (AllTRAt(p) \cup TransferOutputs(b)) \ NewTransfers(b)
      /\ TransferOutputs(b) \cap AllTRAt(p) = {}
      /\ NewTransfers(b) \subseteq AllTRAt(p) \cup TransferOutputs(b)
  BY <1>1, ImmatureSets DEF p
\* Nothing is added to a balance for the coinbases, which are none.
<1>7. ASSUME NEW bal \in [Coins -> Int] PROVE Plus(bal, {}) = bal /\ Minus(bal, {}) = bal
  BY <1>7 DEF Plus, Minus
<1>8. immatureCBBal' = CountOf(AllImmatureCB)'
  <2>1. immatureCBBal' = Plus(Minus(CountOf(AllCBAt(b)), CoinbaseOutput(b)), {})
    BY <1>1, <1>3, <1>4, <1>5 DEF RollbackBalances, BalancesMatchBuckets
  <2>2. CoinbaseOutput(b) \subseteq AllCBAt(b) /\ AllCBAt(b) \ CoinbaseOutput(b) = AllCBAt(p)
    BY <1>2, <1>6
  <2>3. Minus(CountOf(AllCBAt(b)), CoinbaseOutput(b)) = CountOf(AllCBAt(b) \ CoinbaseOutput(b))
    BY <2>2, CountPlusMinus
  <2>4. Minus(CountOf(AllCBAt(b)), CoinbaseOutput(b)) = CountOf(AllCBAt(p))
    BY <2>2, <2>3, Zenon
  <2>5. immatureCBBal' = CountOf(AllCBAt(p))
    BY <1>7, <2>1, <2>4, CountPlusMinus
  <2> QED
    BY <1>5, <2>5 DEF CountOf
<1>9. immatureTRBal' = CountOf(AllImmatureTR)'
  <2>1. immatureTRBal' = Minus(Plus(CountOf(AllTRAt(b)), NewTransfers(b)), TransferOutputs(b))
    BY <1>1, <1>2, <1>4, <1>5 DEF RollbackBalances, BalancesMatchBuckets
  <2> DEFINE A == AllTRAt(p) \cup TransferOutputs(b)
  <2>2. AllTRAt(b) \cap NewTransfers(b) = {} /\ AllTRAt(b) \cup NewTransfers(b) = A
        /\ TransferOutputs(b) \subseteq A /\ A \ TransferOutputs(b) = AllTRAt(p)
    BY <1>6
  <2> HIDE DEF A
  <2>3. Plus(CountOf(AllTRAt(b)), NewTransfers(b)) = CountOf(AllTRAt(b) \cup NewTransfers(b))
    BY <2>2, CountPlusMinus
  <2>4. Plus(CountOf(AllTRAt(b)), NewTransfers(b)) = CountOf(A)
    BY <2>2, <2>3, Zenon
  <2>5. Minus(CountOf(A), TransferOutputs(b)) = CountOf(A \ TransferOutputs(b))
    BY <2>2, CountPlusMinus
  <2>6. immatureTRBal' = CountOf(AllTRAt(p))
    BY <2>1, <2>2, <2>4, <2>5, Zenon
  <2> QED
    BY <1>5, <2>6 DEF CountOf
<1>10. ASSUME NEW c \in Coins
       PROVE  /\ unconfirmedBal'[c] - CountOf(unconfirmed)'[c] \in 0 .. rejections'
              /\ spendableBal'[c] = CountOf(mature)'[c] - (unconfirmedBal'[c] - CountOf(unconfirmed)'[c])
  <2> DEFINE In(S) == IF c \in S THEN 1 ELSE 0
  <2>1. /\ unconfirmedBal[c] - CountOf(unconfirmed)[c] \in 0 .. rejections
        /\ spendableBal[c] = CountOf(mature)[c] - (unconfirmedBal[c] - CountOf(unconfirmed)[c])
    BY <1>1, <1>10 DEF BalancesMatchBuckets
  <2>2. /\ CountOf(unconfirmed)[c] = In(unconfirmed) /\ CountOf(mature)[c] = In(mature)
        /\ CountOf(unconfirmed)'[c] = In(unconfirmed') /\ CountOf(mature)'[c] = In(mature')
    BY DEF CountOf
  <2>3. unconfirmedBal[c] \in Int /\ spendableBal[c] \in Int
    BY <1>1 DEF TypeOK
  <2>4. unconfirmedBal'[c] = unconfirmedBal[c] - In(UnringedUnconfirmed(b))
    BY <1>1, <1>3 DEF RollbackBalances, Plus, Minus, TypeOK
  <2>5. spendableBal'[c] = spendableBal[c] - In(UnringedMature(b)) + In(Restored(b))
    BY <1>1, <1>3 DEF RollbackBalances, Plus, Minus, TypeOK
  <2>6. /\ mature' = (mature \ UnringedMature(b)) \cup Restored(b)
        /\ unconfirmed' = unconfirmed \ UnringedUnconfirmed(b)
    BY <1>1, <1>3 DEF RollbackTxos, MatureRestored, UnconfirmedRestored
  <2>7. Restored(b) \cap mature = {}
    BY <1>1, <1>2, SpentStep DEF BucketsInv
  <2>8. In(unconfirmed') = In(unconfirmed) - In(UnringedUnconfirmed(b))
    BY <1>2, <2>6
  <2>9. In(mature') = In(mature) - In(UnringedMature(b)) + In(Restored(b))
    BY <1>2, <2>6, <2>7
  <2>10. \A S : In(S) \in Int
    OBVIOUS
  <2> HIDE DEF In
  <2> QED
    BY <1>1, <2>1, <2>2, <2>3, <2>4, <2>5, <2>8, <2>9, <2>10
<1> QED
  BY <1>8, <1>9, <1>10 DEF BalancesMatchBuckets

-----------------------------------------------------------------------------
(* The invariant *)

\* A new wallet is at the genesis block, whose coinbase has not matured.
LEMMA InitInv == Init => Inv
<1> SUFFICES ASSUME Init PROVE Inv
  OBVIOUS
<1>1. TypeOK
  BY InitType
<1>2. /\ tip = Genesis /\ Genesis \in Blocks /\ Branch[Genesis] = {Genesis} /\ Height[Genesis] = 0
      /\ TxsOf[Genesis] = {} /\ ~ CompletesGroup(Genesis)
  BY TreeAssumption, RingsAssumption DEF Init
<1>3. /\ RingsFormed(Genesis) = {} /\ Ringed(Genesis) = {}
  BY <1>2 DEF RingsFormed, Ringed
<1>4. Matured(Genesis) = {}
  <2>1. ~ MaturesGroup(Genesis)
    BY <1>2, GroupAssumption DEF MaturesGroup
  <2> QED
    BY <1>2, <2>1 DEF Matured, MaturedBlocks
<1>5. Ready(Genesis) = {} /\ Spent(Genesis) = {}
  BY <1>3 DEF Ready, Spent
<1>6. TransferOutputs(Genesis) = {} /\ OwnOutputs(Genesis) = CoinbaseOutput(Genesis)
  BY <1>2 DEF TransferOutputs, OwnOutputs
<1>7. BucketsInv
  <2>1. ImmatureCBAt(Genesis) = [a \in Blocks |-> IF a = Genesis THEN CoinbaseOutput(a) ELSE {}]
    BY <1>2, <1>4 DEF ImmatureCBAt
  <2>2. ImmatureTRAt(Genesis) = [a \in Blocks |-> {}]
    BY <1>2, <1>6 DEF ImmatureTRAt
  <2> QED
    BY <1>2, <1>5, <2>1, <2>2 DEF Init, BucketsInv
<1>8. RecordsInv
  BY <1>2, <1>6 DEF Init, RecordsInv
<1>9. RingsInv
  BY <1>2, <1>3 DEF Init, RingsInv, RingAt
<1>10. TxsInv
  BY <1>2 DEF Init, TxsInv, Spenders
<1>11. BalancesMatchBuckets
  <2>1. AllImmatureCB = CoinbaseOutput(Genesis) /\ AllImmatureTR = {}
    BY <1>2 DEF Init, AllImmatureCB, AllImmatureTR
  <2>2. \A c \in Coins : unconfirmedBal[c] = 0 /\ spendableBal[c] = 0
                         /\ CountOf(unconfirmed)[c] = 0 /\ CountOf(mature)[c] = 0
    BY DEF Init, ZeroBalance, CountOf
  <2>3. immatureCBBal = CountOf(AllImmatureCB) /\ immatureTRBal = CountOf(AllImmatureTR)
    BY <2>1 DEF Init, ZeroBalance, CountOf
  <2>4. rejections = 0
    BY DEF Init
  <2> QED
    BY <2>2, <2>3, <2>4 DEF BalancesMatchBuckets
<1> QED
  BY <1>1, <1>7, <1>8, <1>9, <1>10, <1>11 DEF Inv

\* Every step keeps the invariant.
LEMMA NextInv ==
    ASSUME NoCoinbaseUnmatured, Inv, [Next]_vars
    PROVE  Inv'
<1>1. ASSUME NEW b \in Blocks, InsertBlock(b) PROVE Inv'
  <2>1. TypeOK'
    BY <1>1, InsertBlockType DEF Inv
  <2>2. BucketsInv' /\ RecordsInv' /\ RingsInv' /\ TxsInv' /\ BalancesMatchBuckets'
    BY <1>1, InsertBlockBucketsInv, InsertBlockRecordsInv, InsertBlockRingsInv, InsertBlockTxsInv,
       InsertBlockBalancesInv
  <2> QED
    BY <2>1, <2>2 DEF Inv
<1>2. ASSUME NEW b \in Blocks, Rollback(b) PROVE Inv'
  <2>1. TypeOK'
    BY <1>2, RollbackType DEF Inv
  <2>2. BucketsInv' /\ RecordsInv' /\ RingsInv' /\ TxsInv' /\ BalancesMatchBuckets'
    BY <1>2, RollbackBucketsInv, RollbackRecordsInv, RollbackRingsInv, RollbackTxsInv, RollbackBalancesInv
  <2> QED
    BY <2>1, <2>2 DEF Inv
<1>3. ASSUME NEW t \in WalletTxs, InsertTx(t) PROVE Inv'
  BY <1>3, InsertTxInv
<1>4. ASSUME NEW t \in Txs, ResendRejected(t) PROVE Inv'
  BY <1>4, ResendRejectedInv
<1>5. ASSUME ResendRead \/ (\E t \in Txs : ResendAccepted(t)) \/ UNCHANGED vars PROVE Inv'
  <2>1. TypeOK'
    BY <1>5, ResendType DEF Inv, TypeOK, vars, records, immature, txos, txs, balances
  <2>2. UNCHANGED <<records, immature, txos, utxoRing, txs, balances, rejections>>
    BY <1>5 DEF ResendRead, ResendAccepted, vars
  <2>3. UNCHANGED <<tip, blockRecords, blockOutputs, blockInputs, immatureCB, immatureTR, mature,
                    unconfirmed, confirmed, utxoRing, unconfirmedTx, invalidTx, confirmedTx, relevant,
                    spendableBal, immatureCBBal, immatureTRBal, unconfirmedBal, rejections>>
    BY <2>2 DEF records, immature, txos, txs, balances
  <2>4. BucketsInv' /\ RecordsInv' /\ RingsInv'
    BY <2>3 DEF Inv, BucketsInv, RecordsInv, RingsInv
  <2>5. TxsInv'
    BY <2>3 DEF Inv, TxsInv, RelevantTo
  <2>6. BalancesMatchBuckets'
    BY <2>3 DEF Inv, BalancesMatchBuckets, CountOf, AllImmatureCB, AllImmatureTR
  <2> QED
    BY <2>1, <2>4, <2>5, <2>6 DEF Inv
<1> QED
  BY <1>1, <1>2, <1>3, <1>4, <1>5 DEF Next

\* In every reachable state every bucket, ring entry, record and balance of the
\* store is what the branch of the tip says.
THEOREM Invariance ==
    ASSUME NoCoinbaseUnmatured PROVE Spec => []Inv
<1>1. Inv /\ [Next]_vars => Inv'
  BY NextInv
<1> QED
  BY InitInv, <1>1, PTL DEF Spec

-----------------------------------------------------------------------------
(* What follows from it *)

\* The balances a user sees are those of the buckets, but for what
\* DeleteRawUnmined leaves uncorrected.
THEOREM BalancesAreOfBuckets ==
    ASSUME NoCoinbaseUnmatured PROVE Spec => []BalancesMatchBuckets
<1>1. Inv => BalancesMatchBuckets
  BY DEF Inv
<1> QED
  BY Invariance, <1>1, PTL

\* Every UTXORing entry is of a ring of the branch and has its serial numbers,
\* the entries that Rollback puts back included.
THEOREM RingsAreOfBranch ==
    ASSUME NoCoinbaseUnmatured PROVE Spec => []RingsMatchBranch
<1>1. Inv => RingsMatchBranch
  <2> SUFFICES ASSUME Inv, NEW r \in Rings, utxoRing[r] # NoRing
               PROVE  /\ r \in RingsFormed(tip)
                      /\ utxoRing[r].mine = Members[r] \cap Mine
                      /\ utxoRing[r].got = RevealedBy(tip, r)
    BY DEF RingsMatchBranch
  <2>1. utxoRing[r] = RingAt(tip, r) /\ tip \in Blocks
    BY DEF Inv, RingsInv, TypeOK
  <2> QED
    BY <2>1, RingAtIs
<1> QED
  BY Invariance, <1>1, PTL

\* InsertBlock and Rollback never stop on a block of a valid chain.
THEOREM BlocksAlwaysGoThrough ==
    ASSUME NoCoinbaseUnmatured PROVE Spec => []BlocksGoThrough
<1>1. Inv => BlocksGoThrough
  <2> SUFFICES ASSUME Inv PROVE BlocksGoThrough
    OBVIOUS
  <2>1. tip # Genesis => ~ RollbackPanics(tip)
    BY RestoredIs DEF Inv, TypeOK
  <2>2. \A b \in Blocks \ {Genesis} : Parent[b] = tip => ~ DoubleSerialNumber(b)
    BY TouchedIs DEF Inv
  <2> QED
    BY <2>1, <2>2 DEF BlocksGoThrough
<1> QED
  BY Invariance, <1>1, PTL

\* The transactions filed as confirmed are those of the branch that spend the
\* wallet's TXOs, and each transaction is filed once.
THEOREM ConfirmedAreOfBranch ==
    ASSUME NoCoinbaseUnmatured PROVE Spec => []ConfirmedTxMatchesBranch
<1>1. Inv => ConfirmedTxMatchesBranch
  <2> SUFFICES ASSUME Inv PROVE ConfirmedTxMatchesBranch
    OBVIOUS
  <2>1. TxsInv /\ tip \in Blocks
    BY DEF Inv, TypeOK
  <2> QED
    BY <2>1, SpendersAre DEF TxsInv, ConfirmedTxMatchesBranch
<1> QED
  BY Invariance, <1>1, PTL

-----------------------------------------------------------------------------
(* Where matured coinbases are turned back *)

\* There Rollback puts the coinbases under the key of the block it detaches, and
\* only those of one block, so that the immature bucket and its balance are not
\* what the branch says.  What remains, as long as the blocks of those
\* coinbases stay: each TXO is in one bucket, of a block of the branch.
Placed == mature \cup unconfirmed \cup confirmed

\* The blocks whose coinbases x has matured and which no rollback reaches.
Lasting(x) == {a \in Branch[tip] :
                  ~ Detachable(a) /\ MaturesGroup(x) /\ Height[a] \in MaturedHeights(x)}

OutputsKept ==
    \A a \in Blocks : /\ blockOutputs[a] \subseteq OwnOutputs(a)
                      /\ a \in Branch[tip] => blockOutputs[a] = OwnOutputs(a)

\* Under the key of a block are its own coinbases or some it had matured.
CoinbasesPlaced ==
    \A a \in Blocks : \A c \in immatureCB[a] :
        \/ a \in Branch[tip] /\ c \in CoinbaseOutput(a)
        \/ \E y \in Lasting(a) : c \in CoinbaseOutput(y)

TransfersPlaced ==
    \A a \in Blocks : \A c \in immatureTR[a] : a \in Branch[tip] /\ c \in TransferOutputs(a)

\* No coinbase is offered before it has matured.
PlacesInv ==
    /\ OneBucket
    /\ OutputsKept
    /\ CoinbasesPlaced
    /\ TransfersPlaced
    /\ Placed \subseteq Ringed(tip)
    /\ Placed \cap CoinbaseCoins \subseteq Matured(tip)

\* No TXO in a bucket of spendable or spent TXOs is in an immature one too, and
\* no two entries of the immature buckets share one.
LEMMA Apart ==
    ASSUME OneBucket, NEW a \in Blocks
    PROVE  /\ mature \cap unconfirmed = {} /\ mature \cap confirmed = {}
           /\ unconfirmed \cap confirmed = {}
           /\ immatureCB[a] \cap Placed = {} /\ immatureTR[a] \cap Placed = {}
           /\ \A x \in Blocks : immatureCB[a] \cap immatureTR[x] = {}
           /\ \A x \in Blocks \ {a} : /\ immatureCB[a] \cap immatureCB[x] = {}
                                      /\ immatureTR[a] \cap immatureTR[x] = {}
           /\ immatureCB[a] \subseteq Owned(tip) /\ immatureTR[a] \subseteq Owned(tip)
           /\ Placed \subseteq Owned(tip)
<1>1. /\ mature \cap unconfirmed = {} /\ mature \cap confirmed = {}
      /\ unconfirmed \cap confirmed = {}
      /\ (immatureCB[a] \cup immatureTR[a]) \cap (mature \cup unconfirmed \cup confirmed) = {}
      /\ \A x \in Blocks : immatureCB[x] \cap immatureTR[a] = {}
      /\ \A x \in Blocks \ {a} : /\ immatureCB[x] \cap immatureCB[a] = {}
                                 /\ immatureTR[x] \cap immatureTR[a] = {}
      /\ InBuckets \subseteq Owned(tip)
  BY DEF OneBucket
<1>2. \A x \in Blocks : immatureCB[a] \cap immatureTR[x] = {}
  BY DEF OneBucket
<1>3. immatureCB[a] \subseteq InBuckets /\ immatureTR[a] \subseteq InBuckets /\ Placed \subseteq InBuckets
  BY DEF InBuckets, AllImmatureCB, AllImmatureTR, Placed
<1>4. immatureCB[a] \cap Placed = {} /\ immatureTR[a] \cap Placed = {}
  BY <1>1 DEF Placed
<1> QED
  BY <1>1, <1>2, <1>3, <1>4

\* The outputs of the next block are in no bucket yet.
LEMMA NewOutputs ==
    ASSUME OneBucket, NEW b \in Blocks \ {Genesis}, tip = Parent[b], NEW c \in OwnOutputs(b)
    PROVE  c \notin Placed /\ \A a \in Blocks : c \notin immatureCB[a] /\ c \notin immatureTR[a]
<1>1. c \in Created(b) /\ \A a \in Branch[tip] : Created(b) \cap Created(a) = {}
  BY OutputKinds, Fresh
<1>2. tip \in Blocks
  BY ParentBelow
<1>3. \A a \in Branch[tip] : OwnOutputs(a) \subseteq Created(a)
  BY <1>2, BranchBelow, OutputKinds
<1>4. c \notin Owned(tip)
  BY <1>1, <1>3 DEF Owned
<1> QED
  BY <1>4, Apart, <1>2

\* Where InsertBlock leaves each TXO.
LEMMA InsertPlaces ==
    ASSUME TypeOK, PlacesInv, NEW b \in Blocks, InsertBlock(b)
    PROVE  PlacesInv'
<1>1. /\ b \in Blocks \ {Genesis} /\ Parent[b] = tip /\ tip' = b /\ tip \in Blocks
      /\ Branch[b] = Branch[tip] \cup {b} /\ b \notin Branch[tip] /\ b \in Branch[b]
      /\ InsertBlockTxos(b) /\ Branch[tip] \subseteq Blocks /\ Height[b] \in Nat
  BY ParentBelow, ParentBranch, BranchBelow, TreeAssumption DEF InsertBlock, InsertBlockRecords
<1>2. /\ OneBucket /\ OutputsKept /\ CoinbasesPlaced /\ TransfersPlaced /\ Placed \subseteq Ringed(tip)
      /\ Placed \cap CoinbaseCoins \subseteq Matured(tip)
  BY DEF PlacesInv
<1>3. Owned(b) = Owned(tip) \cup OwnOutputs(b) /\ Ringed(tip) \subseteq Ringed(b) /\ Matured(tip) \subseteq Matured(b)
  BY <1>1, ChainStep
<1> DEFINE SM == SpentMature(b)
           SU == SpentUnconfirmed(b)
           MC == MaturedCoinbases(b)
           MT == MaturedTransfers(b)
<1>4. SM \subseteq mature /\ SU \subseteq unconfirmed
  BY DEF SpentMature, SpentUnconfirmed
<1>5. /\ mature' = (mature \ SM) \cup MC \cup MT
      /\ unconfirmed' = unconfirmed \ SU
      /\ confirmed' = confirmed \cup SM \cup SU
  BY <1>1 DEF InsertBlockTxos
<1>6. \A a \in Blocks : immatureCB'[a] =
          IF a = b /\ CoinbaseOutput(b) # {} THEN CoinbaseOutput(b)
          ELSE IF a \in MaturedBlocks(b) THEN {} ELSE immatureCB[a]
  BY <1>1 DEF InsertBlockTxos
<1>7. \A a \in Blocks : immatureTR'[a] =
          IF a = b /\ ~CompletesGroup(b) /\ TransferOutputs(b) # {} THEN TransferOutputs(b)
          ELSE IF CompletesGroup(b) /\ a \in Group(b) \ {b} THEN {} ELSE immatureTR[a]
  BY <1>1 DEF InsertBlockTxos
\* What becomes spendable was immature, and no other entry held it.
<1>8. ASSUME NEW c \in MC
      PROVE  \E a \in MaturedBlocks(b) : a \in Blocks /\ a \in Branch[tip] /\ c \in immatureCB[a]
  <2>1. PICK a \in MaturedBlocks(b) : c \in immatureCB[a]
    BY <1>8 DEF MaturedCoinbases
  <2>2. a \in Branch[tip] /\ a \in Blocks
    BY <1>1, MaturedNew
  <2> QED
    BY <2>1, <2>2
<1>9. ASSUME NEW c \in MT
      PROVE  /\ CompletesGroup(b)
             /\ \/ c \in TransferOutputs(b)
                \/ \E a \in Group(b) \ {b} : a \in Blocks /\ a \in Branch[tip] /\ c \in immatureTR[a]
  <2>1. CompletesGroup(b) /\ c \in GroupTransfers(b) \cup TransferOutputs(b)
    BY <1>9 DEF MaturedTransfers
  <2>2. CASE c \in GroupTransfers(b)
    <3>1. PICK a \in Group(b) \ {b} : c \in immatureTR[a]
      BY <2>2 DEF GroupTransfers, GroupBlocks
    <3>2. a \in Branch[tip] /\ a \in Blocks
      BY <1>1 DEF Group
    <3> QED
      BY <2>1, <3>1, <3>2
  <2> QED
    BY <2>1, <2>2
<1> HIDE DEF SM, SU, MC, MT
<1>10. \A c \in OwnOutputs(b) : c \notin Placed /\ \A a \in Blocks : c \notin immatureCB[a] /\ c \notin immatureTR[a]
  BY <1>1, <1>2, NewOutputs
<1>11. CoinbaseOutput(b) \subseteq OwnOutputs(b) /\ TransferOutputs(b) \subseteq OwnOutputs(b)
       /\ CoinbaseOutput(b) \cap TransferOutputs(b) = {}
  BY OutputKinds DEF OwnOutputs
<1>12. MC \cap Placed = {} /\ MT \cap Placed = {}
  <2>1. ASSUME NEW c \in MC PROVE c \notin Placed
    BY <1>2, <1>8, Apart
  <2>2. ASSUME NEW c \in MT PROVE c \notin Placed
    BY <1>2, <1>9, <1>10, <1>11, Apart
  <2> QED
    BY <2>1, <2>2
<1>13. Placed' = Placed \cup MC \cup MT
  BY <1>4, <1>5 DEF Placed
<1>14. /\ mature' \cap unconfirmed' = {} /\ mature' \cap confirmed' = {} /\ unconfirmed' \cap confirmed' = {}
  <2>1. mature \cap unconfirmed = {} /\ mature \cap confirmed = {} /\ unconfirmed \cap confirmed = {}
    BY <1>2 DEF OneBucket
  <2>2. (MC \cup MT) \cap mature = {} /\ (MC \cup MT) \cap unconfirmed = {} /\ (MC \cup MT) \cap confirmed = {}
    BY <1>12 DEF Placed
  <2>3. unconfirmed' \subseteq unconfirmed /\ confirmed' \subseteq confirmed \cup SM \cup SU
        /\ mature' \subseteq (mature \ SM) \cup (MC \cup MT)
    BY <1>5
  <2> QED
    BY <1>4, <1>5, <2>1, <2>2, <2>3
\* An entry after it is the one before, or the new one of b.
<1>15. ASSUME NEW a \in Blocks, NEW c \in immatureCB'[a]
       PROVE  \/ a = b /\ c \in CoinbaseOutput(b)
              \/ a \notin MaturedBlocks(b) /\ c \in immatureCB[a]
  BY <1>6, <1>15
<1>16. ASSUME NEW a \in Blocks, NEW c \in immatureTR'[a]
       PROVE  \/ a = b /\ c \in TransferOutputs(b) /\ ~CompletesGroup(b)
              \/ ~ (CompletesGroup(b) /\ a \in Group(b) \ {b}) /\ c \in immatureTR[a]
  BY <1>7, <1>16
<1>17. ASSUME NEW a \in Blocks, NEW c \in immatureCB'[a] PROVE c \notin Placed' /\ c \in Owned(b)
  <2>1. CASE a = b /\ c \in CoinbaseOutput(b)
    <3>1. c \in OwnOutputs(b) /\ c \notin TransferOutputs(b)
      BY <1>11, <2>1
    <3>2. c \notin Placed /\ c \notin MC /\ c \notin MT
      BY <1>8, <1>9, <1>10, <3>1
    <3> QED
      BY <1>3, <1>13, <3>1, <3>2
  <2>2. CASE a \notin MaturedBlocks(b) /\ c \in immatureCB[a]
    <3>1. c \notin Placed /\ c \in Owned(tip)
      BY <1>2, <2>2, Apart
    <3>2. c \notin MC
      BY <1>2, <1>8, <2>2, Apart
    <3>3. c \notin MT
      BY <1>2, <1>9, <1>10, <1>11, <2>2, Apart
    <3> QED
      BY <1>3, <1>13, <3>1, <3>2, <3>3
  <2> QED
    BY <1>15, <1>17, <2>1, <2>2
<1>18. ASSUME NEW a \in Blocks, NEW c \in immatureTR'[a] PROVE c \notin Placed' /\ c \in Owned(b)
  <2>1. CASE a = b /\ c \in TransferOutputs(b) /\ ~CompletesGroup(b)
    <3>1. c \in OwnOutputs(b)
      BY <1>11, <2>1
    <3>2. c \notin Placed /\ c \notin MC /\ c \notin MT
      BY <1>8, <1>9, <1>10, <2>1, <3>1
    <3> QED
      BY <1>3, <1>13, <3>1, <3>2
  <2>2. CASE ~ (CompletesGroup(b) /\ a \in Group(b) \ {b}) /\ c \in immatureTR[a]
    <3>1. c \notin Placed /\ c \in Owned(tip)
      BY <1>2, <2>2, Apart
    <3>2. c \notin MC
      BY <1>2, <1>8, <2>2, Apart
    <3>3. c \notin MT
      BY <1>2, <1>9, <1>10, <1>11, <2>2, Apart
    <3> QED
      BY <1>3, <1>13, <3>1, <3>2, <3>3
  <2> QED
    BY <1>16, <1>18, <2>1, <2>2
<1>19. ASSUME NEW a \in Blocks, NEW x \in Blocks, NEW c \in immatureCB'[a], c \in immatureTR'[x] PROVE FALSE
  BY <1>2, <1>10, <1>11, <1>15, <1>16, <1>19, Apart
<1>20. ASSUME NEW a \in Blocks, NEW x \in Blocks, a # x, NEW c PROVE ~ (c \in immatureCB'[a] /\ c \in immatureCB'[x])
  BY <1>2, <1>10, <1>11, <1>15, <1>20, Apart
<1>21. ASSUME NEW a \in Blocks, NEW x \in Blocks, a # x, NEW c PROVE ~ (c \in immatureTR'[a] /\ c \in immatureTR'[x])
  BY <1>2, <1>10, <1>11, <1>16, <1>21, Apart
<1>22. ASSUME NEW c \in MC \cup MT PROVE c \in Owned(b)
  BY <1>2, <1>3, <1>8, <1>9, <1>11, <1>22, Apart
<1>23. Placed' \subseteq Owned(b)
  BY <1>1, <1>2, <1>3, <1>13, <1>22, Apart
<1>24. OneBucket'
  <2>1. Placed' \subseteq Owned(tip)'
    BY <1>1, <1>23 DEF Owned
  <2>2. \A a \in Blocks : /\ immatureCB'[a] \cap Placed' = {} /\ immatureTR'[a] \cap Placed' = {}
                         /\ immatureCB'[a] \subseteq Owned(tip)' /\ immatureTR'[a] \subseteq Owned(tip)'
    BY <1>1, <1>17, <1>18 DEF Owned
  <2>3. \A a, x \in Blocks : immatureCB'[a] \cap immatureTR'[x] = {}
    BY <1>19
  <2>4. \A a, x \in Blocks : a # x => /\ immatureCB'[a] \cap immatureCB'[x] = {}
                                     /\ immatureTR'[a] \cap immatureTR'[x] = {}
    BY <1>20, <1>21
  <2>5. InBuckets' \subseteq Owned(tip)'
    BY <2>1, <2>2 DEF InBuckets, AllImmatureCB, AllImmatureTR, Placed
  <2>6. \A a \in Blocks : (immatureCB'[a] \cup immatureTR'[a]) \cap (mature' \cup unconfirmed' \cup confirmed') = {}
    BY <2>2 DEF Placed
  <2> QED
    BY <1>14, <2>3, <2>4, <2>5, <2>6 DEF OneBucket
<1>25. OutputsKept'
  <2>1. blockOutputs' = IF OwnOutputs(b) = {} THEN blockOutputs
                        ELSE [blockOutputs EXCEPT ![b] = OwnOutputs(b)]
    BY DEF InsertBlock, InsertBlockRecords
  <2>2. blockOutputs \in [Blocks -> SUBSET Coins] /\ blockOutputs[b] \subseteq OwnOutputs(b)
    BY <1>2 DEF TypeOK, OutputsKept
  <2>3. blockOutputs'[b] = OwnOutputs(b)
    BY <1>1, <2>1, <2>2
  <2>4. \A a \in Blocks : a # b => blockOutputs'[a] = blockOutputs[a]
    BY <2>1, <2>2
  <2>5. ASSUME NEW a \in Blocks
        PROVE  /\ blockOutputs'[a] \subseteq OwnOutputs(a)
               /\ a \in Branch[b] => blockOutputs'[a] = OwnOutputs(a)
    <3>1. CASE a = b
      BY <2>3, <3>1
    <3>2. CASE a # b
      BY <1>1, <1>2, <2>4, <3>2 DEF OutputsKept
    <3> QED
      BY <3>1, <3>2
  <2> QED
    BY <1>1, <2>5 DEF OutputsKept
<1>26. CoinbasesPlaced'
  <2>1. \A x : Lasting(x) \subseteq Lasting(x)'
    BY <1>1 DEF Lasting
  <2>2. ASSUME NEW a \in Blocks, NEW c \in immatureCB'[a]
        PROVE  \/ a \in Branch[b] /\ c \in CoinbaseOutput(a)
               \/ \E y \in Lasting(a)' : c \in CoinbaseOutput(y)
    <3>1. CASE a = b /\ c \in CoinbaseOutput(b)
      BY <1>1, <3>1
    <3>2. CASE c \in immatureCB[a]
      BY <1>1, <1>2, <2>1, <3>2 DEF CoinbasesPlaced
    <3> QED
      BY <1>15, <2>2, <3>1, <3>2
  <2> QED
    BY <1>1, <2>2 DEF CoinbasesPlaced
<1>27. TransfersPlaced'
  <2>1. ASSUME NEW a \in Blocks, NEW c \in immatureTR'[a] PROVE a \in Branch[b] /\ c \in TransferOutputs(a)
    BY <1>1, <1>2, <1>16, <2>1 DEF TransfersPlaced
  <2> QED
    BY <1>1, <2>1 DEF TransfersPlaced
<1>28. MC \subseteq Matured(b)
  <2> SUFFICES ASSUME NEW c \in MC PROVE c \in Matured(b)
    OBVIOUS
  <2>1. PICK a \in MaturedBlocks(b) : a \in Blocks /\ a \in Branch[tip] /\ c \in immatureCB[a]
    BY <1>8
  <2>2. CASE c \in CoinbaseOutput(a)
    BY <1>1, <2>1, <2>2, MaturedNew DEF CoinbaseOutput
  <2>3. CASE \E y \in Lasting(a) : c \in CoinbaseOutput(y)
    <3>1. PICK y \in Lasting(a) : c \in CoinbaseOutput(y)
      BY <2>3
    <3>2. y \in Branch[tip] /\ y \in Blocks /\ MaturesGroup(a) /\ Height[y] \in MaturedHeights(a)
      BY <1>1, <3>1 DEF Lasting
    <3>3. Height[y] \in Int /\ Height[a] \in Int /\ Maturity \in Nat /\ GroupSize \in Nat
      BY <2>1, <3>2, TreeAssumption, GroupAssumption
    <3>4. Height[y] <= Height[a]
      BY <3>2, <3>3 DEF MaturedHeights
    <3>5. y \in Branch[a]
      BY <1>1, <2>1, <3>2, <3>4, BranchOrdered
    <3>6. c \in Matured(tip)
      BY <2>1, <3>1, <3>2, <3>5 DEF Matured, MaturedBlocks, CoinbaseOutput
    <3> QED
      BY <1>3, <3>6
  <2> QED
    BY <1>2, <2>1, <2>2, <2>3 DEF CoinbasesPlaced
<1>29. MT \subseteq Ringed(b)
  <2> SUFFICES ASSUME NEW c \in MT PROVE c \in Ringed(b)
    OBVIOUS
  <2>1. CompletesGroup(b)
    BY <1>9
  <2>2. b \in Group(b)
    BY <1>1, GroupAssumption DEF Group
  <2>3. \E a \in Group(b) : c \in OwnOutputs(a)
    BY <1>2, <1>9, <2>2 DEF TransfersPlaced, OwnOutputs
  <2>4. PICK a \in Group(b) : c \in OwnOutputs(a)
    BY <2>3
  <2>5. a \in Blocks /\ Created(a) \subseteq Ringed(b)
    BY <2>1, NewRing
  <2> QED
    BY <2>4, <2>5, OutputKinds
<1>30. Placed' \subseteq Ringed(b)
  BY <1>2, <1>3, <1>13, <1>28, <1>29, MaturedRinged
<1>31. MT \cap CoinbaseCoins = {}
  <2>1. \A a \in Blocks : TransferOutputs(a) \cap CoinbaseCoins = {}
    BY OutputKinds
  <2> QED
    BY <1>2, <1>9, <2>1 DEF TransfersPlaced
<1>32. Placed' \cap CoinbaseCoins \subseteq Matured(b)
  BY <1>2, <1>3, <1>13, <1>28, <1>31
<1> QED
  BY <1>1, <1>24, <1>25, <1>26, <1>27, <1>30, <1>32 DEF PlacesInv

\* What Rollback takes from the buckets of TXOs with a ring, and what it puts
\* into the immature ones.
LEMMA RollbackMoves ==
    ASSUME TypeOK, PlacesInv, NEW b \in Blocks, Rollback(b)
    PROVE  /\ mature' \cap unconfirmed' = {} /\ mature' \cap confirmed' = {} /\ unconfirmed' \cap confirmed' = {}
           /\ Placed' = (Placed \ UnringedTxos(b)) \ UnmaturedTxos(b)
           /\ Placed \ UnringedTxos(b)
                 = MatureRestored(b) \cup UnconfirmedRestored(b) \cup ConfirmedRestored(b)
           /\ UnringedTxos(b) \subseteq Placed
           /\ UnmaturedTxos(b) \subseteq Placed \ UnringedTxos(b)
           /\ Restored(b) \subseteq Placed \ UnringedTxos(b)
           /\ \A a \in UndoneBlocks(b) : /\ CompletesGroup(b) /\ a \in Branch[b] /\ a \in Blocks
                                         /\ ToImmatureTR(a) \subseteq UnringedTxos(b) \cap TransferOutputs(a)
           /\ \A a \in Blocks : \A c \in ImmatureTRUnringed(b)[a] :
                  /\ a \in Branch[b] /\ c \in TransferOutputs(a)
                  /\ c \in UnringedTxos(b) \cup immatureTR[a]
           /\ \A a \in Blocks : immatureTR'[a] = IF a = b THEN {} ELSE ImmatureTRUnringed(b)[a]
           /\ immatureCB'[b] = IF UnmaturedBlocks(b) = {} THEN {} ELSE ToImmatureCB(b, LastUnmatured(b))
           /\ \A a \in Blocks \ {b} : immatureCB'[a] = immatureCB[a]
<1>1. /\ tip = b /\ b \in Branch[b] /\ Branch[b] \subseteq Blocks /\ RollbackTxos(b) /\ ~ RollbackPanics(b)
      /\ OneBucket /\ OutputsKept /\ TransfersPlaced /\ Placed \cap CoinbaseCoins \subseteq Matured(b)
  BY BranchBelow DEF Rollback, PlacesInv
<1>2. /\ mature \cap unconfirmed = {} /\ mature \cap confirmed = {} /\ unconfirmed \cap confirmed = {}
      /\ Placed = mature \cup unconfirmed \cup confirmed
  BY <1>1 DEF Placed, OneBucket
<1> DEFINE U == UnringedTxos(b)
           T == UnmaturedTxos(b)
           R == Restored(b)
\* The buckets lose the TXOs made immature, by the first stage and by the last.
<1>3. /\ UnringedMature(b) = U \cap mature /\ UnringedUnconfirmed(b) = U \cap unconfirmed
      /\ R \subseteq confirmed \ U /\ ConfirmedUnringed(b) = confirmed \ U
  <2>1. UnringedMature(b) = U \cap mature /\ UnringedUnconfirmed(b) = U \cap unconfirmed
    BY <1>2 DEF UnringedMature, UnringedUnconfirmed
  <2>2. UnringedConfirmed(b) = U \ (mature \cup unconfirmed)
    BY DEF UnringedConfirmed
  <2>3. ConfirmedUnringed(b) = confirmed \ U
    BY <1>2, <2>2 DEF ConfirmedUnringed
  <2> QED
    BY <1>1, <2>1, <2>3 DEF RollbackPanics
<1> HIDE DEF U, R
<1>4. /\ MatureRestored(b) = (mature \ U) \cup R /\ UnconfirmedRestored(b) = unconfirmed \ U
      /\ ConfirmedRestored(b) = (confirmed \ U) \ R
  BY <1>3 DEF MatureRestored, UnconfirmedRestored, ConfirmedRestored, R
<1>5. MatureRestored(b) \cup UnconfirmedRestored(b) \cup ConfirmedRestored(b) = Placed \ U
  BY <1>2, <1>3, <1>4
<1>6. T \subseteq Placed \ U
  BY <1>5 DEF UnmaturedTxos, ToImmatureCB
<1>7. /\ mature' = MatureRestored(b) \ (T \cap MatureRestored(b))
      /\ unconfirmed' = UnconfirmedRestored(b) \ ((T \cap UnconfirmedRestored(b)) \ MatureRestored(b))
      /\ confirmed' = ConfirmedRestored(b) \ (T \ (MatureRestored(b) \cup UnconfirmedRestored(b)))
  BY <1>1 DEF RollbackTxos, UnmaturedMature, UnmaturedUnconfirmed, UnmaturedConfirmed
<1> HIDE DEF T
<1>8. /\ mature' = MatureRestored(b) \ T /\ unconfirmed' = UnconfirmedRestored(b) \ T
       /\ confirmed' = ConfirmedRestored(b) \ T
  BY <1>2, <1>3, <1>4, <1>7
<1>9. Placed' = (Placed \ U) \ T
  BY <1>5, <1>8 DEF Placed
<1>10. mature' \cap unconfirmed' = {} /\ mature' \cap confirmed' = {} /\ unconfirmed' \cap confirmed' = {}
  BY <1>2, <1>3, <1>4, <1>8
\* What the first stage moves, of each block of the group.
<1>11. ASSUME NEW a \in UndoneBlocks(b)
       PROVE  /\ CompletesGroup(b) /\ a \in Branch[b] /\ a \in Blocks
              /\ ToImmatureTR(a) \subseteq U /\ ToImmatureTR(a) \subseteq Placed
              /\ ToImmatureTR(a) \subseteq TransferOutputs(a)
  <2>1. CompletesGroup(b) /\ a \in Group(b) /\ a \in Branch[b] /\ a \in Blocks
    BY <1>1, <1>11 DEF UndoneBlocks, Group
  <2>2. ToImmatureTR(a) \subseteq U
    BY <1>11 DEF U, UnringedTxos
  <2>3. ToImmatureTR(a) \subseteq Placed /\ ToImmatureTR(a) \subseteq blockOutputs[a]
    BY DEF ToImmatureTR, Placed
  <2>4. Coinbase[a] \cap Matured(b) = {} /\ Coinbase[a] \subseteq CoinbaseCoins
    BY <2>1, GroupYoung DEF CoinbaseCoins
  <2>5. blockOutputs[a] \subseteq Coinbase[a] \cup TransferOutputs(a)
    BY <1>1, <2>1 DEF OutputsKept, OwnOutputs, CoinbaseOutput
  <2>6. ToImmatureTR(a) \subseteq TransferOutputs(a)
    BY <1>1, <2>3, <2>4, <2>5
  <2> QED
    BY <2>1, <2>2, <2>3, <2>6
<1>12. U \subseteq Placed
  BY <1>11 DEF U, UnringedTxos
<1>13. ASSUME NEW a \in Blocks, NEW c \in ImmatureTRUnringed(b)[a]
       PROVE  a \in Branch[b] /\ c \in TransferOutputs(a) /\ c \in U \cup immatureTR[a]
  <2>1. (IF a \in UndoneBlocks(b) THEN ToImmatureTR(a) ELSE immatureTR[a]) = ImmatureTRUnringed(b)[a]
    BY DEF ImmatureTRUnringed
  <2>2. CASE a \in UndoneBlocks(b)
    BY <1>11, <1>13, <2>1, <2>2
  <2>3. CASE a \notin UndoneBlocks(b)
    BY <1>1, <1>13, <2>1, <2>3 DEF TransfersPlaced
  <2> QED
    BY <2>2, <2>3
<1>14. immatureCB'[b] = IF UnmaturedBlocks(b) = {} THEN {} ELSE ToImmatureCB(b, LastUnmatured(b))
  BY <1>1 DEF RollbackTxos, TypeOK
<1>15. \A a \in Blocks \ {b} : immatureCB'[a] = immatureCB[a]
  BY <1>1 DEF RollbackTxos, TypeOK
<1>16. \A a \in Blocks : immatureTR'[a] = IF a = b THEN {} ELSE ImmatureTRUnringed(b)[a]
  BY <1>1 DEF RollbackTxos, TypeOK, ImmatureTRUnringed
<1>17. R \subseteq Placed \ U
  BY <1>2, <1>3
<1>18. \A a \in UndoneBlocks(b) : /\ CompletesGroup(b) /\ a \in Branch[b] /\ a \in Blocks
                                 /\ ToImmatureTR(a) \subseteq U \cap TransferOutputs(a)
  BY <1>11
<1> QED
  BY <1>5, <1>6, <1>9, <1>10, <1>12, <1>13, <1>14, <1>15, <1>16, <1>17, <1>18 DEF U, T, R

\* This asks less of the tree than what is proved above.
LEMMA StayIfNone == NoCoinbaseUnmatured => CoinbasesStay
  BY DEF NoCoinbaseUnmatured, CoinbasesStay

\* Where Rollback leaves each TXO: what has a ring of the block goes back to the
\* immature bucket, what was a matured coinbase under the key of the block.
LEMMA RollbackPlaces ==
    ASSUME CoinbasesStay, TypeOK, PlacesInv, NEW b \in Blocks, Rollback(b)
    PROVE  PlacesInv'
<1> DEFINE p == Parent[b]
<1>1. /\ b \in Blocks \ {Genesis} /\ tip = b /\ tip' = p /\ p \in Blocks /\ Detachable(b)
      /\ Branch[b] = Branch[p] \cup {b} /\ b \notin Branch[p] /\ b \in Branch[b]
      /\ Branch[b] \subseteq Blocks /\ RollbackTxos(b) /\ ~ RollbackPanics(b)
      /\ blockOutputs' = blockOutputs
  BY ParentBelow, ParentBranch, BranchBelow DEF Rollback
<1>2. /\ OneBucket /\ OutputsKept /\ CoinbasesPlaced /\ TransfersPlaced /\ Placed \subseteq Ringed(b)
      /\ Placed \cap CoinbaseCoins \subseteq Matured(b)
  BY <1>1 DEF PlacesInv
<1>3. /\ Owned(b) = Owned(p) \cup OwnOutputs(b)
      /\ Ringed(b) = Ringed(p) \cup (IF CompletesGroup(b) THEN UNION {Members[r] : r \in RingsOf[b]} ELSE {})
      /\ Created(b) \cap Ringed(p) = {}
      /\ Matured(b) = Matured(p) \cup UNION {Coinbase[x] : x \in MaturedBlocks(b)}
  BY <1>1, ChainStep, Fresh
<1> HIDE DEF p
<1> DEFINE U == UnringedTxos(b)
           T == UnmaturedTxos(b)
<1>4. /\ Placed \subseteq Owned(b) /\ Placed = mature \cup unconfirmed \cup confirmed
  BY <1>1, <1>2, Apart DEF Placed
<1>5. T \subseteq Placed \ U
  BY RollbackMoves
<1>6. Placed' = (Placed \ U) \ T
  BY RollbackMoves
<1>7. mature' \cap unconfirmed' = {} /\ mature' \cap confirmed' = {} /\ unconfirmed' \cap confirmed' = {}
  BY RollbackMoves
<1>8. \A a \in UndoneBlocks(b) : ToImmatureTR(a) \subseteq U
  BY RollbackMoves
<1>9. U \subseteq Placed
  BY RollbackMoves
<1> HIDE DEF U, T
\* What then is left in the buckets has a ring of the branch below b.
<1>10. Placed \ U \subseteq Ringed(p)
  <2> SUFFICES ASSUME NEW c \in Placed, c \notin Ringed(p) PROVE c \in U
    OBVIOUS
  <2>1. CompletesGroup(b) /\ c \in UNION {Members[r] : r \in RingsOf[b]}
    BY <1>2, <1>3
  <2>2. PICK a \in Group(b) : c \in Created(a)
    BY <2>1, RingsAssumption
  <2>3. a \in Branch[b] /\ a \in Blocks
    BY <1>1 DEF Group
  <2>4. c \in Mine
    BY <1>4 DEF Owned, OwnOutputs, CoinbaseOutput, TransferOutputs
  <2>5. c \in OwnOutputs(a) /\ blockOutputs[a] = OwnOutputs(a)
    BY <1>1, <1>2, <2>2, <2>3, <2>4, OutputKinds DEF OutputsKept
  <2>6. c \notin immatureCB[a]
    BY <1>2, <2>3, Apart
  <2>7. c \in ToImmatureTR(a)
    BY <1>4, <2>5, <2>6 DEF ToImmatureTR
  <2>8. a \in UndoneBlocks(b)
    BY <2>1, <2>5 DEF UndoneBlocks
  <2> QED
    BY <1>8, <2>7, <2>8
<1>11. Placed \ U \subseteq Owned(p)
  <2> SUFFICES ASSUME NEW c \in Placed \ U, c \in OwnOutputs(b) PROVE FALSE
    BY <1>3, <1>4
  <2>1. c \in Created(b)
    BY OutputKinds
  <2> QED
    BY <1>3, <1>10, <2>1
\* What the last stage moves was the coinbase of a block below.
<1>12. immatureCB'[b] = IF UnmaturedBlocks(b) = {} THEN {} ELSE ToImmatureCB(b, LastUnmatured(b))
  BY RollbackMoves
<1>13. ASSUME NEW c \in immatureCB'[b]
       PROVE  c \in T /\ \E y \in Lasting(b)' : c \in CoinbaseOutput(y)
  <2> DEFINE y == LastUnmatured(b)
  <2>1. UnmaturedBlocks(b) # {} /\ c \in ToImmatureCB(b, y)
    BY <1>12, <1>13
  <2>2. y \in UnmaturedBlocks(b) /\ y \in Blocks /\ MaturesGroup(b) /\ Height[y] \in MaturedHeights(b)
    BY <2>1, LastUnmaturedIs
  <2> HIDE DEF y
  <2>3. c \in T
    BY <2>1, <2>2 DEF T, UnmaturedTxos
  <2>4. c \in CoinbaseOutput(y)
    <3>1. c \in blockOutputs[y] \cap CoinbaseCoins
      BY <2>1 DEF ToImmatureCB
    <3> QED
      BY <1>2, <2>2, <3>1, OutputKinds DEF OutputsKept, OwnOutputs
  <2>5. ~ Detachable(y)
    BY <1>1, <2>2, <2>4 DEF CoinbasesStay
  <2>6. Height[y] \in Nat /\ Height[b] \in Nat /\ Height[p] = Height[b] - 1 /\ Height[p] \in Nat
    BY <1>1, <2>2, TreeAssumption, ParentBelow DEF p
  <2>7. Height[y] <= Height[p]
    BY <2>2, <2>6, GroupAssumption DEF MaturedHeights
  <2>8. y \in Branch[p]
    BY <1>1, <2>5, <2>7 DEF Detachable
  <2>9. y \in Lasting(b)'
    BY <1>1, <2>2, <2>5, <2>8 DEF Lasting
  <2> QED
    BY <2>3, <2>4, <2>9
<1>14. \A a \in Blocks : a # b => immatureCB'[a] = immatureCB[a]
  BY RollbackMoves
<1>15. \A a \in Blocks : immatureTR'[a] = IF a = b THEN {} ELSE ImmatureTRUnringed(b)[a]
  BY RollbackMoves
<1>16. ASSUME NEW a \in Blocks, NEW c \in immatureTR'[a]
       PROVE  /\ a # b /\ a \in Branch[p] /\ c \in TransferOutputs(a) /\ c \in OwnOutputs(a)
              /\ \/ c \in U /\ c \in Placed
                 \/ c \in immatureTR[a]
  <2>1. a # b /\ c \in ImmatureTRUnringed(b)[a]
    BY <1>15, <1>16
  <2>2. a \in Branch[b] /\ c \in TransferOutputs(a) /\ c \in U \cup immatureTR[a]
    BY <2>1, RollbackMoves DEF U
  <2> QED
    BY <1>1, <1>9, <2>1, <2>2 DEF OwnOutputs
<1>17. ASSUME NEW a \in Blocks, NEW c \in immatureCB'[a]
       PROVE  \/ a = b /\ c \in T
              \/ a # b /\ c \in immatureCB[a]
  BY <1>13, <1>14, <1>17
<1>18. ASSUME NEW a \in Blocks, NEW c \in immatureCB'[a] PROVE c \notin Placed' /\ c \in Owned(p)
  <2>1. CASE a = b /\ c \in T
    BY <1>5, <1>6, <1>11, <2>1
  <2>2. CASE a # b /\ c \in immatureCB[a]
    <3>1. c \notin Placed
      BY <1>2, <2>2, Apart
    <3>2. \E y \in Branch[p] : c \in CoinbaseOutput(y)
      <4>1. CASE a \in Branch[b] /\ c \in CoinbaseOutput(a)
        BY <1>1, <2>2, <4>1
      <4>2. CASE \E y \in Lasting(a) : c \in CoinbaseOutput(y)
        <5>1. PICK y \in Lasting(a) : c \in CoinbaseOutput(y)
          BY <4>2
        <5>2. y \in Branch[b] /\ y # b
          BY <1>1, <5>1 DEF Lasting
        <5> QED
          BY <1>1, <5>1, <5>2
      <4> QED
        BY <1>1, <1>2, <2>2, <4>1, <4>2 DEF CoinbasesPlaced
    <3> QED
      BY <1>6, <3>1, <3>2 DEF Owned, OwnOutputs
  <2> QED
    BY <1>17, <1>18, <2>1, <2>2
<1>19. ASSUME NEW a \in Blocks, NEW c \in immatureTR'[a] PROVE c \notin Placed' /\ c \in Owned(p)
  <2>1. c \notin Placed'
    BY <1>2, <1>6, <1>16, <1>19, Apart
  <2> QED
    BY <1>16, <1>19, <2>1 DEF Owned
<1>20. ASSUME NEW a \in Blocks, NEW x \in Blocks, NEW c \in immatureCB'[a], c \in immatureTR'[x] PROVE FALSE
  BY <1>2, <1>5, <1>16, <1>17, <1>20, Apart
<1>21. ASSUME NEW a \in Blocks, NEW x \in Blocks, a # x, NEW c PROVE ~ (c \in immatureCB'[a] /\ c \in immatureCB'[x])
  BY <1>2, <1>5, <1>17, <1>21, Apart
<1>22. ASSUME NEW a \in Blocks, NEW x \in Blocks, a # x, NEW c PROVE ~ (c \in immatureTR'[a] /\ c \in immatureTR'[x])
  <2> SUFFICES ASSUME c \in immatureTR'[a], c \in immatureTR'[x] PROVE FALSE
    OBVIOUS
  <2>1. a \in Branch[p] /\ x \in Branch[p] /\ c \in Created(a) /\ c \in Created(x)
    BY <1>16, <1>22, OutputKinds
  <2> QED
    BY <1>1, <1>22, <2>1, CreatedOnce
<1>23. OneBucket'
  <2>1. Placed' \subseteq Owned(tip)'
    BY <1>1, <1>6, <1>11 DEF Owned
  <2>2. \A a \in Blocks : /\ immatureCB'[a] \cap Placed' = {} /\ immatureTR'[a] \cap Placed' = {}
                         /\ immatureCB'[a] \subseteq Owned(tip)' /\ immatureTR'[a] \subseteq Owned(tip)'
    BY <1>1, <1>18, <1>19 DEF Owned
  <2>3. \A a, x \in Blocks : immatureCB'[a] \cap immatureTR'[x] = {}
    BY <1>20
  <2>4. \A a, x \in Blocks : a # x => /\ immatureCB'[a] \cap immatureCB'[x] = {}
                                     /\ immatureTR'[a] \cap immatureTR'[x] = {}
    BY <1>21, <1>22
  <2>5. InBuckets' \subseteq Owned(tip)'
    BY <2>1, <2>2 DEF InBuckets, AllImmatureCB, AllImmatureTR, Placed
  <2>6. \A a \in Blocks : (immatureCB'[a] \cup immatureTR'[a]) \cap (mature' \cup unconfirmed' \cup confirmed') = {}
    BY <2>2 DEF Placed
  <2> QED
    BY <1>7, <2>3, <2>4, <2>5, <2>6 DEF OneBucket
<1>24. OutputsKept'
  BY <1>1, <1>2 DEF OutputsKept
<1>25. CoinbasesPlaced'
  <2> SUFFICES ASSUME NEW a \in Blocks, NEW c \in immatureCB'[a]
               PROVE  \/ a \in Branch[p] /\ c \in CoinbaseOutput(a)
                      \/ \E y \in Lasting(a)' : c \in CoinbaseOutput(y)
    BY <1>1 DEF CoinbasesPlaced
  <2>1. CASE a = b
    BY <1>13, <2>1
  <2>2. CASE a # b
    <3>1. c \in immatureCB[a]
      BY <1>14, <2>2
    <3>2. Lasting(a) \subseteq Lasting(a)'
      BY <1>1 DEF Lasting
    <3> QED
      BY <1>1, <1>2, <2>2, <3>1, <3>2 DEF CoinbasesPlaced
  <2> QED
    BY <2>1, <2>2
<1>26. TransfersPlaced'
  BY <1>1, <1>16 DEF TransfersPlaced
<1>27. Placed' \subseteq Ringed(p)
  BY <1>6, <1>10
\* The block of a coinbase that b matured is the only one of its height, so that
\* the lookup by height finds it.
<1>28. Placed' \cap CoinbaseCoins \subseteq Matured(p)
  <2> SUFFICES ASSUME NEW c \in Placed', c \in CoinbaseCoins, NEW x \in MaturedBlocks(b), c \in Coinbase[x]
               PROVE  FALSE
    BY <1>2, <1>3, <1>6
  <2>1. /\ MaturesGroup(b) /\ Height[x] \in MaturedHeights(b) /\ x \in Branch[b] /\ x \in Blocks
        /\ c \in Placed \ U /\ c \notin T
    BY <1>1, <1>6 DEF MaturedBlocks
  <2>2. c \in CoinbaseOutput(x)
    BY <1>4, <2>1 DEF Owned, OwnOutputs, CoinbaseOutput, TransferOutputs
  <2>3. ~ Detachable(x)
    BY <1>1, <2>1, <2>2 DEF CoinbasesStay
  <2>4. blockOutputs[x] = OwnOutputs(x) /\ c \in blockOutputs[x]
    BY <1>1, <1>2, <2>1, <2>2 DEF OutputsKept, OwnOutputs
  <2>5. ASSUME NEW y \in Blocks, Height[y] = Height[x] PROVE y = x
    <3>1. Height[x] \in Nat
      BY <2>1, TreeAssumption
    <3>2. x \in Branch[y]
      BY <2>1, <2>3, <2>5, <3>1 DEF Detachable
    <3> QED
      BY <2>5, <3>2, BranchBelow
  <2>6. BlocksWithOutputs(Height[x]) = {x}
    BY <2>1, <2>4, <2>5 DEF BlocksWithOutputs
  <2>7. LastKey({x}) = x
    BY <2>1, LastKeyIs
  <2>8. x \in UnmaturedBlocks(b)
    BY <2>1, <2>6, <2>7 DEF UnmaturedBlocks
  <2>9. c \in ToImmatureCB(b, x)
    <3>1. Placed \ U = MatureRestored(b) \cup UnconfirmedRestored(b) \cup ConfirmedRestored(b)
      BY RollbackMoves DEF U
    <3> QED
      BY <2>1, <2>4, <3>1 DEF ToImmatureCB
  <2> QED
    BY <2>1, <2>8, <2>9 DEF T, UnmaturedTxos
<1> QED
  BY <1>1, <1>23, <1>24, <1>25, <1>26, <1>27, <1>28 DEF PlacesInv

\* Holding TXOs for a transaction, or giving them free, moves them between two
\* buckets.
LEMMA HeldPlaces ==
    ASSUME PlacesInv, UNCHANGED <<tip, blockOutputs, immatureCB, immatureTR, confirmed>>,
           NEW S, \/ S \subseteq mature /\ mature' = mature \ S /\ unconfirmed' = unconfirmed \cup S
                  \/ S \subseteq unconfirmed /\ mature' = mature \cup S /\ unconfirmed' = unconfirmed \ S
    PROVE  PlacesInv'
<1>1. Placed' = Placed
  BY DEF Placed
<1>2. mature' \cap unconfirmed' = {} /\ mature' \cap confirmed = {} /\ unconfirmed' \cap confirmed = {}
  BY DEF PlacesInv, OneBucket
<1>3. OneBucket'
  BY <1>1, <1>2 DEF PlacesInv, OneBucket, InBuckets, AllImmatureCB, AllImmatureTR, Placed
<1>4. OutputsKept' /\ CoinbasesPlaced' /\ TransfersPlaced'
  BY DEF PlacesInv, OutputsKept, CoinbasesPlaced, TransfersPlaced, Lasting
<1> QED
  BY <1>1, <1>3, <1>4 DEF PlacesInv

\* A new wallet holds the coinbase of the genesis block.
LEMMA InitPlaces == Init => PlacesInv
<1> SUFFICES ASSUME Init PROVE PlacesInv
  OBVIOUS
<1>1. /\ tip = Genesis /\ Genesis \in Blocks /\ Branch[Genesis] = {Genesis} /\ TxsOf[Genesis] = {}
      /\ mature = {} /\ unconfirmed = {} /\ confirmed = {}
  BY TreeAssumption, RingsAssumption DEF Init
<1>2. /\ OwnOutputs(Genesis) = CoinbaseOutput(Genesis)
      /\ \A a \in Blocks : /\ blockOutputs[a] = IF a = Genesis THEN CoinbaseOutput(a) ELSE {}
                           /\ immatureCB[a] = IF a = Genesis THEN CoinbaseOutput(a) ELSE {}
                           /\ immatureTR[a] = {}
  BY <1>1 DEF Init, OwnOutputs, TransferOutputs
<1>3. Owned(Genesis) = CoinbaseOutput(Genesis) /\ Placed = {}
  BY <1>1, <1>2 DEF Owned, Placed
<1>4. OneBucket
  BY <1>1, <1>2, <1>3 DEF OneBucket, InBuckets, AllImmatureCB, AllImmatureTR
<1>5. OutputsKept /\ CoinbasesPlaced /\ TransfersPlaced
  BY <1>1, <1>2 DEF OutputsKept, CoinbasesPlaced, TransfersPlaced
<1> QED
  BY <1>3, <1>4, <1>5 DEF PlacesInv

\* Every step keeps each TXO in its place.
LEMMA NextPlaces ==
    ASSUME CoinbasesStay, TypeOK, PlacesInv, [Next]_vars
    PROVE  PlacesInv'
<1>1. ASSUME NEW b \in Blocks, InsertBlock(b) PROVE PlacesInv'
  BY <1>1, InsertPlaces
<1>2. ASSUME NEW b \in Blocks, Rollback(b) PROVE PlacesInv'
  BY <1>2, RollbackPlaces
<1>3. ASSUME NEW t \in WalletTxs, InsertTx(t) PROVE PlacesInv'
  <2>1. /\ UNCHANGED <<tip, blockOutputs, immatureCB, immatureTR, confirmed>>
        /\ OwnInputs(t) \subseteq mature /\ mature' = mature \ OwnInputs(t)
        /\ unconfirmed' = unconfirmed \cup OwnInputs(t)
    BY <1>3 DEF InsertTx, records, immature
  <2> QED
    BY <2>1, HeldPlaces
<1>4. ASSUME NEW t \in Txs, ResendRejected(t) PROVE PlacesInv'
  <2> DEFINE freed == OwnInputs(t) \cap unconfirmed
  <2>1. /\ UNCHANGED <<tip, blockOutputs, immatureCB, immatureTR, confirmed>>
        /\ mature' = mature \cup freed /\ unconfirmed' = unconfirmed \ freed /\ freed \subseteq unconfirmed
    BY <1>4 DEF ResendRejected, DeleteRawUnmined, records, immature
  <2> HIDE DEF freed
  <2> QED
    BY <2>1, HeldPlaces
<1>5. ASSUME ResendRead \/ (\E t \in Txs : ResendAccepted(t)) \/ UNCHANGED vars PROVE PlacesInv'
  <2>1. UNCHANGED <<records, immature, txos>>
    BY <1>5 DEF ResendRead, ResendAccepted, vars
  <2>2. /\ UNCHANGED <<tip, blockOutputs, immatureCB, immatureTR, confirmed>>
        /\ {} \subseteq mature /\ mature' = mature \ {} /\ unconfirmed' = unconfirmed \cup {}
    BY <2>1 DEF records, immature, txos
  <2> QED
    BY <2>2, HeldPlaces
<1> QED
  BY <1>1, <1>2, <1>3, <1>4, <1>5 DEF Next

\* In every reachable state each TXO is in its place.
THEOREM PlacesInvariance ==
    ASSUME CoinbasesStay PROVE Spec => [](TypeOK /\ PlacesInv)
<1>1. TypeOK /\ PlacesInv /\ [Next]_vars => PlacesInv'
  BY NextPlaces
<1> QED
  BY InitPlaces, TypeCorrect, <1>1, PTL DEF Spec

\* No TXO is in two buckets, nor any of a detached block in one, whatever
\* InsertBlock, Rollback, InsertTx and DeleteRawUnmined moved, matured coinbases
\* that Rollback made immature again included.
THEOREM AlwaysOneBucket ==
    ASSUME CoinbasesStay PROVE Spec => []OneBucket
<1>1. PlacesInv => OneBucket
  BY DEF PlacesInv
<1> QED
  BY PlacesInvariance, <1>1, PTL

\* What bucketMaturedOutput offers for spending the chain lets be spent: it is an
\* output of the branch, in a ring of the branch, and if a coinbase it has
\* matured there.  The same goes for what is held or spent.
THEOREM NoneReadyEarly ==
    ASSUME CoinbasesStay PROVE Spec => [](mature \cup unconfirmed \cup confirmed \subseteq Ready(tip))
<1>1. TypeOK /\ PlacesInv => mature \cup unconfirmed \cup confirmed \subseteq Ready(tip)
  <2> SUFFICES ASSUME TypeOK, PlacesInv PROVE Placed \subseteq Ready(tip)
    BY DEF Placed
  <2>1. tip \in Blocks /\ Placed \subseteq Coins
    BY DEF TypeOK, Placed
  <2>2. Placed \subseteq Owned(tip)
    BY <2>1, Apart DEF PlacesInv
  <2> QED
    BY <2>1, <2>2 DEF PlacesInv, Ready
<1> QED
  BY PlacesInvariance, <1>1, PTL

-----------------------------------------------------------------------------
(* The store implements the abstract ledger *)

\* The ledger's operators on the tree are the store's.
LEMMA LedgerOperators ==
    ASSUME NEW b
    PROVE  Ledger!Owned(b) = Owned(b) /\ Ledger!Ready(b) = Ready(b) /\ Ledger!Spent(b) = Spent(b)
<1>1. \A a : Ledger!OwnOutputs(a) = OwnOutputs(a)
  BY DEF Ledger!OwnOutputs, OwnOutputs, Ledger!CoinbaseOutput, CoinbaseOutput,
         Ledger!TransferOutputs, TransferOutputs
<1>2. Ledger!Owned(b) = Owned(b)
  BY <1>1 DEF Ledger!Owned, Owned
<1>3. \A a : /\ Ledger!CompletesGroup(a) <=> CompletesGroup(a)
             /\ Ledger!MaturedBlocks(a) = MaturedBlocks(a)
             /\ \A r : Ledger!Revealed(a, r) = Revealed(a, r)
  BY DEF Ledger!CompletesGroup, CompletesGroup, Ledger!MaturedBlocks, MaturedBlocks,
         Ledger!MaturesGroup, MaturesGroup, Ledger!MaturedHeights, MaturedHeights,
         Ledger!Revealed, Revealed
<1>4. Ledger!RingsFormed(b) = RingsFormed(b)
  BY <1>3 DEF Ledger!RingsFormed, RingsFormed
<1>5. Ledger!Ringed(b) = Ringed(b)
  BY <1>4 DEF Ledger!Ringed, Ringed
<1>6. Ledger!Matured(b) = Matured(b)
  BY <1>3 DEF Ledger!Matured, Matured
<1>7. Ledger!CoinbaseCoins = CoinbaseCoins
  BY DEF Ledger!CoinbaseCoins, CoinbaseCoins
<1>8. Ledger!Ready(b) = Ready(b)
  BY <1>2, <1>5, <1>6, <1>7 DEF Ledger!Ready, Ready
<1>9. \A r : Ledger!RevealedBy(b, r) = RevealedBy(b, r)
  BY <1>3 DEF Ledger!RevealedBy, RevealedBy
<1>10. Ledger!Spent(b) = Spent(b)
  BY <1>2, <1>4, <1>9 DEF Ledger!Spent, Spent
<1> QED
  BY <1>2, <1>8, <1>10

\* The buckets of the store are those of the ledger.
LEMMA LedgerBuckets ==
    ASSUME tip \in Blocks, BucketsInv
    PROVE  /\ AllImmatureCB \cup AllImmatureTR = Owned(tip) \ Ready(tip)
           /\ confirmed = Spent(tip) /\ mature = (Ready(tip) \ Spent(tip)) \ unconfirmed
  BY ImmatureIs DEF BucketsInv, AllImmatureCB, AllImmatureTR

\* Every step of the store is a step of the ledger, or none of its business.
LEMMA LedgerStep ==
    ASSUME Inv, Inv', NoCoinbaseUnmatured, [Next]_vars
    PROVE  [Ledger!Next]_Ledger!vars
<1>1. /\ tip \in Blocks /\ tip' \in Blocks /\ BucketsInv /\ BucketsInv'
  BY DEF Inv, TypeOK
<1>2. /\ (AllImmatureCB \cup AllImmatureTR)' = Owned(tip') \ Ready(tip')
      /\ confirmed' = Spent(tip') /\ mature' = (Ready(tip') \ Spent(tip')) \ unconfirmed'
  BY <1>1, ImmatureIs DEF BucketsInv, AllImmatureCB, AllImmatureTR
<1>3. \A b : Ledger!Owned(b) = Owned(b) /\ Ledger!Ready(b) = Ready(b) /\ Ledger!Spent(b) = Spent(b)
  BY LedgerOperators
<1>4. \A b, H : tip' = b /\ unconfirmed' = H => Ledger!View(b, H)
  BY <1>2, <1>3 DEF Ledger!View
<1>5. ASSUME NEW b \in Blocks, InsertBlock(b) PROVE Ledger!Next
  <2>1. b # Genesis /\ Parent[b] = tip /\ tip' = b
    BY <1>5 DEF InsertBlock, InsertBlockRecords
  <2>2. unconfirmed' = unconfirmed \ Ledger!Spent(b)
    BY <1>3, <1>5, InsertBlockBucketsInv
  <2>3. Ledger!View(b, unconfirmed \ Ledger!Spent(b))
    BY <1>4, <2>1, <2>2
  <2>4. Ledger!Attach(b)
    BY <2>1, <2>3 DEF Ledger!Attach
  <2> QED
    BY <2>4 DEF Ledger!Next
<1>6. ASSUME NEW b \in Blocks, Rollback(b) PROVE Ledger!Next
  <2>1. b # Genesis /\ b = tip /\ tip' = Parent[tip]
    BY <1>6 DEF Rollback
  <2>2. unconfirmed' = unconfirmed \cap Ledger!Ready(Parent[tip])
    BY <1>3, <1>6, <2>1, RollbackBucketsInv
  <2>3. Ledger!View(Parent[tip], unconfirmed \cap Ledger!Ready(Parent[tip]))
    BY <1>4, <2>1, <2>2
  <2>4. Ledger!Detach
    BY <2>1, <2>3 DEF Ledger!Detach
  <2> QED
    BY <2>4 DEF Ledger!Next
<1>7. ASSUME NEW t \in WalletTxs, InsertTx(t) PROVE [Ledger!Next]_Ledger!vars
  <2> DEFINE own == OwnInputs(t)
  <2>1. /\ own \subseteq mature /\ mature' = mature \ own /\ unconfirmed' = unconfirmed \cup own
        /\ UNCHANGED <<tip, immatureCB, immatureTR, confirmed>>
    BY <1>7 DEF InsertTx, records, immature
  <2> HIDE DEF own
  <2>2. UNCHANGED <<tip, AllImmatureCB \cup AllImmatureTR, confirmed>>
    BY <2>1 DEF AllImmatureCB, AllImmatureTR
  <2>3. CASE own = {}
    BY <2>1, <2>2, <2>3 DEF Ledger!vars
  <2>4. CASE own # {}
    <3>1. Ledger!Hold(own)
      BY <2>1, <2>2, <2>4 DEF Ledger!Hold
    <3> QED
      BY <2>1, <3>1 DEF Ledger!Next
  <2> QED
    BY <2>3, <2>4
<1>8. ASSUME NEW t \in Txs, ResendRejected(t) PROVE [Ledger!Next]_Ledger!vars
  <2> DEFINE freed == OwnInputs(t) \cap unconfirmed
  <2>1. /\ freed \subseteq unconfirmed /\ mature' = mature \cup freed /\ unconfirmed' = unconfirmed \ freed
        /\ UNCHANGED <<tip, immatureCB, immatureTR, confirmed>>
    BY <1>8 DEF ResendRejected, DeleteRawUnmined, records, immature
  <2> HIDE DEF freed
  <2>2. UNCHANGED <<tip, AllImmatureCB \cup AllImmatureTR, confirmed>>
    BY <2>1 DEF AllImmatureCB, AllImmatureTR
  <2>3. CASE freed = {}
    BY <2>1, <2>2, <2>3 DEF Ledger!vars
  <2>4. CASE freed # {}
    <3>1. Ledger!Release(freed)
      BY <2>1, <2>2, <2>4 DEF Ledger!Release
    <3> QED
      BY <2>1, <3>1 DEF Ledger!Next
  <2> QED
    BY <2>3, <2>4
<1>9. ASSUME ResendRead \/ (\E t \in Txs : ResendAccepted(t)) \/ UNCHANGED vars
      PROVE  UNCHANGED Ledger!vars
  <2>1. UNCHANGED <<records, immature, txos>>
    BY <1>9 DEF ResendRead, ResendAccepted, vars
  <2> QED
    BY <2>1 DEF records, immature, txos, Ledger!vars, AllImmatureCB, AllImmatureTR
<1> QED
  BY <1>5, <1>6, <1>7, <1>8, <1>9 DEF Next

\* The transaction store implements the ledger: whatever interleaving of blocks,
\* rollbacks, sends and resends, each TXO is where the branch puts it.
THEOREM Refinement ==
    ASSUME NoCoinbaseUnmatured PROVE Spec => LedgerSpec
<1>1. Init => Ledger!Init
  <2> SUFFICES ASSUME Init PROVE Ledger!Init
    OBVIOUS
  <2>1. Inv
    BY InitInv
  <2>2. /\ tip = Genesis /\ mature = {} /\ unconfirmed = {} /\ confirmed = {}
        /\ AllImmatureCB \cup AllImmatureTR = Owned(tip) \ Ready(tip)
    BY <2>1, LedgerBuckets DEF Init, Inv, TypeOK
  <2>3. Ready(Genesis) = {}
    <3>1. RingsFormed(Genesis) = {}
      BY TreeAssumption, RingsAssumption DEF RingsFormed
    <3> QED
      BY <3>1 DEF Ready, Ringed
  <2> QED
    BY <2>2, <2>3, LedgerOperators DEF Ledger!Init
<1>2. Inv /\ Inv' /\ [Next]_vars => [Ledger!Next]_Ledger!vars
  BY LedgerStep
<1> QED
  BY <1>1, <1>2, Invariance, PTL DEF Spec, LedgerSpec, Ledger!Spec

-----------------------------------------------------------------------------
(* TxoRecords: what is written with a TXO, whichever buckets it has been in *)

TxoRecord ==
    [ring : Rings \cup {Zero}, name : Rings \cup {Zero},
     by : Txs \cup {Zero}, at : Blocks \cup {Zero}]

\* r is the ring of c on the branch of b.
RingOn(b, c, r) == r \in RingsFormed(b) /\ c \in Members[r]

\* A TXO that is ready has the ring and the name the branch gives it; an
\* immature one no name, and a ring only if the branch has formed it.
TxoInv ==
    /\ txo = [c \in Coins |-> txo[c]]
    /\ \A c \in Owned(tip) : txo[c] \in TxoRecord
    /\ \A c \in Ready(tip) : RingOn(tip, c, txo[c].ring) /\ txo[c].name = txo[c].ring
    /\ \A c \in Owned(tip) \ Ready(tip) :
          /\ txo[c].name = Zero
          /\ IF c \in Ringed(tip) THEN RingOn(tip, c, txo[c].ring) ELSE txo[c].ring = Zero
    /\ \A c \in unconfirmed : <<txo[c].ring, c>> \in Spends[txo[c].by]
    /\ \A c \in Spent(tip) :
          /\ txo[c].at \in Branch[tip]
          /\ c \in Revealed(txo[c].at, txo[c].ring)
          /\ <<txo[c].ring, c>> \in Spends[txo[c].by]

DetailsInv == ringDetails = {r \in RingsFormed(tip) : Members[r] \cap Mine # {}}

\* A record of a TXO is its four fields.
LEMMA Fields ==
    ASSUME NEW z, z = [f \in {"ring", "name", "by", "at"} |-> z[f]]
    PROVE  z = [ring |-> z.ring, name |-> z.name, by |-> z.by, at |-> z.at]
OBVIOUS

\* What the formats of the buckets keep of a record.
LEMMA Formats ==
    ASSUME NEW x \in TxoRecord, NEW t, NEW b
    PROVE  /\ ImmatureRecord(x) = [ring |-> x.ring, name |-> Zero, by |-> Zero, at |-> Zero]
           /\ ImmatureCoinbaseRecord(x) = [ring |-> x.ring, name |-> Zero, by |-> Zero, at |-> Zero]
           /\ SpendableRecord(x) = [ring |-> x.ring, name |-> UTXOHash(x), by |-> Zero, at |-> Zero]
           /\ UnconfirmedRecord(x, t) = [ring |-> x.ring, name |-> UTXOHash(x), by |-> t, at |-> Zero]
           /\ ConfirmedRecord(x, t, b) = [ring |-> x.ring, name |-> UTXOHash(x), by |-> t, at |-> b]
           /\ Unringed(x) = [ring |-> Zero, name |-> Zero, by |-> Zero, at |-> Zero]
           /\ UTXOHash(x) \in Rings \cup {Zero}
<1>1. ImmatureRecord(x) = [ring |-> x.ring, name |-> Zero, by |-> Zero, at |-> Zero]
  <2> DEFINE z == ImmatureRecord(x)
  <2>1. z = [f \in {"ring", "name", "by", "at"} |-> z[f]] /\ z.ring = x.ring /\ z.name = Zero /\ z.by = Zero /\ z.at = Zero
    BY DEF ImmatureRecord, TxoRecord
  <2> HIDE DEF z
  <2>2. z = [ring |-> x.ring, name |-> Zero, by |-> Zero, at |-> Zero]
    BY <2>1, Fields
  <2> QED
    BY <2>2 DEF z
<1>2. ImmatureCoinbaseRecord(x) = [ring |-> x.ring, name |-> Zero, by |-> Zero, at |-> Zero]
  <2> DEFINE z == ImmatureCoinbaseRecord(x)
  <2>1. z = [f \in {"ring", "name", "by", "at"} |-> z[f]] /\ z.ring = x.ring /\ z.name = Zero /\ z.by = Zero /\ z.at = Zero
    BY DEF ImmatureCoinbaseRecord, TxoRecord
  <2> HIDE DEF z
  <2>2. z = [ring |-> x.ring, name |-> Zero, by |-> Zero, at |-> Zero]
    BY <2>1, Fields
  <2> QED
    BY <2>2 DEF z
<1>3. SpendableRecord(x) = [ring |-> x.ring, name |-> UTXOHash(x), by |-> Zero, at |-> Zero]
  <2> DEFINE z == SpendableRecord(x)
  <2>1. z = [f \in {"ring", "name", "by", "at"} |-> z[f]] /\ z.ring = x.ring /\ z.name = UTXOHash(x) /\ z.by = Zero /\ z.at = Zero
    BY DEF SpendableRecord, TxoRecord
  <2> HIDE DEF z
  <2>2. z = [ring |-> x.ring, name |-> UTXOHash(x), by |-> Zero, at |-> Zero]
    BY <2>1, Fields
  <2> QED
    BY <2>2 DEF z
<1>4. UnconfirmedRecord(x, t) = [ring |-> x.ring, name |-> UTXOHash(x), by |-> t, at |-> Zero]
  <2> DEFINE z == UnconfirmedRecord(x, t)
  <2>1. z = [f \in {"ring", "name", "by", "at"} |-> z[f]] /\ z.ring = x.ring /\ z.name = UTXOHash(x) /\ z.by = t /\ z.at = Zero
    BY <1>3 DEF UnconfirmedRecord, TxoRecord
  <2> HIDE DEF z
  <2>2. z = [ring |-> x.ring, name |-> UTXOHash(x), by |-> t, at |-> Zero]
    BY <2>1, Fields
  <2> QED
    BY <2>2 DEF z
<1>5. ConfirmedRecord(x, t, b) = [ring |-> x.ring, name |-> UTXOHash(x), by |-> t, at |-> b]
  <2> DEFINE z == ConfirmedRecord(x, t, b)
  <2>1. z = [f \in {"ring", "name", "by", "at"} |-> z[f]] /\ z.ring = x.ring /\ z.name = UTXOHash(x) /\ z.by = t /\ z.at = b
    BY <1>4 DEF ConfirmedRecord, TxoRecord
  <2> HIDE DEF z
  <2>2. z = [ring |-> x.ring, name |-> UTXOHash(x), by |-> t, at |-> b]
    BY <2>1, Fields
  <2> QED
    BY <2>2 DEF z
<1>6. UTXOHash(x) \in Rings \cup {Zero}
  BY DEF UTXOHash, TxoRecord
<1>7. Unringed(x) = [ring |-> Zero, name |-> Zero, by |-> Zero, at |-> Zero]
  <2> DEFINE y == [x EXCEPT !.ring = Zero]
             z == ImmatureRecord(y)
  <2>1. y \in TxoRecord /\ y.ring = Zero
    BY DEF TxoRecord
  <2> HIDE DEF y
  <2>2. z = [f \in {"ring", "name", "by", "at"} |-> z[f]]
        /\ z.ring = Zero /\ z.name = Zero /\ z.by = Zero /\ z.at = Zero
    BY <2>1 DEF ImmatureRecord, TxoRecord
  <2> HIDE DEF z
  <2>3. z = [ring |-> Zero, name |-> Zero, by |-> Zero, at |-> Zero]
    BY <2>2, Fields
  <2> QED
    BY <2>3 DEF z, y, Unringed
<1> QED
  BY <1>1, <1>2, <1>3, <1>4, <1>5, <1>6, <1>7

\* The rings recorded for a block are those it forms with a member of the wallet.
LEMMA NewRingsAre ==
    ASSUME BucketsInv, RecordsInv, NEW b \in Blocks \ {Genesis}, Parent[b] = tip
    PROVE  /\ NewRings(b) = IF CompletesGroup(b) THEN {r \in RingsOf[b] : Members[r] \cap Mine # {}} ELSE {}
           /\ CompletesGroup(b) => \A c \in GroupCoins(b) :
                 /\ c \in Mine /\ c \in Ringed(b)
                 /\ \E r \in NewRings(b) : c \in Members[r]
           /\ GroupCoins(b) \subseteq OwnOutputs(b) \cup (Owned(tip) \ Ready(tip))
           /\ OwnOutputs(b) \subseteq GroupCoins(b)
<1>1. tip \in Blocks /\ b \in Branch[b] /\ Branch[b] = Branch[tip] \cup {b} /\ b \notin Branch[tip]
  BY ParentBelow, BranchBelow, ParentBranch
<1>2. ASSUME CompletesGroup(b)
      PROVE  /\ NewRings(b) = {r \in RingsOf[b] : Members[r] \cap Mine # {}}
             /\ \A c \in GroupCoins(b) :
                   c \in Mine /\ c \in Ringed(b) /\ \E r \in NewRings(b) : c \in Members[r]
  <2>1. GroupCoins(b) = UNION {OwnOutputs(a) : a \in Group(b)}
    BY <1>2, GroupIs
  <2>2. UNION {Members[r] : r \in RingsOf[b]} = UNION {Created(a) : a \in Group(b)}
    BY <1>2, RingsAssumption
  <2>3. \A a \in Group(b) : a \in Blocks /\ Created(a) \cap Mine = OwnOutputs(a) /\ Created(a) \subseteq Ringed(b)
    BY <1>2, NewRing, OutputKinds
  <2>4. ASSUME NEW r \in RingsOf[b] PROVE Members[r] \cap GroupCoins(b) = Members[r] \cap Mine
    BY <2>1, <2>2, <2>3, <2>4
  <2>5. NewRings(b) = {r \in RingsOf[b] : Members[r] \cap Mine # {}}
    BY <1>2, <2>4 DEF NewRings
  <2>6. ASSUME NEW c \in GroupCoins(b)
        PROVE  c \in Mine /\ c \in Ringed(b) /\ \E r \in NewRings(b) : c \in Members[r]
    <3>1. PICK a \in Group(b) : c \in Created(a) /\ c \in Mine
      BY <2>1, <2>3, <2>6
    <3>2. PICK r \in RingsOf[b] : c \in Members[r]
      BY <2>2, <3>1
    <3> QED
      BY <2>3, <2>5, <3>1, <3>2
  <2> QED
    BY <2>5, <2>6
<1>3. NewRings(b) = {} \/ CompletesGroup(b)
  BY DEF NewRings
<1>4. OwnOutputs(b) \subseteq GroupCoins(b)
  BY DEF OwnOutputs, GroupCoins
<1>5. ASSUME NEW c \in GroupCoins(b), c \notin OwnOutputs(b) PROVE c \in Owned(tip) \ Ready(tip)
  <2>1. PICK a \in GroupBlocks(b) : c \in immatureTR[a] \/ c \in immatureCB[a]
    BY <1>5 DEF GroupCoins, GroupTransfers, OwnOutputs
  <2>2. a \in Blocks
    BY <2>1, <1>1, BranchBelow DEF GroupBlocks, Group
  <2>3. c \in AllImmatureCB \cup AllImmatureTR
    BY <2>1, <2>2 DEF AllImmatureCB, AllImmatureTR
  <2> QED
    BY <1>1, <2>3, LedgerBuckets
<1> QED
  BY <1>2, <1>3, <1>4, <1>5

\* The ring recorded with a TXO of the group, or with one of another group.
LEMMA WithRingIs ==
    ASSUME BucketsInv, RecordsInv, NEW b \in Blocks \ {Genesis}, Parent[b] = tip,
           NEW c \in Mine, NEW x \in TxoRecord
    PROVE  /\ WithRing(b, c, x) \in TxoRecord
           /\ WithRing(b, c, x).name = x.name
           /\ CompletesGroup(b) /\ c \in GroupCoins(b) => RingOn(b, c, WithRing(b, c, x).ring)
           /\ ~ CompletesGroup(b) => WithRing(b, c, x).ring = x.ring
<1> DEFINE rings == {r \in NewRings(b) : c \in Members[r]}
           r == CHOOSE q \in rings : TRUE
<1>1. WithRing(b, c, x) = IF rings = {} THEN x ELSE [x EXCEPT !.ring = r]
  BY DEF WithRing
<1>2. rings # {} => r \in rings
  OBVIOUS
<1>3. ~ CompletesGroup(b) => rings = {}
  BY DEF NewRings
<1>4. CompletesGroup(b) /\ c \in GroupCoins(b) => rings # {}
  BY NewRingsAre
<1>5. rings # {} => r \in Rings /\ RingOn(b, c, r)
  <2>1. rings # {} => CompletesGroup(b) /\ r \in RingsOf[b] /\ c \in Members[r]
    BY <1>2, <1>3 DEF NewRings
  <2>2. CompletesGroup(b) => RingsOf[b] \subseteq RingsFormed(b) /\ RingsOf[b] \subseteq Rings
    BY ChainStep, SetsAssumption
  <2> QED
    BY <2>1, <2>2 DEF RingOn
<1> HIDE DEF rings, r
<1>6. CASE rings = {}
  BY <1>1, <1>3, <1>4, <1>6
<1>7. CASE rings # {}
  <2>1. WithRing(b, c, x) = [x EXCEPT !.ring = r]
    BY <1>1, <1>7
  <2>2. WithRing(b, c, x) \in TxoRecord /\ WithRing(b, c, x).name = x.name /\ WithRing(b, c, x).ring = r
    BY <2>1, <1>5, <1>7 DEF TxoRecord
  <2> QED
    BY <2>2, <1>3, <1>5, <1>7
<1> QED
  BY <1>6, <1>7

\* The transaction recorded as the spender of a TXO.
LEMMA SpenderIs ==
    ASSUME NEW b \in Blocks \ {Genesis}, NEW c \in NewlySpent(b), NEW r, RingOn(b, c, r)
    PROVE  /\ Spender(b, c) \in Txs /\ <<r, c>> \in Spends[Spender(b, c)]
           /\ c \in Revealed(b, r)
<1>1. PICK q \in Rings : c \in Revealed(b, q)
  BY DEF NewlySpent
<1>2. PICK t \in TxsOf[b] : <<q, c>> \in Spends[t]
  BY <1>1 DEF Revealed
<1>3. Spender(b, c) \in TxsOf[b] /\ \E p \in Rings : <<p, c>> \in Spends[Spender(b, c)]
  BY <1>2 DEF Spender
<1>4. PICK p \in Rings : <<p, c>> \in Spends[Spender(b, c)]
  BY <1>3
<1>5. c \in Coins
  BY SetsAssumption DEF NewlySpent
<1>6. c \in Revealed(b, p)
  BY <1>3, <1>4, <1>5 DEF Revealed
<1>7. p \in RingsFormed(b) /\ c \in Members[p]
  BY <1>6, RevealedKnown, ChainStep
<1>8. p = r
  BY <1>7, OneRing DEF RingOn
<1> QED
  BY <1>3, <1>4, <1>6, <1>8, SetsAssumption

\* What InsertBlock writes with the TXOs of the branch, whichever way each goes.
LEMMA InsertBlockWrites ==
    ASSUME Inv, TxoInv, NEW b \in Blocks, InsertBlock(b), InsertBlockStored(b)
    PROVE  /\ b # Genesis /\ Parent[b] = tip /\ tip \in Blocks /\ tip' = b
           /\ txo' = [c \in Coins |-> txo'[c]]
           /\ \A c \in NewlySpent(b) : /\ c \in mature => txo'[c] = ConfirmedRecord(txo[c], Spender(b, c), b)
                                       /\ c \in unconfirmed => txo'[c] = ConfirmedRecord(txo[c], txo[c].by, b)
           /\ \A c \in Ready(tip) \ NewlySpent(b) : txo'[c] = txo[c]
           /\ \A c \in MaturedCoinbases(b) : txo'[c] = SpendableRecord(txo[c])
           /\ \A c \in Owned(b) \ (Ready(tip) \cup MaturedCoinbases(b) \cup GroupCoins(b)) : txo'[c] = txo[c]
           /\ \A c \in GroupCoins(b) : c \in Mine /\ \E x \in {Received, txo[c]} :
                 /\ x \in TxoRecord /\ x.name = Zero
                 /\ c \in Ringed(tip) => RingOn(tip, c, x.ring)
                 /\ c \notin Ringed(tip) => x.ring = Zero
                 /\ c \in MaturedTransfers(b) => txo'[c] = SpendableRecord(WithRing(b, c, x))
                 /\ c \notin MaturedTransfers(b) /\ c \notin MaturedCoinbases(b) =>
                       txo'[c] = ImmatureRecord(WithRing(b, c, x))
           /\ MaturedTransfers(b) \subseteq GroupCoins(b)
           /\ MaturedCoinbases(b) \subseteq Owned(tip) \ Ready(tip)
           /\ \A c \in MaturedCoinbases(b) : c \in Ringed(tip)
<1> DEFINE own == OwnOutputs(b)
           group == GroupCoins(b)
           sm == SpentMature(b)
           sh == SpentUnconfirmed(b)
           cb == MaturedCoinbases(b)
           tr == MaturedTransfers(b)
           before(c) == IF c \in own THEN Received ELSE txo[c]
<1>1. b # Genesis /\ Parent[b] = tip /\ tip \in Blocks /\ tip' = b
  BY ParentBelow DEF InsertBlock, InsertBlockRecords
<1>2. /\ txo' = [c \in Coins |->
          CASE c \in sm -> ConfirmedRecord(txo[c], Spender(b, c), b)
            [] c \in sh -> HeldSpent(txo[c], b)
            [] c \in cb -> SpendableRecord(txo[c])
            [] c \in tr -> SpendableRecord(WithRing(b, c, before(c)))
            [] c \in (own \cup group) \cap CoinbaseCoins ->
                  ImmatureCoinbaseRecord(WithRing(b, c, before(c)))
            [] c \in ((own \cup group) \ CoinbaseCoins) \ tr ->
                  ImmatureRecord(WithRing(b, c, before(c)))
            [] OTHER -> txo[c]]
  BY DEF InsertBlockStored
<1>3. /\ sm = NewlySpent(b) \cap mature /\ sh = NewlySpent(b) \cap unconfirmed
      /\ cb \cup tr = NewReady(b) /\ cb \subseteq CoinbaseCoins /\ tr \cap CoinbaseCoins = {}
      /\ cb = NewMatured(b)
      /\ tr = IF CompletesGroup(b) THEN UNION {TransferOutputs(a) : a \in Group(b)} ELSE {}
  BY <1>1, InsertBlockMoves DEF NewMatured, Inv
<1>4. /\ own \subseteq group /\ group \subseteq own \cup (Owned(tip) \ Ready(tip))
      /\ CompletesGroup(b) => \A c \in group : c \in Mine /\ c \in Ringed(b)
  BY <1>1, NewRingsAre DEF Inv
<1>5. /\ Ready(tip) \cap NewReady(b) = {}
      /\ NewlySpent(b) \subseteq Ready(tip) /\ Ready(tip) \subseteq Owned(tip)
      /\ NewlySpent(b) \cap Spent(tip) = {}
      /\ Owned(b) = Owned(tip) \cup own /\ Owned(b) \subseteq Mine /\ Mine \subseteq Coins
  BY <1>1, ReadyStep, SpentStep, SpentReady, ChainStep, SetsAssumption
     DEF Owned, OwnOutputs, CoinbaseOutput, TransferOutputs
<1>6. /\ own \cap Ringed(tip) = {} /\ own \cap Ready(tip) = {}
      /\ Ready(tip) \subseteq Ringed(tip)
  <2>1. own \subseteq Created(b)
    BY OutputKinds
  <2> QED
    BY <1>1, <2>1, Fresh DEF Ready
<1>7. mature \cap unconfirmed = {} /\ mature \cup unconfirmed = Ready(tip) \ Spent(tip)
  BY DEF Inv, BucketsInv
<1>8. tr \subseteq group
  <2>1. CASE CompletesGroup(b)
    BY <2>1, <1>1, <1>3, GroupIs DEF Inv, OwnOutputs
  <2> QED
    BY <2>1, <1>3
<1>9. cb \subseteq Owned(tip) \ Ready(tip) /\ cb \cap own = {}
  <2>1. cb \subseteq AllCBAt(tip)
    BY <1>1, <1>3, ImmatureSets
  <2>2. AllCBAt(tip) \subseteq Owned(tip) \ Ready(tip)
    BY <1>1, ImmatureIs DEF AllCBAt
  <2>3. CoinbaseOutput(b) \cap AllCBAt(tip) = {} /\ TransferOutputs(b) \cap CoinbaseCoins = {}
    BY <1>1, ImmatureSets, OutputKinds
  <2> QED
    BY <1>3, <2>1, <2>2, <2>3 DEF OwnOutputs
<1>10. ASSUME NEW c \in cb, c \in group PROVE FALSE
  <2>1. PICK a \in GroupBlocks(b) : c \in immatureTR[a] \/ c \in immatureCB[a]
    BY <1>9, <1>10 DEF GroupCoins, GroupTransfers, OwnOutputs
  <2>2. a \in Group(b) /\ a \in Blocks
    BY <2>1, BranchBelow DEF GroupBlocks, Group
  <2>3. immatureCB = ImmatureCBAt(tip) /\ immatureTR = ImmatureTRAt(tip)
    BY DEF Inv, BucketsInv
  <2>4. c \in CoinbaseOutput(a) \/ c \in TransferOutputs(a)
    BY <2>1, <2>2, <2>3 DEF ImmatureCBAt, ImmatureTRAt
  <2>5. c \in Coinbase[a]
    BY <1>3, <2>2, <2>4, OutputKinds DEF CoinbaseOutput
  <2>6. c \in Matured(b)
    BY <1>1, <1>3, ChainStep DEF NewMatured, CoinbaseOutput
  <2> QED
    BY <2>2, <2>5, <2>6, GroupYoung
<1>11. ASSUME NEW c \in cb PROVE c \in Ringed(tip)
  <2>1. c \in Matured(b) /\ c \in Ringed(b) /\ c \in Mine
    BY <1>1, <1>3, ChainStep, MaturedRinged DEF NewMatured, CoinbaseOutput
  <2>2. ASSUME CompletesGroup(b), NEW a \in Group(b), c \in Created(a) PROVE FALSE
    <3>1. group = UNION {OwnOutputs(x) : x \in Group(b)} /\ a \in Blocks
      BY <1>1, <2>2, GroupIs, BranchBelow DEF Inv, Group
    <3>2. c \in OwnOutputs(a)
      BY <2>1, <2>2, <3>1, OutputKinds
    <3> QED
      BY <1>10, <1>11, <2>2, <3>1, <3>2
  <2>3. CompletesGroup(b) => UNION {Members[r] : r \in RingsOf[b]} = UNION {Created(a) : a \in Group(b)}
    BY RingsAssumption
  <2> QED
    BY <1>1, <2>1, <2>2, <2>3, ChainStep
<1>12. ASSUME NEW c \in NewlySpent(b)
       PROVE  /\ c \in mature => txo'[c] = ConfirmedRecord(txo[c], Spender(b, c), b)
              /\ c \in unconfirmed => txo'[c] = ConfirmedRecord(txo[c], txo[c].by, b)
  <2>1. c \in Coins /\ c \notin cb /\ c \notin tr /\ c \notin own /\ c \notin group
    BY <1>3, <1>4, <1>5, <1>6, <1>9
  <2>2. /\ c \in mature => c \in sm /\ c \notin sh
        /\ c \in unconfirmed => c \in sh /\ c \notin sm
    BY <1>3, <1>7
  <2>3. /\ c \in sm /\ c \notin sh => txo'[c] = ConfirmedRecord(txo[c], Spender(b, c), b)
        /\ c \in sh /\ c \notin sm => txo'[c] = HeldSpent(txo[c], b)
    <3> HIDE DEF sm, sh, cb, tr, own, group, before
    <3> QED
      BY <1>2, <2>1
  <2> QED
    BY <2>2, <2>3 DEF HeldSpent
<1>13. ASSUME NEW c \in Owned(b), c \notin sm, c \notin sh, c \notin cb, c \notin group
       PROVE  txo'[c] = txo[c]
  <2>1. c \in Coins /\ c \notin own /\ c \notin tr
    BY <1>4, <1>5, <1>8, <1>13
  <2> HIDE DEF sm, sh, cb, tr, own, group, before
  <2> QED
    BY <1>2, <1>13, <2>1
<1>14. ASSUME NEW c \in cb PROVE txo'[c] = SpendableRecord(txo[c])
  <2>1. c \in Coins /\ c \notin sm /\ c \notin sh /\ c \notin tr /\ c \notin own /\ c \notin group
    BY <1>3, <1>4, <1>5, <1>9, <1>10, <1>14
  <2> HIDE DEF sm, sh, cb, tr, own, group, before
  <2> QED
    BY <1>2, <1>14, <2>1
<1>15. ASSUME NEW c \in group
       PROVE  /\ c \in Mine
              /\ before(c) \in {Received, txo[c]}
              /\ before(c) \in TxoRecord /\ before(c).name = Zero
              /\ c \in Ringed(tip) => RingOn(tip, c, before(c).ring)
              /\ c \notin Ringed(tip) => before(c).ring = Zero
              /\ c \in tr => txo'[c] = SpendableRecord(WithRing(b, c, before(c)))
              /\ c \notin tr /\ c \notin cb => txo'[c] = ImmatureRecord(WithRing(b, c, before(c)))
  <2>1. c \in own \/ c \in Owned(tip) \ Ready(tip)
    BY <1>4, <1>15
  <2>2. c \in Mine /\ c \in Coins /\ c \notin sm /\ c \notin sh
    BY <1>3, <1>5, <1>6, <2>1
  <2>3. Received \in TxoRecord /\ Received.name = Zero /\ Received.ring = Zero
    BY DEF Received, TxoRecord
  <2>4. /\ before(c) \in {Received, txo[c]}
        /\ before(c) \in TxoRecord /\ before(c).name = Zero
        /\ c \in Ringed(tip) => RingOn(tip, c, before(c).ring)
        /\ c \notin Ringed(tip) => before(c).ring = Zero
    BY <1>6, <2>1, <2>3 DEF TxoInv
  <2>5. ASSUME NEW x PROVE ImmatureCoinbaseRecord(x) = ImmatureRecord(x)
    BY Zenon DEF ImmatureCoinbaseRecord, ImmatureRecord
  <2>6. c \in tr /\ c \notin cb /\ c \notin CoinbaseCoins => txo'[c] = SpendableRecord(WithRing(b, c, before(c)))
    <3> HIDE DEF sm, sh, cb, tr, own, group, before
    <3> QED
      BY <1>2, <2>2
  <2>7. c \notin tr /\ c \notin cb /\ c \in CoinbaseCoins =>
           txo'[c] = ImmatureCoinbaseRecord(WithRing(b, c, before(c)))
    <3> HIDE DEF sm, sh, cb, tr, own, group, before
    <3> QED
      BY <1>2, <1>15, <2>2
  <2>8. c \notin tr /\ c \notin cb /\ c \notin CoinbaseCoins =>
           txo'[c] = ImmatureRecord(WithRing(b, c, before(c)))
    <3> HIDE DEF sm, sh, cb, tr, own, group, before
    <3> QED
      BY <1>2, <1>15, <2>2
  <2>9. c \in tr => c \notin cb /\ c \notin CoinbaseCoins
    BY <1>3
  <2> HIDE DEF before
  <2> QED
    BY <2>2, <2>4, <2>5, <2>6, <2>7, <2>8, <2>9
<1>16. ASSUME NEW c \in Ready(tip) \ NewlySpent(b) PROVE txo'[c] = txo[c]
  <2>1. c \in Owned(b) /\ c \notin group /\ c \notin cb /\ c \notin sm /\ c \notin sh
    BY <1>3, <1>4, <1>5, <1>6, <1>9
  <2> QED
    BY <2>1, <1>13
<1>17. ASSUME NEW c \in Owned(b) \ (Ready(tip) \cup cb \cup group) PROVE txo'[c] = txo[c]
  <2>1. c \notin sm /\ c \notin sh
    BY <1>3, <1>5
  <2> QED
    BY <2>1, <1>13
<1>18. txo' = [c \in Coins |-> txo'[c]]
  <2> HIDE DEF sm, sh, cb, tr, own, group, before
  <2> QED
    BY <1>2
<1>19. ASSUME NEW c \in group
       PROVE  c \in Mine /\ \E x \in {Received, txo[c]} :
                 /\ x \in TxoRecord /\ x.name = Zero
                 /\ c \in Ringed(tip) => RingOn(tip, c, x.ring)
                 /\ c \notin Ringed(tip) => x.ring = Zero
                 /\ c \in tr => txo'[c] = SpendableRecord(WithRing(b, c, x))
                 /\ c \notin tr /\ c \notin cb => txo'[c] = ImmatureRecord(WithRing(b, c, x))
  <2> HIDE DEF before, tr, cb, group
  <2> QED
    BY <1>15
<1> HIDE DEF own, group, sm, sh, before
<1>20. /\ \A c \in GroupCoins(b) : c \in Mine /\ \E x \in {Received, txo[c]} :
                 /\ x \in TxoRecord /\ x.name = Zero
                 /\ c \in Ringed(tip) => RingOn(tip, c, x.ring)
                 /\ c \notin Ringed(tip) => x.ring = Zero
                 /\ c \in MaturedTransfers(b) => txo'[c] = SpendableRecord(WithRing(b, c, x))
                 /\ c \notin MaturedTransfers(b) /\ c \notin MaturedCoinbases(b) =>
                       txo'[c] = ImmatureRecord(WithRing(b, c, x))
       /\ MaturedTransfers(b) \subseteq GroupCoins(b)
  BY <1>8, <1>19 DEF group
<1>21. \A c \in Owned(b) \ (Ready(tip) \cup MaturedCoinbases(b) \cup GroupCoins(b)) : txo'[c] = txo[c]
  BY <1>17 DEF group
<1> QED
  BY <1>1, <1>9, <1>11, <1>12, <1>14, <1>16, <1>18, <1>20, <1>21

\* A ring of the branch is one of every higher block, and the only one.
LEMMA RingStays ==
    ASSUME NEW b \in Blocks \ {Genesis}, NEW c \in Mine, NEW r
    PROVE  /\ RingOn(Parent[b], c, r) => RingOn(b, c, r)
           /\ RingOn(b, c, r) /\ c \in Ringed(Parent[b]) => RingOn(Parent[b], c, r)
           /\ RingOn(b, c, r) => r # Zero /\ r \in Rings
<1>1. Parent[b] \in Blocks /\ RingsFormed(Parent[b]) \subseteq RingsFormed(b)
  BY ParentBelow, ChainStep
<1>2. ASSUME RingOn(b, c, r), c \in Ringed(Parent[b]) PROVE RingOn(Parent[b], c, r)
  <2>1. PICK q \in RingsFormed(Parent[b]) : c \in Members[q]
    BY <1>2 DEF Ringed
  <2>2. q = r
    BY <1>1, <1>2, <2>1, OneRing DEF RingOn
  <2> QED
    BY <2>1, <2>2 DEF RingOn
<1>3. RingOn(b, c, r) => r \in Rings
  BY MembersCreated DEF RingOn
<1> QED
  BY <1>1, <1>2, <1>3, ZeroAssumption DEF RingOn

\* InsertBlock
LEMMA InsertBlockTxoInv ==
    ASSUME Inv, TxoInv, DetailsInv, NEW b \in Blocks, InsertBlock(b), InsertBlockStored(b)
    PROVE  TxoInv' /\ DetailsInv'
<1>1. /\ b \in Blocks \ {Genesis} /\ Parent[b] = tip /\ tip \in Blocks /\ tip' = b
      /\ txo' = [c \in Coins |-> txo'[c]]
  BY InsertBlockWrites
<1>2. /\ Ready(b) = Ready(tip) \cup NewReady(b) /\ Ready(tip) \cap NewReady(b) = {}
      /\ NewlySpent(b) \subseteq Ready(tip) /\ Ready(tip) \subseteq Owned(tip)
      /\ Spent(b) = Spent(tip) \cup NewlySpent(b) /\ NewlySpent(b) \cap Spent(tip) = {}
      /\ Owned(b) = Owned(tip) \cup OwnOutputs(b) /\ Owned(b) \subseteq Mine
  BY <1>1, ReadyStep, SpentStep, SpentReady, ChainStep
     DEF Owned, OwnOutputs, CoinbaseOutput, TransferOutputs
<1>3. /\ mature \cup unconfirmed = Ready(tip) \ Spent(tip)
      /\ unconfirmed' \subseteq unconfirmed /\ unconfirmed' \cap Spent(b) = {}
  <2>1. unconfirmed' = unconfirmed \ Spent(b)
    BY InsertBlockBucketsInv
  <2> QED
    BY <2>1 DEF Inv, BucketsInv
<1>4. NewReady(b) = MaturedCoinbases(b) \cup MaturedTransfers(b)
  BY <1>1, InsertBlockMoves DEF Inv
<1>5. /\ MaturedTransfers(b) \subseteq GroupCoins(b) /\ (MaturedTransfers(b) # {} => CompletesGroup(b))
      /\ MaturedCoinbases(b) \subseteq Owned(tip) \ Ready(tip)
      /\ \A c \in MaturedCoinbases(b) : c \in Ringed(tip)
      /\ OwnOutputs(b) \subseteq GroupCoins(b)
  BY <1>1, InsertBlockWrites, NewRingsAre DEF Inv, MaturedTransfers
<1>6. Zero \notin Rings
  BY ZeroAssumption
\* Spent by b.
<1>7. ASSUME NEW c \in NewlySpent(b)
      PROVE  /\ txo'[c] \in TxoRecord
             /\ RingOn(b, c, txo'[c].ring) /\ txo'[c].name = txo'[c].ring
             /\ txo'[c].at = b /\ c \in Revealed(b, txo'[c].ring)
             /\ <<txo'[c].ring, c>> \in Spends[txo'[c].by]
  <2>1. /\ c \in Ready(tip) /\ c \in Owned(tip) /\ c \in Mine /\ c \in mature \cup unconfirmed
    BY <1>2, <1>3
  <2>2. /\ txo[c] \in TxoRecord /\ RingOn(tip, c, txo[c].ring) /\ txo[c].name = txo[c].ring
    BY <2>1 DEF TxoInv
  <2>3. RingOn(b, c, txo[c].ring) /\ txo[c].ring # Zero /\ txo[c].ring \in Rings
    BY <1>1, <2>1, <2>2, RingStays
  <2>4. PICK t \in Txs \cup {Zero} : txo'[c] = ConfirmedRecord(txo[c], t, b) /\ <<txo[c].ring, c>> \in Spends[t]
    <3>1. CASE c \in mature
      <4>1. txo'[c] = ConfirmedRecord(txo[c], Spender(b, c), b)
        BY <3>1, InsertBlockWrites
      <4>2. Spender(b, c) \in Txs /\ <<txo[c].ring, c>> \in Spends[Spender(b, c)]
        BY <1>1, <2>3, SpenderIs
      <4> QED
        BY <4>1, <4>2
    <3>2. CASE c \in unconfirmed
      <4>1. txo'[c] = ConfirmedRecord(txo[c], txo[c].by, b)
        BY <3>2, InsertBlockWrites
      <4>2. txo[c].by \in Txs \cup {Zero} /\ <<txo[c].ring, c>> \in Spends[txo[c].by]
        BY <2>2, <3>2 DEF TxoInv, TxoRecord
      <4> QED
        BY <4>1, <4>2
    <3> QED
      BY <2>1, <3>1, <3>2
  <2>5. UTXOHash(txo[c]) = txo[c].ring
    BY <2>2 DEF UTXOHash
  <2>6. txo'[c] = [ring |-> txo[c].ring, name |-> txo[c].ring, by |-> t, at |-> b]
    BY <2>2, <2>4, <2>5, Formats
  <2>7. c \in Revealed(b, txo[c].ring)
    BY <1>1, <2>3, SpenderIs
  <2> QED
    BY <2>3, <2>4, <2>6, <2>7 DEF TxoRecord
\* Ready before b and left alone.
<1>8. ASSUME NEW c \in Ready(tip) \ NewlySpent(b)
      PROVE  /\ txo'[c] = txo[c] /\ txo[c] \in TxoRecord
             /\ RingOn(b, c, txo[c].ring) /\ txo[c].name = txo[c].ring
  <2>1. txo'[c] = txo[c] /\ c \in Owned(tip) /\ c \in Mine
    BY <1>2, InsertBlockWrites
  <2>2. txo[c] \in TxoRecord /\ RingOn(tip, c, txo[c].ring) /\ txo[c].name = txo[c].ring
    BY <2>1 DEF TxoInv
  <2> QED
    BY <1>1, <2>1, <2>2, RingStays
\* A matured coinbase.
<1>9. ASSUME NEW c \in MaturedCoinbases(b)
      PROVE  txo'[c] \in TxoRecord /\ RingOn(b, c, txo'[c].ring) /\ txo'[c].name = txo'[c].ring
  <2>1. c \in Owned(tip) \ Ready(tip) /\ c \in Ringed(tip) /\ c \in Mine
    BY <1>2, <1>5
  <2>2. txo[c] \in TxoRecord /\ txo[c].name = Zero /\ RingOn(tip, c, txo[c].ring)
    BY <2>1 DEF TxoInv
  <2>3. txo'[c] = SpendableRecord(txo[c])
    BY InsertBlockWrites
  <2>4. UTXOHash(txo[c]) = txo[c].ring
    BY <2>2 DEF UTXOHash
  <2>5. txo'[c] = [ring |-> txo[c].ring, name |-> txo[c].ring, by |-> Zero, at |-> Zero]
    BY <2>2, <2>3, <2>4, Formats
  <2>6. RingOn(b, c, txo[c].ring) /\ txo[c].ring \in Rings
    BY <1>1, <2>1, <2>2, RingStays
  <2> QED
    BY <2>5, <2>6 DEF TxoRecord
\* An output the new rings make spendable.
<1>10. ASSUME NEW c \in MaturedTransfers(b)
       PROVE  txo'[c] \in TxoRecord /\ RingOn(b, c, txo'[c].ring) /\ txo'[c].name = txo'[c].ring
  <2>1. c \in GroupCoins(b) /\ CompletesGroup(b)
    BY <1>5
  <2>2. c \in Mine
    BY <2>1, InsertBlockWrites
  <2>3. PICK x \in {Received, txo[c]} :
           /\ x \in TxoRecord /\ x.name = Zero
           /\ txo'[c] = SpendableRecord(WithRing(b, c, x))
    BY <2>1, InsertBlockWrites
  <2> DEFINE y == WithRing(b, c, x)
  <2>4. y \in TxoRecord /\ y.name = Zero /\ RingOn(b, c, y.ring) /\ y.ring \in Rings
    BY <1>1, <2>1, <2>2, <2>3, WithRingIs, RingStays DEF Inv
  <2> HIDE DEF y
  <2>5. UTXOHash(y) = y.ring
    BY <2>4 DEF UTXOHash
  <2>6. SpendableRecord(y) = [ring |-> y.ring, name |-> y.ring, by |-> Zero, at |-> Zero]
    BY <2>4, <2>5, Formats
  <2>7. txo'[c] = SpendableRecord(y)
    BY <2>3 DEF y
  <2> QED
    BY <2>4, <2>6, <2>7 DEF TxoRecord
\* An output of the group or of b that stays immature.
<1>11. ASSUME NEW c \in GroupCoins(b), c \notin MaturedTransfers(b), c \notin MaturedCoinbases(b)
       PROVE  /\ txo'[c] \in TxoRecord /\ txo'[c].name = Zero
              /\ IF c \in Ringed(b) THEN RingOn(b, c, txo'[c].ring) ELSE txo'[c].ring = Zero
  <2>1. c \in Mine
    BY InsertBlockWrites
  <2>2. PICK x \in {Received, txo[c]} :
           /\ x \in TxoRecord /\ x.name = Zero
           /\ c \in Ringed(tip) => RingOn(tip, c, x.ring)
           /\ c \notin Ringed(tip) => x.ring = Zero
           /\ txo'[c] = ImmatureRecord(WithRing(b, c, x))
    BY <1>11, InsertBlockWrites
  <2> DEFINE y == WithRing(b, c, x)
  <2>3. y \in TxoRecord /\ y.name = Zero
    BY <1>1, <2>1, <2>2, WithRingIs DEF Inv
  <2>4. IF c \in Ringed(b) THEN RingOn(b, c, y.ring) ELSE y.ring = Zero
    <3>1. CASE CompletesGroup(b)
      <4>1. RingOn(b, c, y.ring) /\ c \in Ringed(b)
        BY <1>1, <2>1, <2>2, <3>1, WithRingIs, NewRingsAre DEF Inv
      <4> QED
        BY <4>1
    <3>2. CASE ~ CompletesGroup(b)
      <4>1. y.ring = x.ring
        BY <1>1, <2>1, <2>2, <3>2, WithRingIs DEF Inv
      <4>2. Ringed(b) = Ringed(tip)
        <5>1. Ringed(b) = Ringed(tip)
                  \cup (IF CompletesGroup(b) THEN UNION {Members[r] : r \in RingsOf[b]} ELSE {})
          BY <1>1, ChainStep, Zenon
        <5> QED
          BY <3>2, <5>1
      <4> QED
        BY <1>1, <2>1, <2>2, <4>1, <4>2, RingStays
    <3> QED
      BY <3>1, <3>2
  <2> HIDE DEF y
  <2>5. txo'[c] = [ring |-> y.ring, name |-> Zero, by |-> Zero, at |-> Zero]
    BY <2>2, <2>3, Formats DEF y
  <2>6. y.ring \in Rings \cup {Zero}
    BY <2>3 DEF TxoRecord
  <2> QED
    BY <2>4, <2>5, <2>6 DEF TxoRecord
\* An immature output of another group.
<1>12. ASSUME NEW c \in Owned(b) \ (Ready(tip) \cup MaturedCoinbases(b) \cup GroupCoins(b))
       PROVE  /\ txo'[c] \in TxoRecord /\ txo'[c].name = Zero
              /\ IF c \in Ringed(b) THEN RingOn(b, c, txo'[c].ring) ELSE txo'[c].ring = Zero
  <2>1. txo'[c] = txo[c]
    BY InsertBlockWrites
  <2>2. c \in Owned(tip) \ Ready(tip) /\ c \in Mine
    BY <1>2, <1>5
  <2>3. c \in Ringed(b) => c \in Ringed(tip)
    <3>1. CASE CompletesGroup(b)
      <4>1. UNION {Members[r] : r \in RingsOf[b]} = UNION {Created(a) : a \in Group(b)}
        BY <3>1, RingsAssumption
      <4>2. GroupCoins(b) = UNION {OwnOutputs(a) : a \in Group(b)}
        BY <1>1, <3>1, GroupIs DEF Inv
      <4>3. \A a \in Group(b) : a \in Blocks /\ Created(a) \cap Mine = OwnOutputs(a)
        BY BranchBelow, OutputKinds DEF Group
      <4>4. c \notin UNION {Members[r] : r \in RingsOf[b]}
        BY <1>12, <2>2, <4>1, <4>2, <4>3
      <4> QED
        BY <1>1, <4>4, ChainStep
    <3> QED
      BY <1>1, <3>1, ChainStep
  <2>4. c \in Ringed(tip) => c \in Ringed(b)
    BY <1>1, ChainStep
  <2> QED
    BY <1>1, <2>1, <2>2, <2>3, <2>4, RingStays DEF TxoInv
<1>13. ASSUME NEW c \in Owned(b) PROVE txo'[c] \in TxoRecord
  BY <1>7, <1>8, <1>9, <1>10, <1>11, <1>12
<1>14. ASSUME NEW c \in Ready(b) PROVE RingOn(b, c, txo'[c].ring) /\ txo'[c].name = txo'[c].ring
  BY <1>2, <1>4, <1>7, <1>8, <1>9, <1>10
<1>15. ASSUME NEW c \in Owned(b) \ Ready(b)
       PROVE  /\ txo'[c].name = Zero
              /\ IF c \in Ringed(b) THEN RingOn(b, c, txo'[c].ring) ELSE txo'[c].ring = Zero
  BY <1>2, <1>4, <1>11, <1>12
<1>16. ASSUME NEW c \in unconfirmed' PROVE <<txo'[c].ring, c>> \in Spends[txo'[c].by]
  <2>1. c \in unconfirmed /\ c \in Ready(tip) \ NewlySpent(b)
    BY <1>2, <1>3
  <2> QED
    BY <1>8, <2>1 DEF TxoInv
<1>17. ASSUME NEW c \in Spent(b)
       PROVE  /\ txo'[c].at \in Branch[b]
              /\ c \in Revealed(txo'[c].at, txo'[c].ring)
              /\ <<txo'[c].ring, c>> \in Spends[txo'[c].by]
  <2>1. CASE c \in NewlySpent(b)
    BY <1>7, <2>1, BranchBelow
  <2>2. CASE c \in Spent(tip)
    <3>1. c \in Ready(tip) \ NewlySpent(b) /\ Branch[tip] \subseteq Branch[b]
      BY <1>1, <1>2, <2>2, SpentReady, ParentBelow
    <3> QED
      BY <1>8, <2>2, <3>1 DEF TxoInv
  <2> QED
    BY <1>2, <2>1, <2>2
<1>18. TxoInv'
  BY <1>1, <1>13, <1>14, <1>15, <1>16, <1>17 DEF TxoInv
<1>19. DetailsInv'
  <2>1. ringDetails' = ringDetails \cup NewRings(b)
    BY DEF InsertBlockStored
  <2>2. NewRings(b) = IF CompletesGroup(b) THEN {r \in RingsOf[b] : Members[r] \cap Mine # {}} ELSE {}
    BY <1>1, NewRingsAre DEF Inv
  <2>3. RingsFormed(b) = RingsFormed(tip) \cup (IF CompletesGroup(b) THEN RingsOf[b] ELSE {})
    BY <1>1, ChainStep
  <2>4. ringDetails' = {r \in RingsFormed(b) : Members[r] \cap Mine # {}}
    BY <2>1, <2>2, <2>3 DEF DetailsInv
  <2> QED
    BY <1>1, <2>4 DEF DetailsInv
<1> QED
  BY <1>18, <1>19

\* What Rollback writes with the TXOs of the branch below b, where it need not
\* turn a matured coinbase back.
LEMMA RollbackWrites ==
    ASSUME Inv, NoCoinbaseUnmatured, NEW b \in Blocks, Rollback(b), RollbackStored(b)
    PROVE  /\ b \in Blocks \ {Genesis} /\ tip = b /\ tip' = Parent[b] /\ Parent[b] \in Blocks
           /\ txo' = [c \in Coins |-> txo'[c]]
           /\ \A c \in Spent(Parent[b]) : txo'[c] = txo[c]
           /\ \A c \in Ready(Parent[b]) \ Spent(Parent[b]) :
                 IF c \in NewlySpent(b) THEN txo'[c] = SpendableRecord(txo[c]) ELSE txo'[c] = txo[c]
           /\ \A c \in Owned(Parent[b]) \ Ready(Parent[b]) :
                 \/ txo'[c] = txo[c] /\ ~ (CompletesGroup(b) /\ \E a \in Group(b) : c \in Created(a))
                 \/ txo'[c] = Unringed(txo[c]) /\ c \notin Ringed(Parent[b])
           /\ CompletesGroup(b) => DeletedRings(b) = {r \in RingsOf[b] : Members[r] \cap Mine # {}}
<1> DEFINE p == Parent[b]
           unmatured == UnmaturedTxos(b)
           kept == IF unmatured = {} THEN {} ELSE ToImmatureCB(b, LastUnmatured(b))
           restored == Restored(b)
           dropped == DroppedCB(b) \cup DroppedTR(b)
           unringed == UnringedTxos(b) \cup UNION {StillImmatureCB(a) : a \in UndoneBlocks(b)}
<1>1. b \in Blocks \ {Genesis} /\ tip = b /\ tip' = p /\ p \in Blocks /\ Detachable(b) /\ b \in Branch[b]
  BY ParentBelow, BranchBelow DEF Rollback
<1>2. txo' = [c \in Coins |->
          CASE c \in kept -> ImmatureCoinbaseRecord(txo[c])
            [] c \in (unmatured \cup dropped) \ kept -> Zero
            [] c \in restored \ unmatured -> SpendableRecord(txo[c])
            [] c \in unringed \ (dropped \cup unmatured) -> Unringed(txo[c])
            [] OTHER -> txo[c]]
  BY DEF RollbackStored
<1>3. unmatured = {} /\ kept = {} /\ NewMatured(b) = {}
  BY <1>1, NoneUnmatured DEF Inv
<1>4. restored = NewlySpent(b)
  BY <1>1, RestoredIs
<1>5. /\ Ready(b) = Ready(p) \cup NewReady(b) /\ Ready(p) \cap NewReady(b) = {}
      /\ NewlySpent(b) \subseteq Ready(p) /\ Ready(p) \subseteq Owned(p) /\ Spent(p) \subseteq Ready(p)
      /\ Spent(b) = Spent(p) \cup NewlySpent(b) /\ NewlySpent(b) \cap Spent(p) = {}
      /\ Owned(b) = Owned(p) \cup OwnOutputs(b) /\ Owned(b) \subseteq Mine /\ Mine \subseteq Coins
      /\ Ready(p) \subseteq Ringed(p)
  BY <1>1, ReadyStep, SpentStep, SpentReady, ChainStep, SetsAssumption
     DEF Owned, OwnOutputs, CoinbaseOutput, TransferOutputs, Ready
\* The outputs of b leave.
<1>6. dropped = OwnOutputs(b)
  <2>1. immatureCB[b] = CoinbaseOutput(b)
    BY <1>1, ImmatureStep DEF Inv, BucketsInv
  <2>2. ImmatureTRUnringed(b)[b] = TransferOutputs(b)
    BY <1>1, UnringedIs
  <2> QED
    BY <2>1, <2>2 DEF DroppedCB, DroppedTR, OwnOutputs
<1>7. dropped \cap Owned(p) = {}
  <2>1. \A a \in Branch[p] : a \in Blocks /\ Created(b) \cap Created(a) = {}
    BY <1>1, Fresh, BranchBelow
  <2>2. Owned(p) \subseteq UNION {Created(a) : a \in Branch[p]}
    BY <2>1, OutputKinds DEF Owned
  <2>3. OwnOutputs(b) \subseteq Created(b)
    BY OutputKinds
  <2> QED
    BY <1>6, <2>1, <2>2, <2>3
\* The outputs of the group lose their rings.
<1>8. ASSUME CompletesGroup(b)
      PROVE  unringed = UNION {OwnOutputs(a) : a \in Group(b)}
  <2>1. UnringedTxos(b) = UNION {TransferOutputs(a) : a \in Group(b)}
    BY <1>1, <1>8, UnringedIs DEF NewTransfers
  <2>2. ASSUME NEW a \in Group(b) PROVE a \in Branch[b] /\ a \in Blocks /\ blockOutputs[a] = OwnOutputs(a)
    BY <1>1, <1>8, NewRing DEF Inv, RecordsInv
  <2>3. ASSUME NEW a \in Group(b) PROVE StillImmatureCB(a) = CoinbaseOutput(a)
    <3>1. immatureCB[a] = CoinbaseOutput(a) \ Matured(b)
      BY <1>1, <2>2 DEF Inv, BucketsInv, ImmatureCBAt
    <3>2. Coinbase[a] \cap Matured(b) = {}
      BY <1>1, GroupYoung
    <3> QED
      BY <2>2, <3>1, <3>2 DEF StillImmatureCB, CoinbaseOutput, OwnOutputs
  <2>4. UndoneBlocks(b) = {a \in Group(b) : OwnOutputs(a) # {}}
    BY <1>8, <2>2 DEF UndoneBlocks
  <2>5. UNION {StillImmatureCB(a) : a \in UndoneBlocks(b)} = UNION {CoinbaseOutput(a) : a \in Group(b)}
    BY <2>3, <2>4 DEF OwnOutputs
  <2> QED
    BY <2>1, <2>5 DEF OwnOutputs
<1>9. ~ CompletesGroup(b) => unringed = {}
  BY <1>1, UnringedIs DEF UndoneBlocks, NewTransfers
<1>10. CompletesGroup(b) => \A a \in Group(b) :
          /\ a \in Blocks /\ Created(a) \cap Ringed(p) = {} /\ Created(a) \cap Mine = OwnOutputs(a)
  BY <1>1, NewRing, OutputKinds
<1>11. unringed \cap Ringed(p) = {}
  BY <1>8, <1>9, <1>10
<1>12. CompletesGroup(b) => DeletedRings(b) = {r \in RingsOf[b] : Members[r] \cap Mine # {}}
  <2> SUFFICES ASSUME CompletesGroup(b) PROVE DeletedRings(b) = {r \in RingsOf[b] : Members[r] \cap Mine # {}}
    OBVIOUS
  <2>1. UNION {Members[r] : r \in RingsOf[b]} = UNION {Created(a) : a \in Group(b)}
    BY RingsAssumption
  <2>2. ASSUME NEW r \in RingsOf[b] PROVE Members[r] \cap unringed = Members[r] \cap Mine
    <3>1. unringed = UNION {OwnOutputs(a) : a \in Group(b)}
      BY <1>8
    <3> HIDE DEF unringed
    <3>2. ASSUME NEW c \in Members[r], c \in Mine PROVE c \in unringed
      <4>1. PICK a \in Group(b) : c \in Created(a)
        BY <2>1, <2>2, <3>2
      <4> QED
        BY <1>10, <3>1, <3>2, <4>1
    <3>3. unringed \subseteq Mine
      BY <1>10, <3>1
    <3> QED
      BY <3>2, <3>3
  <2>3. DeletedRings(b) = {r \in RingsOf[b] : Members[r] \cap unringed # {}}
    BY DEF DeletedRings
  <2> HIDE DEF unringed
  <2> QED
    BY <2>2, <2>3
<1> HIDE DEF unmatured, kept, restored, dropped, unringed
<1>13. \A c \in Coins :
          /\ c \in restored /\ c \notin dropped /\ c \notin unringed => txo'[c] = SpendableRecord(txo[c])
          /\ c \in unringed /\ c \notin dropped /\ c \notin restored => txo'[c] = Unringed(txo[c])
          /\ c \notin restored /\ c \notin dropped /\ c \notin unringed => txo'[c] = txo[c]
  BY <1>2, <1>3
<1>14. txo' = [c \in Coins |-> txo'[c]]
  BY <1>2
<1>15. ASSUME NEW c \in Ready(p)
       PROVE IF c \in NewlySpent(b) THEN txo'[c] = SpendableRecord(txo[c]) ELSE txo'[c] = txo[c]
  BY <1>4, <1>5, <1>7, <1>11, <1>13
<1>16. ASSUME NEW c \in Owned(p) \ Ready(p)
       PROVE  \/ txo'[c] = txo[c] /\ ~ (CompletesGroup(b) /\ \E a \in Group(b) : c \in Created(a))
              \/ txo'[c] = Unringed(txo[c]) /\ c \notin Ringed(p)
  <2>1. c \in Coins /\ c \in Mine /\ c \notin restored /\ c \notin dropped
    BY <1>4, <1>5, <1>7
  <2>2. CASE c \in unringed
    BY <1>11, <1>13, <2>1, <2>2
  <2>3. CASE c \notin unringed
    BY <1>8, <1>10, <1>13, <2>1, <2>3
  <2> QED
    BY <2>2, <2>3
<1>17. \A c \in Spent(p) : txo'[c] = txo[c]
  BY <1>5, <1>15
<1> QED
  BY <1>1, <1>12, <1>14, <1>15, <1>16, <1>17

\* Rollback
LEMMA RollbackTxoInv ==
    ASSUME Inv, TxoInv, DetailsInv, NoCoinbaseUnmatured, NEW b \in Blocks, Rollback(b), RollbackStored(b)
    PROVE  TxoInv' /\ DetailsInv'
<1> DEFINE p == Parent[b]
<1>1. /\ b \in Blocks \ {Genesis} /\ tip = b /\ tip' = p /\ p \in Blocks
      /\ txo' = [c \in Coins |-> txo'[c]]
  BY RollbackWrites
<1>2. /\ Ready(b) = Ready(p) \cup NewReady(b) /\ NewReady(b) \cap Ready(p) = {}
      /\ NewlySpent(b) \subseteq Ready(p) /\ Ready(p) \subseteq Owned(p) /\ Spent(p) \subseteq Ready(p)
      /\ Spent(b) = Spent(p) \cup NewlySpent(b) /\ NewlySpent(b) \cap Spent(p) = {}
      /\ Owned(p) \subseteq Owned(b) /\ Owned(b) \subseteq Mine /\ Ready(p) \subseteq Ringed(p)
      /\ Ringed(p) \subseteq Ringed(b)
      /\ Owned(b) = Owned(p) \cup OwnOutputs(b)
  BY <1>1, ReadyStep, SpentStep, SpentReady, ChainStep
     DEF Owned, OwnOutputs, CoinbaseOutput, TransferOutputs, Ready
<1>3. unconfirmed' \subseteq unconfirmed /\ unconfirmed' \subseteq Ready(p) \ Spent(b)
  <2>1. unconfirmed' = unconfirmed \cap Ready(p)
    BY RollbackBucketsInv
  <2> QED
    BY <1>1, <2>1 DEF Inv, BucketsInv
<1>4. Zero \notin Rings
  BY ZeroAssumption
\* Still ready.
<1>5. ASSUME NEW c \in Ready(p)
      PROVE  /\ txo'[c] \in TxoRecord /\ txo'[c].ring = txo[c].ring
             /\ RingOn(p, c, txo'[c].ring) /\ txo'[c].name = txo'[c].ring
  <2>1. /\ txo[c] \in TxoRecord /\ RingOn(b, c, txo[c].ring) /\ txo[c].name = txo[c].ring
        /\ c \in Mine /\ c \in Ringed(p)
    BY <1>1, <1>2 DEF TxoInv
  <2>2. RingOn(p, c, txo[c].ring) /\ txo[c].ring \in Rings
    BY <1>1, <2>1, RingStays
  <2>3. CASE c \in NewlySpent(b)
    <3>1. txo'[c] = SpendableRecord(txo[c])
      BY <1>2, <2>3, RollbackWrites
    <3>2. UTXOHash(txo[c]) = txo[c].ring
      BY <2>1 DEF UTXOHash
    <3>3. txo'[c] = [ring |-> txo[c].ring, name |-> txo[c].ring, by |-> Zero, at |-> Zero]
      BY <2>1, <3>1, <3>2, Formats
    <3> QED
      BY <2>2, <3>3 DEF TxoRecord
  <2>4. CASE c \notin NewlySpent(b)
    <3>1. txo'[c] = txo[c]
      BY <2>4, RollbackWrites
    <3> QED
      BY <2>1, <2>2, <3>1
  <2> QED
    BY <2>3, <2>4
\* Immature below b.
<1>6. ASSUME NEW c \in Owned(p) \ Ready(p)
      PROVE  /\ txo'[c] \in TxoRecord /\ txo'[c].name = Zero
             /\ IF c \in Ringed(p) THEN RingOn(p, c, txo'[c].ring) ELSE txo'[c].ring = Zero
  <2>1. txo[c] \in TxoRecord /\ c \in Mine
    BY <1>1, <1>2 DEF TxoInv
  <2>2. CASE txo'[c] = Unringed(txo[c]) /\ c \notin Ringed(p)
    <3>1. txo'[c] = [ring |-> Zero, name |-> Zero, by |-> Zero, at |-> Zero]
      BY <2>1, <2>2, Formats
    <3> QED
      BY <2>2, <3>1 DEF TxoRecord
  <2>3. CASE txo'[c] = txo[c] /\ ~ (CompletesGroup(b) /\ \E a \in Group(b) : c \in Created(a))
    <3>1. c \notin NewReady(b)
      <4>1. c \notin NewMatured(b)
        BY <1>1, NoneUnmatured DEF Inv, Rollback
      <4>2. CompletesGroup(b) => c \notin UNION {TransferOutputs(a) : a \in Group(b)}
        BY <2>3, NewRing, OutputKinds DEF OwnOutputs
      <4> QED
        BY <4>1, <4>2 DEF NewReady, NewMatured
    <3>2. c \in Owned(b) \ Ready(b)
      BY <1>2, <3>1
    <3>3. txo[c].name = Zero /\ IF c \in Ringed(b) THEN RingOn(b, c, txo[c].ring) ELSE txo[c].ring = Zero
      BY <1>1, <3>2 DEF TxoInv
    <3>4. c \in Ringed(b) => c \in Ringed(p)
      <4>1. CompletesGroup(b) => UNION {Members[r] : r \in RingsOf[b]} = UNION {Created(a) : a \in Group(b)}
        BY RingsAssumption
      <4> QED
        BY <1>1, <2>3, <4>1, ChainStep
    <3> QED
      BY <1>1, <1>2, <2>1, <2>3, <3>3, <3>4, RingStays
  <2> QED
    BY <2>2, <2>3, RollbackWrites
<1>7. ASSUME NEW c \in unconfirmed' PROVE <<txo'[c].ring, c>> \in Spends[txo'[c].by]
  <2>1. c \in unconfirmed /\ c \in Ready(p) \ NewlySpent(b) /\ c \notin Spent(p)
    BY <1>2, <1>3
  <2>2. txo'[c] = txo[c]
    BY <2>1, RollbackWrites
  <2> QED
    BY <2>1, <2>2 DEF TxoInv
\* A TXO spent below b was not spent in b.
<1>8. ASSUME NEW c \in Spent(p)
      PROVE  /\ txo'[c].at \in Branch[p]
             /\ c \in Revealed(txo'[c].at, txo'[c].ring)
             /\ <<txo'[c].ring, c>> \in Spends[txo'[c].by]
  <2>1. txo'[c] = txo[c]
    BY <1>8, RollbackWrites
  <2>2. /\ txo[c].at \in Branch[b] /\ c \in Revealed(txo[c].at, txo[c].ring)
        /\ <<txo[c].ring, c>> \in Spends[txo[c].by]
    BY <1>1, <1>2 DEF TxoInv
  <2>3. RingOn(p, c, txo[c].ring) /\ c \in Mine
    BY <1>2, <1>5
  <2>4. c \in RevealedBy(p, txo[c].ring)
    BY <1>1, <2>3, SpentByRing DEF RingOn
  <2>5. txo[c].at # b
    BY <1>1, <2>2, <2>4, RevealedKnown
  <2>6. txo[c].at \in Branch[p]
    BY <1>1, <2>2, <2>5, ParentBelow
  <2> QED
    BY <2>1, <2>2, <2>6
<1>9. TxoInv'
  <2>1. \A c \in Owned(p) : txo'[c] \in TxoRecord
    BY <1>5, <1>6
  <2> QED
    BY <1>1, <2>1, <1>5, <1>6, <1>7, <1>8 DEF TxoInv
<1>10. DetailsInv'
  <2>1. ringDetails' = IF CompletesGroup(b) THEN ringDetails \ {r \in RingsOf[b] : Members[r] \cap Mine # {}}
                       ELSE ringDetails
    BY RollbackWrites DEF RollbackStored
  <2>2. RingsFormed(b) = RingsFormed(p) \cup (IF CompletesGroup(b) THEN RingsOf[b] ELSE {})
    BY <1>1, ChainStep
  <2>3. CompletesGroup(b) => RingsOf[b] \cap RingsFormed(p) = {}
    BY RingsAssumption
  <2>4. ringDetails = {r \in RingsFormed(b) : Members[r] \cap Mine # {}}
    BY <1>1 DEF DetailsInv
  <2>5. ringDetails' = {r \in RingsFormed(p) : Members[r] \cap Mine # {}}
    BY <2>1, <2>2, <2>3, <2>4
  <2> QED
    BY <1>1, <2>5 DEF DetailsInv
<1> QED
  BY <1>9, <1>10

\* A wallet just created has the outputs of the genesis block, and no ring.
LEMMA RecordsInitInv == RecordsInit => TxoInv /\ DetailsInv
<1> SUFFICES ASSUME RecordsInit PROVE TxoInv /\ DetailsInv
  OBVIOUS
<1>1. /\ tip = Genesis /\ Genesis \in Blocks /\ Branch[Genesis] = {Genesis}
      /\ TxsOf[Genesis] = {} /\ ~ CompletesGroup(Genesis) /\ unconfirmed = {} /\ ringDetails = {}
  BY TreeAssumption, RingsAssumption DEF RecordsInit, Init
<1>2. RingsFormed(Genesis) = {} /\ Ringed(Genesis) = {} /\ Ready(Genesis) = {} /\ Spent(Genesis) = {}
  <2>1. RingsFormed(Genesis) = {}
    BY <1>1 DEF RingsFormed
  <2> QED
    BY <2>1 DEF Ringed, Ready, Spent
<1>3. Owned(Genesis) = CoinbaseOutput(Genesis) /\ Owned(Genesis) \subseteq Coins
  BY <1>1, SetsAssumption DEF Owned, OwnOutputs, TransferOutputs, CoinbaseOutput
<1>4. txo = [c \in Coins |-> IF c \in CoinbaseOutput(Genesis) THEN Received ELSE Zero]
  BY DEF RecordsInit
<1>5. Received \in TxoRecord /\ Received.name = Zero /\ Received.ring = Zero
  BY DEF Received, TxoRecord
<1>6. \A c \in Owned(Genesis) : txo[c] = Received
  BY <1>3, <1>4
<1>7. txo = [c \in Coins |-> txo[c]]
  BY <1>4
<1>8. TxoInv
  BY <1>1, <1>2, <1>5, <1>6, <1>7 DEF TxoInv
<1> QED
  BY <1>1, <1>2, <1>8 DEF DetailsInv

\* Holding a TXO for a transaction that spends it.
LEMMA InsertTxTxoInv ==
    ASSUME Inv, TxoInv, DetailsInv, NEW t \in WalletTxs, InsertTx(t), InsertTxStored(t)
    PROVE  TxoInv' /\ DetailsInv'
<1> DEFINE own == OwnInputs(t)
<1>1. tip \in Blocks /\ tip' = tip /\ ringDetails' = ringDetails
  BY DEF Inv, TypeOK, InsertTx, records, InsertTxStored
<1>2. own \subseteq mature /\ unconfirmed' = unconfirmed \cup own
  BY DEF InsertTx
<1>3. /\ mature \subseteq Ready(tip) \ Spent(tip) /\ Ready(tip) \subseteq Owned(tip)
      /\ Spent(tip) \subseteq Ready(tip) /\ unconfirmed \subseteq Ready(tip) \ Spent(tip)
      /\ unconfirmed \cap mature = {} /\ Owned(tip) \subseteq Coins
  BY <1>1, SpentReady, SetsAssumption DEF Inv, BucketsInv, Owned, OwnOutputs, CoinbaseOutput, TransferOutputs
<1>4. /\ txo' = [c \in Coins |-> IF c \in own THEN UnconfirmedRecord(txo[c], t) ELSE txo[c]]
      /\ txo' = [c \in Coins |-> txo'[c]]
  BY DEF InsertTxStored
<1>5. \A c \in own : c \in Mine /\ \E r \in Rings : <<r, c>> \in Spends[t] /\ c \in Members[r]
  BY <1>1, OwnInputsKnown DEF Inv
<1>6. ASSUME NEW c \in own
      PROVE  /\ txo'[c] \in TxoRecord /\ txo'[c].ring = txo[c].ring /\ txo'[c].name = txo[c].name
             /\ <<txo'[c].ring, c>> \in Spends[txo'[c].by]
  <2>1. c \in Ready(tip) /\ c \in Coins /\ c \in Owned(tip)
    BY <1>2, <1>3
  <2>2. /\ txo[c] \in TxoRecord /\ RingOn(tip, c, txo[c].ring) /\ txo[c].name = txo[c].ring
    BY <2>1 DEF TxoInv
  <2>3. txo[c].ring \in Rings
    BY <1>1, <2>2, MembersCreated DEF RingOn
  <2>4. UTXOHash(txo[c]) = txo[c].ring
    BY <2>2 DEF UTXOHash
  <2>5. txo'[c] = [ring |-> txo[c].ring, name |-> txo[c].ring, by |-> t, at |-> Zero]
    BY <1>4, <2>1, <2>2, <2>4, Formats
  <2>6. PICK r \in Rings : <<r, c>> \in Spends[t] /\ c \in utxoRing[r].mine
    BY DEF OwnInputs
  <2>7. RingOn(tip, c, r)
    <3>1. utxoRing[r] = RingAt(tip, r)
      BY DEF Inv, RingsInv
    <3>2. c \in Members[r] /\ c \in Mine
      BY <2>6, <3>1, <1>1, RingAtIs
    <3>3. r \in RingsFormed(tip)
      BY <2>6, <3>1 DEF RingAt, NoRing
    <3> QED
      BY <3>2, <3>3 DEF RingOn
  <2>8. r = txo[c].ring
    BY <1>1, <2>2, <2>7, OneRing DEF RingOn
  <2>9. t \in Txs
    BY WalletTxsAssumption
  <2> QED
    BY <2>2, <2>3, <2>5, <2>6, <2>8, <2>9 DEF TxoRecord
<1>7. \A c \in Owned(tip) \ own : txo'[c] = txo[c]
  BY <1>3, <1>4
<1> HIDE DEF own
<1>8. \A c \in Owned(tip) : txo'[c] \in TxoRecord
  BY <1>6, <1>7 DEF TxoInv
<1>9. \A c \in Ready(tip) : RingOn(tip, c, txo'[c].ring) /\ txo'[c].name = txo'[c].ring
  BY <1>3, <1>6, <1>7 DEF TxoInv
<1>10. \A c \in Owned(tip) \ Ready(tip) : txo'[c] = txo[c]
  BY <1>2, <1>3, <1>7
<1>11. \A c \in unconfirmed' : <<txo'[c].ring, c>> \in Spends[txo'[c].by]
  <2>1. ASSUME NEW c \in own PROVE <<txo'[c].ring, c>> \in Spends[txo'[c].by]
    BY <1>6, <2>1
  <2>2. ASSUME NEW c \in unconfirmed \ own PROVE <<txo'[c].ring, c>> \in Spends[txo'[c].by]
    BY <1>2, <1>3, <1>7, <2>2 DEF TxoInv
  <2>3. unconfirmed' \subseteq unconfirmed \cup own
    BY <1>2
  <2> QED
    BY <2>1, <2>2, <2>3
<1>12. \A c \in Spent(tip) : txo'[c] = txo[c]
  BY <1>2, <1>3, <1>7
<1>13. TxoInv'
  <2>1. \A c \in Owned(tip) \ Ready(tip) :
           /\ txo'[c].name = Zero
           /\ IF c \in Ringed(tip) THEN RingOn(tip, c, txo'[c].ring) ELSE txo'[c].ring = Zero
    BY <1>10 DEF TxoInv
  <2>2. \A c \in Spent(tip) :
           /\ txo'[c].at \in Branch[tip]
           /\ c \in Revealed(txo'[c].at, txo'[c].ring)
           /\ <<txo'[c].ring, c>> \in Spends[txo'[c].by]
    BY <1>12 DEF TxoInv
  <2> QED
    BY <1>1, <1>4, <1>8, <1>9, <1>11, <2>1, <2>2 DEF TxoInv
<1> QED
  BY <1>1, <1>13 DEF DetailsInv

\* Giving free what a publication turned down has held.
LEMMA RejectedTxoInv ==
    ASSUME Inv, TxoInv, DetailsInv, NEW t \in Txs, ResendRejected(t), DeleteRawUnminedStored(t)
    PROVE  TxoInv' /\ DetailsInv'
<1> DEFINE freed == OwnInputs(t) \cap unconfirmed
<1>1. tip \in Blocks /\ tip' = tip /\ ringDetails' = ringDetails
  BY DEF Inv, TypeOK, ResendRejected, DeleteRawUnmined, records, DeleteRawUnminedStored
<1>2. unconfirmed' = unconfirmed \ freed
  BY DEF ResendRejected, DeleteRawUnmined
<1>3. /\ Ready(tip) \subseteq Owned(tip) /\ Spent(tip) \subseteq Ready(tip)
      /\ unconfirmed \subseteq Ready(tip) \ Spent(tip) /\ Owned(tip) \subseteq Coins
  BY <1>1, SpentReady, SetsAssumption DEF Inv, BucketsInv, Owned, OwnOutputs, CoinbaseOutput, TransferOutputs
<1>4. /\ txo' = [c \in Coins |-> IF c \in freed THEN SpendableRecord(txo[c]) ELSE txo[c]]
      /\ txo' = [c \in Coins |-> txo'[c]]
  BY DEF DeleteRawUnminedStored
<1>5. ASSUME NEW c \in freed
      PROVE  txo'[c] \in TxoRecord /\ txo'[c].ring = txo[c].ring /\ txo'[c].name = txo[c].name
  <2>1. c \in Ready(tip) /\ c \in Coins /\ c \in Owned(tip)
    BY <1>3
  <2>2. /\ txo[c] \in TxoRecord /\ RingOn(tip, c, txo[c].ring) /\ txo[c].name = txo[c].ring
    BY <2>1 DEF TxoInv
  <2>3. txo[c].ring \in Rings
    BY <1>1, <2>2, MembersCreated DEF RingOn
  <2>4. UTXOHash(txo[c]) = txo[c].ring
    BY <2>2 DEF UTXOHash
  <2>5. txo'[c] = [ring |-> txo[c].ring, name |-> txo[c].ring, by |-> Zero, at |-> Zero]
    BY <1>4, <2>1, <2>2, <2>4, Formats
  <2> QED
    BY <2>2, <2>3, <2>5 DEF TxoRecord
<1>6. \A c \in Owned(tip) \ freed : txo'[c] = txo[c]
  BY <1>3, <1>4
<1>7. freed \subseteq unconfirmed
  OBVIOUS
<1> HIDE DEF freed
<1>8. \A c \in Owned(tip) : txo'[c] \in TxoRecord
  BY <1>5, <1>6 DEF TxoInv
<1>9. \A c \in Ready(tip) : RingOn(tip, c, txo'[c].ring) /\ txo'[c].name = txo'[c].ring
  BY <1>3, <1>5, <1>6 DEF TxoInv
<1>10. \A c \in Owned(tip) \ Ready(tip) : txo'[c] = txo[c]
  BY <1>3, <1>6, <1>7
<1>11. \A c \in unconfirmed' : <<txo'[c].ring, c>> \in Spends[txo'[c].by]
  BY <1>2, <1>3, <1>6 DEF TxoInv
<1>12. \A c \in Spent(tip) : txo'[c] = txo[c]
  BY <1>3, <1>6, <1>7
<1>13. TxoInv'
  <2>1. \A c \in Owned(tip) \ Ready(tip) :
           /\ txo'[c].name = Zero
           /\ IF c \in Ringed(tip) THEN RingOn(tip, c, txo'[c].ring) ELSE txo'[c].ring = Zero
    BY <1>10 DEF TxoInv
  <2>2. \A c \in Spent(tip) :
           /\ txo'[c].at \in Branch[tip]
           /\ c \in Revealed(txo'[c].at, txo'[c].ring)
           /\ <<txo'[c].ring, c>> \in Spends[txo'[c].by]
    BY <1>12 DEF TxoInv
  <2> QED
    BY <1>1, <1>4, <1>8, <1>9, <1>11, <2>1, <2>2 DEF TxoInv
<1> QED
  BY <1>1, <1>13 DEF DetailsInv

\* What is written with each TXO, and the details of rings, are what the branch
\* says of them: InsertBlock, Rollback, InsertTx and DeleteRawUnmined rewrite
\* every TXO they move so.
THEOREM RecordsInvariance ==
    ASSUME NoCoinbaseUnmatured PROVE RecordsSpec => [](Inv /\ TxoInv /\ DetailsInv)
<1>1. RecordsInit => Inv /\ TxoInv /\ DetailsInv
  BY InitInv, RecordsInitInv DEF RecordsInit
<1>2. ASSUME Inv, TxoInv, DetailsInv, [RecordsNext]_<<vars, stored>> PROVE Inv' /\ TxoInv' /\ DetailsInv'
  <2>1. [Next]_vars
    BY <1>2 DEF RecordsNext, Next
  <2>2. Inv'
    BY <1>2, <2>1, NextInv
  <2>3. ASSUME UNCHANGED <<tip, unconfirmed>>, UNCHANGED stored PROVE TxoInv' /\ DetailsInv'
    BY <1>2, <2>3 DEF TxoInv, DetailsInv, stored
  <2>4. ASSUME NEW b \in Blocks, InsertBlock(b), InsertBlockStored(b) PROVE TxoInv' /\ DetailsInv'
    BY <1>2, <2>4, InsertBlockTxoInv
  <2>5. ASSUME NEW b \in Blocks, Rollback(b), RollbackStored(b) PROVE TxoInv' /\ DetailsInv'
    BY <1>2, <2>5, RollbackTxoInv
  <2>6. ASSUME NEW t \in WalletTxs, InsertTx(t), InsertTxStored(t) PROVE TxoInv' /\ DetailsInv'
    BY <1>2, <2>6, InsertTxTxoInv
  <2>7. ASSUME ResendRead, UNCHANGED stored PROVE TxoInv' /\ DetailsInv'
    BY <2>3, <2>7 DEF ResendRead, records, txos
  <2>8. ASSUME NEW t \in Txs, ResendAccepted(t), UNCHANGED stored PROVE TxoInv' /\ DetailsInv'
    BY <2>3, <2>8 DEF ResendAccepted, records, txos
  <2>9. ASSUME NEW t \in Txs, ResendRejected(t), DeleteRawUnminedStored(t) PROVE TxoInv' /\ DetailsInv'
    BY <1>2, <2>9, RejectedTxoInv
  <2>10. ASSUME UNCHANGED <<vars, stored>> PROVE TxoInv' /\ DetailsInv'
    BY <2>3, <2>10 DEF vars, records, txos
  <2> QED
    BY <1>2, <2>2, <2>4, <2>5, <2>6, <2>7, <2>8, <2>9, <2>10 DEF RecordsNext
<1> QED
  BY <1>1, <1>2, PTL DEF RecordsSpec

\* A TXO that can be spent knows its ring, and the ring the TXO; one that Rollback
\* made immature knows none.
THEOREM RingsAlwaysKnown ==
    ASSUME NoCoinbaseUnmatured PROVE RecordsSpec => []RingsKnown
<1>1. Inv /\ TxoInv /\ DetailsInv => RingsKnown
  <2> SUFFICES ASSUME Inv, TxoInv, DetailsInv PROVE RingsKnown
    OBVIOUS
  <2>1. tip \in Blocks /\ mature \cup unconfirmed = Ready(tip) \ Spent(tip)
    BY DEF Inv, TypeOK, BucketsInv
  <2>2. ASSUME NEW c \in mature \cup unconfirmed
        PROVE  /\ txo[c].ring \in ringDetails \cap RingsFormed(tip)
               /\ c \in Members[txo[c].ring] \cap utxoRing[txo[c].ring].mine
    <3> DEFINE r == txo[c].ring
    <3>1. RingOn(tip, c, r) /\ c \in Mine
      BY <2>1, <2>2 DEF TxoInv, Ready, Owned, OwnOutputs, CoinbaseOutput, TransferOutputs
    <3> HIDE DEF r
    <3>2. r \in RingsFormed(tip) /\ c \in Members[r] \cap Mine /\ r \in Rings
      BY <2>1, <3>1, MembersCreated DEF RingOn
    <3>3. c \notin RevealedBy(tip, r)
      BY <2>1, <2>2, <3>2, SpentByRing
    <3>4. utxoRing[r] = RingAt(tip, r)
      BY <3>2 DEF Inv, RingsInv
    <3>5. utxoRing[r].mine = Members[r] \cap Mine
      BY <2>1, <3>2, <3>3, <3>4, RingAtIs
    <3>6. r \in ringDetails
      BY <3>2 DEF DetailsInv
    <3> QED
      BY <3>2, <3>5, <3>6 DEF r
  <2>3. ASSUME NEW c \in AllImmatureTR PROVE txo[c].ring = Zero
    <3>1. c \in Owned(tip) \ Ready(tip)
      BY <2>1, <2>3, LedgerBuckets DEF Inv
    <3>2. c \notin Ringed(tip)
      BY <2>3 DEF Inv, BucketsInv, AllImmatureTR, ImmatureTRAt
    <3> QED
      BY <3>1, <3>2 DEF TxoInv
  <2> QED
    BY <2>2, <2>3 DEF RingsKnown
<1> QED
  BY <1>1, RecordsInvariance, PTL

\* A spent TXO names a block of the branch that revealed its serial number, and
\* a transaction that spends it.
THEOREM AlwaysSpentHere ==
    ASSUME NoCoinbaseUnmatured PROVE RecordsSpec => []SpentHere
<1>1. Inv /\ TxoInv /\ DetailsInv => SpentHere
  BY DEF Inv, BucketsInv, TxoInv, SpentHere
<1> QED
  BY <1>1, RecordsInvariance, PTL

-----------------------------------------------------------------------------
(* What is written with a TXO where matured coinbases are turned back *)

Immature == AllImmatureCB \cup AllImmatureTR

\* The hash of a TXO that has one is that of what it is; of one that has none yet
\* it will be.
Recorded(x) == x = [f \in {"ring", "name", "by", "at"} |-> x[f]]
Named(x) == Recorded(x) /\ x.name = x.ring
Unnamed(x) == Recorded(x) /\ x.name = Zero

NamesInv ==
    /\ \A c \in Placed : Named(txo[c])
    /\ \A c \in Immature : Unnamed(txo[c])

\* Whichever format a TXO is written in, the hash is that of the ring or not there.
LEMMA Rewritten ==
    ASSUME NEW x, Named(x) \/ Unnamed(x), NEW t, NEW b
    PROVE  /\ Unnamed(ImmatureRecord(x)) /\ Unnamed(ImmatureCoinbaseRecord(x)) /\ Unnamed(Unringed(x))
           /\ Named(SpendableRecord(x)) /\ Named(UnconfirmedRecord(x, t)) /\ Named(ConfirmedRecord(x, t, b))
<1>1. Recorded(x) /\ UTXOHash(x) = x.ring
  BY DEF Named, Unnamed, UTXOHash
<1>2. Unnamed(ImmatureRecord(x)) /\ Unnamed(ImmatureCoinbaseRecord(x))
  BY <1>1 DEF Unnamed, Recorded, ImmatureRecord, ImmatureCoinbaseRecord
<1>3. Unnamed(Unringed(x))
  <2> DEFINE y == [x EXCEPT !.ring = Zero]
  <2>1. Recorded(y)
    BY <1>1 DEF Recorded
  <2> HIDE DEF y
  <2>2. Unnamed(ImmatureRecord(y))
    BY <2>1 DEF Unnamed, Recorded, ImmatureRecord
  <2> QED
    BY <2>2 DEF y, Unringed
<1>4. Named(SpendableRecord(x))
  BY <1>1 DEF Named, Recorded, SpendableRecord
<1>5. Named(UnconfirmedRecord(x, t))
  BY <1>4 DEF Named, Recorded, UnconfirmedRecord
<1>6. Named(ConfirmedRecord(x, t, b))
  BY <1>5 DEF Named, Recorded, ConfirmedRecord
<1> QED
  BY <1>2, <1>3, <1>4, <1>5, <1>6

\* A ring is recorded without a hash.
LEMMA RingWritten ==
    ASSUME NEW b, NEW c, NEW x, Unnamed(x)
    PROVE  Unnamed(WithRing(b, c, x))
<1> DEFINE rings == {r \in NewRings(b) : c \in Members[r]}
           r == CHOOSE q \in rings : TRUE
<1>1. WithRing(b, c, x) = IF rings = {} THEN x ELSE [x EXCEPT !.ring = r]
  BY DEF WithRing
<1> HIDE DEF rings, r
<1>2. Unnamed([x EXCEPT !.ring = r])
  BY DEF Unnamed, Recorded
<1> QED
  BY <1>1, <1>2

\* Where the TXOs that InsertBlock writes come from.
LEMMA InsertMoves ==
    ASSUME TypeOK, PlacesInv, NEW b \in Blocks, InsertBlock(b)
    PROVE  /\ SpentMature(b) \subseteq Placed /\ SpentUnconfirmed(b) \subseteq Placed
           /\ Placed' = Placed \cup MaturedCoinbases(b) \cup MaturedTransfers(b)
           /\ Immature' \subseteq Immature \cup OwnOutputs(b)
           /\ MaturedCoinbases(b) \subseteq Immature
           /\ MaturedTransfers(b) \subseteq Immature \cup OwnOutputs(b)
           /\ GroupCoins(b) \subseteq Immature \cup OwnOutputs(b)
           /\ (Immature \cup OwnOutputs(b)) \cap Placed = {}
           /\ OwnOutputs(b) \cap Immature = {}
           /\ MaturedTransfers(b) \subseteq GroupCoins(b) \ CoinbaseCoins
           /\ MaturedCoinbases(b) \cap (OwnOutputs(b) \cup GroupCoins(b)) = {}
<1>1. b \in Blocks \ {Genesis} /\ Parent[b] = tip /\ InsertBlockTxos(b) /\ OneBucket /\ TransfersPlaced
  BY DEF InsertBlock, PlacesInv
<1>2. SpentMature(b) \subseteq mature /\ SpentUnconfirmed(b) \subseteq unconfirmed
  BY DEF SpentMature, SpentUnconfirmed
<1>3. Placed' = Placed \cup MaturedCoinbases(b) \cup MaturedTransfers(b)
  BY <1>1, <1>2 DEF InsertBlockTxos, Placed
<1>4. CoinbaseOutput(b) \subseteq OwnOutputs(b) /\ TransferOutputs(b) \subseteq OwnOutputs(b)
  BY DEF OwnOutputs
<1>5. \A a \in Blocks : immatureCB[a] \subseteq Immature /\ immatureTR[a] \subseteq Immature
  BY DEF Immature, AllImmatureCB, AllImmatureTR
<1>6. ASSUME NEW c \in Immature' PROVE c \in Immature \cup OwnOutputs(b)
  <2>1. PICK a \in Blocks : c \in immatureCB'[a] \/ c \in immatureTR'[a]
    BY <1>6 DEF Immature, AllImmatureCB, AllImmatureTR
  <2>2. CASE c \in immatureCB'[a]
    BY <1>1, <1>4, <1>5, <2>2 DEF InsertBlockTxos
  <2>3. CASE c \in immatureTR'[a]
    BY <1>1, <1>4, <1>5, <2>3 DEF InsertBlockTxos
  <2> QED
    BY <2>1, <2>2, <2>3
<1>7. MaturedCoinbases(b) \subseteq Immature
  BY <1>1, <1>5, MaturedNew DEF MaturedCoinbases
<1>8. \A a \in GroupBlocks(b) : a \in Blocks
  BY BranchBelow DEF GroupBlocks, Group
<1>9. GroupTransfers(b) \subseteq Immature
  BY <1>5, <1>8 DEF GroupTransfers
<1>10. MaturedTransfers(b) \subseteq Immature \cup OwnOutputs(b)
  BY <1>4, <1>9 DEF MaturedTransfers
<1>11. GroupCoins(b) \subseteq Immature \cup OwnOutputs(b)
  BY <1>4, <1>5, <1>8, <1>9 DEF GroupCoins
<1>12. OwnOutputs(b) \cap Placed = {} /\ OwnOutputs(b) \cap Immature = {}
  BY <1>1, NewOutputs DEF Immature, AllImmatureCB, AllImmatureTR
<1>13. Immature \cap Placed = {}
  BY <1>1, Apart DEF Immature, AllImmatureCB, AllImmatureTR
<1>14. MaturedTransfers(b) \subseteq GroupCoins(b) \ CoinbaseCoins
  <2>1. \A a \in Blocks : TransferOutputs(a) \cap CoinbaseCoins = {}
    BY OutputKinds
  <2>2. GroupTransfers(b) \cap CoinbaseCoins = {}
    BY <1>1, <1>8, <2>1 DEF GroupTransfers, TransfersPlaced
  <2> QED
    BY <2>1, <2>2 DEF MaturedTransfers, GroupCoins
\* The coinbases that mature are of an earlier group.
<1>15. ASSUME NEW c \in MaturedCoinbases(b) PROVE c \notin OwnOutputs(b) /\ c \notin GroupCoins(b)
  <2>1. PICK a \in MaturedBlocks(b) : c \in immatureCB[a]
    BY <1>15 DEF MaturedCoinbases
  <2>2. a \in Blocks /\ MaturesGroup(b) /\ Height[a] \in MaturedHeights(b) /\ Height[a] \in Nat /\ Height[b] \in Nat
    BY <1>1, <2>1, MaturedNew, TreeAssumption DEF MaturedBlocks
  <2>3. Height[a] <= Height[b] - GroupSize
    BY <2>2, GroupAssumption DEF MaturedHeights
  <2>4. c \in Immature /\ c \notin OwnOutputs(b)
    BY <1>5, <1>12, <2>1, <2>2
  <2>5. ASSUME NEW x \in GroupBlocks(b) PROVE c \notin immatureCB[x] /\ c \notin immatureTR[x]
    <3>1. x \in Blocks /\ x # a
      BY <1>8, <2>2, <2>3, <2>5, GroupAssumption DEF GroupBlocks, Group
    <3> QED
      BY <1>1, <2>1, <2>2, <3>1, Apart
  <2> QED
    BY <1>4, <2>4, <2>5 DEF GroupCoins, GroupTransfers
<1> QED
  BY <1>2, <1>3, <1>6, <1>7, <1>10, <1>11, <1>12, <1>13, <1>14, <1>15 DEF Placed

\* The buckets of TXOs with a ring and the immature ones are apart after a step too.
LEMMA ApartAfter ==
    ASSUME OneBucket'
    PROVE  Immature' \cap Placed' = {}
  BY DEF OneBucket, Immature, AllImmatureCB, AllImmatureTR, Placed

\* The hashes InsertBlock writes.
LEMMA InsertNames ==
    ASSUME TypeOK, PlacesInv, NamesInv, NEW b \in Blocks, InsertBlock(b), InsertBlockStored(b)
    PROVE  NamesInv'
<1> DEFINE own == OwnOutputs(b)
           group == GroupCoins(b)
           sm == SpentMature(b)
           sh == SpentUnconfirmed(b)
           cb == MaturedCoinbases(b)
           tr == MaturedTransfers(b)
           before(c) == IF c \in own THEN Received ELSE txo[c]
<1>1. /\ sm \subseteq Placed /\ sh \subseteq Placed /\ Placed' = Placed \cup cb \cup tr
      /\ Immature' \subseteq Immature \cup own /\ cb \subseteq Immature
      /\ tr \subseteq Immature \cup own /\ group \subseteq Immature \cup own
      /\ (Immature \cup own) \cap Placed = {}
      /\ tr \subseteq group \ CoinbaseCoins /\ cb \cap (own \cup group) = {}
  BY InsertMoves
<1>2. \A c \in Coins : txo'[c] =
          CASE c \in sm -> ConfirmedRecord(txo[c], Spender(b, c), b)
            [] c \in sh -> HeldSpent(txo[c], b)
            [] c \in cb -> SpendableRecord(txo[c])
            [] c \in tr -> SpendableRecord(WithRing(b, c, before(c)))
            [] c \in (own \cup group) \cap CoinbaseCoins ->
                  ImmatureCoinbaseRecord(WithRing(b, c, before(c)))
            [] c \in ((own \cup group) \ CoinbaseCoins) \ tr ->
                  ImmatureRecord(WithRing(b, c, before(c)))
            [] OTHER -> txo[c]
  BY DEF InsertBlockStored
<1>3. own \subseteq Coins /\ Immature \subseteq Coins /\ Placed \subseteq Coins
  BY ChainTypes DEF OwnOutputs, Immature, AllImmatureCB, AllImmatureTR, Placed, TypeOK
<1>4. ASSUME NEW c \in own \cup Immature PROVE Unnamed(WithRing(b, c, before(c)))
  <2>1. Unnamed(Received)
    BY DEF Unnamed, Recorded, Received
  <2>2. Unnamed(before(c))
    BY <1>4, <2>1 DEF NamesInv
  <2> HIDE DEF before
  <2> QED
    BY <2>2, RingWritten
<1>5. PlacesInv' /\ Immature' \cap Placed' = {}
  <2>1. PlacesInv'
    BY InsertPlaces
  <2> QED
    BY <2>1, ApartAfter DEF PlacesInv
<1> DEFINE w(c) == WithRing(b, c, before(c))
<1>6. \A c \in own \cup Immature : Unnamed(w(c))
  BY <1>4
<1> HIDE DEF own, group, sm, sh, cb, tr, before, w
<1>7. ASSUME NEW c \in Placed' PROVE Named(txo'[c])
  <2>1. c \in Coins
    BY <1>1, <1>3, <1>7
  <2>2. CASE c \in Placed
    <3>1. Named(txo[c]) /\ c \notin own /\ c \notin group /\ c \notin cb /\ c \notin tr
      BY <1>1, <2>2 DEF NamesInv
    <3>2. txo'[c] \in {ConfirmedRecord(txo[c], Spender(b, c), b), HeldSpent(txo[c], b), txo[c]}
      BY <1>2, <2>1, <3>1
    <3> QED
      BY <3>1, <3>2, Rewritten DEF HeldSpent
  <2>3. CASE c \notin Placed
    <3>1. c \in cb \cup tr /\ c \notin sm /\ c \notin sh
      BY <1>1, <1>7, <2>3
    <3>2. CASE c \in cb
      <4>1. txo'[c] = SpendableRecord(txo[c]) /\ Unnamed(txo[c])
        BY <1>1, <1>2, <2>1, <3>1, <3>2 DEF NamesInv
      <4> QED
        BY <4>1, Rewritten
    <3>3. CASE c \notin cb
      <4>1. txo'[c] = SpendableRecord(w(c)) /\ Unnamed(w(c))
        BY <1>1, <1>2, <1>6, <2>1, <3>1, <3>3 DEF w
      <4> QED
        BY <4>1, Rewritten
    <3> QED
      BY <3>2, <3>3
  <2> QED
    BY <2>2, <2>3
<1>8. ASSUME NEW c \in Immature' PROVE Unnamed(txo'[c])
  <2>1. c \in Coins /\ c \in Immature \cup own
        /\ c \notin Placed /\ c \notin sm /\ c \notin sh /\ c \notin cb /\ c \notin tr
    BY <1>1, <1>3, <1>5, <1>8
  <2>2. CASE c \in own \cup group
    <3>1. txo'[c] \in {ImmatureCoinbaseRecord(w(c)), ImmatureRecord(w(c))} /\ Unnamed(w(c))
      BY <1>2, <1>6, <2>1, <2>2 DEF w
    <3> QED
      BY <3>1, Rewritten
  <2>3. CASE c \notin own \cup group
    <3>1. txo'[c] = txo[c] /\ c \in Immature
      BY <1>2, <2>1, <2>3
    <3> QED
      BY <3>1 DEF NamesInv
  <2> QED
    BY <2>2, <2>3
<1> QED
  BY <1>7, <1>8 DEF NamesInv

\* The hashes Rollback writes.
LEMMA RollbackNames ==
    ASSUME CoinbasesStay, TypeOK, PlacesInv, NamesInv, NEW b \in Blocks, Rollback(b), RollbackStored(b)
    PROVE  NamesInv'
<1> DEFINE unmatured == UnmaturedTxos(b)
           kept == IF unmatured = {} THEN {} ELSE ToImmatureCB(b, LastUnmatured(b))
           restored == Restored(b)
           dropped == DroppedCB(b) \cup DroppedTR(b)
           moved == UnringedTxos(b)
           unringed == moved \cup UNION {StillImmatureCB(a) : a \in UndoneBlocks(b)}
<1>1. \A c \in Coins : txo'[c] =
          CASE c \in kept -> ImmatureCoinbaseRecord(txo[c])
            [] c \in (unmatured \cup dropped) \ kept -> Zero
            [] c \in restored \ unmatured -> SpendableRecord(txo[c])
            [] c \in unringed \ (dropped \cup unmatured) -> Unringed(txo[c])
            [] OTHER -> txo[c]
  BY DEF RollbackStored
<1>2. /\ Placed' = (Placed \ moved) \ unmatured /\ moved \subseteq Placed
      /\ unmatured \subseteq Placed \ moved /\ restored \subseteq Placed \ moved
      /\ \A a \in Blocks : immatureTR'[a] = IF a = b THEN {} ELSE ImmatureTRUnringed(b)[a]
      /\ immatureCB'[b] = IF UnmaturedBlocks(b) = {} THEN {} ELSE ToImmatureCB(b, LastUnmatured(b))
      /\ \A a \in Blocks \ {b} : immatureCB'[a] = immatureCB[a]
  BY RollbackMoves
<1>3. OneBucket /\ Placed \subseteq Coins /\ \A a \in Blocks : immatureCB[a] \subseteq Coins /\ immatureTR[a] \subseteq Coins
  BY DEF PlacesInv, Placed, TypeOK
<1>4. ASSUME NEW a \in Blocks, NEW c \in ImmatureTRUnringed(b)[a]
      PROVE  a \in Branch[b] /\ c \in Created(a) /\ c \in moved \cup immatureTR[a]
  <2>1. a \in Branch[b] /\ c \in TransferOutputs(a) /\ c \in moved \cup immatureTR[a]
    BY <1>4, RollbackMoves
  <2> QED
    BY <2>1, OutputKinds DEF OwnOutputs
<1>5. kept \subseteq unmatured
  <2> SUFFICES ASSUME unmatured # {} PROVE ToImmatureCB(b, LastUnmatured(b)) \subseteq unmatured
    OBVIOUS
  <2>1. UnmaturedBlocks(b) # {}
    BY DEF UnmaturedTxos
  <2>2. LastUnmatured(b) \in UnmaturedBlocks(b)
    BY <2>1, LastUnmaturedIs
  <2> QED
    BY <2>2 DEF UnmaturedTxos
<1>6. immatureCB'[b] \subseteq kept
  <2> SUFFICES ASSUME UnmaturedBlocks(b) # {}, NEW c \in ToImmatureCB(b, LastUnmatured(b))
               PROVE  c \in unmatured
    BY <1>2
  <2>1. LastUnmatured(b) \in UnmaturedBlocks(b)
    BY LastUnmaturedIs
  <2> QED
    BY <2>1 DEF UnmaturedTxos
<1>7. \A c \in Placed : Named(txo[c])
  BY DEF NamesInv
<1>8. \A a \in Blocks : \A c \in immatureCB[a] \cup immatureTR[a] : Unnamed(txo[c]) /\ c \notin Placed
  BY <1>3, Apart DEF NamesInv, Immature, AllImmatureCB, AllImmatureTR
<1>9. ASSUME NEW c \in unringed PROVE c \in moved \/ \E a \in Blocks : c \in immatureCB[a]
  BY <1>9, BranchBelow DEF StillImmatureCB, UndoneBlocks, Group
<1>10. dropped \cap (Placed \ moved) = {}
  BY <1>4, <1>8 DEF DroppedCB, DroppedTR
<1>11. dropped = immatureCB[b] \cup ImmatureTRUnringed(b)[b]
  BY DEF DroppedCB, DroppedTR
<1> HIDE DEF unmatured, kept, restored, dropped, moved, unringed
\* What stays in the buckets of TXOs with a ring.
<1>12. ASSUME NEW c \in Placed' PROVE Named(txo'[c])
  <2>1. c \in Placed /\ c \notin moved /\ c \notin unmatured /\ c \notin kept /\ c \in Coins
    BY <1>2, <1>3, <1>5, <1>12
  <2>2. c \notin dropped /\ c \notin unringed
    BY <1>8, <1>9, <1>10, <2>1
  <2>3. txo'[c] \in {SpendableRecord(txo[c]), txo[c]}
    BY <1>1, <2>1, <2>2
  <2> QED
    BY <1>7, <2>1, <2>3, Rewritten
\* The coinbases that are immature again.
<1>13. ASSUME NEW c \in immatureCB'[b] PROVE Unnamed(txo'[c])
  <2>1. c \in kept /\ c \in unmatured /\ c \in Placed /\ c \in Coins
    BY <1>2, <1>3, <1>5, <1>6, <1>13
  <2>2. txo'[c] = ImmatureCoinbaseRecord(txo[c])
    BY <1>1, <2>1
  <2> QED
    BY <1>7, <2>1, <2>2, Rewritten
\* The other entries of the immature buckets.
<1>14. ASSUME NEW c \in Coins, Named(txo[c]) \/ Unnamed(txo[c]), c \in moved \/ Unnamed(txo[c]),
              c \notin dropped, c \notin unmatured, c \notin restored
       PROVE  Unnamed(txo'[c])
  <2>1. c \notin kept
    BY <1>5, <1>14
  <2>2. CASE c \in unringed
    <3>1. txo'[c] = Unringed(txo[c])
      BY <1>1, <1>14, <2>1, <2>2
    <3> QED
      BY <1>14, <3>1, Rewritten
  <2>3. CASE c \notin unringed
    <3>1. c \notin moved
      BY <2>3 DEF unringed
    <3>2. txo'[c] = txo[c]
      BY <1>1, <1>14, <2>1, <2>3
    <3> QED
      BY <1>14, <3>1, <3>2
  <2> QED
    BY <2>2, <2>3
<1>15. ASSUME NEW a \in Blocks \ {b}, NEW c \in immatureCB'[a] PROVE Unnamed(txo'[c])
  <2>1. c \in immatureCB[a] /\ c \in Coins /\ Unnamed(txo[c]) /\ c \notin Placed
    BY <1>2, <1>3, <1>8, <1>15
  <2>2. c \notin immatureCB[b] /\ c \notin immatureTR[b]
    BY <1>3, <1>15, <2>1, Apart
  <2>3. c \notin dropped
    BY <1>2, <1>4, <1>11, <2>1, <2>2
  <2> QED
    BY <1>2, <1>14, <2>1, <2>3
<1>16. ASSUME NEW a \in Blocks, NEW c \in immatureTR'[a] PROVE Unnamed(txo'[c])
  <2>1. a # b /\ c \in ImmatureTRUnringed(b)[a]
    BY <1>2, <1>16
  <2>2. a \in Branch[b] /\ b \in Branch[b] /\ c \in Created(a) /\ c \in moved \cup immatureTR[a]
    BY <1>4, <2>1, BranchBelow
  <2>3. c \notin Created(b)
    BY <2>1, <2>2, CreatedOnce
  <2>4. c \notin immatureCB[b]
    BY <1>2, <1>3, <1>8, <2>2, Apart
  <2>5. c \notin dropped
    BY <1>4, <1>11, <2>3, <2>4
  <2>6. CASE c \in moved
    <3>1. c \in Coins /\ Named(txo[c]) /\ c \notin unmatured /\ c \notin restored
      BY <1>2, <1>3, <1>7, <2>6
    <3> QED
      BY <1>14, <2>5, <2>6, <3>1
  <2>7. CASE c \in immatureTR[a]
    <3>1. c \in Coins /\ Unnamed(txo[c]) /\ c \notin Placed
      BY <1>3, <1>8, <2>7
    <3> QED
      BY <1>2, <1>14, <2>5, <3>1
  <2> QED
    BY <2>2, <2>6, <2>7
<1>17. \A c \in Immature' : Unnamed(txo'[c])
  BY <1>13, <1>15, <1>16 DEF Immature, AllImmatureCB, AllImmatureTR
<1> QED
  BY <1>12, <1>17 DEF NamesInv

\* A step that only moves TXOs between the buckets of those with a ring.
LEMMA HeldNames ==
    ASSUME NamesInv, UNCHANGED <<immatureCB, immatureTR>>, Placed' = Placed, Immature \cap Placed = {},
           NEW S \in SUBSET Placed,
           \A c \in S : Named(txo'[c]), \A c \in (Placed \cup Immature) \ S : txo'[c] = txo[c]
    PROVE  NamesInv'
<1>1. Immature' = Immature
  BY DEF Immature, AllImmatureCB, AllImmatureTR
<1> QED
  BY <1>1 DEF NamesInv

\* SpendableTXO.Hash, computed once and carried from bucket to bucket, is the
\* hash of the TXO as it is now, whatever was detached and attached since.
THEOREM NamesAlwaysFresh ==
    ASSUME CoinbasesStay PROVE RecordsSpec => []NamesFresh
<1>1. RecordsInit => TypeOK /\ PlacesInv /\ NamesInv
  <2> SUFFICES ASSUME RecordsInit PROVE NamesInv
    BY InitType, InitPlaces DEF RecordsInit
  <2>1. Placed = {} /\ Immature = CoinbaseOutput(Genesis) /\ CoinbaseOutput(Genesis) \subseteq Coins
    BY TreeAssumption, ChainTypes DEF RecordsInit, Init, Placed, Immature, AllImmatureCB, AllImmatureTR
  <2>2. \A c \in CoinbaseOutput(Genesis) : txo[c] = Received
    BY <2>1 DEF RecordsInit
  <2> QED
    BY <2>1, <2>2 DEF NamesInv, Unnamed, Recorded, Received
<1>2. ASSUME TypeOK, PlacesInv, NamesInv, [RecordsNext]_<<vars, stored>> PROVE PlacesInv' /\ NamesInv'
  <2>1. [Next]_vars
    BY <1>2 DEF RecordsNext, Next
  <2>2. PlacesInv'
    BY <1>2, <2>1, NextPlaces
  <2>3. ASSUME NEW b \in Blocks, InsertBlock(b), InsertBlockStored(b) PROVE NamesInv'
    BY <1>2, <2>3, InsertNames
  <2>4. ASSUME NEW b \in Blocks, Rollback(b), RollbackStored(b) PROVE NamesInv'
    BY <1>2, <2>4, RollbackNames
  <2>5. Immature \cap Placed = {} /\ Placed \subseteq Coins /\ Immature \subseteq Coins
    BY <1>2, Apart DEF PlacesInv, Immature, AllImmatureCB, AllImmatureTR, Placed, TypeOK
  <2>6. ASSUME NEW t \in WalletTxs, InsertTx(t), InsertTxStored(t) PROVE NamesInv'
    <3> DEFINE own == OwnInputs(t)
    <3>1. /\ UNCHANGED <<immatureCB, immatureTR>> /\ own \subseteq mature /\ Placed' = Placed
          /\ own \subseteq Placed
      BY <2>6 DEF InsertTx, immature, Placed
    <3>2. \A c \in Coins : txo'[c] = IF c \in own THEN UnconfirmedRecord(txo[c], t) ELSE txo[c]
      BY <2>6 DEF InsertTxStored
    <3> HIDE DEF own
    <3>3. \A c \in own : Named(txo'[c])
      BY <1>2, <2>5, <3>1, <3>2, Rewritten DEF NamesInv
    <3> QED
      BY <1>2, <2>5, <3>1, <3>2, <3>3, HeldNames
  <2>7. ASSUME NEW t \in Txs, ResendRejected(t), DeleteRawUnminedStored(t) PROVE NamesInv'
    <3> DEFINE freed == OwnInputs(t) \cap unconfirmed
    <3>1. /\ UNCHANGED <<immatureCB, immatureTR>> /\ freed \subseteq Placed /\ Placed' = Placed
      BY <2>7 DEF ResendRejected, DeleteRawUnmined, immature, Placed
    <3>2. \A c \in Coins : txo'[c] = IF c \in freed THEN SpendableRecord(txo[c]) ELSE txo[c]
      BY <2>7 DEF DeleteRawUnminedStored
    <3> HIDE DEF freed
    <3>3. \A c \in freed : Named(txo'[c])
      BY <1>2, <2>5, <3>1, <3>2, Rewritten DEF NamesInv
    <3> QED
      BY <1>2, <2>5, <3>1, <3>2, <3>3, HeldNames
  <2>8. ASSUME UNCHANGED <<immatureCB, immatureTR, txos, stored>> PROVE NamesInv'
    BY <1>2, <2>8 DEF NamesInv, Placed, Immature, AllImmatureCB, AllImmatureTR, txos, stored
  <2>9. ASSUME ResendRead \/ \E t \in Txs : ResendAccepted(t), UNCHANGED stored PROVE NamesInv'
    BY <2>8, <2>9 DEF ResendRead, ResendAccepted, immature
  <2>10. ASSUME UNCHANGED <<vars, stored>> PROVE NamesInv'
    BY <2>8, <2>10 DEF vars, immature
  <2> QED
    BY <1>2, <2>2, <2>3, <2>4, <2>6, <2>7, <2>9, <2>10 DEF RecordsNext
<1>3. NamesInv => NamesFresh
  BY DEF NamesInv, Named, NamesFresh, Placed
<1>4. RecordsSpec => Spec
  <2>1. RecordsInit => Init
    BY DEF RecordsInit
  <2>2. [RecordsNext]_<<vars, stored>> => [Next]_vars
    BY DEF RecordsNext, Next
  <2> QED
    BY <2>1, <2>2, PTL DEF RecordsSpec, Spec
<1> QED
  BY <1>1, <1>2, <1>3, <1>4, TypeCorrect, PTL DEF RecordsSpec

-----------------------------------------------------------------------------
(* CtautLedger: tokens and their counters *)

Disabled == UNION {disabledBy[a] : a \in Blocks}

\* A token is marked if a block of the branch spends its TXO or disables it.
MarksInv ==
    /\ autCoins = Owned(tip) \cap TokenCoins
    /\ disabledBy = [a \in Blocks |-> disabledBy[a]]
    /\ \A a \in Blocks : disabledBy[a] # {} =>
          a \in Branch[tip] \ {Genesis} /\ disabledBy[a] \subseteq Disables(a)
    /\ \A a, x \in Blocks : a # x => disabledBy[a] \cap disabledBy[x] = {}
    /\ autSpent = (Spent(tip) \cap TokenCoins) \cup Disabled

One(c, S) == IF c \in S THEN 1 ELSE 0

\* The totals are those of the marks.
TotalsInv ==
    /\ tokTotal \in [Coins -> Int] /\ tokSpendable \in [Coins -> Int]
    /\ tokImmature \in [Coins -> Int] /\ tokUnconfirmed \in [Coins -> Int]
    /\ \A c \in Coins :
          /\ tokTotal[c] = One(c, autCoins \ autSpent)
          /\ tokTotal[c] = tokSpendable[c] + tokImmature[c] + tokUnconfirmed[c]

\* The other counters are those of the buckets, as far as nothing was turned
\* down; what is disabled counts as less spendable, in whichever bucket it is.
CountersInv ==
    rejections = 0 => \A c \in Coins :
        /\ tokSpendable[c] = One(c, mature \cap TokenCoins) - One(c, Disabled)
        /\ tokImmature[c] = One(c, AllImmatureTR \cap TokenCoins)
        /\ tokUnconfirmed[c] = One(c, unconfirmed \cap TokenCoins)

\* Tokens are on outputs of transfers that the wallet owns.
LEMMA TokensAre ==
    /\ TokenCoins \subseteq Mine /\ TokenCoins \subseteq Coins /\ TokenCoins \cap CoinbaseCoins = {}
    /\ RootCoins \subseteq TokenCoins
    /\ \A b \in Blocks : OwnOutputs(b) \cap TokenCoins = TransferOutputs(b) \cap TokenCoins
<1>1. \A b \in Blocks : CoinbaseOutput(b) \subseteq CoinbaseCoins
  BY OutputKinds
<1> QED
  BY <1>1, TokensAssumption, SetsAssumption DEF OwnOutputs

\* What a block of the branch disables is ready from then on.
LEMMA DisabledReady ==
    ASSUME DisabledRinged, NEW a \in Blocks \ {Genesis}, NEW x \in Blocks, Parent[a] \in Branch[x]
    PROVE  Disables(a) \subseteq TokenCoins \cap Ready(x)
<1> SUFFICES ASSUME NEW c \in Disables(a) PROVE c \in TokenCoins /\ c \in Ready(x)
  OBVIOUS
<1>1. c \in RootCoins /\ c \in Owned(Parent[a])
  BY DEF Disables
<1>2. c \in Ringed(Parent[a])
  BY DEF DisabledRinged
<1>3. Owned(Parent[a]) \subseteq Owned(x) /\ RingsFormed(Parent[a]) \subseteq RingsFormed(x)
  BY ChainGrows
<1>4. Ringed(Parent[a]) \subseteq Ringed(x)
  BY <1>3 DEF Ringed
<1>5. c \in TokenCoins /\ c \in Coins /\ c \notin CoinbaseCoins
  BY <1>1, TokensAre
<1> QED
  BY <1>1, <1>2, <1>3, <1>4, <1>5 DEF Ready

\* The disabled root coins: they are ready.
LEMMA DisabledIs ==
    ASSUME DisabledRinged, MarksInv, tip \in Blocks
    PROVE  Disabled \subseteq TokenCoins \cap Ready(tip) /\ Disabled \subseteq autSpent
<1>1. ASSUME NEW a \in Blocks, disabledBy[a] # {}
      PROVE  disabledBy[a] \subseteq TokenCoins \cap Ready(tip)
  <2>1. a \in Branch[tip] /\ a \in Blocks \ {Genesis} /\ disabledBy[a] \subseteq Disables(a)
    BY <1>1 DEF MarksInv
  <2>2. Branch[a] \subseteq Branch[tip] /\ Parent[a] \in Branch[a]
    <3>1. Branch[a] = Branch[Parent[a]] \cup {a} /\ Parent[a] \in Blocks
      BY <2>1, ParentBelow
    <3>2. Parent[a] \in Branch[Parent[a]]
      BY <3>1, BranchBelow
    <3>3. Branch[a] \subseteq Branch[tip]
      BY <2>1, BranchBelow
    <3> QED
      BY <3>1, <3>2, <3>3
  <2> QED
    BY <2>1, <2>2, DisabledReady
<1> QED
  BY <1>1 DEF Disabled, MarksInv

\* What attaching a block does to the tokens, set by set: it spends tokens of the
\* branch, brings new ones, and disables some of the others.
LEMMA TokensAttached ==
    ASSUME Inv, MarksInv, DisabledRinged, NEW b \in Blocks, InsertBlock(b)
    PROVE  /\ TokensSpent(b) = NewlySpent(b) \cap TokenCoins
           /\ TokensSpent(b) \subseteq autCoins
           /\ NewTokens(b) \cap autCoins = {} /\ autSpent \subseteq autCoins
           /\ DisabledIn(b) \subseteq Disables(b) /\ DisabledIn(b) \subseteq autCoins \ autSpent
           /\ DisabledIn(b) \cap TokensSpent(b) = {}
           /\ SpentMatureTokens(b) \cup SpentHeldTokens(b) = TokensSpent(b) \ autSpent
           /\ SpentMatureTokens(b) \cap SpentHeldTokens(b) = {}
           /\ disabledBy[b] = {} /\ tip \in Blocks
<1> DEFINE p == Parent[b]
<1>1. /\ b \in Blocks \ {Genesis} /\ p = tip /\ BucketsInv /\ p \in Blocks /\ b \notin Branch[p]
      /\ TypeOK
  BY ParentBelow, ParentBranch DEF InsertBlock, Inv
<1>2. /\ SpentMature(b) = NewlySpent(b) \cap mature
      /\ SpentUnconfirmed(b) = NewlySpent(b) \cap unconfirmed
  BY <1>1, InsertBlockMoves
<1>3. /\ Spent(b) = Spent(p) \cup NewlySpent(b) /\ Spent(p) \cap NewlySpent(b) = {}
      /\ NewlySpent(b) \subseteq Ready(p) /\ Ready(p) \subseteq Owned(p) /\ Spent(p) \subseteq Ready(p)
  BY <1>1, SpentStep, SpentReady
<1>4. \A x \in Branch[p] : Created(b) \cap Created(x) = {}
  BY <1>1, Fresh
<1>5. Created(b) \cap Owned(p) = {}
  <2>1. \A x \in Branch[p] : x \in Blocks /\ OwnOutputs(x) \subseteq Created(x)
    BY <1>1, BranchBelow, OutputKinds
  <2> QED
    BY <1>4, <2>1 DEF Owned
<1> HIDE DEF p
<1>6. autCoins = Owned(p) \cap TokenCoins /\ autSpent = (Spent(p) \cap TokenCoins) \cup Disabled
  BY <1>1 DEF MarksInv
<1>7. Disabled \subseteq TokenCoins \cap Ready(p)
  BY <1>1, DisabledIs DEF MarksInv
<1>8. TokensSpent(b) = NewlySpent(b) \cap TokenCoins
  <2>1. NewlySpent(b) \subseteq mature \cup unconfirmed
    BY <1>1, <1>3 DEF BucketsInv
  <2> QED
    BY <1>2, <2>1 DEF TokensSpent
<1>9. NewTokens(b) \cap autCoins = {}
  <2>1. TransferOutputs(b) \subseteq Created(b)
    BY <1>1, OutputKinds DEF OwnOutputs
  <2> QED
    BY <1>5, <1>6, <2>1 DEF NewTokens
<1>10. autSpent \subseteq autCoins /\ TokensSpent(b) \subseteq autCoins
  BY <1>3, <1>6, <1>7, <1>8
<1>11. ASSUME NEW c \in DisabledIn(b)
       PROVE  c \in Disables(b) /\ c \in autCoins \ autSpent /\ c \notin TokensSpent(b)
  <2>1. PICK t \in TxsOf[b] : \E aut \in ReRegisters[t] : c \in UnspentRootCoins(b, aut)
    BY DEF DisabledIn
  <2>2. /\ c \in autCoins /\ c \in RootCoins /\ c \notin autSpent /\ c \notin TokensSpent(b)
        /\ AutOf[c] \in ReRegisters[t]
    BY <2>1 DEF UnspentRootCoins
  <2>3. c \in Owned(p) /\ c \in TokenCoins /\ c \notin Spent(b)
    BY <1>3, <1>6, <1>8, <2>2
  <2> QED
    BY <2>1, <2>2, <2>3 DEF Disables, p
<1>12. SpentMatureTokens(b) \cup SpentHeldTokens(b) = TokensSpent(b) \ autSpent
  BY DEF SpentMatureTokens, SpentHeldTokens, TokensSpent
<1>13. SpentMatureTokens(b) \cap SpentHeldTokens(b) = {}
  BY DEF SpentMatureTokens, SpentHeldTokens, SpentMature, SpentUnconfirmed
<1>14. disabledBy[b] = {}
  BY <1>1 DEF MarksInv
<1> QED
  BY <1>1, <1>8, <1>9, <1>10, <1>11, <1>12, <1>13, <1>14

\* The marks after InsertBlock.
LEMMA InsertBlockMarksInv ==
    ASSUME Inv, MarksInv, DisabledRinged, NEW b \in Blocks, TokenInsertBlock(b)
    PROVE  MarksInv' /\ Disabled' = Disabled \cup DisabledIn(b)
<1> DEFINE p == Parent[b]
<1>1. /\ b \in Blocks \ {Genesis} /\ p = tip /\ tip' = b /\ p \in Blocks /\ InsertBlock(b) /\ InsertTokens(b)
      /\ Branch[b] = Branch[p] \cup {b}
  BY ParentBelow DEF TokenInsertBlock, InsertBlock, InsertBlockRecords, Inv
<1>2. /\ TokensSpent(b) = NewlySpent(b) \cap TokenCoins /\ TokensSpent(b) \subseteq autCoins
      /\ NewTokens(b) \cap autCoins = {} /\ autSpent \subseteq autCoins
      /\ DisabledIn(b) \subseteq Disables(b) /\ DisabledIn(b) \subseteq autCoins \ autSpent
      /\ disabledBy[b] = {}
  BY <1>1, TokensAttached
<1>3. Owned(b) = Owned(p) \cup OwnOutputs(b) /\ Spent(b) = Spent(p) \cup NewlySpent(b)
  BY <1>1, ChainStep, SpentStep
<1>4. OwnOutputs(b) \cap TokenCoins = NewTokens(b)
  BY TokensAre DEF NewTokens
<1> HIDE DEF p
<1>5. /\ autCoins = Owned(p) \cap TokenCoins /\ autSpent = (Spent(p) \cap TokenCoins) \cup Disabled
      /\ disabledBy = [a \in Blocks |-> disabledBy[a]]
  BY <1>1 DEF MarksInv
<1>6. /\ autCoins' = autCoins \cup NewTokens(b)
      /\ autSpent' = (autSpent \ NewTokens(b)) \cup TokensSpent(b) \cup DisabledIn(b)
      /\ disabledBy' = IF DisabledIn(b) = {} THEN disabledBy
                       ELSE [disabledBy EXCEPT ![b] = DisabledIn(b)]
  BY <1>1 DEF InsertTokens
<1>7. disabledBy' = [a \in Blocks |-> IF a = b THEN DisabledIn(b) ELSE disabledBy[a]]
  BY <1>2, <1>5, <1>6
<1>8. Disabled' = Disabled \cup DisabledIn(b)
  BY <1>1, <1>2, <1>7 DEF Disabled
<1>9. autCoins' = Owned(tip') \cap TokenCoins
  BY <1>1, <1>3, <1>4, <1>5, <1>6
<1>10. autSpent' = (Spent(tip') \cap TokenCoins) \cup Disabled'
  BY <1>1, <1>2, <1>3, <1>5, <1>6, <1>8
<1>11. ASSUME NEW a \in Blocks, disabledBy'[a] # {}
       PROVE  a \in Branch[tip'] \ {Genesis} /\ disabledBy'[a] \subseteq Disables(a)
  <2>1. CASE a = b
    <3>1. b \in Branch[b]
      BY <1>1
    <3> QED
      BY <1>1, <1>2, <1>7, <2>1, <3>1
  <2>2. CASE a # b
    BY <1>1, <1>7, <1>11, <2>2 DEF MarksInv
  <2> QED
    BY <2>1, <2>2
<1>12. ASSUME NEW a \in Blocks, NEW x \in Blocks, a # x
       PROVE  disabledBy'[a] \cap disabledBy'[x] = {}
  <2>1. \A y \in Blocks : DisabledIn(b) \cap disabledBy[y] = {}
    BY <1>2, <1>5 DEF Disabled
  <2>2. disabledBy[a] \cap disabledBy[x] = {}
    BY <1>12 DEF MarksInv
  <2> QED
    BY <1>7, <1>12, <2>1, <2>2
<1>13. disabledBy' = [a \in Blocks |-> disabledBy'[a]]
  BY <1>7
<1> QED
  BY <1>8, <1>9, <1>10, <1>11, <1>12, <1>13 DEF MarksInv

\* Counting one token in the union and the difference of sets.
LEMMA OneIs ==
    ASSUME NEW c, NEW S, NEW T
    PROVE  /\ One(c, S) \in Int
           /\ S \cap T = {} => One(c, S \cup T) = One(c, S) + One(c, T)
           /\ T \subseteq S => One(c, S \ T) = One(c, S) - One(c, T)
  BY DEF One

\* Counting it after something left a set and something entered it.
LEMMA OneMoves ==
    ASSUME NEW c, NEW S, NEW T, NEW U, NEW V
    PROVE  /\ T \subseteq S /\ (S \ T) \cap U = {} /\ V = (S \ T) \cup U
                => One(c, V) = One(c, S) - One(c, T) + One(c, U)
           /\ S \cap U = {} /\ T \subseteq S \cup U /\ V = (S \cup U) \ T
                => One(c, V) = One(c, S) + One(c, U) - One(c, T)
           /\ T \subseteq S /\ V = S \ T => One(c, V) = One(c, S) - One(c, T)
  BY DEF One

\* The counters after InsertBlock, one token at a time.
LEMMA InsertCountersAt ==
    ASSUME TotalsInv, NEW b \in Blocks, InsertCounters(b), NEW c \in Coins
    PROVE  LET left == SpentMatureTokens(b) \cup DisabledIn(b) IN
           /\ tokTotal'[c] = tokTotal[c] + One(c, NewTokens(b)) - One(c, left \cup SpentHeldTokens(b))
           /\ tokSpendable'[c] = tokSpendable[c] - One(c, left) + One(c, RingedTokens(b))
           /\ tokImmature'[c] = tokImmature[c] + One(c, NewTokens(b)) - One(c, RingedTokens(b))
           /\ tokUnconfirmed'[c] = tokUnconfirmed[c] - One(c, SpentHeldTokens(b))
           /\ tokTotal' \in [Coins -> Int] /\ tokSpendable' \in [Coins -> Int]
           /\ tokImmature' \in [Coins -> Int] /\ tokUnconfirmed' \in [Coins -> Int]
<1> DEFINE left == SpentMatureTokens(b) \cup DisabledIn(b)
           gone == SpentMatureTokens(b) \cup SpentHeldTokens(b) \cup DisabledIn(b)
<1>1. /\ tokTotal \in [Coins -> Int] /\ tokSpendable \in [Coins -> Int]
      /\ tokImmature \in [Coins -> Int] /\ tokUnconfirmed \in [Coins -> Int]
  BY DEF TotalsInv
<1>2. /\ tokTotal' = Minus(Plus(tokTotal, NewTokens(b)), gone)
      /\ tokSpendable' = Plus(Minus(tokSpendable, left), RingedTokens(b))
      /\ tokImmature' = Minus(Plus(tokImmature, NewTokens(b)), RingedTokens(b))
      /\ tokUnconfirmed' = Minus(tokUnconfirmed, SpentHeldTokens(b))
  BY DEF InsertCounters
<1>3. gone = left \cup SpentHeldTokens(b)
  OBVIOUS
<1> HIDE DEF left, gone
<1>4. /\ tokTotal'[c] = tokTotal[c] + One(c, NewTokens(b)) - One(c, gone)
      /\ tokSpendable'[c] = tokSpendable[c] - One(c, left) + One(c, RingedTokens(b))
  BY <1>1, <1>2, PlusMinusType, PlusMinusAt DEF One
<1>5. /\ tokImmature'[c] = tokImmature[c] + One(c, NewTokens(b)) - One(c, RingedTokens(b))
      /\ tokUnconfirmed'[c] = tokUnconfirmed[c] - One(c, SpentHeldTokens(b))
  BY <1>1, <1>2, PlusMinusType, PlusMinusAt DEF One
<1>6. /\ tokTotal' \in [Coins -> Int] /\ tokSpendable' \in [Coins -> Int]
      /\ tokImmature' \in [Coins -> Int] /\ tokUnconfirmed' \in [Coins -> Int]
  BY <1>1, <1>2, PlusMinusType
<1> QED
  BY <1>3, <1>4, <1>5, <1>6 DEF left

\* The totals after InsertBlock.
LEMMA InsertBlockTotalsInv ==
    ASSUME Inv, MarksInv, TotalsInv, DisabledRinged, NEW b \in Blocks, TokenInsertBlock(b)
    PROVE  TotalsInv'
<1> DEFINE left == SpentMatureTokens(b) \cup DisabledIn(b)
           gone == left \cup SpentHeldTokens(b)
<1>1. InsertBlock(b) /\ InsertTokens(b) /\ InsertCounters(b)
  BY DEF TokenInsertBlock
<1>2. /\ TokensSpent(b) \subseteq autCoins
      /\ NewTokens(b) \cap autCoins = {} /\ autSpent \subseteq autCoins
      /\ DisabledIn(b) \subseteq autCoins \ autSpent
      /\ DisabledIn(b) \cap TokensSpent(b) = {}
      /\ SpentMatureTokens(b) \cup SpentHeldTokens(b) = TokensSpent(b) \ autSpent
      /\ SpentMatureTokens(b) \cap SpentHeldTokens(b) = {}
  BY <1>1, TokensAttached
<1>3. /\ autCoins' = autCoins \cup NewTokens(b)
      /\ autSpent' = (autSpent \ NewTokens(b)) \cup TokensSpent(b) \cup DisabledIn(b)
  BY <1>1 DEF InsertTokens
<1>4. /\ autCoins' \ autSpent' = ((autCoins \ autSpent) \ gone) \cup NewTokens(b)
      /\ gone \subseteq autCoins \ autSpent
      /\ ((autCoins \ autSpent) \ gone) \cap NewTokens(b) = {}
      /\ left \cap SpentHeldTokens(b) = {}
  BY <1>2, <1>3
<1> HIDE DEF left, gone
<1>5. ASSUME NEW c \in Coins
      PROVE  /\ tokTotal'[c] = One(c, autCoins' \ autSpent')
             /\ tokTotal'[c] = tokSpendable'[c] + tokImmature'[c] + tokUnconfirmed'[c]
  <2>1. /\ tokTotal'[c] = tokTotal[c] + One(c, NewTokens(b)) - One(c, gone)
        /\ tokSpendable'[c] = tokSpendable[c] - One(c, left) + One(c, RingedTokens(b))
        /\ tokImmature'[c] = tokImmature[c] + One(c, NewTokens(b)) - One(c, RingedTokens(b))
        /\ tokUnconfirmed'[c] = tokUnconfirmed[c] - One(c, SpentHeldTokens(b))
    BY <1>1, <1>5, InsertCountersAt DEF left, gone
  <2>2. /\ tokTotal[c] = One(c, autCoins \ autSpent)
        /\ tokTotal[c] = tokSpendable[c] + tokImmature[c] + tokUnconfirmed[c]
        /\ tokTotal[c] \in Int /\ tokSpendable[c] \in Int /\ tokImmature[c] \in Int
        /\ tokUnconfirmed[c] \in Int
    BY <1>5 DEF TotalsInv
  <2>3. One(c, gone) = One(c, left) + One(c, SpentHeldTokens(b))
    BY <1>4, OneIs DEF gone
  <2>4. One(c, autCoins' \ autSpent') = One(c, (autCoins \ autSpent) \ gone) + One(c, NewTokens(b))
    BY <1>4 DEF One
  <2>5. One(c, (autCoins \ autSpent) \ gone) = One(c, autCoins \ autSpent) - One(c, gone)
    BY <1>4 DEF One
  <2>6. \A S : One(c, S) \in Int
    BY DEF One
  <2>7. /\ One(c, NewTokens(b)) \in Int /\ One(c, gone) \in Int /\ One(c, left) \in Int
        /\ One(c, RingedTokens(b)) \in Int /\ One(c, SpentHeldTokens(b)) \in Int
        /\ One(c, autCoins \ autSpent) \in Int
    BY <2>6
  <2>8. tokTotal'[c] = One(c, autCoins' \ autSpent')
    BY <2>1, <2>2, <2>4, <2>5, <2>7
  <2>9. tokTotal'[c] = tokSpendable'[c] + tokImmature'[c] + tokUnconfirmed'[c]
    BY <2>1, <2>2, <2>3, <2>7
  <2> QED
    BY <2>8, <2>9
<1>6. /\ tokTotal' \in [Coins -> Int] /\ tokSpendable' \in [Coins -> Int]
      /\ tokImmature' \in [Coins -> Int] /\ tokUnconfirmed' \in [Coins -> Int]
  BY <1>1, PlusMinusType DEF InsertCounters, TotalsInv
<1> QED
  BY <1>5, <1>6 DEF TotalsInv, One

\* A disabled root coin is in none of the TXOs that are spent, nor among those b
\* spends.
LEMMA DisabledUnspent ==
    ASSUME MarksInv, DisabledNotSpent, NEW x \in Blocks, tip \in Branch[x], tip \in Blocks
    PROVE  Disabled \cap Spent(x) = {}
<1>1. ASSUME NEW a \in Blocks, disabledBy[a] # {} PROVE disabledBy[a] \cap Spent(x) = {}
  <2>1. a \in Branch[tip] \ {Genesis} /\ disabledBy[a] \subseteq Disables(a)
    BY <1>1 DEF MarksInv
  <2>2. Branch[tip] \subseteq Branch[x]
    BY BranchBelow
  <2> QED
    BY <2>1, <2>2 DEF DisabledNotSpent
<1> QED
  BY <1>1 DEF Disabled

\* The counters after InsertBlock are those of the buckets after it.
LEMMA InsertBlockCountersInv ==
    ASSUME Inv, MarksInv, TotalsInv, CountersInv, DisabledRinged, DisabledNotSpent,
           NEW b \in Blocks, TokenInsertBlock(b)
    PROVE  CountersInv'
<1> DEFINE left == SpentMatureTokens(b) \cup DisabledIn(b)
           Tok(S) == S \cap TokenCoins
<1>1. /\ InsertBlock(b) /\ InsertTokens(b) /\ InsertCounters(b) /\ InsertBlockTxos(b)
      /\ b \in Blocks \ {Genesis} /\ Parent[b] = tip /\ tip' = b /\ rejections' = rejections
      /\ BucketsInv /\ BucketsInv' /\ TypeOK /\ tip \in Blocks
  BY ParentBelow, InsertBlockBucketsInv DEF TokenInsertBlock, InsertBlock, InsertBlockRecords, Inv
<1>2. /\ DisabledIn(b) \subseteq autCoins \ autSpent /\ DisabledIn(b) \cap TokensSpent(b) = {}
      /\ autSpent = Tok(Spent(tip)) \cup Disabled /\ Disabled' = Disabled \cup DisabledIn(b)
  BY <1>1, TokensAttached, InsertBlockMarksInv DEF MarksInv
<1>3. /\ SpentMature(b) = NewlySpent(b) \cap mature
      /\ SpentUnconfirmed(b) = NewlySpent(b) \cap unconfirmed
      /\ MaturedCoinbases(b) \cup MaturedTransfers(b) = NewReady(b)
      /\ MaturedCoinbases(b) \subseteq CoinbaseCoins
      /\ MaturedTransfers(b) = NewTransfers(b)
  BY <1>1, InsertBlockMoves DEF NewTransfers
<1>4. /\ Spent(b) = Spent(tip) \cup NewlySpent(b) /\ Spent(tip) \cap NewlySpent(b) = {}
      /\ Ready(tip) \cap NewReady(b) = {}
  BY <1>1, SpentStep, ReadyStep
<1>5. Disabled \cap Spent(b) = {}
  <2>1. tip \in Branch[b]
    BY <1>1, ParentBelow, BranchBelow
  <2> QED
    BY <1>1, <2>1, DisabledUnspent
<1>6. /\ SpentMatureTokens(b) = Tok(SpentMature(b)) /\ SpentHeldTokens(b) = Tok(SpentUnconfirmed(b))
      /\ RingedTokens(b) = Tok(NewTransfers(b))
  BY <1>2, <1>3, <1>4, <1>5 DEF SpentMatureTokens, SpentHeldTokens, RingedTokens
<1>7. SpentMatureTokens(b) \cap DisabledIn(b) = {} /\ Disabled \cap DisabledIn(b) = {}
  BY <1>2 DEF SpentMatureTokens, TokensSpent
\* What the buckets say before and after.
<1>8. /\ Tok(mature') = (Tok(mature) \ SpentMatureTokens(b)) \cup RingedTokens(b)
      /\ SpentMatureTokens(b) \subseteq Tok(mature)
      /\ (Tok(mature) \ SpentMatureTokens(b)) \cap RingedTokens(b) = {}
  <2>1. mature' = (mature \ SpentMature(b)) \cup MaturedCoinbases(b) \cup MaturedTransfers(b)
    BY <1>1 DEF InsertBlockTxos
  <2>2. mature \subseteq Ready(tip)
    BY <1>1 DEF BucketsInv
  <2>3. TokenCoins \cap CoinbaseCoins = {}
    BY TokensAre
  <2> QED
    BY <1>3, <1>4, <1>6, <2>1, <2>2, <2>3
<1>9. /\ Tok(unconfirmed') = Tok(unconfirmed) \ SpentHeldTokens(b)
      /\ SpentHeldTokens(b) \subseteq Tok(unconfirmed)
  BY <1>1, <1>3, <1>6 DEF InsertBlockTxos
<1>10. /\ Tok(AllImmatureTR') = (Tok(AllImmatureTR) \cup NewTokens(b)) \ RingedTokens(b)
       /\ Tok(AllImmatureTR) \cap NewTokens(b) = {}
       /\ RingedTokens(b) \subseteq Tok(AllImmatureTR) \cup NewTokens(b)
  <2>1. AllImmatureTR = AllTRAt(tip) /\ AllImmatureTR' = AllTRAt(b)
    BY <1>1 DEF BucketsInv, AllImmatureTR, AllTRAt
  <2>2. /\ AllTRAt(b) = (AllTRAt(tip) \cup TransferOutputs(b)) \ NewTransfers(b)
        /\ TransferOutputs(b) \cap AllTRAt(tip) = {}
        /\ NewTransfers(b) \subseteq AllTRAt(tip) \cup TransferOutputs(b)
    BY <1>1, ImmatureSets
  <2> QED
    BY <1>6, <2>1, <2>2 DEF NewTokens
<1> HIDE DEF left, Tok
<1>11. ASSUME rejections' = 0, NEW c \in Coins
       PROVE  /\ tokSpendable'[c] = One(c, Tok(mature')) - One(c, Disabled')
              /\ tokImmature'[c] = One(c, Tok(AllImmatureTR'))
              /\ tokUnconfirmed'[c] = One(c, Tok(unconfirmed'))
  <2>1. /\ tokSpendable'[c] = tokSpendable[c] - One(c, left) + One(c, RingedTokens(b))
        /\ tokImmature'[c] = tokImmature[c] + One(c, NewTokens(b)) - One(c, RingedTokens(b))
        /\ tokUnconfirmed'[c] = tokUnconfirmed[c] - One(c, SpentHeldTokens(b))
    BY <1>1, <1>11, InsertCountersAt DEF left
  <2>2. /\ tokSpendable[c] = One(c, Tok(mature)) - One(c, Disabled)
        /\ tokImmature[c] = One(c, Tok(AllImmatureTR)) /\ tokUnconfirmed[c] = One(c, Tok(unconfirmed))
    BY <1>1, <1>11 DEF CountersInv, Tok
  <2>3. One(c, left) = One(c, SpentMatureTokens(b)) + One(c, DisabledIn(b))
    BY <1>7, OneIs DEF left
  <2>4. One(c, Disabled') = One(c, Disabled) + One(c, DisabledIn(b))
    BY <1>2, <1>7, OneIs
  <2>5. One(c, Tok(mature')) = One(c, Tok(mature)) - One(c, SpentMatureTokens(b)) + One(c, RingedTokens(b))
    BY <1>8, OneMoves
  <2>6. One(c, Tok(unconfirmed')) = One(c, Tok(unconfirmed)) - One(c, SpentHeldTokens(b))
    BY <1>9, OneMoves
  <2>7. One(c, Tok(AllImmatureTR'))
           = One(c, Tok(AllImmatureTR)) + One(c, NewTokens(b)) - One(c, RingedTokens(b))
    <3> DEFINE X == Tok(AllImmatureTR)
               Y == Tok(AllImmatureTR')
    <3>1. X \cap NewTokens(b) = {} /\ RingedTokens(b) \subseteq X \cup NewTokens(b)
          /\ Y = (X \cup NewTokens(b)) \ RingedTokens(b)
      BY <1>10
    <3> HIDE DEF X, Y
    <3>2. One(c, Y) = One(c, X) + One(c, NewTokens(b)) - One(c, RingedTokens(b))
      BY <3>1, OneMoves
    <3> QED
      BY <3>2 DEF X, Y
  <2>8. /\ One(c, Tok(mature)) \in Int /\ One(c, Disabled) \in Int /\ One(c, DisabledIn(b)) \in Int
        /\ One(c, SpentMatureTokens(b)) \in Int /\ One(c, RingedTokens(b)) \in Int
    BY DEF One
  <2>9. tokSpendable'[c] = One(c, Tok(mature')) - One(c, Disabled')
    BY <2>1, <2>2, <2>3, <2>4, <2>5, <2>8
  <2> QED
    BY <2>1, <2>2, <2>6, <2>7, <2>9
<1> QED
  BY <1>11 DEF CountersInv, One, Tok

\* What detaching a block does to the tokens, set by set: the tokens it spent come
\* back, those it brought go, and those it disabled are live again.
LEMMA TokensDetached ==
    ASSUME Inv, MarksInv, NoCoinbaseUnmatured, DisabledRinged, DisabledNotRestored,
           NEW b \in Blocks, Rollback(b)
    PROVE  /\ b \in Blocks \ {Genesis} /\ tip = b /\ tip' = Parent[b] /\ Parent[b] \in Blocks
           /\ UnringedMatureTokens(b) = NewTransfers(b) \cap mature \cap TokenCoins
           /\ UnringedHeldTokens(b) = NewTransfers(b) \cap unconfirmed \cap TokenCoins
           /\ UnringedSpentTokens(b) = {}
           /\ NewTransfers(b) \cap Ready(Parent[b]) = {}
           /\ NewTransfers(b) \subseteq mature \cup unconfirmed
           /\ DroppedTokens(b) = TransferOutputs(b) \cap TokenCoins
           /\ RestoredTokens(b) = NewlySpent(b) \cap TokenCoins
           /\ Owned(b) \cap TokenCoins = (Owned(Parent[b]) \cap TokenCoins) \cup DroppedTokens(b)
           /\ Owned(Parent[b]) \cap DroppedTokens(b) = {}
           /\ Disabled = (Disabled \ RevivedBy(b)) \cup RevivedBy(b)
           /\ RevivedBy(b) \subseteq Disabled
           /\ RevivedBy(b) \subseteq (Owned(Parent[b]) \cap TokenCoins) \ Spent(b)
           /\ Disabled \ RevivedBy(b) \subseteq Ready(Parent[b]) \ NewlySpent(b)
<1> DEFINE p == Parent[b]
<1>1. /\ b \in Blocks \ {Genesis} /\ tip = b /\ tip' = p /\ Detachable(b) /\ p \in Blocks
      /\ RecordsInv /\ BucketsInv /\ Branch[b] = Branch[p] \cup {b} /\ b \notin Branch[p]
  BY ParentBelow, ParentBranch DEF Rollback, Inv
<1>2. /\ Restored(b) = NewlySpent(b) /\ UnringedConfirmed(b) = {}
      /\ UnringedTxos(b) = NewTransfers(b)
      /\ UnringedMature(b) = NewTransfers(b) \cap mature
      /\ UnringedUnconfirmed(b) = NewTransfers(b) \cap unconfirmed
      /\ ImmatureTRUnringed(b)[b] = TransferOutputs(b)
  BY <1>1, UnringedIs, RestoredIs
<1>3. /\ UnringedMatureTokens(b) = NewTransfers(b) \cap mature \cap TokenCoins
      /\ UnringedHeldTokens(b) = NewTransfers(b) \cap unconfirmed \cap TokenCoins
      /\ UnringedSpentTokens(b) = {}
      /\ NewTransfers(b) \subseteq mature \cup unconfirmed
      /\ DroppedTokens(b) = TransferOutputs(b) \cap TokenCoins
      /\ RestoredTokens(b) = NewlySpent(b) \cap TokenCoins
  BY <1>2 DEF UnringedMatureTokens, UnringedHeldTokens, UnringedSpentTokens, DroppedTokens,
              RestoredTokens, DroppedTR, UnringedConfirmed
<1>4. NewTransfers(b) \cap Ready(p) = {}
  <2>1. NewTransfers(b) \subseteq NewReady(b)
    BY DEF NewTransfers, NewReady
  <2> QED
    BY <1>1, <2>1, ReadyStep
<1>5. /\ Owned(b) = Owned(p) \cup OwnOutputs(b) /\ OwnOutputs(b) \cap TokenCoins = DroppedTokens(b)
      /\ Spent(b) = Spent(p) \cup NewlySpent(b)
  BY <1>1, <1>3, ChainStep, SpentStep, TokensAre
<1>6. Owned(p) \cap DroppedTokens(b) = {}
  <2>1. \A x \in Branch[p] : Created(b) \cap Created(x) = {}
    BY <1>1, Fresh
  <2>2. \A x \in Branch[p] : x \in Blocks /\ OwnOutputs(x) \subseteq Created(x)
    BY <1>1, BranchBelow, OutputKinds
  <2>3. TransferOutputs(b) \subseteq Created(b)
    BY <1>1, OutputKinds DEF OwnOutputs
  <2> QED
    BY <1>3, <2>1, <2>2, <2>3 DEF Owned
<1> HIDE DEF p
<1>7. RevivedBy(b) \subseteq Disabled /\ Disabled = (Disabled \ RevivedBy(b)) \cup RevivedBy(b)
  BY DEF RevivedBy, Disabled
<1>8. RevivedBy(b) \subseteq (Owned(p) \cap TokenCoins) \ Spent(b)
  <2>1. disabledBy[b] \subseteq Disables(b)
    BY <1>1 DEF MarksInv
  <2>2. Disables(b) \subseteq (RootCoins \cap Owned(p)) \ Spent(b)
    BY DEF Disables, p
  <2> QED
    BY <2>1, <2>2, TokensAre DEF RevivedBy
<1>9. ASSUME NEW c \in Disabled \ RevivedBy(b) PROVE c \in Ready(p) /\ c \notin NewlySpent(b)
  <2>1. PICK a \in Blocks : c \in disabledBy[a]
    BY DEF Disabled
  <2>2. a # b /\ a \in Branch[b] \ {Genesis} /\ c \in Disables(a)
    BY <1>1, <1>9, <2>1 DEF RevivedBy, MarksInv
  <2>3. a \in Branch[p] /\ Parent[a] \in Branch[p]
    <3>1. a \in Branch[p]
      BY <1>1, <2>2
    <3>2. Branch[a] = Branch[Parent[a]] \cup {a} /\ Parent[a] \in Blocks
      BY <2>1, <2>2, ParentBelow
    <3>3. Parent[a] \in Branch[Parent[a]]
      BY <3>2, BranchBelow
    <3>4. Branch[a] \subseteq Branch[p]
      BY <1>1, <3>1, BranchBelow
    <3> QED
      BY <3>1, <3>2, <3>3, <3>4
  <2>4. c \in Ready(p)
    BY <1>1, <2>1, <2>2, <2>3, DisabledReady
  <2>5. c \notin Spent(b) \ Spent(p)
    BY <1>1, <2>2 DEF DisabledNotRestored, p
  <2>6. NewlySpent(b) \subseteq Spent(b) \ Spent(p)
    BY <1>1, SpentStep DEF p
  <2> QED
    BY <2>4, <2>5, <2>6
<1> QED
  BY <1>1, <1>3, <1>4, <1>5, <1>6, <1>7, <1>8, <1>9 DEF p

\* The marks after Rollback.
LEMMA RollbackMarksInv ==
    ASSUME Inv, MarksInv, NoCoinbaseUnmatured, DisabledRinged, DisabledNotRestored,
           NEW b \in Blocks, TokenRollback(b)
    PROVE  MarksInv' /\ Disabled' = Disabled \ RevivedBy(b)
<1> DEFINE p == Parent[b]
<1>1. /\ Rollback(b) /\ RollbackTokens(b) /\ b \in Blocks \ {Genesis} /\ tip = b /\ tip' = p
      /\ p \in Blocks /\ Branch[b] = Branch[p] \cup {b} /\ BucketsInv
  BY TokensDetached, ParentBelow DEF TokenRollback, Inv
<1>2. /\ UnringedHeldTokens(b) = NewTransfers(b) \cap unconfirmed \cap TokenCoins
      /\ UnringedSpentTokens(b) = {} /\ NewTransfers(b) \cap Ready(p) = {}
      /\ RestoredTokens(b) = NewlySpent(b) \cap TokenCoins
      /\ Owned(b) \cap TokenCoins = (Owned(p) \cap TokenCoins) \cup DroppedTokens(b)
      /\ Owned(p) \cap DroppedTokens(b) = {}
      /\ RevivedBy(b) \subseteq Disabled /\ RevivedBy(b) \subseteq (Owned(p) \cap TokenCoins) \ Spent(b)
      /\ Disabled \ RevivedBy(b) \subseteq Ready(p) \ NewlySpent(b)
  BY <1>1, TokensDetached
<1>3. /\ Spent(b) = Spent(p) \cup NewlySpent(b) /\ Spent(p) \cap NewlySpent(b) = {}
      /\ Spent(p) \subseteq Ready(p) /\ Ready(p) \subseteq Owned(p)
  BY <1>1, SpentStep, SpentReady
<1> HIDE DEF p
<1>4. /\ autCoins = Owned(b) \cap TokenCoins /\ autSpent = (Spent(b) \cap TokenCoins) \cup Disabled
      /\ disabledBy = [a \in Blocks |-> disabledBy[a]]
  BY <1>1 DEF MarksInv
<1>5. /\ autCoins' = autCoins \ DroppedTokens(b)
      /\ autSpent' = autSpent \ (UnringedHeldTokens(b) \cup UnringedSpentTokens(b)
                                 \cup DroppedTokens(b) \cup RestoredTokens(b) \cup RevivedBy(b))
      /\ disabledBy' = [disabledBy EXCEPT ![b] = {}]
  BY <1>1 DEF RollbackTokens
<1>6. disabledBy' = [a \in Blocks |-> IF a = b THEN {} ELSE disabledBy[a]]
  BY <1>4, <1>5
<1>7. \A a \in Blocks : a # b => disabledBy[a] \cap disabledBy[b] = {}
  BY <1>1 DEF MarksInv
<1>8. Disabled' = Disabled \ RevivedBy(b)
  BY <1>1, <1>6, <1>7 DEF Disabled, RevivedBy
<1>9. autCoins' = Owned(tip') \cap TokenCoins
  BY <1>1, <1>2, <1>4, <1>5
<1>10. autSpent' = (Spent(tip') \cap TokenCoins) \cup Disabled'
  <2>1. DroppedTokens(b) \cap (Spent(p) \cup Ready(p)) = {}
    BY <1>2, <1>3
  <2>2. RestoredTokens(b) \cap (Spent(p) \cup (Disabled \ RevivedBy(b))) = {}
    BY <1>2, <1>3
  <2>3. UnringedHeldTokens(b) \cap Ready(p) = {}
    BY <1>2
  <2>4. RevivedBy(b) \cap Spent(p) = {}
    BY <1>2, <1>3
  <2>5. autSpent = ((Spent(p) \cup NewlySpent(b)) \cap TokenCoins) \cup (Disabled \ RevivedBy(b)) \cup RevivedBy(b)
    BY <1>2, <1>3, <1>4
  <2> QED
    BY <1>1, <1>2, <1>3, <1>5, <1>8, <2>1, <2>2, <2>3, <2>4, <2>5
<1>11. \A a \in Blocks : disabledBy'[a] # {} =>
          a \in Branch[tip'] \ {Genesis} /\ disabledBy'[a] \subseteq Disables(a)
  BY <1>1, <1>6 DEF MarksInv
<1>12. \A a, x \in Blocks : a # x => disabledBy'[a] \cap disabledBy'[x] = {}
  BY <1>6 DEF MarksInv
<1>13. disabledBy' = [a \in Blocks |-> disabledBy'[a]]
  BY <1>6
<1> QED
  BY <1>8, <1>9, <1>10, <1>11, <1>12, <1>13 DEF MarksInv

\* The counters after Rollback, one token at a time.
LEMMA RollbackCountersAt ==
    ASSUME TotalsInv, NEW b \in Blocks, RollbackCounters(b), NEW c \in Coins
    PROVE  LET held == UnringedHeldTokens(b) \cup UnringedSpentTokens(b)
               unringed == UnringedMatureTokens(b) \cup held
           IN
           /\ tokTotal'[c] = tokTotal[c] + One(c, RestoredTokens(b)) - One(c, DroppedTokens(b))
                             + One(c, RevivedBy(b))
           /\ tokSpendable'[c] = tokSpendable[c] - One(c, UnringedMatureTokens(b))
                                 + One(c, RestoredTokens(b)) + One(c, RevivedBy(b))
           /\ tokImmature'[c] = tokImmature[c] + One(c, unringed) - One(c, DroppedTokens(b))
           /\ tokUnconfirmed'[c] = tokUnconfirmed[c] - One(c, held)
           /\ tokTotal' \in [Coins -> Int] /\ tokSpendable' \in [Coins -> Int]
           /\ tokImmature' \in [Coins -> Int] /\ tokUnconfirmed' \in [Coins -> Int]
<1> DEFINE held == UnringedHeldTokens(b) \cup UnringedSpentTokens(b)
           unringed == UnringedMatureTokens(b) \cup UnringedHeldTokens(b) \cup UnringedSpentTokens(b)
<1>1. /\ tokTotal \in [Coins -> Int] /\ tokSpendable \in [Coins -> Int]
      /\ tokImmature \in [Coins -> Int] /\ tokUnconfirmed \in [Coins -> Int]
  BY DEF TotalsInv
<1>2. /\ tokTotal' = Plus(Minus(Plus(tokTotal, RestoredTokens(b)), DroppedTokens(b)), RevivedBy(b))
      /\ tokSpendable' = Plus(Plus(Minus(tokSpendable, UnringedMatureTokens(b)), RestoredTokens(b)),
                              RevivedBy(b))
      /\ tokImmature' = Minus(Plus(tokImmature, unringed), DroppedTokens(b))
      /\ tokUnconfirmed' = Minus(tokUnconfirmed, held)
  BY DEF RollbackCounters
<1>3. unringed = UnringedMatureTokens(b) \cup held
  OBVIOUS
<1> HIDE DEF held, unringed
<1>4. /\ tokTotal'[c] = tokTotal[c] + One(c, RestoredTokens(b)) - One(c, DroppedTokens(b))
                        + One(c, RevivedBy(b))
      /\ tokTotal' \in [Coins -> Int]
  <2> DEFINE f == Plus(tokTotal, RestoredTokens(b))
             g == Minus(f, DroppedTokens(b))
  <2>1. f \in [Coins -> Int] /\ f[c] = tokTotal[c] + One(c, RestoredTokens(b))
    BY <1>1, PlusMinusType, PlusMinusAt DEF One
  <2>2. tokTotal' = Plus(g, RevivedBy(b))
    BY <1>2
  <2> HIDE DEF f
  <2>3. g \in [Coins -> Int] /\ g[c] = f[c] - One(c, DroppedTokens(b))
    BY <2>1, PlusMinusType, PlusMinusAt DEF One
  <2> HIDE DEF g
  <2>4. tokTotal' \in [Coins -> Int] /\ tokTotal'[c] = g[c] + One(c, RevivedBy(b))
    BY <2>2, <2>3, PlusMinusType, PlusMinusAt DEF One
  <2>5. \A S : One(c, S) \in Int
    BY DEF One
  <2> QED
    BY <1>1, <2>1, <2>3, <2>4, <2>5
<1>5. /\ tokSpendable'[c] = tokSpendable[c] - One(c, UnringedMatureTokens(b))
                            + One(c, RestoredTokens(b)) + One(c, RevivedBy(b))
      /\ tokSpendable' \in [Coins -> Int]
  <2> DEFINE f == Minus(tokSpendable, UnringedMatureTokens(b))
             g == Plus(f, RestoredTokens(b))
  <2>1. f \in [Coins -> Int] /\ f[c] = tokSpendable[c] - One(c, UnringedMatureTokens(b))
    BY <1>1, PlusMinusType, PlusMinusAt DEF One
  <2>2. tokSpendable' = Plus(g, RevivedBy(b))
    BY <1>2
  <2> HIDE DEF f
  <2>3. g \in [Coins -> Int] /\ g[c] = f[c] + One(c, RestoredTokens(b))
    BY <2>1, PlusMinusType, PlusMinusAt DEF One
  <2> HIDE DEF g
  <2>4. tokSpendable' \in [Coins -> Int] /\ tokSpendable'[c] = g[c] + One(c, RevivedBy(b))
    BY <2>2, <2>3, PlusMinusType, PlusMinusAt DEF One
  <2>5. \A S : One(c, S) \in Int
    BY DEF One
  <2> QED
    BY <1>1, <2>1, <2>3, <2>4, <2>5
<1>6. /\ tokImmature'[c] = tokImmature[c] + One(c, unringed) - One(c, DroppedTokens(b))
      /\ tokUnconfirmed'[c] = tokUnconfirmed[c] - One(c, held)
      /\ tokImmature' \in [Coins -> Int] /\ tokUnconfirmed' \in [Coins -> Int]
  BY <1>1, <1>2, PlusMinusType, PlusMinusAt DEF One
<1> QED
  BY <1>3, <1>4, <1>5, <1>6 DEF held

\* The totals after Rollback.
LEMMA RollbackTotalsInv ==
    ASSUME Inv, MarksInv, TotalsInv, NoCoinbaseUnmatured, DisabledRinged, DisabledNotRestored,
           NEW b \in Blocks, TokenRollback(b)
    PROVE  TotalsInv'
<1> DEFINE p == Parent[b]
           held == UnringedHeldTokens(b) \cup UnringedSpentTokens(b)
           unringed == UnringedMatureTokens(b) \cup held
           Live0 == autCoins \ autSpent
           Live1 == autCoins' \ autSpent'
<1>1. /\ Rollback(b) /\ RollbackCounters(b) /\ b \in Blocks \ {Genesis} /\ tip = b /\ tip' = p
      /\ p \in Blocks /\ BucketsInv
  BY TokensDetached DEF TokenRollback, Inv
<1>2. /\ UnringedMatureTokens(b) = NewTransfers(b) \cap mature \cap TokenCoins
      /\ UnringedHeldTokens(b) = NewTransfers(b) \cap unconfirmed \cap TokenCoins
      /\ UnringedSpentTokens(b) = {}
      /\ RestoredTokens(b) = NewlySpent(b) \cap TokenCoins
      /\ Owned(b) \cap TokenCoins = (Owned(p) \cap TokenCoins) \cup DroppedTokens(b)
      /\ Owned(p) \cap DroppedTokens(b) = {}
      /\ RevivedBy(b) \subseteq Disabled /\ RevivedBy(b) \subseteq (Owned(p) \cap TokenCoins) \ Spent(b)
      /\ Disabled \ RevivedBy(b) \subseteq Ready(p) \ NewlySpent(b)
  BY <1>1, TokensDetached
<1>3. /\ Spent(b) = Spent(p) \cup NewlySpent(b) /\ Spent(p) \cap NewlySpent(b) = {}
      /\ NewlySpent(b) \subseteq Ready(p) /\ Spent(p) \subseteq Ready(p) /\ Ready(p) \subseteq Owned(p)
  BY <1>1, SpentStep, SpentReady
<1>4. /\ MarksInv' /\ Disabled' = Disabled \ RevivedBy(b)
  BY RollbackMarksInv
<1> HIDE DEF p
<1>5. /\ autCoins = Owned(b) \cap TokenCoins /\ autSpent = (Spent(b) \cap TokenCoins) \cup Disabled
      /\ autCoins' = Owned(p) \cap TokenCoins
      /\ autSpent' = (Spent(p) \cap TokenCoins) \cup (Disabled \ RevivedBy(b))
  BY <1>1, <1>4 DEF MarksInv
<1>6. /\ DroppedTokens(b) \subseteq Live0
      /\ (Live0 \ DroppedTokens(b)) \cap RestoredTokens(b) = {}
      /\ ((Live0 \ DroppedTokens(b)) \cup RestoredTokens(b)) \cap RevivedBy(b) = {}
      /\ Live1 = ((Live0 \ DroppedTokens(b)) \cup RestoredTokens(b)) \cup RevivedBy(b)
  <2>1. DroppedTokens(b) \cap autSpent = {}
    BY <1>2, <1>3, <1>5
  <2>2. DroppedTokens(b) \subseteq autCoins
    BY <1>2, <1>5
  <2>3. RestoredTokens(b) \subseteq autSpent /\ RevivedBy(b) \subseteq autSpent
    BY <1>2, <1>3, <1>5
  <2>4. RestoredTokens(b) \cap RevivedBy(b) = {}
    BY <1>2, <1>3
  <2>5. Live1 = ((Live0 \ DroppedTokens(b)) \cup RestoredTokens(b)) \cup RevivedBy(b)
    <3>1. ASSUME NEW c \in Live1
          PROVE  c \in Live0 \ DroppedTokens(b) \/ c \in RestoredTokens(b) \/ c \in RevivedBy(b)
      BY <1>2, <1>3, <1>5, <3>1
    <3>2. RestoredTokens(b) \subseteq Live1
      BY <1>2, <1>3, <1>5
    <3>3. RevivedBy(b) \subseteq Live1
      BY <1>2, <1>3, <1>5
    <3>4. Live0 \ DroppedTokens(b) \subseteq Live1
      BY <1>2, <1>3, <1>5
    <3> HIDE DEF Live0, Live1
    <3> QED
      BY <3>1, <3>2, <3>3, <3>4
  <2> QED
    BY <2>1, <2>2, <2>3, <2>4, <2>5
<1>7. UnringedMatureTokens(b) \cap held = {}
  BY <1>1, <1>2 DEF BucketsInv
<1> HIDE DEF held, unringed, Live0, Live1
<1>8. ASSUME NEW c \in Coins
      PROVE  /\ tokTotal'[c] = One(c, Live1)
             /\ tokTotal'[c] = tokSpendable'[c] + tokImmature'[c] + tokUnconfirmed'[c]
  <2>1. /\ tokTotal'[c] = tokTotal[c] + One(c, RestoredTokens(b)) - One(c, DroppedTokens(b))
                          + One(c, RevivedBy(b))
        /\ tokSpendable'[c] = tokSpendable[c] - One(c, UnringedMatureTokens(b))
                              + One(c, RestoredTokens(b)) + One(c, RevivedBy(b))
        /\ tokImmature'[c] = tokImmature[c] + One(c, unringed) - One(c, DroppedTokens(b))
        /\ tokUnconfirmed'[c] = tokUnconfirmed[c] - One(c, held)
    BY <1>1, <1>8, RollbackCountersAt DEF held, unringed
  <2>2. /\ tokTotal[c] = One(c, Live0)
        /\ tokTotal[c] = tokSpendable[c] + tokImmature[c] + tokUnconfirmed[c]
        /\ tokSpendable[c] \in Int /\ tokImmature[c] \in Int /\ tokUnconfirmed[c] \in Int
    BY <1>8 DEF TotalsInv, Live0
  <2>3. One(c, unringed) = One(c, UnringedMatureTokens(b)) + One(c, held)
    BY <1>7, OneIs DEF unringed
  <2>4. One(c, Live1) = One(c, Live0) - One(c, DroppedTokens(b)) + One(c, RestoredTokens(b))
                        + One(c, RevivedBy(b))
    <3> DEFINE L == (Live0 \ DroppedTokens(b)) \cup RestoredTokens(b)
    <3>1. One(c, L) = One(c, Live0) - One(c, DroppedTokens(b)) + One(c, RestoredTokens(b))
      BY <1>6, OneMoves
    <3>2. L \cap RevivedBy(b) = {} /\ Live1 = L \cup RevivedBy(b)
      BY <1>6
    <3> HIDE DEF L
    <3>3. One(c, Live1) = One(c, L) + One(c, RevivedBy(b))
      BY <3>2, OneIs
    <3> QED
      BY <3>1, <3>3
  <2>5. /\ One(c, Live0) \in Int /\ One(c, RestoredTokens(b)) \in Int /\ One(c, DroppedTokens(b)) \in Int
        /\ One(c, RevivedBy(b)) \in Int /\ One(c, UnringedMatureTokens(b)) \in Int
        /\ One(c, unringed) \in Int /\ One(c, held) \in Int
    BY DEF One
  <2>6. tokTotal'[c] = One(c, Live1)
    <3> DEFINE l == One(c, Live0)
               r == One(c, RestoredTokens(b))
               d == One(c, DroppedTokens(b))
               v == One(c, RevivedBy(b))
    <3>1. l \in Int /\ r \in Int /\ d \in Int /\ v \in Int
      BY <2>5
    <3>2. tokTotal'[c] = l + r - d + v /\ One(c, Live1) = l - d + r + v
      BY <2>1, <2>2, <2>4
    <3> HIDE DEF l, r, d, v
    <3> QED
      BY <3>1, <3>2
  <2>7. tokTotal'[c] = tokSpendable'[c] + tokImmature'[c] + tokUnconfirmed'[c]
    BY <2>1, <2>2, <2>3, <2>5
  <2> QED
    BY <2>6, <2>7
<1>9. /\ tokTotal' \in [Coins -> Int] /\ tokSpendable' \in [Coins -> Int]
      /\ tokImmature' \in [Coins -> Int] /\ tokUnconfirmed' \in [Coins -> Int]
  BY <1>1, PlusMinusType DEF RollbackCounters, TotalsInv
<1> QED
  BY <1>8, <1>9 DEF TotalsInv, One, Live1

\* The counters after Rollback are those of the buckets after it.
LEMMA RollbackCountersInv ==
    ASSUME Inv, MarksInv, TotalsInv, CountersInv, NoCoinbaseUnmatured, DisabledRinged,
           DisabledNotRestored, NEW b \in Blocks, TokenRollback(b)
    PROVE  CountersInv'
<1> DEFINE p == Parent[b]
           Tok(S) == S \cap TokenCoins
           held == UnringedHeldTokens(b) \cup UnringedSpentTokens(b)
           unringed == UnringedMatureTokens(b) \cup held
           imm == Tok(AllImmatureTR)
           immN == Tok(AllImmatureTR')
<1>1. /\ Rollback(b) /\ RollbackCounters(b) /\ RollbackTxos(b) /\ rejections' = rejections
      /\ b \in Blocks \ {Genesis} /\ tip = b /\ tip' = p /\ p \in Blocks
      /\ BucketsInv /\ BucketsInv' /\ RecordsInv /\ Detachable(b)
  BY TokensDetached, RollbackBucketsInv DEF TokenRollback, Rollback, Inv
<1>2. /\ UnringedMatureTokens(b) = Tok(NewTransfers(b) \cap mature)
      /\ UnringedHeldTokens(b) = Tok(NewTransfers(b) \cap unconfirmed)
      /\ UnringedSpentTokens(b) = {}
      /\ NewTransfers(b) \subseteq mature \cup unconfirmed
      /\ RestoredTokens(b) = Tok(NewlySpent(b)) /\ DroppedTokens(b) = Tok(TransferOutputs(b))
      /\ RevivedBy(b) \subseteq Disabled
  BY <1>1, TokensDetached
<1>3. Disabled' = Disabled \ RevivedBy(b)
  BY RollbackMarksInv
<1>4. /\ UnmaturedMature(b) = {} /\ UnmaturedUnconfirmed(b) = {}
      /\ Restored(b) = NewlySpent(b) /\ UnringedMature(b) = NewTransfers(b) \cap mature
      /\ UnringedUnconfirmed(b) = NewTransfers(b) \cap unconfirmed
  BY <1>1, NoneUnmatured, UnringedIs, RestoredIs DEF UnmaturedMature, UnmaturedUnconfirmed
<1>5. /\ mature' = (mature \ (NewTransfers(b) \cap mature)) \cup NewlySpent(b)
      /\ unconfirmed' = unconfirmed \ (NewTransfers(b) \cap unconfirmed)
  BY <1>1, <1>4 DEF RollbackTxos, MatureRestored, UnconfirmedRestored
<1>6. NewlySpent(b) \cap mature = {}
  BY <1>1, SpentStep DEF BucketsInv
<1>7. /\ Tok(mature') = (Tok(mature) \ UnringedMatureTokens(b)) \cup RestoredTokens(b)
      /\ UnringedMatureTokens(b) \subseteq Tok(mature)
      /\ (Tok(mature) \ UnringedMatureTokens(b)) \cap RestoredTokens(b) = {}
  BY <1>2, <1>5, <1>6
<1>8. Tok(unconfirmed') = Tok(unconfirmed) \ held /\ held \subseteq Tok(unconfirmed)
  BY <1>2, <1>5
<1>9. /\ immN = (imm \cup unringed) \ DroppedTokens(b)
      /\ imm \cap unringed = {} /\ DroppedTokens(b) \subseteq imm \cup unringed
  <2>1. AllImmatureTR = AllTRAt(b) /\ AllImmatureTR' = AllTRAt(p)
    BY <1>1 DEF BucketsInv, AllImmatureTR, AllTRAt
  <2>2. /\ AllTRAt(b) = (AllTRAt(p) \cup TransferOutputs(b)) \ NewTransfers(b)
        /\ TransferOutputs(b) \cap AllTRAt(p) = {}
        /\ NewTransfers(b) \subseteq AllTRAt(p) \cup TransferOutputs(b)
    BY <1>1, ImmatureSets
  <2>3. unringed = Tok(NewTransfers(b))
    BY <1>2
  <2> HIDE DEF unringed
  <2> QED
    BY <1>2, <2>1, <2>2, <2>3
<1>10. UnringedMatureTokens(b) \cap held = {}
  BY <1>1, <1>2 DEF BucketsInv
<1> HIDE DEF p, held, unringed, imm, immN, Tok
<1>11. ASSUME rejections' = 0, NEW c \in Coins
       PROVE  /\ tokSpendable'[c] = One(c, Tok(mature')) - One(c, Disabled')
              /\ tokImmature'[c] = One(c, immN)
              /\ tokUnconfirmed'[c] = One(c, Tok(unconfirmed'))
  <2>1. /\ tokSpendable'[c] = tokSpendable[c] - One(c, UnringedMatureTokens(b))
                              + One(c, RestoredTokens(b)) + One(c, RevivedBy(b))
        /\ tokImmature'[c] = tokImmature[c] + One(c, unringed) - One(c, DroppedTokens(b))
        /\ tokUnconfirmed'[c] = tokUnconfirmed[c] - One(c, held)
    BY <1>1, <1>11, RollbackCountersAt DEF held, unringed
  <2>2. /\ tokSpendable[c] = One(c, Tok(mature)) - One(c, Disabled)
        /\ tokImmature[c] = One(c, imm) /\ tokUnconfirmed[c] = One(c, Tok(unconfirmed))
    BY <1>1, <1>11 DEF CountersInv, Tok, imm
  <2>3. One(c, Disabled') = One(c, Disabled) - One(c, RevivedBy(b))
    <3> DEFINE D == Disabled
    <3> HIDE DEF D
    <3>0. RevivedBy(b) \subseteq D
      BY <1>2 DEF D
    <3>1. One(c, D \ RevivedBy(b)) = One(c, D) - One(c, RevivedBy(b))
      BY <3>0 DEF One
    <3> QED
      BY <1>3, <3>1, Zenon DEF D
  <2>4. One(c, Tok(mature')) = One(c, Tok(mature)) - One(c, UnringedMatureTokens(b))
                               + One(c, RestoredTokens(b))
    BY <1>7, OneMoves
  <2>5. One(c, Tok(unconfirmed')) = One(c, Tok(unconfirmed)) - One(c, held)
    BY <1>8, OneMoves
  <2>6. One(c, immN) = One(c, imm) + One(c, unringed) - One(c, DroppedTokens(b))
    BY <1>9, OneMoves
  <2>7. tokSpendable'[c] = One(c, Tok(mature')) - One(c, Disabled')
    <3> DEFINE m == One(c, Tok(mature))
               d == One(c, Disabled)
               u == One(c, UnringedMatureTokens(b))
               r == One(c, RestoredTokens(b))
               v == One(c, RevivedBy(b))
    <3>1. m \in Int /\ d \in Int /\ u \in Int /\ r \in Int /\ v \in Int
      BY DEF One
    <3>2. /\ tokSpendable'[c] = (m - d) - u + r + v /\ One(c, Tok(mature')) = m - u + r
          /\ One(c, Disabled') = d - v
      BY <2>1, <2>2, <2>3, <2>4
    <3> HIDE DEF m, d, u, r, v
    <3> QED
      BY <3>1, <3>2
  <2> QED
    BY <2>1, <2>2, <2>5, <2>6, <2>7
<1> QED
  BY <1>11 DEF CountersInv, One, Tok, immN

-----------------------------------------------------------------------------
(* The other steps *)

\* InsertTx moves the tokens of what it finds between two counters, as it moves
\* the TXOs between two buckets.
LEMMA TokenInsertTxInv ==
    ASSUME Inv, MarksInv, TotalsInv, NEW t \in WalletTxs, TokenInsertTx(t)
    PROVE  MarksInv' /\ TotalsInv' /\ (CountersInv => CountersInv')
<1> DEFINE own == OwnInputs(t) \cap TokenCoins
           Tok(S) == S \cap TokenCoins
<1>1. /\ own \subseteq mature /\ BucketsInv /\ mature \cap unconfirmed = {}
      /\ mature' = mature \ OwnInputs(t) /\ unconfirmed' = unconfirmed \cup OwnInputs(t)
      /\ OwnInputs(t) \subseteq mature
      /\ UNCHANGED <<tip, immatureTR, rejections>>
  BY DEF TokenInsertTx, InsertTx, Inv, BucketsInv, records, immature
<1>2. /\ tokSpendable' = Minus(tokSpendable, own) /\ tokUnconfirmed' = Plus(tokUnconfirmed, own)
      /\ UNCHANGED <<autCoins, autSpent, disabledBy, tokTotal, tokImmature>>
  BY DEF TokenInsertTx, HoldTokens, tokens
<1>3. MarksInv' /\ Disabled' = Disabled
  BY <1>1, <1>2 DEF MarksInv, Disabled
<1>4. /\ Tok(mature') = Tok(mature) \ own /\ own \subseteq Tok(mature)
      /\ Tok(unconfirmed') = Tok(unconfirmed) \cup own /\ Tok(unconfirmed) \cap own = {}
  BY <1>1
<1>5. AllImmatureTR' = AllImmatureTR
  BY <1>1 DEF AllImmatureTR
<1> HIDE DEF own, Tok
<1>6. /\ tokSpendable \in [Coins -> Int] /\ tokUnconfirmed \in [Coins -> Int]
      /\ tokTotal \in [Coins -> Int] /\ tokImmature \in [Coins -> Int]
  BY DEF TotalsInv
<1>7. tokSpendable' \in [Coins -> Int] /\ tokUnconfirmed' \in [Coins -> Int]
  BY <1>2, <1>6, PlusMinusType
<1>8. ASSUME NEW c \in Coins
      PROVE  /\ tokSpendable'[c] = tokSpendable[c] - One(c, own)
             /\ tokUnconfirmed'[c] = tokUnconfirmed[c] + One(c, own) /\ One(c, own) \in Int
  BY <1>2, <1>6, <1>8, PlusMinusAt DEF One
<1>9. TotalsInv'
  <2>1. ASSUME NEW c \in Coins
        PROVE  /\ tokTotal'[c] = One(c, autCoins' \ autSpent')
               /\ tokTotal'[c] = tokSpendable'[c] + tokImmature'[c] + tokUnconfirmed'[c]
    <3>1. /\ tokTotal[c] = One(c, autCoins \ autSpent)
          /\ tokTotal[c] = tokSpendable[c] + tokImmature[c] + tokUnconfirmed[c]
          /\ tokSpendable[c] \in Int /\ tokImmature[c] \in Int /\ tokUnconfirmed[c] \in Int
      BY <2>1 DEF TotalsInv
    <3> QED
      BY <1>2, <1>8, <2>1, <3>1
  <2> QED
    BY <1>2, <1>6, <1>7, <2>1 DEF TotalsInv, One
<1>10. ASSUME CountersInv PROVE CountersInv'
  <2>1. ASSUME rejections' = 0, NEW c \in Coins
        PROVE  /\ tokSpendable'[c] = One(c, Tok(mature')) - One(c, Disabled')
               /\ tokImmature'[c] = One(c, Tok(AllImmatureTR'))
               /\ tokUnconfirmed'[c] = One(c, Tok(unconfirmed'))
    <3>1. /\ tokSpendable[c] = One(c, Tok(mature)) - One(c, Disabled)
          /\ tokImmature[c] = One(c, Tok(AllImmatureTR)) /\ tokUnconfirmed[c] = One(c, Tok(unconfirmed))
      BY <1>1, <1>10, <2>1 DEF CountersInv, Tok
    <3>2. One(c, Tok(mature')) = One(c, Tok(mature)) - One(c, own)
      BY <1>4 DEF One
    <3>3. One(c, Tok(unconfirmed')) = One(c, Tok(unconfirmed)) + One(c, own)
      BY <1>4 DEF One
    <3>4. One(c, Tok(mature)) \in Int /\ One(c, Disabled) \in Int /\ One(c, own) \in Int
      BY DEF One
    <3> QED
      BY <1>2, <1>3, <1>5, <1>8, <2>1, <3>1, <3>2, <3>3, <3>4
  <2> QED
    BY <2>1 DEF CountersInv, One, Tok
<1> QED
  BY <1>3, <1>9, <1>10

\* The resend goroutine moves no token; once something was turned down the
\* counters are no longer compared with the buckets.
LEMMA TokenRestInv ==
    ASSUME Inv, MarksInv, TotalsInv, TokenResend \/ UNCHANGED <<vars, tokens, counters>>
    PROVE  MarksInv' /\ TotalsInv' /\ (CountersInv => CountersInv')
<1>1. UNCHANGED <<autCoins, autSpent, disabledBy, tokTotal, tokSpendable, tokImmature,
                  tokUnconfirmed, tip>>
  BY DEF TokenResend, ResendRead, ResendAccepted, ResendRejected, DeleteRawUnmined, tokens, counters,
         records, vars
<1>2. MarksInv' /\ TotalsInv' /\ Disabled' = Disabled
  BY <1>1 DEF MarksInv, TotalsInv, Disabled, One
<1>3. CASE \E t \in Txs : ResendRejected(t)
  <2>1. rejections \in Nat /\ rejections' = rejections + 1
    BY <1>3, WalletTxsAssumption DEF ResendRejected, Inv, TypeOK
  <2>2. rejections' # 0
    BY <2>1
  <2> QED
    BY <1>2, <2>2 DEF CountersInv
<1>4. CASE ~ \E t \in Txs : ResendRejected(t)
  <2>1. UNCHANGED <<mature, unconfirmed, immatureTR, rejections>>
    BY <1>4 DEF TokenResend, ResendRead, ResendAccepted, vars, txos, immature
  <2>2. AllImmatureTR' = AllImmatureTR
    BY <2>1 DEF AllImmatureTR
  <2>3. CountersInv => CountersInv'
    BY <1>1, <1>2, <2>1, <2>2 DEF CountersInv, One
  <2> QED
    BY <1>2, <2>3
<1> QED
  BY <1>3, <1>4

\* A new wallet has no token.
LEMMA TokenInitInv == TokenInit => Inv /\ MarksInv /\ TotalsInv /\ CountersInv
<1> SUFFICES ASSUME TokenInit PROVE Inv /\ MarksInv /\ TotalsInv /\ CountersInv
  OBVIOUS
<1>1. /\ Init /\ tip = Genesis /\ mature = {} /\ unconfirmed = {} /\ autCoins = {} /\ autSpent = {}
      /\ immatureTR = [b \in Blocks |-> {}] /\ disabledBy = [b \in Blocks |-> {}]
      /\ tokTotal = ZeroBalance /\ tokSpendable = ZeroBalance /\ tokImmature = ZeroBalance
      /\ tokUnconfirmed = ZeroBalance
  BY DEF TokenInit, Init
<1>2. Inv
  BY <1>1, InitInv
<1>3. AllImmatureTR = {} /\ Disabled = {}
  BY <1>1 DEF AllImmatureTR, Disabled
<1>4. Spent(Genesis) = {} /\ Owned(Genesis) \cap TokenCoins = {}
  <2>1. Branch[Genesis] = {Genesis} /\ Genesis \in Blocks /\ ~ CompletesGroup(Genesis)
        /\ TxsOf[Genesis] = {}
    BY TreeAssumption, RingsAssumption
  <2>2. RingsFormed(Genesis) = {}
    BY <2>1 DEF RingsFormed
  <2>3. Owned(Genesis) = OwnOutputs(Genesis)
    BY <2>1 DEF Owned
  <2>4. TransferOutputs(Genesis) = {}
    BY <2>1 DEF TransferOutputs
  <2> QED
    BY <2>1, <2>2, <2>3, <2>4, TokensAre DEF Spent
<1>5. MarksInv
  BY <1>1, <1>3, <1>4 DEF MarksInv
<1>6. TotalsInv
  BY <1>1 DEF TotalsInv, ZeroBalance, One
<1>7. CountersInv
  BY <1>1, <1>3 DEF CountersInv, ZeroBalance, One
<1> QED
  BY <1>2, <1>5, <1>6, <1>7

-----------------------------------------------------------------------------
(* What is proved of tokens *)

\* The marks of the tokens are those of the branch of the tip, and the totals
\* those of the marks, in every reachable state of the store with its tokens.
LEMMA TokenInvariance ==
    ASSUME NoCoinbaseUnmatured, DisabledRinged, DisabledNotRestored
    PROVE  TokenSpec => [](Inv /\ MarksInv /\ TotalsInv)
<1>1. Inv /\ MarksInv /\ TotalsInv /\ [TokenNext]_<<vars, tokens, counters>>
         => (Inv /\ MarksInv /\ TotalsInv)'
  <2> SUFFICES ASSUME Inv, MarksInv, TotalsInv, [TokenNext]_<<vars, tokens, counters>>
               PROVE  Inv' /\ MarksInv' /\ TotalsInv'
    OBVIOUS
  <2>1. [Next]_vars
    BY DEF TokenNext, TokenInsertBlock, TokenRollback, TokenInsertTx, TokenResend, Next
  <2>2. Inv'
    BY <2>1, NextInv
  <2>3. ASSUME NEW b \in Blocks, TokenInsertBlock(b) PROVE MarksInv' /\ TotalsInv'
    BY <2>3, InsertBlockMarksInv, InsertBlockTotalsInv
  <2>4. ASSUME NEW b \in Blocks, TokenRollback(b) PROVE MarksInv' /\ TotalsInv'
    BY <2>4, RollbackMarksInv, RollbackTotalsInv
  <2>5. ASSUME NEW t \in WalletTxs, TokenInsertTx(t) PROVE MarksInv' /\ TotalsInv'
    BY <2>5, TokenInsertTxInv
  <2>6. ASSUME TokenResend \/ UNCHANGED <<vars, tokens, counters>> PROVE MarksInv' /\ TotalsInv'
    BY <2>6, TokenRestInv
  <2> QED
    BY <2>2, <2>3, <2>4, <2>5, <2>6 DEF TokenNext
<1> QED
  BY TokenInitInv, <1>1, PTL DEF TokenSpec

\* The totals the wallet reports of its tokens count exactly those no block has
\* spent and no re-registration disabled, and are the sums of the partial
\* counters, after every reorganization and with sends pending or turned down
\* (wtxmgr/tx.go, InsertTx, InsertBlock, rollback).
THEOREM TotalsAreOfTokens ==
    ASSUME NoCoinbaseUnmatured, DisabledRinged, DisabledNotRestored
    PROVE  TokenSpec => []TokenTotals
<1>1. MarksInv /\ TotalsInv => TokenTotals
  <2> SUFFICES ASSUME MarksInv, TotalsInv PROVE TokenTotals
    OBVIOUS
  <2>1. tokTotal = [c \in Coins |-> tokTotal[c]]
    BY DEF TotalsInv
  <2>2. tokTotal = CountOf(Live)
    BY <2>1 DEF TotalsInv, One, CountOf, Live
  <2> QED
    BY <2>2 DEF TotalsInv, TokenTotals
<1> QED
  BY TokenInvariance, <1>1, PTL

\* A live token is counted where its TXO is, and what is spent or disabled counts
\* nowhere, or as held and one less spendable, until a publication is turned
\* down (wtxmgr/tx.go, InsertTx, InsertBlock, rollback).
THEOREM TokensAreWithTxos ==
    ASSUME NoCoinbaseUnmatured, DisabledRinged, DisabledNotRestored, DisabledNotSpent
    PROVE  TokenSpec => []TokensMatchTxos
<1> DEFINE I == Inv /\ MarksInv /\ TotalsInv
<1>1. I /\ CountersInv /\ [TokenNext]_<<vars, tokens, counters>> => CountersInv'
  <2> SUFFICES ASSUME Inv, MarksInv, TotalsInv, CountersInv, [TokenNext]_<<vars, tokens, counters>>
               PROVE  CountersInv'
    OBVIOUS
  <2>1. ASSUME NEW b \in Blocks, TokenInsertBlock(b) PROVE CountersInv'
    BY <2>1, InsertBlockCountersInv
  <2>2. ASSUME NEW b \in Blocks, TokenRollback(b) PROVE CountersInv'
    BY <2>2, RollbackCountersInv
  <2>3. ASSUME NEW t \in WalletTxs, TokenInsertTx(t) PROVE CountersInv'
    BY <2>3, TokenInsertTxInv
  <2>4. ASSUME TokenResend \/ UNCHANGED <<vars, tokens, counters>> PROVE CountersInv'
    BY <2>4, TokenRestInv
  <2> QED
    BY <2>1, <2>2, <2>3, <2>4 DEF TokenNext
<1>2. I /\ CountersInv => TokensMatchTxos
  <2> SUFFICES ASSUME Inv, MarksInv, TotalsInv, CountersInv, rejections = 0 PROVE
                  /\ autCoins = (InBuckets \cap TokenCoins)
                  /\ \A c \in Live :
                        \/ c \in mature /\ CountedAt(c, 1, 0, 0)
                        \/ c \in AllImmatureTR /\ CountedAt(c, 0, 1, 0)
                        \/ c \in unconfirmed /\ CountedAt(c, 0, 0, 1)
                  /\ \A c \in autSpent :
                        \/ CountedAt(c, 0, 0, 0)
                        \/ c \in unconfirmed /\ CountedAt(c, -1, 0, 1)
    BY DEF TokensMatchTxos
  <2>1. tip \in Blocks /\ BucketsInv /\ TypeOK
    BY DEF Inv, TypeOK
  <2>2. /\ AllImmatureCB \cup AllImmatureTR = Owned(tip) \ Ready(tip)
        /\ confirmed = Spent(tip) /\ mature = (Ready(tip) \ Spent(tip)) \ unconfirmed
        /\ unconfirmed \subseteq Ready(tip) \ Spent(tip)
        /\ Spent(tip) \subseteq Ready(tip) /\ Ready(tip) \subseteq Owned(tip)
    BY <2>1, LedgerBuckets, SpentReady DEF BucketsInv
  <2>3. AllImmatureCB \cap TokenCoins = {}
    <3>1. \A a \in Blocks : immatureCB[a] \subseteq CoinbaseOutput(a)
      BY <2>1 DEF BucketsInv, ImmatureCBAt
    <3>2. \A a \in Blocks : CoinbaseOutput(a) \subseteq CoinbaseCoins
      BY OutputKinds
    <3> QED
      BY <3>1, <3>2, TokensAre DEF AllImmatureCB
  <2>4. /\ autCoins = Owned(tip) \cap TokenCoins /\ autSpent = (Spent(tip) \cap TokenCoins) \cup Disabled
        /\ Disabled \subseteq TokenCoins \cap Ready(tip)
    BY <2>1, DisabledIs DEF MarksInv
  <2>5. Disabled \cap Spent(tip) = {}
    <3>1. tip \in Branch[tip]
      BY <2>1, BranchBelow
    <3> QED
      BY <2>1, <3>1, DisabledUnspent
  <2>6. \A c \in Coins :
           /\ tokSpendable[c] = One(c, mature \cap TokenCoins) - One(c, Disabled)
           /\ tokImmature[c] = One(c, AllImmatureTR \cap TokenCoins)
           /\ tokUnconfirmed[c] = One(c, unconfirmed \cap TokenCoins)
    BY DEF CountersInv
  <2>7. autCoins = (InBuckets \cap TokenCoins)
    BY <2>2, <2>4 DEF InBuckets
  <2>8. ASSUME NEW c \in Live
        PROVE  \/ c \in mature /\ CountedAt(c, 1, 0, 0)
               \/ c \in AllImmatureTR /\ CountedAt(c, 0, 1, 0)
               \/ c \in unconfirmed /\ CountedAt(c, 0, 0, 1)
    <3>1. c \in TokenCoins /\ c \in Owned(tip) /\ c \notin Spent(tip) /\ c \notin Disabled /\ c \in Coins
      BY <2>4, TokensAre DEF Live
    <3>2. CASE c \in mature
      <4>1. c \notin AllImmatureTR /\ c \notin unconfirmed
        BY <2>2, <3>2
      <4> QED
        BY <2>6, <3>1, <3>2, <4>1 DEF CountedAt, One
    <3>3. CASE c \in unconfirmed
      <4>1. c \notin AllImmatureTR /\ c \notin mature
        BY <2>2, <3>3
      <4> QED
        BY <2>6, <3>1, <3>3, <4>1 DEF CountedAt, One
    <3>4. CASE c \notin mature /\ c \notin unconfirmed
      <4>1. c \in AllImmatureTR
        BY <2>2, <2>3, <3>1, <3>4
      <4> QED
        BY <2>6, <3>1, <3>4, <4>1 DEF CountedAt, One
    <3> QED
      BY <3>2, <3>3, <3>4
  <2>9. ASSUME NEW c \in autSpent
        PROVE  CountedAt(c, 0, 0, 0) \/ (c \in unconfirmed /\ CountedAt(c, -1, 0, 1))
    <3>1. c \in TokenCoins /\ c \in Coins /\ c \in Ready(tip) /\ c \notin AllImmatureTR
      BY <2>2, <2>4, TokensAre
    <3>2. CASE c \in Spent(tip)
      <4>1. c \notin mature /\ c \notin unconfirmed /\ c \notin Disabled
        BY <2>2, <2>5, <3>2
      <4> QED
        BY <2>6, <3>1, <4>1 DEF CountedAt, One
    <3>3. CASE c \notin Spent(tip) /\ c \in unconfirmed
      <4>1. c \in Disabled /\ c \notin mature
        BY <2>2, <2>4, <3>3
      <4> QED
        BY <2>6, <3>1, <3>3, <4>1 DEF CountedAt, One
    <3>4. CASE c \notin Spent(tip) /\ c \notin unconfirmed
      <4>1. c \in Disabled /\ c \in mature
        BY <2>2, <2>4, <3>1, <3>4
      <4> QED
        BY <2>6, <3>1, <3>4, <4>1 DEF CountedAt, One
    <3> QED
      BY <3>2, <3>3, <3>4
  <2> QED
    BY <2>7, <2>8, <2>9
<1>3. TokenSpec => []I
  BY TokenInvariance
<1> HIDE DEF I
<1> QED
  BY TokenInitInv, <1>1, <1>2, <1>3, PTL DEF TokenSpec
=============================================================================
