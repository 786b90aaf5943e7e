------------------------------ MODULE TxStore ------------------------------
(***************************************************************************)
(* The transaction store of the wallet (wtxmgr): the buckets a wallet TXO  *)
(* moves through, the rings and serial numbers that say when it is spent,  *)
(* the buckets of the transactions that spend it, and the stored balances. *)
(*                                                                         *)
(* Every action is one database transaction.  InsertBlock and Rollback are *)
(* called from the goroutine that handles chain notifications, InsertTx    *)
(* from a caller of SendOutputs, DeleteRawUnmined from the goroutine that  *)
(* resends unconfirmed transactions.  Rollback undoes one block, as        *)
(* disconnectBlock asks for; a longer rollback repeats it.                 *)
(*                                                                         *)
(* A stored balance is a sum of amounts that is only ever changed by       *)
(* adding or subtracting the amount of some TXO.  It is kept here as the   *)
(* number of times each TXO counts in that sum, so that what holds of it   *)
(* holds for all amounts.                                                  *)
(***************************************************************************)
EXTENDS WalletChain

CONSTANTS
    WalletTxs,      \* transfers this wallet creates and hands to InsertTx
    MaxRejections   \* bound on publications the chain server turns down

ASSUME WalletTxsAssumption ==
    /\ WalletTxs \subseteq Txs
    /\ MaxRejections \in Nat

VARIABLES
    tip,            \* the block the store is at
    blockRecords,   \* bucketBlocks: blocks whose record is kept
    blockOutputs,   \* bucketBlockOutputs: own outputs of a block
    blockInputs,    \* bucketBlockInputs: rings a block spends from, as they
                    \* were before it, and the serial numbers it adds
    immatureCB,     \* bucketImmaturedCoinbaseOutput, keyed by block
    immatureTR,     \* bucketImmaturedOutput, keyed by block
    mature,         \* bucketMaturedOutput: spendable
    unconfirmed,    \* bucketSpentButUnmined: held by an unconfirmed spender
    confirmed,      \* bucketSpentConfirmed: spent on the chain
    utxoRing,       \* bucketUTXORing
    unconfirmedTx,  \* bucketUnconfirmedTx
    invalidTx,      \* bucketInvalidTx
    confirmedTx,    \* bucketConfirmedTx
    relevant,       \* bucketRelevantTxs: the transactions that spend a TXO
    balance,        \* the stored total
    spendableBal, immatureCBBal, immatureTRBal, unconfirmedBal,
    resend,         \* unconfirmed transactions the resend goroutine has read
    rejections      \* publications turned down so far

\* The buckets in groups, each written and read by put, fetch, exists and delete
\* functions of its own: the records of the blocks, outputs that are not
\* mature, TXOs with a ring, transactions and the transactions of a TXO, and
\* the balances.
records  == <<tip, blockRecords, blockOutputs, blockInputs>>
immature == <<immatureCB, immatureTR>>
txos     == <<mature, unconfirmed, confirmed>>
txs      == <<unconfirmedTx, invalidTx, confirmedTx, relevant>>
balances == <<balance, spendableBal, immatureCBBal, immatureTRBal,
              unconfirmedBal>>
vars     == <<records, immature, txos, utxoRing, txs, balances, resend,
              rejections>>

-----------------------------------------------------------------------------
(* Helpers on stored values *)

\* A UTXORing entry: which members are the wallet's (IsMy) and the serial
\* numbers seen on the chain (GotSerialNumberes).  NoRing: no entry.
RingState == [mine : SUBSET Coins, got : SUBSET Coins]
NoRing == [mine |-> {}, got |-> {}]

InputRecord == [old : [Rings -> RingState], sns : [Rings -> SUBSET Coins]]
NoInputs == [old |-> [r \in Rings |-> NoRing], sns |-> [r \in Rings |-> {}]]

\* The Spent flags AddGotSerialNumber leaves: once every serial number of the
\* ring has been seen all own members are spent, until then those it matches.
SpentFlags(r, u) == IF u.got = Members[r] THEN u.mine ELSE u.mine \cap u.got
AllSpent(r, u) == u.mine \subseteq SpentFlags(r, u)

\* A balance after the amounts of the TXOs of S are added or subtracted.
Plus(bal, S) == [c \in Coins |-> IF c \in S THEN bal[c] + 1 ELSE bal[c]]
Minus(bal, S) == [c \in Coins |-> IF c \in S THEN bal[c] - 1 ELSE bal[c]]

ZeroBalance == [c \in Coins |-> 0]
CountOf(S) == [c \in Coins |-> IF c \in S THEN 1 ELSE 0]

AllImmatureCB == UNION {immatureCB[b] : b \in Blocks}
AllImmatureTR == UNION {immatureTR[b] : b \in Blocks}

\* The transactions recorded as spenders of some TXO of S.
RelevantTo(S) == UNION {relevant[c] : c \in S}

\* The wallet's TXOs a transaction spends, by the rings now in the bucket.
OwnInputs(t) ==
    {c \in Coins : \E r \in Rings : <<r, c>> \in Spends[t] /\ c \in utxoRing[r].mine}

-----------------------------------------------------------------------------
\* A wallet just created: the loader has stored the genesis block.
Init ==
    /\ tip = Genesis
    /\ blockRecords = {Genesis}
    /\ blockOutputs = [b \in Blocks |-> IF b = Genesis THEN CoinbaseOutput(b) ELSE {}]
    /\ blockInputs = [b \in Blocks |-> NoInputs]
    /\ immatureCB = [b \in Blocks |-> IF b = Genesis THEN CoinbaseOutput(b) ELSE {}]
    /\ immatureTR = [b \in Blocks |-> {}]
    /\ mature = {} /\ unconfirmed = {} /\ confirmed = {}
    /\ utxoRing = [r \in Rings |-> NoRing]
    /\ unconfirmedTx = {} /\ invalidTx = {} /\ confirmedTx = {}
    /\ relevant = [c \in Coins |-> {}]
    /\ balance = CountOf(CoinbaseOutput(Genesis))
    /\ immatureCBBal = CountOf(CoinbaseOutput(Genesis))
    /\ spendableBal = ZeroBalance
    /\ immatureTRBal = ZeroBalance
    /\ unconfirmedBal = ZeroBalance
    /\ resend = {}
    /\ rejections = 0

-----------------------------------------------------------------------------
(* InsertTx: record a transaction the chain server has accepted *)

InsertTx(t) ==
    LET own == OwnInputs(t)
        seen == {t} \cap RelevantTo(own)
        conflicts == RelevantTo(own) \ {t}
    IN
    /\ t \notin unconfirmedTx
    \* A missing ring is a nil dereference, a TXO that is not in the mature
    \* bucket an error; both leave the store as it is.
    /\ \A input \in Spends[t] : utxoRing[input[1]] # NoRing
    /\ own \subseteq mature
    /\ mature' = mature \ own
    /\ unconfirmed' = unconfirmed \cup own
    /\ spendableBal' = Minus(spendableBal, own)
    /\ unconfirmedBal' = Plus(unconfirmedBal, own)
    /\ unconfirmedTx' = (unconfirmedTx \ conflicts) \cup {t}
    /\ confirmedTx' = confirmedTx \ (conflicts \cup seen)
    /\ invalidTx' = (invalidTx \ seen)
                    \cup (conflicts \cap (unconfirmedTx \cup confirmedTx))
    /\ relevant' = [c \in Coins |->
                       IF c \in own THEN relevant[c] \cup {t} ELSE relevant[c]]
    /\ UNCHANGED <<records, immature, confirmed, utxoRing, balance,
                   immatureCBBal, immatureTRBal, resend, rejections>>

-----------------------------------------------------------------------------
(* InsertBlock: attach the block after the tip *)

\* The rings in the bucket that b spends from, and their entries after it.
RingsTouched(b) == {r \in RingsSpentBy(b) : utxoRing[r] # NoRing}
AfterBlock(b, r) == [utxoRing[r] EXCEPT !.got = @ \cup Revealed(b, r)]

\* A serial number seen before makes InsertBlock fail.  (The code compares
\* only the first input of the block that spends from the ring.)
DoubleSerialNumber(b) ==
    \E r \in RingsTouched(b) : utxoRing[r].got \cap Revealed(b, r) # {}

\* Own TXOs whose Spent flag is set in a ring the block touches.
SpentByBlock(b) ==
    UNION {SpentFlags(r, AfterBlock(b, r)) : r \in RingsTouched(b)}

\* Of these, the ones another copy of the wallet spent, and the ones this
\* wallet's transactions held.
SpentMature(b) == SpentByBlock(b) \cap mature
SpentUnconfirmed(b) == (SpentByBlock(b) \cap unconfirmed) \ mature

\* The own outputs of the other blocks of the group, as the immature buckets
\* hold them; blocks without own outputs are not looked up.
GroupBlocks(b) == {a \in Group(b) \ {b} : blockOutputs[a] # {}}
GroupTransfers(b) == UNION {immatureTR[a] : a \in GroupBlocks(b)}
GroupCoins(b) ==
    CoinbaseOutput(b) \cup TransferOutputs(b) \cup GroupTransfers(b)
        \cup UNION {immatureCB[a] : a \in GroupBlocks(b)}

\* A mutated form of MaturedTransfers: the outputs of b itself are forgotten.
MaturedEarlierTransfers(b) == IF CompletesGroup(b) THEN GroupTransfers(b) ELSE {}

\* TXOs that become spendable with b.
MaturedCoinbases(b) == UNION {immatureCB[a] : a \in MaturedBlocks(b)}
MaturedTransfers(b) ==
    IF CompletesGroup(b) THEN GroupTransfers(b) \cup TransferOutputs(b) ELSE {}

\* The rings formed over the group, if some member is the wallet's.
NewRings(b) ==
    IF CompletesGroup(b)
    THEN {r \in RingsOf[b] : Members[r] \cap GroupCoins(b) # {}}
    ELSE {}

\* A mutated form of RecordedRing: the entry is saved after the update.
RecordedRingAliased(b, r) ==
    IF r \in RingsTouched(b) THEN AfterBlock(b, r) ELSE NoRing

\* The entry of a ring that is saved for Rollback: a copy of the one before b.
RecordedRing(b, r) == IF r \in RingsTouched(b) THEN utxoRing[r] ELSE NoRing

\* The other blocks of a completed group, whose records are put back if they
\* are gone; all but the one before b only if the group pays the wallet.
RefetchedBlocks(b) ==
    IF CompletesGroup(b)
    THEN {a \in Group(b) \ {b} : Height[a] = Height[b] - 1 \/ GroupCoins(b) # {}}
    ELSE {}

\* The record NumberBlock below b goes.
KeptRecords(b) ==
    {a \in blockRecords \cup {b} :
        Height[b] > NumberBlock => Height[a] # Height[b] - NumberBlock}

InsertBlockRecords(b) ==
    LET touched == RingsTouched(b)
        outs == OwnOutputs(b)
    IN
    /\ tip' = b
    /\ blockRecords' = KeptRecords(b) \cup RefetchedBlocks(b)
    /\ blockOutputs' =
          IF outs = {} THEN blockOutputs ELSE [blockOutputs EXCEPT ![b] = outs]
    /\ blockInputs' =
          IF touched = {} THEN blockInputs
          ELSE [blockInputs EXCEPT ![b] =
                  [old |-> [r \in Rings |-> RecordedRing(b, r)],
                   sns |-> [r \in Rings |->
                              IF r \in touched THEN Revealed(b, r) ELSE {}]]]

\* Rings whose own members are all spent are deleted.
InsertBlockRings(b) ==
    utxoRing' =
        [r \in Rings |->
            IF r \in NewRings(b)
            THEN [mine |-> Members[r] \cap GroupCoins(b), got |-> {}]
            ELSE IF r \notin RingsTouched(b) THEN utxoRing[r]
            ELSE IF AllSpent(r, AfterBlock(b, r)) THEN NoRing
            ELSE AfterBlock(b, r)]

\* The transactions of b that spend own TXOs, and the unconfirmed ones that
\* spend the same TXOs.
Accepted(b) == {t \in TxsOf[b] : OwnInputs(t) # {}}
Conflicts(b) ==
    unconfirmedTx \cap UNION {RelevantTo(OwnInputs(t)) \ {t} : t \in Accepted(b)}

\* A mutated form of InsertBlockTxs: an invalid transaction that is accepted
\* after all stays in the invalid bucket.
InsertBlockTxsKeepInvalid(b) ==
    /\ unconfirmedTx' = unconfirmedTx \ (Conflicts(b) \cup Accepted(b))
    /\ invalidTx' = invalidTx \cup Conflicts(b)
    /\ confirmedTx' = confirmedTx \cup Accepted(b)
    /\ relevant' = [c \in Coins |->
          relevant[c] \cup {t \in Accepted(b) : c \in OwnInputs(t)}]

InsertBlockTxs(b) ==
    /\ unconfirmedTx' = unconfirmedTx \ (Conflicts(b) \cup Accepted(b))
    /\ invalidTx' = (invalidTx \cup Conflicts(b)) \ Accepted(b)
    /\ confirmedTx' = confirmedTx \cup Accepted(b)
    /\ relevant' = [c \in Coins |->
          relevant[c] \cup {t \in Accepted(b) : c \in OwnInputs(t)}]

\* A block without own outputs writes no immature bucket entry.
InsertBlockTxos(b) ==
    /\ mature' = (mature \ SpentMature(b))
                 \cup MaturedCoinbases(b) \cup MaturedTransfers(b)
    /\ unconfirmed' = unconfirmed \ SpentUnconfirmed(b)
    /\ confirmed' = confirmed \cup SpentMature(b) \cup SpentUnconfirmed(b)
    /\ immatureCB' =
          [a \in Blocks |->
              IF a = b /\ CoinbaseOutput(b) # {} THEN CoinbaseOutput(b)
              ELSE IF a \in MaturedBlocks(b) THEN {}
              ELSE immatureCB[a]]
    /\ immatureTR' =
          [a \in Blocks |->
              IF a = b /\ ~CompletesGroup(b) /\ TransferOutputs(b) # {}
              THEN TransferOutputs(b)
              ELSE IF CompletesGroup(b) /\ a \in Group(b) \ {b} THEN {}
              ELSE immatureTR[a]]

InsertBlockBalances(b) ==
    LET received == Plus(Plus(balance, CoinbaseOutput(b)), TransferOutputs(b))
        spendable == Minus(spendableBal, SpentMature(b))
    IN
    /\ balance' = Minus(Minus(received, SpentMature(b)), SpentUnconfirmed(b))
    /\ spendableBal' =
          Plus(Plus(spendable, MaturedCoinbases(b)), MaturedTransfers(b))
    /\ immatureCBBal' =
          Minus(Plus(immatureCBBal, CoinbaseOutput(b)), MaturedCoinbases(b))
    /\ immatureTRBal' =
          Minus(Plus(immatureTRBal, TransferOutputs(b)), MaturedTransfers(b))
    /\ unconfirmedBal' = Minus(unconfirmedBal, SpentUnconfirmed(b))

InsertBlock(b) ==
    /\ b # Genesis
    /\ Parent[b] = tip
    /\ ~DoubleSerialNumber(b)
    /\ InsertBlockRecords(b)
    /\ InsertBlockRings(b)
    /\ InsertBlockTxs(b)
    /\ InsertBlockTxos(b)
    /\ InsertBlockBalances(b)
    /\ UNCHANGED <<resend, rejections>>

-----------------------------------------------------------------------------
(* Rollback: detach the block at the tip.  The code does this in stages,   *)
(* each working on what the one before left; the operators below are named *)
(* for the stage.                                                          *)

(* Stage 1: if b completed a group, its rings are undone.  The outputs of  *)
(* the group's blocks return to the immature buckets.                      *)

\* The blocks of the group with outputs to move back.
UndoneBlocks(b) ==
    IF CompletesGroup(b) THEN {a \in Group(b) : blockOutputs[a] # {}} ELSE {}

StillImmatureCB(a) == blockOutputs[a] \cap immatureCB[a]

\* A mutated form of ToImmatureTR: the unconfirmed bucket is not searched.
ToImmatureTRNotHeld(a) ==
    (blockOutputs[a] \ immatureCB[a]) \cap (mature \cup confirmed)

\* Of the outputs of a block, those to move to the immature transfer bucket,
\* whichever bucket they are in.
ToImmatureTR(a) ==
    (blockOutputs[a] \ immatureCB[a]) \cap (mature \cup unconfirmed \cup confirmed)

UnringedTxos(b) == UNION {ToImmatureTR(a) : a \in UndoneBlocks(b)}

UnringedMature(b) == UnringedTxos(b) \cap mature
UnringedUnconfirmed(b) == (UnringedTxos(b) \cap unconfirmed) \ mature

UnringedConfirmed(b) == UnringedTxos(b) \ (mature \cup unconfirmed)

ImmatureTRUnringed(b) ==
    [a \in Blocks |->
        IF a \in UndoneBlocks(b) THEN ToImmatureTR(a) ELSE immatureTR[a]]

\* The rings of the TXOs found are deleted.
DeletedRings(b) ==
    {r \in RingsOf[b] : Members[r] \cap
        (UnringedTxos(b) \cup UNION {StillImmatureCB(a) : a \in UndoneBlocks(b)}) # {}}
RingUnringed(b) ==
    [r \in Rings |->
        IF CompletesGroup(b) /\ r \in DeletedRings(b) THEN NoRing ELSE utxoRing[r]]

(* Stage 2: the outputs of b, now all immature, leave the store. *)
DroppedCB(b) == immatureCB[b]
DroppedTR(b) == ImmatureTRUnringed(b)[b]

(* Stage 3: the rings b spent from return to what they were, and the TXOs  *)
(* it spent to the mature bucket.                                          *)

SavedRings(b) == {r \in Rings : blockInputs[b].old[r] # NoRing}

\* A mutated form of RestoredFrom: every own member of the ring is restored.
RestoredFromAll(b, r) == blockInputs[b].old[r].mine

RestoredFrom(b, r) ==
    LET old == blockInputs[b].old[r]
        unspent == old.mine \ SpentFlags(r, old)
    IN  IF RingUnringed(b)[r] = NoRing
        THEN unspent
        ELSE unspent \cap RingUnringed(b)[r].mine \cap blockInputs[b].sns[r]

Restored(b) == UNION {RestoredFrom(b, r) : r \in SavedRings(b)}

ConfirmedUnringed(b) == confirmed \ UnringedConfirmed(b)

\* A TXO to restore that is not in the confirmed bucket is a nil dereference.
RollbackPanics(b) == ~(Restored(b) \subseteq ConfirmedUnringed(b))

MatureRestored(b) == (mature \ UnringedMature(b)) \cup Restored(b)
UnconfirmedRestored(b) == unconfirmed \ UnringedUnconfirmed(b)
ConfirmedRestored(b) == ConfirmedUnringed(b) \ Restored(b)

(* Stage 4: coinbases that b matured become immature again.  Their block   *)
(* is looked up by height: of several blocks with own outputs at a height  *)
(* the last key is taken.  The outputs of each are put under the key of b, *)
(* each put replacing the one before.                                      *)
BlocksWithOutputs(h) == {a \in Blocks : Height[a] = h /\ blockOutputs[a] # {}}
LastKey(S) == CHOOSE a \in S : \A x \in S : KeyRank[x] <= KeyRank[a]

UnmaturedBlocks(b) ==
    IF MaturesGroup(b)
    THEN {LastKey(BlocksWithOutputs(h)) :
            h \in {x \in MaturedHeights(b) : BlocksWithOutputs(x) # {}}}
    ELSE {}

ToImmatureCB(b, a) ==
    blockOutputs[a] \cap CoinbaseCoins
        \cap (MatureRestored(b) \cup UnconfirmedRestored(b) \cup ConfirmedRestored(b))
UnmaturedTxos(b) == UNION {ToImmatureCB(b, a) : a \in UnmaturedBlocks(b)}

\* Mutated forms of UnmaturedMature: whichever bucket a TXO was in, it is
\* taken from the spendable balance; the TXOs are not deleted from the bucket.
UnmaturedAnywhere(b) == UnmaturedTxos(b)
UnmaturedCopied(b) == {}

UnmaturedMature(b) == UnmaturedTxos(b) \cap MatureRestored(b)
UnmaturedUnconfirmed(b) ==
    (UnmaturedTxos(b) \cap UnconfirmedRestored(b)) \ MatureRestored(b)
UnmaturedConfirmed(b) ==
    UnmaturedTxos(b) \ (MatureRestored(b) \cup UnconfirmedRestored(b))

\* The block written last: the lowest.
LastUnmatured(b) ==
    CHOOSE a \in UnmaturedBlocks(b) :
        \A x \in UnmaturedBlocks(b) : Height[a] <= Height[x]

RollbackTxos(b) ==
    /\ mature' = MatureRestored(b) \ UnmaturedMature(b)
    /\ unconfirmed' = UnconfirmedRestored(b) \ UnmaturedUnconfirmed(b)
    /\ confirmed' = ConfirmedRestored(b) \ UnmaturedConfirmed(b)
    /\ immatureTR' = [ImmatureTRUnringed(b) EXCEPT ![b] = {}]
    /\ immatureCB' = [immatureCB EXCEPT ![b] =
          IF UnmaturedBlocks(b) = {} THEN {}
          ELSE ToImmatureCB(b, LastUnmatured(b))]

RollbackRings(b) ==
    utxoRing' = [r \in Rings |->
        IF r \in SavedRings(b) THEN blockInputs[b].old[r] ELSE RingUnringed(b)[r]]

\* A transaction is invalid once an output it spends is immature again, and
\* unconfirmed once an output it spends is restored.
RollbackTxs(b) ==
    LET unringed == RelevantTo(UnringedTxos(b))
        unringedConfirmed == RelevantTo(UnringedConfirmed(b)) \cap confirmedTx
        restored == RelevantTo(Restored(b))
        unmatured == RelevantTo(UnmaturedTxos(b))
        confirmed1 == confirmedTx \ unringedConfirmed
        invalid1 == invalidTx \cup (unringed \cap unconfirmedTx) \cup unringedConfirmed
        confirmed2 == confirmed1 \ restored
        invalid2 == invalid1 \ restored
        unconfirmed2 == (unconfirmedTx \ unringed)
                        \cup (restored \cap (confirmed1 \cup invalid1))
    IN
    /\ unconfirmedTx' = unconfirmed2 \ unmatured
    /\ confirmedTx' = confirmed2 \ unmatured
    /\ invalidTx' = invalid2 \cup (unmatured \cap (unconfirmed2 \cup confirmed2))
    /\ UNCHANGED relevant

RollbackBalances(b) ==
    LET total == Plus(Plus(balance, UnringedConfirmed(b)), Restored(b))
        spendable == Plus(Minus(spendableBal, UnringedMature(b)), Restored(b))
        pending == Minus(unconfirmedBal, UnringedUnconfirmed(b))
    IN
    /\ balance' = Plus(Minus(Minus(total, DroppedCB(b)), DroppedTR(b)),
                       UnmaturedConfirmed(b))
    /\ spendableBal' = Minus(spendable, UnmaturedMature(b))
    /\ immatureCBBal' = Plus(Minus(immatureCBBal, DroppedCB(b)),
                             UnmaturedMature(b) \cup UnmaturedUnconfirmed(b))
    /\ immatureTRBal' = Minus(Plus(immatureTRBal, UnringedTxos(b)), DroppedTR(b))
    /\ unconfirmedBal' = Plus(Minus(pending, UnmaturedUnconfirmed(b)),
                              UnmaturedConfirmed(b))

\* Blocks whose record is gone are assumed never to be detached.
Rollback(b) ==
    /\ b = tip
    /\ b # Genesis
    /\ Detachable(b)
    /\ b \in blockRecords
    /\ ~RollbackPanics(b)
    /\ tip' = Parent[b]
    /\ blockRecords' = blockRecords \ {b}
    /\ RollbackTxos(b)
    /\ RollbackRings(b)
    /\ RollbackTxs(b)
    /\ RollbackBalances(b)
    /\ UNCHANGED <<blockOutputs, blockInputs, resend, rejections>>

-----------------------------------------------------------------------------
(* Resending: one goroutine at a time publishes again what it has read of  *)
(* the unconfirmed transactions, and deletes those the server turns down.  *)

ResendRead ==
    /\ resend = {}
    /\ unconfirmedTx # {}
    /\ resend' = unconfirmedTx
    /\ UNCHANGED <<records, immature, txos, utxoRing, txs, balances, rejections>>

ResendAccepted(t) ==
    /\ t \in resend
    /\ resend' = resend \ {t}
    /\ UNCHANGED <<records, immature, txos, utxoRing, txs, balances, rejections>>

\* The balances are left alone.
DeleteRawUnmined(t) ==
    LET freed == OwnInputs(t) \cap unconfirmed
    IN  /\ mature' = mature \cup freed
        /\ unconfirmed' = unconfirmed \ freed
        /\ unconfirmedTx' = unconfirmedTx \ {t}
        /\ UNCHANGED <<records, immature, confirmed, utxoRing, invalidTx,
                       confirmedTx, relevant, balances>>

ResendRejected(t) ==
    /\ t \in resend
    /\ rejections < MaxRejections
    /\ DeleteRawUnmined(t)
    /\ resend' = resend \ {t}
    /\ rejections' = rejections + 1

-----------------------------------------------------------------------------
Next ==
    \/ \E b \in Blocks : InsertBlock(b) \/ Rollback(b)
    \/ \E t \in WalletTxs : InsertTx(t)
    \/ ResendRead
    \/ \E t \in Txs : ResendAccepted(t) \/ ResendRejected(t)

Spec == Init /\ [][Next]_vars

-----------------------------------------------------------------------------
(* Properties *)

\* Every bucket holds what its name says, and every stored balance is an
\* integer (wtxmgr/db.go, the bucket declarations).
TypeOK ==
    /\ tip \in Blocks
    /\ blockRecords \subseteq Blocks
    /\ blockOutputs \in [Blocks -> SUBSET Coins]
    /\ blockInputs \in [Blocks -> InputRecord]
    /\ immatureCB \in [Blocks -> SUBSET Coins]
    /\ immatureTR \in [Blocks -> SUBSET Coins]
    /\ mature \subseteq Coins
    /\ unconfirmed \subseteq Coins
    /\ confirmed \subseteq Coins
    /\ utxoRing \in [Rings -> RingState]
    /\ unconfirmedTx \subseteq Txs
    /\ invalidTx \subseteq Txs
    /\ confirmedTx \subseteq Txs
    /\ relevant \in [Coins -> SUBSET Txs]
    /\ balance \in [Coins -> Int]
    /\ spendableBal \in [Coins -> Int]
    /\ immatureCBBal \in [Coins -> Int]
    /\ immatureTRBal \in [Coins -> Int]
    /\ unconfirmedBal \in [Coins -> Int]
    /\ resend \subseteq Txs
    /\ rejections \in 0 .. MaxRejections

InBuckets == AllImmatureCB \cup AllImmatureTR \cup mature \cup unconfirmed \cup confirmed

\* No TXO is in two buckets, nor under two blocks of an immature bucket, and
\* none of a detached block is left in any, where it would be counted and
\* offered for spending: what InsertBlock, Rollback, InsertTx and DeleteRawUnmined
\* put into a bucket leaves the one it was in.
OneBucket ==
    /\ mature \cap unconfirmed = {}
    /\ mature \cap confirmed = {}
    /\ unconfirmed \cap confirmed = {}
    /\ \A b \in Blocks :
          /\ (immatureCB[b] \cup immatureTR[b])
                \cap (mature \cup unconfirmed \cup confirmed) = {}
          /\ \A a \in Blocks : immatureCB[a] \cap immatureTR[b] = {}
          /\ \A a \in Blocks \ {b} :
                /\ immatureCB[a] \cap immatureCB[b] = {}
                /\ immatureTR[a] \cap immatureTR[b] = {}
    /\ InBuckets \subseteq Owned(tip)

\* The total InsertBlock, Rollback and InsertTx keep is, at every moment, the
\* sum of the four partial balances Balance returns beside it, whatever the
\* amounts of the TXOs: every one of the five sums is updated in step.
TotalIsSum ==
    \A c \in Coins :
        balance[c] = immatureCBBal[c] + immatureTRBal[c]
                     + spendableBal[c] + unconfirmedBal[c]

\* Each partial balance is the sum of the amounts in its bucket: the balance
\* a user sees is what could be listed TXO by TXO.  But for DeleteRawUnmined,
\* which leaves the balances: what it frees of a transaction that was turned
\* down counts as unconfirmed for good, and each time as one less spendable.
BalancesMatchBuckets ==
    /\ \A c \in Coins :
          LET freed == unconfirmedBal[c] - CountOf(unconfirmed)[c]
          IN  /\ freed \in 0 .. rejections
              /\ spendableBal[c] = CountOf(mature)[c] - freed
    /\ immatureCBBal = CountOf(AllImmatureCB)
    /\ immatureTRBal = CountOf(AllImmatureTR)

\* The transactions InsertBlock filed as confirmed are those of the branch
\* that spend the wallet's TXOs, and each transaction is filed once: none
\* survives the block it was in, none is demoted while its block is there, and
\* the loser of a double spend that wins after all is no longer invalid.
ConfirmedTxMatchesBranch ==
    /\ confirmedTx = {t \in UNION {TxsOf[b] : b \in Branch[tip]} :
                        \E input \in Spends[t] : input[2] \in Owned(tip)}
    /\ confirmedTx \cap (unconfirmedTx \cup invalidTx) = {}
    /\ unconfirmedTx \cap invalidTx = {}

\* Every UTXORing entry is of a ring of the branch, knows all own members and
\* exactly the serial numbers the branch has revealed: an entry put back by
\* Rollback from blockInputs is not out of date.
RingsMatchBranch ==
    \A r \in Rings : utxoRing[r] # NoRing =>
        /\ r \in RingsFormed(tip)
        /\ utxoRing[r].mine = Members[r] \cap Mine
        /\ utxoRing[r].got = RevealedBy(tip, r)

\* The blocks of a valid chain go through: one the chain server may disconnect
\* can be undone, because every TXO Rollback wants back in the mature bucket is
\* in the confirmed one, and none is refused for a serial number seen twice,
\* because the entries hold no serial number of a detached block.
BlocksGoThrough ==
    /\ tip # Genesis /\ Detachable(tip) => ~RollbackPanics(tip)
    /\ \A b \in Blocks \ {Genesis} : Parent[b] = tip => ~DoubleSerialNumber(b)

\* The abstract ledger: whatever the store does to its buckets is a step of
\* CoinLedger, so each TXO is always where the branch of the tip puts it.
Ledger == INSTANCE CoinLedger WITH
    immature <- AllImmatureCB \cup AllImmatureTR,
    spendable <- mature,
    held <- unconfirmed,
    spent <- confirmed

LedgerSpec == Ledger!Spec
=============================================================================
