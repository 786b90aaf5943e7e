---------------------------- MODULE CtautLedger ----------------------------
(***************************************************************************)
(* The tokens (CTAUT) that sit on TXOs of the transaction store, and the   *)
(* eight stored counters of them: for root coins how many there are, for   *)
(* other tokens the sum of their values, each in total, spendable,         *)
(* immature and unconfirmed.                                               *)
(*                                                                         *)
(* Every action is one of TxStore together with what the same handler does *)
(* to the tokens.  A counter is kept, like a balance of TxStore, as the    *)
(* number of times each token counts in it: which of the two families and  *)
(* which identifier that is follows from the token.  The code keeps        *)
(* unsigned 64-bit integers; a sum that passes below zero and comes back   *)
(* is the same modulo 2^64.                                                *)
(***************************************************************************)
EXTENDS TxStore

CONSTANTS
    TokenCoins,    \* outputs a token script of their transaction points at,
                   \* the last token of a burn left out
    RootCoins,     \* of these, the ones of a (re-)registration
    AutOf,         \* identifier of the token on an output
    ReRegisters    \* identifiers a transaction registers anew

ASSUME TokensAssumption ==
    /\ TokenCoins \subseteq Mine \ CoinbaseCoins
    /\ RootCoins \subseteq TokenCoins
    /\ ReRegisters \in [Txs -> SUBSET {AutOf[c] : c \in TokenCoins}]

VARIABLES
    autCoins,       \* bucketCTAUTPoint
    autSpent,       \* the tokens in it with Spent set
    disabledBy,     \* bucketBlockDisabledCTAUTRootCoins, keyed by block
    tokTotal,       \* ctautRootCoinNum and ctautBalances
    tokSpendable, tokImmature, tokUnconfirmed

\* The buckets of db_ctaut.go, and the stored counters: a root coin and a token
\* that has a value are counted apart there, and both here by the output.
tokens   == <<autCoins, autSpent, disabledBy>>
counters == <<tokTotal, tokSpendable, tokImmature, tokUnconfirmed>>

TokenInit ==
    /\ Init
    /\ autCoins = {} /\ autSpent = {}
    /\ disabledBy = [b \in Blocks |-> {}]
    /\ tokTotal = ZeroBalance
    /\ tokSpendable = ZeroBalance
    /\ tokImmature = ZeroBalance
    /\ tokUnconfirmed = ZeroBalance

-----------------------------------------------------------------------------
(* InsertTx *)

\* The tokens of the TXOs a transaction spends are counted as unconfirmed.
\* They are not marked: a token is spent by a block only.
HoldTokens(S) ==
    /\ tokSpendable' = Minus(tokSpendable, S)
    /\ tokUnconfirmed' = Plus(tokUnconfirmed, S)
    /\ UNCHANGED <<tokens, tokTotal, tokImmature>>

TokenInsertTx(t) ==
    /\ InsertTx(t)
    /\ HoldTokens(OwnInputs(t) \cap TokenCoins)

-----------------------------------------------------------------------------
(* InsertBlock *)

\* Tokens whose TXO b spends; one disabled before counts nowhere any more.
SpentMatureTokens(b) == (SpentMature(b) \cap TokenCoins) \ autSpent
SpentHeldTokens(b) == (SpentUnconfirmed(b) \cap TokenCoins) \ autSpent
TokensSpent(b) == (SpentMature(b) \cup SpentUnconfirmed(b)) \cap TokenCoins

NewTokens(b) == TransferOutputs(b) \cap TokenCoins

\* The root coins of an identifier left once the TXOs of b's inputs are spent.
UnspentRootCoins(b, aut) ==
    {c \in (autCoins \cap RootCoins) \ (autSpent \cup TokensSpent(b)) :
        AutOf[c] = aut}

\* A re-registration disables every root coin of its identifier that is left,
\* whichever bucket its TXO is in.
DisabledIn(b) ==
    UNION {(UNION {UnspentRootCoins(b, aut) : aut \in ReRegisters[t]}) \ Outputs[t] :
              t \in TxsOf[b]}

\* The tokens of a completed group become spendable with their TXOs.
RingedTokens(b) == MaturedTransfers(b) \cap TokenCoins

InsertTokens(b) ==
    /\ autCoins' = autCoins \cup NewTokens(b)
    /\ autSpent' = (autSpent \ NewTokens(b)) \cup TokensSpent(b) \cup DisabledIn(b)
    /\ disabledBy' =
          IF DisabledIn(b) = {} THEN disabledBy
          ELSE [disabledBy EXCEPT ![b] = DisabledIn(b)]

InsertCounters(b) ==
    LET gone == SpentMatureTokens(b) \cup SpentHeldTokens(b) \cup DisabledIn(b)
        left == SpentMatureTokens(b) \cup DisabledIn(b)
    IN
    /\ tokTotal' = Minus(Plus(tokTotal, NewTokens(b)), gone)
    /\ tokSpendable' = Plus(Minus(tokSpendable, left), RingedTokens(b))
    /\ tokImmature' = Minus(Plus(tokImmature, NewTokens(b)), RingedTokens(b))
    /\ tokUnconfirmed' = Minus(tokUnconfirmed, SpentHeldTokens(b))

TokenInsertBlock(b) ==
    /\ InsertBlock(b)
    /\ InsertTokens(b)
    /\ InsertCounters(b)

-----------------------------------------------------------------------------
(* Rollback, in the stages of TxStore *)

\* A mutated form of UnringedHeldTokens: a token found in the mature bucket
\* is taken from the unconfirmed counter as well.
UnringedAllTokens(b) == UnringedTxos(b) \cap TokenCoins

\* Stage 1: tokens whose group is no longer complete.
UnringedMatureTokens(b) == UnringedMature(b) \cap TokenCoins
UnringedHeldTokens(b) == UnringedUnconfirmed(b) \cap TokenCoins
UnringedSpentTokens(b) == UnringedConfirmed(b) \cap TokenCoins

\* Stage 2: the tokens b brought.
DroppedTokens(b) == DroppedTR(b) \cap TokenCoins

\* Stage 3: the tokens whose TXOs b spent.
RestoredTokens(b) == Restored(b) \cap TokenCoins

\* The root coins b disabled.
RevivedBy(b) == disabledBy[b]

RollbackTokens(b) ==
    /\ autCoins' = autCoins \ DroppedTokens(b)
    /\ autSpent' = autSpent \ (UnringedHeldTokens(b) \cup UnringedSpentTokens(b)
                               \cup DroppedTokens(b) \cup RestoredTokens(b)
                               \cup RevivedBy(b))
    /\ disabledBy' = [disabledBy EXCEPT ![b] = {}]

\* A mutated form of RollbackCounters: the root coins b disabled are left out.
RollbackCountersNotRevived(b) ==
    LET unringed == UnringedMatureTokens(b) \cup UnringedHeldTokens(b)
                    \cup UnringedSpentTokens(b)
    IN
    /\ tokTotal' = Minus(Plus(tokTotal, RestoredTokens(b)), DroppedTokens(b))
    /\ tokSpendable' = Plus(Minus(tokSpendable, UnringedMatureTokens(b)),
                            RestoredTokens(b))
    /\ tokImmature' = Minus(Plus(tokImmature, unringed), DroppedTokens(b))
    /\ tokUnconfirmed' =
          Minus(tokUnconfirmed, UnringedHeldTokens(b) \cup UnringedSpentTokens(b))

\* A token b spent that is found again in stage 1 moves between the counters
\* of unconfirmed and immature tokens, though the block never raised the first.
RollbackCounters(b) ==
    LET unringed == UnringedMatureTokens(b) \cup UnringedHeldTokens(b)
                    \cup UnringedSpentTokens(b)
        total == Minus(Plus(tokTotal, RestoredTokens(b)), DroppedTokens(b))
        spendable == Plus(Minus(tokSpendable, UnringedMatureTokens(b)),
                          RestoredTokens(b))
    IN
    /\ tokTotal' = Plus(total, RevivedBy(b))
    /\ tokSpendable' = Plus(spendable, RevivedBy(b))
    /\ tokImmature' = Minus(Plus(tokImmature, unringed), DroppedTokens(b))
    /\ tokUnconfirmed' =
          Minus(tokUnconfirmed, UnringedHeldTokens(b) \cup UnringedSpentTokens(b))

TokenRollback(b) ==
    /\ Rollback(b)
    /\ RollbackTokens(b)
    /\ RollbackCounters(b)

-----------------------------------------------------------------------------
\* Resending looks at TXOs only: DeleteRawUnmined moves no token counter.
TokenResend ==
    /\ ResendRead \/ \E t \in Txs : ResendAccepted(t) \/ ResendRejected(t)
    /\ UNCHANGED <<tokens, counters>>

TokenNext ==
    \/ \E b \in Blocks : TokenInsertBlock(b) \/ TokenRollback(b)
    \/ \E t \in WalletTxs : TokenInsertTx(t)
    \/ TokenResend

TokenSpec == TokenInit /\ [][TokenNext]_<<vars, tokens, counters>>

-----------------------------------------------------------------------------
(* What the re-registrations of the tree leave alone, where a statement     *)
(* needs it.                                                                *)

\* The root coins of the wallet that the re-registrations of a block may disable.
Disables(b) ==
    {c \in (RootCoins \cap Owned(Parent[b])) \ Spent(b) :
        \E t \in TxsOf[b] : AutOf[c] \in ReRegisters[t]}

\* A root coin that a re-registration disables has its ring: the root coins of
\* an identifier come from one transaction, and the re-registration spends one.
DisabledRinged == \A b \in Blocks \ {Genesis} : Disables(b) \subseteq Ringed(Parent[b])

\* No block the chain server may take back has spent a disabled root coin.  Where
\* it has, rollback un-marks the coin, and counts it a second time when it
\* detaches the block with the re-registration (wtxmgr/tx.go, rollback).
DisabledNotRestored ==
    \A a \in Blocks \ {Genesis} : Detachable(a) =>
        \A b \in Branch[a] \ {Genesis} : Disables(b) \cap (Spent(a) \ Spent(Parent[a])) = {}

\* A disabled root coin is not spent.  One that is while it is held stays in the
\* unconfirmed counter.
DisabledNotSpent ==
    \A a \in Blocks : \A b \in Branch[a] \ {Genesis} : Disables(b) \cap Spent(a) = {}

-----------------------------------------------------------------------------
(* Properties *)

\* The tokens whose number or value a user owns.
Live == autCoins \ autSpent

\* The totals CTAUTBalance and the root coin number report count exactly the
\* tokens of the branch that neither a block has spent nor a re-registration
\* disabled, and are the sums of the three partial counters: also after
\* reorganizations, with sends pending or turned down, and with root coins
\* disabled while a pending transaction holds them (wtxmgr/tx.go, InsertTx,
\* InsertBlock, rollback).
TokenTotals ==
    /\ tokTotal = CountOf(Live)
    /\ \A c \in Coins :
          tokTotal[c] = tokSpendable[c] + tokImmature[c] + tokUnconfirmed[c]

CountedAt(c, spendable, immatured, held) ==
    /\ tokSpendable[c] = spendable
    /\ tokImmature[c] = immatured
    /\ tokUnconfirmed[c] = held

\* As long as no publication is turned down, a live token is counted where its
\* TXO is, so that token and ABEL balances agree on what can be spent; one
\* that is spent or disabled counts nowhere, unless it was disabled while held,
\* when the code takes it from the spendable counter (wtxmgr/tx.go:2169) and
\* a rollback of that block sets it right.
TokensMatchTxos ==
    rejections = 0 =>
        /\ autCoins = (InBuckets \cap TokenCoins)
        /\ \A c \in Live :
              \/ c \in mature /\ CountedAt(c, 1, 0, 0)
              \/ c \in AllImmatureTR /\ CountedAt(c, 0, 1, 0)
              \/ c \in unconfirmed /\ CountedAt(c, 0, 0, 1)
        /\ \A c \in autSpent :
              \/ CountedAt(c, 0, 0, 0)
              \/ c \in unconfirmed /\ CountedAt(c, -1, 0, 1)
=============================================================================
