----------------------------- MODULE TxoRecords -----------------------------
(***************************************************************************)
(* What the buckets of TxStore say of each TXO: its ring, the hash by      *)
(* which a user names it, and who spent it where.  A TXO is written anew,  *)
(* in the format of the next bucket, each time it moves; a format drops    *)
(* the fields it has no room for, and the hash is computed once, when the  *)
(* TXO first becomes spendable, and from then on carried along.            *)
(*                                                                         *)
(* Beside them, the details of a ring, from which its members are taken    *)
(* when a transaction is made.  The height at which a ring was used up is  *)
(* left out: nothing reads it.                                             *)
(***************************************************************************)
EXTENDS TxStore

CONSTANT Zero   \* the zero hash; no record
ASSUME ZeroAssumption == Zero \notin Rings \cup Txs \cup Blocks

VARIABLES
    txo,            \* what is stored of each TXO, or Zero
    ringDetails     \* bucketRingDetails: the rings with an entry

stored == <<txo, ringDetails>>

\* ring stands for RingHash, RingSize and RingIndex, always set together; name
\* for UTXOHash, by the ring it is the hash of; by and at for SpentByHash and
\* the block it was spent in.
Received == [ring |-> Zero, name |-> Zero, by |-> Zero, at |-> Zero]

-----------------------------------------------------------------------------
(* The formats of the buckets *)

\* A mutated form of ImmatureRecord: the hash is stored too.
ImmatureRecordNamed(x) == [x EXCEPT !.by = Zero, !.at = Zero]

ImmatureRecord(x) == [x EXCEPT !.name = Zero, !.by = Zero, !.at = Zero]

\* A bucket of its own, written by code of its own, with the same fields.
ImmatureCoinbaseRecord(x) == [x EXCEPT !.name = Zero, !.by = Zero, !.at = Zero]

\* The hash that is there already, or that of the ring fields as they are.
UTXOHash(x) == IF x.name = Zero THEN x.ring ELSE x.name

SpendableRecord(x) == [x EXCEPT !.name = UTXOHash(x), !.by = Zero, !.at = Zero]
UnconfirmedRecord(x, t) == [SpendableRecord(x) EXCEPT !.by = t]
ConfirmedRecord(x, t, b) == [UnconfirmedRecord(x, t) EXCEPT !.at = b]

-----------------------------------------------------------------------------
(* Attaching a block *)

\* With the ring the group forms over the TXO, if it does.
WithRing(b, c, x) ==
    LET rings == {r \in NewRings(b) : c \in Members[r]} IN
    IF rings = {} THEN x ELSE [x EXCEPT !.ring = CHOOSE r \in rings : TRUE]

Spender(b, c) == CHOOSE t \in TxsOf[b] : \E r \in Rings : <<r, c>> \in Spends[t]

\* A mutated form of HeldSpent: the block is not written.
HeldSpentNowhere(x, b) == x

\* A held TXO keeps the transaction it was held for, whichever spent it.
HeldSpent(x, b) == ConfirmedRecord(x, x.by, b)

InsertBlockStored(b) ==
    LET own == OwnOutputs(b)
        group == GroupCoins(b)
        spentMature == SpentMature(b)
        spentHeld == SpentUnconfirmed(b)
        coinbases == MaturedCoinbases(b)
        transfers == MaturedTransfers(b)
        Before(c) == IF c \in own THEN Received ELSE txo[c]
    IN
    /\ txo' = [c \in Coins |->
          CASE c \in spentMature -> ConfirmedRecord(txo[c], Spender(b, c), b)
            [] c \in spentHeld -> HeldSpent(txo[c], b)
            [] c \in coinbases -> SpendableRecord(txo[c])
            [] c \in transfers -> SpendableRecord(WithRing(b, c, Before(c)))
            [] c \in (own \cup group) \cap CoinbaseCoins ->
                  ImmatureCoinbaseRecord(WithRing(b, c, Before(c)))
            [] c \in ((own \cup group) \ CoinbaseCoins) \ transfers ->
                  ImmatureRecord(WithRing(b, c, Before(c)))
            [] OTHER -> txo[c]]
    /\ ringDetails' = ringDetails \cup NewRings(b)

-----------------------------------------------------------------------------
(* Detaching one *)

\* A mutated form of Unringed: the ring is left.
UnringedKeepsRing(x) == ImmatureRecord(x)

Unringed(x) == ImmatureRecord([x EXCEPT !.ring = Zero])

\* Coinbases made immature again keep their ring; those of all blocks but the
\* one written last are overwritten.
RollbackStored(b) ==
    LET unmatured == UnmaturedTxos(b)
        kept == IF unmatured = {} THEN {} ELSE ToImmatureCB(b, LastUnmatured(b))
        restored == Restored(b)
        dropped == DroppedCB(b) \cup DroppedTR(b)
        unringed == UnringedTxos(b) \cup UNION {StillImmatureCB(a) : a \in UndoneBlocks(b)}
    IN
    /\ txo' = [c \in Coins |->
          CASE c \in kept -> ImmatureCoinbaseRecord(txo[c])
            [] c \in (unmatured \cup dropped) \ kept -> Zero
            [] c \in restored \ unmatured -> SpendableRecord(txo[c])
            [] c \in unringed \ (dropped \cup unmatured) -> Unringed(txo[c])
            [] OTHER -> txo[c]]
    /\ ringDetails' = IF CompletesGroup(b) THEN ringDetails \ DeletedRings(b) ELSE ringDetails

-----------------------------------------------------------------------------
RecordsInit ==
    /\ Init
    /\ txo = [c \in Coins |-> IF c \in CoinbaseOutput(Genesis) THEN Received ELSE Zero]
    /\ ringDetails = {}

InsertTxStored(t) ==
    /\ txo' = [c \in Coins |->
                  IF c \in OwnInputs(t) THEN UnconfirmedRecord(txo[c], t) ELSE txo[c]]
    /\ UNCHANGED ringDetails

DeleteRawUnminedStored(t) ==
    /\ txo' = [c \in Coins |->
                  IF c \in OwnInputs(t) \cap unconfirmed THEN SpendableRecord(txo[c])
                  ELSE txo[c]]
    /\ UNCHANGED ringDetails

RecordsNext ==
    \/ \E b \in Blocks : InsertBlock(b) /\ InsertBlockStored(b)
    \/ \E b \in Blocks : Rollback(b) /\ RollbackStored(b)
    \/ \E t \in WalletTxs : InsertTx(t) /\ InsertTxStored(t)
    \/ ResendRead /\ UNCHANGED stored
    \/ \E t \in Txs : ResendAccepted(t) /\ UNCHANGED stored
    \/ \E t \in Txs : ResendRejected(t) /\ DeleteRawUnminedStored(t)

RecordsSpec == RecordsInit /\ [][RecordsNext]_<<vars, stored>>

-----------------------------------------------------------------------------
(* Properties *)

\* The hash under which a TXO that can be spent is listed is the hash of what
\* it is now: a TXO that got another ring on another branch did not keep the
\* hash of the one before (SpendableTXO.Hash computes it once and carries it).
NamesFresh ==
    \A c \in mature \cup unconfirmed \cup confirmed : txo[c].name = txo[c].ring

\* A TXO that can be spent knows the ring of the branch it is a member of, the
\* details of which are there to make an input from, and the ring's entry knows
\* the TXO, so that InsertTx will find it; an immature one of a transfer has
\* none that a later ring could be taken for.
RingsKnown ==
    /\ \A c \in mature \cup unconfirmed :
          /\ txo[c].ring \in ringDetails \cap RingsFormed(tip)
          /\ c \in Members[txo[c].ring] \cap utxoRing[txo[c].ring].mine
    /\ \A c \in AllImmatureTR : txo[c].ring = Zero

\* A spent TXO names the block of the branch that revealed its serial number,
\* and a transaction that spends it.  (Not always the one in that block: a TXO
\* this wallet held keeps its own.)
SpentHere ==
    \A c \in confirmed :
        /\ txo[c].at \in Branch[tip]
        /\ c \in Revealed(txo[c].at, txo[c].ring)
        /\ <<txo[c].ring, c>> \in Spends[txo[c].by]
=============================================================================
