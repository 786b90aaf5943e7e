---------------------------- MODULE WalletChain ----------------------------
(***************************************************************************)
(* What the chain server and the address manager hand to the transaction   *)
(* store: blocks in a tree, the transactions they contain, the TXO rings   *)
(* the protocol forms over the outputs of GroupSize consecutive blocks,    *)
(* and which outputs belong to the wallet.                                 *)
(*                                                                         *)
(* A transfer transaction spends pairs (ring, serial number).  A serial    *)
(* number is the image of one member of the ring, so it is written here as *)
(* that member.                                                            *)
(***************************************************************************)
EXTENDS BlockTree

CONSTANTS
    Coins,        \* outpoints of every transaction of the tree
    Mine,         \* the outpoints ReceiveTxo recognises as the wallet's
    Txs,          \* transfer transactions
    Rings,        \* hashes of the TXO rings the tree forms
    Coinbase,     \* outputs of the coinbase transaction of a block
    TxsOf,        \* transfer transactions of a block
    Outputs,      \* outputs of a transfer transaction
    Spends,       \* inputs of a transfer transaction: pairs <<ring, member>>
    RingsOf,      \* rings formed when a block completes its group
    Members,      \* the outputs a ring consists of
    KeyRank,      \* place of a block hash in byte order, which orders bucket keys
    NumberBlock   \* NUMBERBLOCK, how many block records are kept

ASSUME SetsAssumption ==
    /\ Mine \subseteq Coins
    /\ Coinbase \in [Blocks -> SUBSET Coins]
    /\ TxsOf \in [Blocks -> SUBSET Txs]
    /\ Outputs \in [Txs -> SUBSET Coins]
    /\ Spends \in [Txs -> SUBSET (Rings \X Coins)]
    /\ RingsOf \in [Blocks -> SUBSET Rings]
    /\ Members \in [Rings -> SUBSET Coins]

ASSUME NumbersAssumption ==
    /\ NumberBlock \in Nat
    /\ NumberBlock >= GroupSize
    /\ IsFiniteSet(Blocks)
    /\ KeyRank \in [Blocks -> 0 .. Cardinality(Blocks)]

-----------------------------------------------------------------------------
\* The chain server disconnects a block only for a branch that leads at least
\* as high without it.
Detachable(b) == \E a \in Blocks : b \notin Branch[a] /\ Height[a] >= Height[b]

\* The wallet's outputs of a coinbase, and of the transfers of a block.
CoinbaseOutput(b) == Coinbase[b] \cap Mine
TransferOutputs(b) == (UNION {Outputs[t] : t \in TxsOf[b]}) \cap Mine

\* Outputs carrying the coinbase flag.
CoinbaseCoins == UNION {Coinbase[b] : b \in Blocks}

\* A mutated form of Revealed: the ring hash of an input is kept in place of
\* its serial number.
RevealedHash(b, r) ==
    {input[1] : input \in {x \in UNION {Spends[t] : t \in TxsOf[b]} : x[1] = r}}

\* The serial numbers of ring r that the transfers of b reveal.
Revealed(b, r) == {c \in Coins : \E t \in TxsOf[b] : <<r, c>> \in Spends[t]}

RingsSpentBy(b) == {r \in Rings : Revealed(b, r) # {}}

-----------------------------------------------------------------------------
(* What the branch of b says of the wallet's outputs. *)

OwnOutputs(b) == CoinbaseOutput(b) \cup TransferOutputs(b)
Owned(b) == UNION {OwnOutputs(a) : a \in Branch[b]}

RingsFormed(b) == UNION {RingsOf[a] : a \in {x \in Branch[b] : CompletesGroup(x)}}
RevealedBy(b, r) == UNION {Revealed(a, r) : a \in Branch[b]}

\* Members of a ring of the branch; of these, coinbase outputs are spendable
\* once their group has matured.
Ringed(b) == UNION {Members[r] : r \in RingsFormed(b)}
Matured(b) == UNION {UNION {Coinbase[x] : x \in MaturedBlocks(a)} : a \in Branch[b]}
Ready(b) == Owned(b) \cap Ringed(b) \cap (Matured(b) \cup (Coins \ CoinbaseCoins))

Spent(b) == Owned(b) \cap UNION {RevealedBy(b, r) : r \in RingsFormed(b)}

-----------------------------------------------------------------------------
(* What the chain server checks of a block before it offers it.  Outpoints  *)
(* and rings are named by hashes, a serial number is unique to its TXO.     *)

Created(b) == Coinbase[b] \cup UNION {Outputs[t] : t \in TxsOf[b]}

\* An output is created once on a branch, by a coinbase or by a transfer.
ASSUME OutputsAssumption ==
    /\ \A b \in Blocks : \A a \in Branch[b] \ {b} : Created(a) \cap Created(b) = {}
    /\ \A t \in Txs : Outputs[t] \cap CoinbaseCoins = {}

\* The genesis block has no transfers and completes no group.  The rings formed
\* over a group hold its outputs, each in one ring, which the branch has not had.
ASSUME RingsAssumption ==
    /\ TxsOf[Genesis] = {} /\ ~CompletesGroup(Genesis)
    /\ \A b \in Blocks : CompletesGroup(b) =>
          /\ UNION {Members[r] : r \in RingsOf[b]} = UNION {Created(a) : a \in Group(b)}
          /\ RingsOf[b] \cap RingsFormed(Parent[b]) = {}
          /\ \A r \in RingsOf[b] : \A q \in RingsFormed(b) \ {r} : Members[r] \cap Members[q] = {}

\* A transfer spends members of rings formed before its block, coinbase outputs
\* that have matured, and serial numbers the branch has not revealed.
ASSUME SpendsAssumption ==
    \A b \in Blocks : \A t \in TxsOf[b] : \A input \in Spends[t] :
        /\ input[1] \in RingsFormed(Parent[b])
        /\ input[2] \in Members[input[1]] \ RevealedBy(Parent[b], input[1])
        /\ input[2] \in CoinbaseCoins => input[2] \in Matured(Parent[b])

-----------------------------------------------------------------------------
(* An assumption on the tree, where a statement needs it.                   *)

\* No block the chain server may take back has matured a coinbase of the wallet.
\* Where it has, Rollback writes the coinbases of several blocks under one key
\* (wtxmgr/tx.go:3951) and the buckets no longer match the branch.
NoCoinbaseUnmatured ==
    \A b \in Blocks : Detachable(b) /\ MaturesGroup(b) =>
        \A a \in Blocks : Height[a] \in MaturedHeights(b) => CoinbaseOutput(a) = {}

\* Less: where the server may take back a block that matured coinbases, it does
\* not go back to their blocks.
CoinbasesStay ==
    \A b \in Blocks : Detachable(b) /\ MaturesGroup(b) =>
        \A a \in Blocks :
            Height[a] \in MaturedHeights(b) /\ CoinbaseOutput(a) # {} => ~Detachable(a)
=============================================================================
