----------------------------- MODULE BlockTree -----------------------------
(***************************************************************************)
(* The blocks of the chain server as a tree, and the arithmetic of heights *)
(* that groups blocks into rings and matures coinbases.  A block is its    *)
(* hash; Parent and Height come with it.                                   *)
(***************************************************************************)
EXTENDS Integers, FiniteSets

CONSTANTS
    Blocks,       \* hashes of the blocks of the tree
    Genesis,      \* the root of the tree, stored when the wallet is created
    Parent,       \* Header.PrevBlock of every block but the root
    Height,       \* height of every block
    Branch,       \* the blocks from the root to a block
    GroupSize,    \* blocks per ring group (3 in the protocol)
    Maturity      \* CoinbaseMaturity of the chain parameters

ASSUME TreeAssumption ==
    /\ Genesis \in Blocks
    /\ Height \in [Blocks -> Nat]
    /\ Height[Genesis] = 0
    /\ Parent \in [Blocks \ {Genesis} -> Blocks]
    /\ \A b \in Blocks \ {Genesis} : Height[b] = Height[Parent[b]] + 1
    /\ Branch \in [Blocks -> SUBSET Blocks]
    /\ Branch[Genesis] = {Genesis}
    /\ \A b \in Blocks \ {Genesis} : Branch[b] = Branch[Parent[b]] \cup {b}

ASSUME GroupAssumption ==
    /\ GroupSize \in Nat \ {0}
    /\ Maturity \in Nat
    /\ Maturity >= GroupSize

-----------------------------------------------------------------------------
\* A block at the last height of its group completes the group's rings.
CompletesGroup(b) == Height[b] % GroupSize = GroupSize - 1

\* The blocks of the group b completes.
Group(b) == {a \in Branch[b] : Height[a] > Height[b] - GroupSize}

\* Heights at which the coinbases of a whole group mature.
MaturesGroup(b) ==
    /\ Height[b] >= Maturity
    /\ (Height[b] - Maturity + 1) % GroupSize = 0

MaturedHeights(b) == {Height[b] - Maturity - i : i \in 0 .. GroupSize - 1}

\* The blocks whose hashes connectBlock asks of the chain server, for
\* InsertBlock to mature their coinbases.
MaturedBlocks(b) ==
    IF MaturesGroup(b)
    THEN {a \in Branch[b] : Height[a] \in MaturedHeights(b)}
    ELSE {}
=============================================================================
