----------------------------- MODULE CoinLedger -----------------------------
(***************************************************************************)
(* What the transaction store promises about the wallet's TXOs, with no    *)
(* buckets, rings or undo records: at every block each TXO of the branch   *)
(* is in exactly the category the branch puts it in, and nothing else is   *)
(* in any.  The branch decides everything but one thing: whether a TXO     *)
(* that may be spent is free or held by a transaction under way.           *)
(***************************************************************************)
EXTENDS WalletChain

VARIABLES
    tip,        \* the block the wallet is at
    immature,   \* TXOs that no ring holds yet, or whose coinbase is young
    spendable,  \* TXOs that a new transaction may spend
    held,       \* TXOs a transaction that is not yet on the branch spends
    spent       \* TXOs the branch spends

vars == <<tip, immature, spendable, held, spent>>

\* The categories at block b when the transactions under way hold H.
View(b, H) ==
    /\ tip' = b
    /\ immature' = Owned(b) \ Ready(b)
    /\ held' = H
    /\ spent' = Spent(b)
    /\ spendable' = (Ready(b) \ Spent(b)) \ H

Init ==
    /\ tip = Genesis
    /\ immature = Owned(Genesis)
    /\ spendable = {} /\ held = {} /\ spent = {}

\* What the block spends is no longer held.
Attach(b) ==
    /\ b # Genesis
    /\ Parent[b] = tip
    /\ View(b, held \ Spent(b))

\* What the block made spendable is no longer held; what it spent is free.
Detach ==
    /\ tip # Genesis
    /\ View(Parent[tip], held \cap Ready(Parent[tip]))

Hold(S) ==
    /\ S # {} /\ S \subseteq spendable
    /\ spendable' = spendable \ S
    /\ held' = held \cup S
    /\ UNCHANGED <<tip, immature, spent>>

Release(S) ==
    /\ S # {} /\ S \subseteq held
    /\ held' = held \ S
    /\ spendable' = spendable \cup S
    /\ UNCHANGED <<tip, immature, spent>>

Next ==
    \/ \E b \in Blocks : Attach(b)
    \/ Detach
    \/ \E S \in SUBSET spendable : Hold(S)
    \/ \E S \in SUBSET held : Release(S)

Spec == Init /\ [][Next]_vars
=============================================================================
