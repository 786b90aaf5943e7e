--------------------------- MODULE ChainFollower ---------------------------
(***************************************************************************)
(* What following a chain means, with no notifications, connections or     *)
(* transactions of the database: the blocks stored are those of one branch *)
(* from the height From on, and they change by going forward along a       *)
(* branch, or back along the one stored.  TxStore assumes no more of those *)
(* who call its InsertBlock and Rollback.                                  *)
(***************************************************************************)
EXTENDS BlockTree

CONSTANT From      \* blocks below this height are passed over

VARIABLES
    tip,           \* the last block followed
    stored         \* the blocks in the store

\* The blocks of the branch of b that a follower keeps.
Kept(b) == {a \in Branch[b] : a = Genesis \/ Height[a] >= From}

Init == tip = Genesis /\ stored = {Genesis}

\* One or more blocks are attached, each to its parent.
Forward(b) ==
    /\ tip \in Branch[b]
    /\ tip' = b
    /\ stored' = stored \cup (Kept(b) \ Branch[tip])

\* Every block above b is detached.
Back(b) ==
    /\ b \in Branch[tip]
    /\ tip' = b
    /\ stored' = {a \in stored : Height[a] <= Height[b]}

Next == \E b \in Blocks : Forward(b) \/ Back(b)

Spec == Init /\ [][Next]_<<tip, stored>>
=============================================================================
