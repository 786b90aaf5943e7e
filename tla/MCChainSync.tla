---------------------------- MODULE MCChainSync ----------------------------
(***************************************************************************)
(* A tree of blocks on which ChainSync is model-checked.  Blocks are named *)
(* after their height; a, b and c are branches.                            *)
(***************************************************************************)
EXTENDS ChainSync, TLC

MC_Parent ==
    "1" :> "0" @@ "2" :> "1" @@ "3" :> "2" @@
    "4a" :> "3" @@ "5a" :> "4a" @@
    "4b" :> "3" @@ "5b" :> "4b" @@ "6b" :> "5b" @@
    "6c" :> "5b" @@ "7c" :> "6c"
MC_Blocks == {"0"} \cup DOMAIN MC_Parent
MC_Height[b \in MC_Blocks] == IF b = "0" THEN 0 ELSE MC_Height[MC_Parent[b]] + 1
MC_Branch[b \in MC_Blocks] ==
    IF b = "0" THEN {b} ELSE {b} \cup MC_Branch[MC_Parent[b]]
MC_Time == [b \in MC_Blocks |-> 2 * MC_Height[b]]

\* The theorems on following a branch speak of this tree.
ASSUME ForksAssumption == Overlap = "none" => ShallowForks

\* So does the theorem on the birthday block.
ASSUME OrderAssumption == TimesInOrder
=============================================================================
