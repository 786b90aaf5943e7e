--------------------------- MODULE InputSelection ---------------------------
(***************************************************************************)
(* How a payment chooses its inputs: txPqringCTToOutputsMLP picks coins    *)
(* for the outputs and the fee, createTransactionMLPByRootSeeds adds the   *)
(* change and puts inputs and outputs in the order the chain wants.        *)
(*                                                                         *)
(* A request is a record: outs, a sequence of [level, value]; fee, the     *)
(* fixed fee, or 0 if the fee goes by a rate; named, a sequence of hash    *)
(* prefixes (each the set of coins it fits), or Automatic; level, the      *)
(* privacy level asked of the inputs; change, the level of the change;     *)
(* minconf, the confirmations asked of the inputs.                         *)
(* What may come out is a set of transactions: none if it is refused, and  *)
(* several because the sort is not stable and the change is shuffled.      *)
(***************************************************************************)
EXTENDS Integers, SequencesExt

CONSTANTS
    Automatic,         \* no coins are named
    Coins,             \* the wallet's outputs
    Amount,            \* value of a coin
    Version,           \* version of the transaction that made it
    Level,             \* "ring", "ct" or "single": who may see its value
    Confirmations,     \* blocks since the coin's ring was formed
    Token,             \* coins that carry a token (IsCTAUTCoin)
    ChangeThreshold,   \* change below it goes to the fee
    MaxNeutrino,       \* all the money there can be
    MaxOutputs, MaxRingOutputs, MaxSingleOutputs,
    MaxInputs, MaxRingInputs, MaxSingleInputs,
    RateFee(_, _, _)   \* fee for the size of a transaction: its ring and
                       \* its other inputs, and the value they make public

ASSUME CoinsAssumption ==
    /\ Amount \in [Coins -> Nat] /\ Version \in [Coins -> Nat]
    /\ Level \in [Coins -> {"ring", "ct", "single"}]
    /\ Confirmations \in [Coins -> Nat]
    /\ Token \subseteq Coins

ASSUME LimitsAssumption ==
    /\ ChangeThreshold \in Nat \ {0} /\ MaxNeutrino \in Nat
    /\ \A n \in {MaxOutputs, MaxRingOutputs, MaxSingleOutputs,
                 MaxInputs, MaxRingInputs, MaxSingleInputs} : n \in Nat

-----------------------------------------------------------------------------
Total(s) == FoldLeft(LAMBDA sum, c : sum + Amount[c], 0, s)
Target(outs) == FoldLeft(LAMBDA sum, out : sum + out.value, 0, outs)

\* How many of a sequence of outputs or coins satisfy a test.
Count(s, Test(_)) == Len(SelectSeq(s, Test))

\* findEligibleTxosAbe.  The store lets no coinbase into the bucket before it
\* is mature, so only the confirmations asked for matter.
Confirmed(mature, minconf) == {c \in mature : Confirmations[c] >= minconf}

\* Coins without tokens, sorted by version and amount; coins that
\* are equal in both come in any order.
Eligible(coins) ==
    {s \in SetToSeqs(coins \ Token) : \A i, j \in DOMAIN s :
        i < j => \/ Version[s[i]] > Version[s[j]]
                 \/ Version[s[i]] = Version[s[j]] /\ Amount[s[i]] >= Amount[s[j]]}

\* A coin whose address is not the asked-for kind is passed over.  A coin of
\* level "ct" counts as one of a ring here.
Fits(level, c) == level = "any" \/ (level = "single") = (Level[c] = "single")

\* What is selected after each turn of the loop.
Turns(s) == {SubSeq(s, 1, n) : n \in DOMAIN s}

\* The shortest prefix that will do, or everything.
ShortestPrefix(s, Pays(_)) ==
    LET enough == {p \in Turns(s) : Pays(p)}
    IN IF enough = {} THEN s
       ELSE CHOOSE p \in enough : \A q \in enough : Len(p) <= Len(q)

\* fetchSpecifiedUTXO: for every prefix the first coin whose hash starts so.
IsNamed(named, order) == \A i \in DOMAIN named : named[i] \cap ToSet(order) # {}
NamedCoins(named, order) ==
    [i \in DOMAIN named |->
        order[CHOOSE n \in DOMAIN order :
                 /\ order[n] \in named[i]
                 /\ \A k \in 1 .. n - 1 : order[k] \notin named[i]]]

-----------------------------------------------------------------------------
(* The fee and the change *)

\* computeFee: the public value counts only beside a ring input or output.
FeeFor(outs, ins) ==
    LET rings == Count(ins, LAMBDA c : Level[c] # "single")
        asked == Target(SelectSeq(outs, LAMBDA out : out.level # "ring"))
        given == Total(SelectSeq(ins, LAMBDA c : Level[c] = "single"))
        hidden == rings = 0 /\ Count(outs, LAMBDA out : out.level = "ring") = 0
    IN RateFee(rings, Len(ins) - rings, IF hidden THEN 0 ELSE asked - given)

\* A mutated form of Draft: what is left over is change, however little.
DraftAnyChange(ins, target, fee) ==
    [ins |-> ins, fee |-> fee, change |-> Total(ins) - target - fee > 0]

\* Inputs that pay target and fee: too little change goes to the fee.
Draft(ins, target, fee) ==
    IF Total(ins) - target - fee >= ChangeThreshold
    THEN [ins |-> ins, fee |-> fee, change |-> TRUE]
    ELSE [ins |-> ins, fee |-> Total(ins) - target, change |-> FALSE]

\* A fixed fee.  Coins are taken until they pay; if they never do, the check
\* that follows refuses.
FixedFee(req, order) ==
    LET target == Target(req.outs)
        fitting == SelectSeq(order, LAMBDA c : Fits(req.level, c))
        Pays(s) == Total(s) >= target + req.fee
        ins == IF req.named = Automatic
               THEN ShortestPrefix(fitting, Pays)
               ELSE NamedCoins(req.named, order)
    IN {Draft(s, target, req.fee) :
           s \in {x \in {ins} : Pays(x) /\ \A i \in DOMAIN x : Fits(req.level, x[i])}}

\* A mutated form of RateAutomatic: coins are taken until they pay for the
\* outputs, and the fee is an afterthought.
RateAutomaticFeeLast(req, order) ==
    LET target == Target(req.outs)
        fitting == SelectSeq(order, LAMBDA c : Fits(req.level, c))
        ins == ShortestPrefix(fitting, LAMBDA s : Total(s) >= target)
        fee == FeeFor(req.outs, ins)
    IN {d \in {Draft(ins, target, fee)} : Total(ins) >= target + fee}

\* A fee by size, for coins taken until they pay for it.  If they never do,
\* everything is kept with no fee and no change, which passes the next check.
RateAutomatic(req, order) ==
    LET target == Target(req.outs)
        fitting == SelectSeq(order, LAMBDA c : Fits(req.level, c))
        Pays(s) == Total(s) >= target + FeeFor(req.outs, s)
        ins == ShortestPrefix(fitting, Pays)
    IN IF ins # <<>> /\ Pays(ins)
       THEN {Draft(ins, target, FeeFor(req.outs, ins))}
       ELSE {d \in {[ins |-> ins, fee |-> 0, change |-> FALSE]} : target <= Total(ins)}

\* A fee by size for named coins; only here the number of inputs is checked.
RateNamed(req, order) ==
    LET target == Target(req.outs)
        ins == NamedCoins(req.named, order)
        rings == Count(ins, LAMBDA c : Level[c] # "single")
        fee == FeeFor(req.outs, ins)
    IN {d \in {Draft(ins, target, fee)} :
           /\ \A i \in DOMAIN ins : Fits(req.level, ins[i])
           /\ Len(ins) < MaxInputs
           /\ rings <= MaxRingInputs
           /\ Len(ins) - rings <= MaxSingleInputs
           /\ Total(ins) >= target + fee}

-----------------------------------------------------------------------------
(* The transaction *)

\* Rings first, then "ct", then "single"; stable within each.
ByLevel(s, LevelOf(_)) ==
    SelectSeq(s, LAMBDA x : LevelOf(x) = "ring")
        \o SelectSeq(s, LAMBDA x : LevelOf(x) = "ct")
        \o SelectSeq(s, LAMBDA x : LevelOf(x) = "single")

\* The change is put at the end and swapped with any output.
WithChange(outs, change) ==
    LET all == Append(outs, change)
        n == Len(all)
    IN {[all EXCEPT ![i] = all[n], ![n] = all[i]] : i \in 1 .. n}

\* createTransactionMLPByRootSeeds.  TransferTxGen proves that the value of
\* the inputs is that of the outputs and the fee, and that no serial number
\* comes twice: without a proof there is no transaction.
Transactions(draft, outs, changeLevel) ==
    LET rest == Total(draft.ins) - draft.fee - Target(outs)
        change == [level |-> changeLevel, value |-> rest]
        all == IF draft.change THEN WithChange(outs, change) ELSE {outs}
    IN {tx \in {[ins |-> ByLevel(draft.ins, LAMBDA c : Level[c]),
                 outs |-> ByLevel(s, LAMBDA out : out.level),
                 fee |-> draft.fee] : s \in all} :
           /\ IsInjective(tx.ins)
           /\ Total(tx.ins) = Target(tx.outs) + tx.fee}

\* The checks on the outputs before coins are chosen.
OutputsAllowed(outs) ==
    LET rings == Count(outs, LAMBDA out : out.level = "ring")
    IN /\ Target(outs) <= MaxNeutrino
       /\ Len(outs) < MaxOutputs
       /\ rings <= MaxRingOutputs
       /\ Len(outs) - rings <= MaxSingleOutputs

\* The drafts of a payment, for one order of the eligible coins.
Drafts(req, order) ==
    IF \/ ~OutputsAllowed(req.outs)
       \/ req.named # Automatic /\ ~IsNamed(req.named, order)
    THEN {}
    ELSE IF req.fee > 0 THEN FixedFee(req, order)
    ELSE IF req.named = Automatic THEN RateAutomatic(req, order)
    ELSE RateNamed(req, order)

\* txPqringCTToOutputsMLP: what comes of a payment, for one order.
Payments(req, order) ==
    UNION {Transactions(draft, req.outs, req.change) : draft \in Drafts(req, order)}
=============================================================================
