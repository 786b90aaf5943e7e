------------------------------ MODULE TokenTx ------------------------------
(***************************************************************************)
(* Transactions of confidential tokens (createauttx.go).  Registering,     *)
(* registering again, minting, transferring and burning differ in the      *)
(* script; what they do with coins is the same: host the tokens on         *)
(* outputs, spend the coins that hold the tokens, and let coins without    *)
(* tokens pay the fee.  The script names its inputs and outputs by         *)
(* position, so the order matters.                                         *)
(*                                                                         *)
(* A request is a record: kind; tokens, the outpoints of the tokens to     *)
(* spend, in the order of the script; hosts, the values of the outputs     *)
(* that will hold tokens; change, the level of the change.  No caller      *)
(* names the coins that pay.                                               *)
(***************************************************************************)
EXTENDS InputSelection

CONSTANTS
    PublicRand,        \* the key of a coin's address; one for all "ring" coins
    TokenFee(_, _)     \* fee for the inputs and the distinct keys among them

-----------------------------------------------------------------------------
FeeOf(ins) == TokenFee(Len(ins), Cardinality({PublicRand[c] : c \in ToSet(ins)}))

\* Coins without a token, in the order of their keys, which are hashes.
Payers(mature) == SetToSeqs(mature \ Token)

\* All tokens must be among the coins, each once.
HasTokens(mature, tokens) ==
    /\ ToSet(tokens) \subseteq mature \cap Token
    /\ IsInjective(tokens)

\* Coins that pay, taken until they do; what the tokens are worth, and what
\* they add to the fee, is not counted yet.
AutomaticPayers(target, payers) ==
    LET Pays(s) == Total(s) >= target + FeeOf(s)
        s == ShortestPrefix(payers, Pays)
    IN {x \in {s} : IF x = <<>> THEN target <= 0 ELSE Pays(x)}

\* A mutated form of InStart: the front, as if no input were of a ring.
InStartFront(ins) == 0

\* Where rings end: the index, from 0, of the first input or output that is none.
InStart(ins) == Count(ins, LAMBDA c : Level[c] = "ring")
OutStart(outs) == Count(outs, LAMBDA out : out.level = "ring")

\* slices.Insert
Splice(s, index, t) == SubSeq(s, 1, index) \o t \o SubSeq(s, index + 1, Len(s))

-----------------------------------------------------------------------------
(* From the chosen coins to the transaction *)

Hosts(values) == [i \in DOMAIN values |-> [level |-> "ct", value |-> values[i]]]

\* The limits once the change is known.  The last one subtracts the ring
\* outputs, the change among them, from the hosts alone.
HostsAllowed(outs, hosts, change) ==
    LET rings == IF change # <<>> /\ change[1].level = "ring" THEN 1 ELSE 0
    IN /\ Len(outs) < MaxOutputs
       /\ rings <= MaxRingOutputs
       /\ Len(hosts) - rings <= MaxSingleOutputs

\* The fee, over tokens and payers; every remainder is change.  Tokens go
\* after the ring inputs, hosts after a ring change.
Hosting(req, payers) ==
    LET hosts == Hosts(req.hosts)
        coins == payers \o req.tokens
        fee == FeeOf(coins)
        rest == Total(coins) - fee - Target(hosts)
        change == IF rest > 0 THEN <<[level |-> req.change, value |-> rest]>> ELSE <<>>
        sorted == ByLevel(payers, LAMBDA c : Level[c])
        inStart == InStart(sorted)
        outStart == OutStart(change)
        outs == Splice(change, outStart, hosts)
    IN {[inStart |-> inStart, outStart |-> outStart,
         ins |-> Splice(sorted, inStart, req.tokens), outs |-> outs,
         fee |-> fee] : ok \in {x \in {TRUE} : rest >= 0 /\ HostsAllowed(outs, hosts, change)}}

\* The transaction and its script: inputs and outputs are sorted once more.
Scripted(hosting) ==
    {[ins |-> tx.ins, outs |-> tx.outs, fee |-> tx.fee,
      inStart |-> hosting.inStart, outStart |-> hosting.outStart] :
        tx \in Transactions([ins |-> hosting.ins, fee |-> hosting.fee, change |-> FALSE],
                            hosting.outs, "ct")}

\* txPqringCTToOutputsCTAUT...: what comes of a request, for one order of the
\* coins that may pay.
TokenTxs(req, mature, payers) ==
    LET hosts == Hosts(req.hosts)
        paying == AutomaticPayers(Target(hosts), payers)
    IN IF OutputsAllowed(hosts) /\ HasTokens(mature, req.tokens)
       THEN UNION {UNION {Scripted(h) : h \in Hosting(req, s)} : s \in paying}
       ELSE {}
=============================================================================
