----------------------------- MODULE TxCreator -----------------------------
(***************************************************************************)
(* The txCreator goroutine of wallet.go and the handlers that ask it for a *)
(* transaction.  A request waits in a channel, one of six, until txCreator *)
(* takes it; meanwhile blocks and other senders change the mature coins.   *)
(* The handlers of the token commands choose the tokens to spend before    *)
(* they ask, txCreator looks for them again.                               *)
(***************************************************************************)
EXTENDS TokenTx

CONSTANTS
    None, Refused,
    PayCommands,             \* sendtoaddressesabe commands
    HostNumbers,             \* how many outputs a registration hosts
    RecipientLists,          \* sequences of [value, hidden]
    ChangeHidden,            \* whether token change may be hidden, or must
    Root,                    \* tokens that are root coins
    AddrKey,                 \* address of a token
    TokenValue,              \* what a token that is no root coin is worth
    HiddenToken,             \* tokens whose value is hidden
    ReregisterThreshold, MintThreshold,     \* root coins that are needed
    MaxTokenKeys, MaxHidden  \* addresses and hidden tokens of a transfer

ASSUME TokensAssumption ==
    /\ Root \subseteq Token /\ HiddenToken \subseteq Token
    /\ TokenValue \in [Token -> Nat]
    /\ \A c \in Token : Level[c] = "ct"

VARIABLES
    mature,   \* the mature coin bucket
    asked,    \* the request in the channel, or None
    answer    \* what txCreator sent back: a transaction, Refused, or None

vars == <<mature, asked, answer>>

Init == mature = {} /\ asked = None /\ answer = None

-----------------------------------------------------------------------------
(* The mature coins change while a request is being made or waits *)

Arrive(c) ==
    /\ answer = None
    /\ c \notin mature
    /\ mature' = mature \cup {c}
    /\ UNCHANGED <<asked, answer>>

Leave(c) ==
    /\ answer = None
    /\ c \in mature
    /\ mature' = mature \ {c}
    /\ UNCHANGED <<asked, answer>>

-----------------------------------------------------------------------------
(* Asking.  A handler that finds too few tokens returns an error. *)

Ask(request) ==
    /\ asked = None
    /\ asked' = request
    /\ UNCHANGED <<mature, answer>>

CheckOutputDescAbe(value) == value <= MaxNeutrino

SendOutputs(payment) ==
    /\ \A i \in DOMAIN payment.outs : CheckOutputDescAbe(payment.outs[i].value)
    /\ Ask(payment)

\* A scaled rate overrules a fixed fee.
SendToAddressesAbe(cmd) ==
    /\ cmd.minconf >= 0
    /\ SendOutputs(
          [kind |-> "pay", outs |-> cmd.outs, minconf |-> cmd.minconf,
           fee |-> IF cmd.scaled THEN 0 ELSE cmd.fee,
           named |-> cmd.named,
           level |-> CASE cmd.consumePseudonymous = TRUE -> "single"
                       [] cmd.consumePseudonymous = FALSE -> "ring"
                       [] OTHER -> "any",
           change |-> IF cmd.changeToPseudonymous = TRUE THEN "single" ELSE "ring"])

\* A request of a token command.  Every host is worth one.
TokenRequest(kind, tokens, made) ==
    [kind |-> kind, tokens |-> tokens, hosts |-> [i \in DOMAIN made |-> 1],
     made |-> made, change |-> "ct"]

\* The hosts are checked like the outputs of a payment.
AskTokens(kind, tokens, made) ==
    LET request == TokenRequest(kind, tokens, made)
    IN /\ \A i \in DOMAIN request.hosts : CheckOutputDescAbe(request.hosts[i])
       /\ Ask(request)

SendOutputsRegisterCTAUT(made) == AskTokens("register", <<>>, made)
SendOutputsReRegisterCTAUT(tokens, made) == AskTokens("reregister", tokens, made)
SendOutputsMintCTAUT(tokens, made) == AskTokens("mint", tokens, made)
SendOutputsTransferCTAUT(tokens, made) == AskTokens("transfer", tokens, made)
SendOutputsBurnCTAUT(tokens, made) == AskTokens("burn", tokens, made)

\* GetCTAUTOutpointsForIssuer: root coins of distinct addresses.
IssuerTokens(threshold) ==
    {s \in [1 .. threshold -> Root \cap mature] :
        \A i, j \in DOMAIN s : i # j => AddrKey[s[i]] # AddrKey[s[j]]}

\* GetCTAUTOutpointsForTransfer: tokens in the order of their keys until they
\* are worth enough; one too many hidden or an address too many is passed over.
Worth(s) == FoldLeft(LAMBDA sum, t : sum + TokenValue[t], 0, s)

TakeToken(s, t, target) ==
    LET keys == {AddrKey[x] : x \in ToSet(s)}
    IN IF \/ Worth(s) >= target
          \/ AddrKey[t] \notin keys /\ Cardinality(keys) >= MaxTokenKeys
          \/ t \in HiddenToken /\ Cardinality(ToSet(s) \cap HiddenToken) >= MaxHidden
       THEN s
       ELSE Append(s, t)

TransferTokens(target) ==
    {s \in {FoldLeft(LAMBDA taken, t : TakeToken(taken, t, target), <<>>, order) :
               order \in SetToSeqs((Token \ Root) \cap mature)} : Worth(s) >= target}

\* The outputs of recipients, hidden ones first.
Recipients(list) ==
    LET out == [i \in DOMAIN list |->
                   [value |-> list[i].value, hidden |-> list[i].hidden, burned |-> FALSE]]
    IN SelectSeq(out, LAMBDA o : o.hidden) \o SelectSeq(out, LAMBDA o : ~o.hidden)

MadeWorth(made) == FoldLeft(LAMBDA sum, o : sum + o.value, 0, made)

\* A mutated form of WithTokenChange: the change comes last.
WithTokenChangeLast(made, rest, hidden) ==
    IF rest = 0 THEN made
    ELSE Append(made, [value |-> rest, hidden |-> hidden, burned |-> FALSE])

\* What the tokens are worth too much goes back, between the hidden outputs
\* and the public ones.
WithTokenChange(made, rest, hidden) ==
    IF rest = 0 THEN made
    ELSE Splice(made, Count(made, LAMBDA o : o.hidden),
                <<[value |-> rest, hidden |-> hidden, burned |-> FALSE]>>)

\* What registering makes: root coins, some for every issuer.
Roots(n) == [i \in 1 .. n |-> "root"]

RegisterCTAUT(n) == SendOutputsRegisterCTAUT(Roots(n))

ReRegisterCTAUT(n) ==
    \E tokens \in IssuerTokens(ReregisterThreshold) :
        SendOutputsReRegisterCTAUT(tokens, Roots(n))

MintCTAUT(list) ==
    \E tokens \in IssuerTokens(MintThreshold) :
        SendOutputsMintCTAUT(tokens, Recipients(list))

TransferCTAUT(list, hidden) ==
    LET made == Recipients(list)
        asks == MadeWorth(made)
    IN \E tokens \in TransferTokens(asks) :
           SendOutputsTransferCTAUT(tokens,
               WithTokenChange(made, Worth(tokens) - asks, hidden))

\* The last recipient, a public one, is what is burned.
BurnCTAUT(list, hidden) ==
    LET out == Recipients(list)
        made == [out EXCEPT ![Len(out)].burned = TRUE]
        asks == MadeWorth(made)
    IN /\ list # <<>>
       /\ ~out[Len(out)].hidden
       /\ \E tokens \in TransferTokens(asks) :
              SendOutputsBurnCTAUT(tokens,
                  WithTokenChange(made, Worth(tokens) - asks, hidden))

-----------------------------------------------------------------------------
(* txCreator takes the request *)

Waiting(kind) == asked # None /\ asked.kind = kind /\ answer = None

\* One of the transactions that may come of it, or an error if there is none.
Create(transactions) ==
    /\ answer' \in (IF transactions = {} THEN {Refused} ELSE transactions)
    /\ UNCHANGED <<mature, asked>>

CreatePay ==
    /\ Waiting("pay")
    /\ \E order \in Eligible(Confirmed(mature, asked.minconf)) :
           Create(Payments(asked, order))

CreateRegister ==
    /\ Waiting("register")
    /\ \E payers \in Payers(mature) : Create(TokenTxs(asked, mature, payers))

CreateReRegister ==
    /\ Waiting("reregister")
    /\ \E payers \in Payers(mature) : Create(TokenTxs(asked, mature, payers))

CreateMint ==
    /\ Waiting("mint")
    /\ \E payers \in Payers(mature) : Create(TokenTxs(asked, mature, payers))

CreateTransfer ==
    /\ Waiting("transfer")
    /\ \E payers \in Payers(mature) : Create(TokenTxs(asked, mature, payers))

CreateBurn ==
    /\ Waiting("burn")
    /\ \E payers \in Payers(mature) : Create(TokenTxs(asked, mature, payers))

\* The sender takes the answer.
Answer ==
    /\ answer # None
    /\ asked' = None /\ answer' = None
    /\ UNCHANGED mature

-----------------------------------------------------------------------------
Next ==
    \/ \E c \in Coins : Arrive(c) \/ Leave(c)
    \/ \E cmd \in PayCommands : SendToAddressesAbe(cmd)
    \/ \E n \in HostNumbers : RegisterCTAUT(n) \/ ReRegisterCTAUT(n)
    \/ \E list \in RecipientLists : MintCTAUT(list)
    \/ \E list \in RecipientLists, hidden \in ChangeHidden :
           TransferCTAUT(list, hidden) \/ BurnCTAUT(list, hidden)
    \/ CreatePay \/ CreateRegister \/ CreateReRegister
    \/ CreateMint \/ CreateTransfer \/ CreateBurn
    \/ Answer

Spec == Init /\ [][Next]_vars

-----------------------------------------------------------------------------
(* Properties *)

\* txCreator has just sent a transaction, or an error, back.
Sent(kinds) == answer = None /\ answer' \notin {None, Refused} /\ asked.kind \in kinds
Denied(kinds) == answer = None /\ answer' = Refused /\ asked.kind \in kinds

AskedFee(ins) == IF asked.fee > 0 THEN asked.fee ELSE FeeFor(asked.outs, ins)

SameOuts(s, t) ==
    \A x \in ToSet(s) \cup ToSet(t) : Count(s, LAMBDA y : y = x) = Count(t, LAMBDA y : y = x)

\* The coins a payment may take when none are named.
Takeable == {c \in Confirmed(mature, asked.minconf) \ Token : Fits(asked.level, c)}

\* All that can be taken is what the outputs are worth, with nothing left for
\* a fee: a fee by a rate is then none at all.
ExactlySpent(ins) ==
    /\ asked.fee = 0 /\ asked.named = Automatic
    /\ ToSet(ins) = Takeable
    /\ Total(ins) = Target(asked.outs)

\* A payment spends each of its coins once, pays every output asked for, adds
\* a change only if it is worth it, and gives the miner what was asked for or
\* by the rate, and less than ChangeThreshold more (createtx.go, the rules on
\* needChangeFlag, and createTransactionMLPByRootSeeds).  It falls short of
\* the rate in one case alone, and is then without any fee: where the loop
\* over the coins ends with exactly the outputs (createtx.go:707, 838).
CreatedPays ==
    [][Sent({"pay"}) =>
        LET ins == answer'.ins
            outs == answer'.outs
            extra == answer'.fee - AskedFee(ins)
        IN /\ ToSet(ins) \subseteq Confirmed(mature, asked.minconf)
           /\ IsInjective(ins)
           /\ Total(ins) = Target(outs) + answer'.fee
           /\ \/ extra \in 0 .. ChangeThreshold - 1
              \/ answer'.fee = 0 /\ ExactlySpent(ins)
           /\ \/ SameOuts(outs, asked.outs)
              \/ /\ extra = 0
                 /\ \E i \in DOMAIN outs :
                       /\ outs[i].value >= ChangeThreshold
                       /\ SameOuts(RemoveAt(outs, i), asked.outs)]_vars

\* Without named coins a payment is refused only if no set of the coins that
\* fit pays for it.  The amounts must exceed what a coin adds to the fee.
PaysIfItCan ==
    [][Denied({"pay"}) /\ asked.named = Automatic /\ OutputsAllowed(asked.outs) =>
        \A S \in SUBSET Takeable :
            LET ins == SetToSeq(S) IN Total(ins) < Target(asked.outs) + AskedFee(ins)]_vars

\* The script of a token transaction points at its tokens and at their hosts,
\* after every sort and insertion (createauttx.go, sortAndFindInStart,
\* sortAndFindOutStart and the sorts of createTransactionMLPByRootSeeds).
ScriptPointsAtTokens ==
    [][Sent({"register", "reregister", "mint", "transfer", "burn"}) =>
        LET tx == answer'
            tokens == Len(asked.tokens)
            hosts == Len(asked.hosts)
        IN /\ SubSeq(tx.ins, tx.inStart + 1, tx.inStart + tokens) = asked.tokens
           /\ SubSeq(tx.outs, tx.outStart + 1, tx.outStart + hosts) = Hosts(asked.hosts)]_vars

\* A transfer or burn makes as much as it spends, hidden outputs before public
\* ones, and burns the last (transferCTAUT, burnCTAUT).
TokensLaidOut ==
    asked # None /\ asked.kind \in {"transfer", "burn"} =>
        LET made == asked.made
        IN /\ MadeWorth(made) = Worth(asked.tokens)
           /\ \A i, j \in DOMAIN made : i < j /\ made[j].hidden => made[i].hidden
           /\ \A i \in DOMAIN made :
                 made[i].burned <=> asked.kind = "burn" /\ i = Len(made)
=============================================================================
