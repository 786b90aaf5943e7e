----------------------------- MODULE TxPublish -----------------------------
(***************************************************************************)
(* What happens to a transaction once txCreator has made it: the sender's  *)
(* goroutine publishes it and then stores it, in two steps; the goroutine  *)
(* resendUnminedTx, started after every attached block, works through a    *)
(* list it read before; blocks are attached in between; the chain server   *)
(* forgets, replies get lost, and the process may end anywhere.            *)
(*                                                                         *)
(* Which coins a transaction spends is any choice (TxCreator has the       *)
(* rules), and of the store only the buckets a send touches are kept       *)
(* (TxStore has all of it, and reorganizations).                           *)
(***************************************************************************)
EXTENDS Integers, Sequences, FiniteSets

CONSTANTS
    Coins,          \* the wallet's coins, all mature at first
    MaxSends,       \* bound: how many transactions are made
    MaxSenders,     \* bound: how many goroutines send at the same time
    MaxLost,        \* bound: how often a request or its reply is lost
    MaxEvictions,   \* bound: how often the server forgets a transaction
    MaxCrashes,     \* bound: how often the process ends
    EvictsInFlight  \* whether it may forget one that a send still conflicts with

ASSUME BoundsAssumption ==
    /\ {MaxSends, MaxSenders, MaxLost, MaxEvictions, MaxCrashes} \subseteq Nat
    /\ EvictsInFlight \in BOOLEAN

VARIABLES
    sends,          \* how many transactions have been made
    created, sent,  \* those about to be published, and to be stored
    ins,            \* inputs of a transaction
    mature, held,   \* bucketMaturedOutput, bucketUnconfirmedTXO
    stored,         \* bucketUnconfirmedTx
    confirmed,      \* bucketConfirmedTx: what the attached blocks have mined
    mempool,        \* what the server keeps to be mined
    blocks,         \* blocks the wallet has not attached
    kicked,         \* a goroutine resendUnminedTx has been started
    resending,      \* resendUnminedTxFlag
    list,           \* what is left of the list it read
    lost, evictions, crashes

senders == <<sends, created, sent, ins>>
store == <<mature, held, stored, confirmed>>
node == <<mempool, blocks>>
resend == <<kicked, resending, list>>
vars == <<senders, store, node, resend, lost, evictions, crashes>>

Txs == 1 .. MaxSends

Inputs(S) == UNION {ins[t] : t \in S}
Share(t, u) == ins[t] \cap ins[u] # {}

InFlight == created \cup sent

mined == confirmed \cup UNION {blocks[i] : i \in DOMAIN blocks}

TypeOK ==
    /\ sends \in 0 .. MaxSends
    /\ ins \in [Txs -> SUBSET Coins]
    /\ mature \subseteq Coins /\ held \subseteq Coins
    /\ {created, sent, stored, confirmed, mempool, list} \subseteq SUBSET Txs
    /\ blocks \in Seq(SUBSET Txs)
    /\ kicked \in BOOLEAN /\ resending \in BOOLEAN
    /\ lost \in 0 .. MaxLost /\ evictions \in 0 .. MaxEvictions
    /\ crashes \in 0 .. MaxCrashes

Init ==
    /\ sends = 0 /\ created = {} /\ sent = {}
    /\ ins = [t \in Txs |-> {}]
    /\ mature = Coins /\ held = {} /\ stored = {}
    /\ confirmed = {} /\ mempool = {} /\ blocks = <<>>
    /\ kicked = FALSE /\ resending = FALSE /\ list = {}
    /\ lost = 0 /\ evictions = 0 /\ crashes = 0

-----------------------------------------------------------------------------
(* The chain server *)

\* It refuses what it has mined and what shares an input with what it has.
Refuses(t) == t \in mined \/ \E u \in (mempool \cup mined) \ {t} : Share(t, u)
Accepting(t) == IF Refuses(t) THEN mempool ELSE mempool \cup {t}

\* publishTransaction: "already have transaction" is no error, everything
\* else is, that it has been mined too.
Accepted(t) ==
    /\ ~Refuses(t)
    /\ mempool' = Accepting(t)
    /\ UNCHANGED <<blocks, lost>>

Failed(t) ==
    /\ \/ Refuses(t) /\ UNCHANGED <<mempool, lost>>
       \/ /\ lost < MaxLost
          /\ lost' = lost + 1
          /\ mempool' \in {mempool, Accepting(t)}
    /\ UNCHANGED blocks

MineTx(t) ==
    /\ t \in mempool
    /\ mempool' = mempool \ {t}
    /\ blocks' = Append(blocks, {t})
    /\ UNCHANGED <<senders, store, resend, lost, evictions, crashes>>

\* A block with nothing of the wallet.
MineEmpty ==
    /\ blocks = <<>>
    /\ blocks' = <<{}>>
    /\ UNCHANGED <<senders, store, mempool, resend, lost, evictions, crashes>>

Evict(t) ==
    /\ evictions < MaxEvictions
    /\ t \in mempool
    /\ EvictsInFlight \/ \A u \in InFlight : ~Share(t, u)
    /\ evictions' = evictions + 1
    /\ mempool' = mempool \ {t}
    /\ UNCHANGED <<senders, store, blocks, resend, lost, crashes>>

-----------------------------------------------------------------------------
(* A sender *)

\* txCreator takes mature coins, and holds none of them.
Create ==
    /\ sends < MaxSends
    /\ Cardinality(InFlight) < MaxSenders
    /\ sends' = sends + 1
    /\ created' = created \cup {sends'}
    /\ \E S \in (SUBSET mature) \ {{}} : ins' = [ins EXCEPT ![sends'] = S]
    /\ UNCHANGED <<sent, store, node, resend, lost, evictions, crashes>>

\* reliablyPublishTransaction, up to the answer of the server.
PublishAccepted(t) ==
    /\ t \in created
    /\ Accepted(t)
    /\ created' = created \ {t}
    /\ sent' = sent \cup {t}
    /\ UNCHANGED <<sends, ins, store, resend, evictions, crashes>>

PublishFailed(t) ==
    /\ t \in created
    /\ Failed(t)
    /\ created' = created \ {t}
    /\ UNCHANGED <<sends, sent, ins, store, resend, evictions, crashes>>

\* addRelevantTx and InsertTx: the coins must still be mature.
Insert(t) ==
    /\ t \in sent
    /\ ins[t] \subseteq mature
    /\ mature' = mature \ ins[t]
    /\ held' = held \cup ins[t]
    /\ stored' = {u \in stored : ~Share(t, u)} \cup {t}
    /\ sent' = sent \ {t}
    /\ UNCHANGED <<sends, created, ins, confirmed, node, resend, lost, evictions, crashes>>

\* A coin is gone: an error, though the transaction was sent.
InsertFails(t) ==
    /\ t \in sent
    /\ ~(ins[t] \subseteq mature)
    /\ sent' = sent \ {t}
    /\ UNCHANGED <<sends, created, ins, store, node, resend, lost, evictions, crashes>>

\* The process ends; the open database transaction is rolled back.
Ends ==
    /\ created' = {} /\ sent' = {}
    /\ kicked' = FALSE /\ resending' = FALSE /\ list' = {}
    /\ UNCHANGED <<sends, ins, store, node, lost, evictions>>

\* An attached block spent the last own coin of a ring and deleted its record:
\* InsertTx dereferences nil.  A panic in a websocket goroutine ends the process.
InsertPanics(t) ==
    /\ t \in sent
    /\ ins[t] \cap Inputs(confirmed) # {}
    /\ Ends
    /\ UNCHANGED crashes

-----------------------------------------------------------------------------
(* Attaching a block *)

\* A mutated form of ConnectBlock: nobody looks for the coins of the block
\* among the mature ones.
ConnectBlockHeldOnly ==
    /\ blocks # <<>>
    /\ LET txs == Head(blocks)
       IN /\ held' = held \ Inputs(txs)
          /\ stored' = {t \in stored \ txs : \A u \in txs : ~Share(t, u)}
          /\ confirmed' = confirmed \cup txs
    /\ blocks' = Tail(blocks)
    /\ kicked' = TRUE
    /\ UNCHANGED <<mature, senders, mempool, resending, list, lost, evictions, crashes>>

\* InsertBlock confirms its transactions; one that shares a coin with them
\* becomes invalid, its other coins stay held.  Then go resendUnminedTx().
ConnectBlock ==
    /\ blocks # <<>>
    /\ LET txs == Head(blocks)
       IN /\ mature' = mature \ Inputs(txs)
          /\ held' = held \ Inputs(txs)
          /\ stored' = {t \in stored \ txs : \A u \in txs : ~Share(t, u)}
          /\ confirmed' = confirmed \cup txs
    /\ blocks' = Tail(blocks)
    /\ kicked' = TRUE
    /\ UNCHANGED <<senders, mempool, resending, list, lost, evictions, crashes>>

-----------------------------------------------------------------------------
(* Sending again *)

\* A mutated form of ResendRead: with nothing to send the flag stays set.
ResendReadKeepsFlag ==
    /\ kicked /\ ~resending
    /\ kicked' = FALSE
    /\ list' = stored
    /\ resending' = TRUE
    /\ UNCHANGED <<senders, store, node, lost, evictions, crashes>>

\* With nothing to send the flag is cleared at once.
ResendRead ==
    /\ kicked /\ ~resending
    /\ kicked' = FALSE
    /\ list' = stored
    /\ resending' = (stored # {})
    /\ UNCHANGED <<senders, store, node, lost, evictions, crashes>>

\* Another one is at work.
ResendSkip ==
    /\ kicked /\ resending
    /\ kicked' = FALSE
    /\ UNCHANGED <<senders, store, node, resending, list, lost, evictions, crashes>>

\* Through with t; the flag is cleared after the last one.
Through(t) ==
    /\ list' = list \ {t}
    /\ resending' = (list # {t})

ResendAccepted(t) ==
    /\ t \in list
    /\ Accepted(t)
    /\ Through(t)
    /\ UNCHANGED <<senders, store, kicked, evictions, crashes>>

\* A mutated form of DeleteRawUnmined: the coins stay held.
DeleteRecordOnly(t) ==
    /\ stored' = stored \ {t}
    /\ UNCHANGED <<mature, held, confirmed>>

\* Coins of t that are held become mature, whoever holds them.
DeleteRawUnmined(t) ==
    /\ mature' = mature \cup (ins[t] \cap held)
    /\ held' = held \ ins[t]
    /\ stored' = stored \ {t}
    /\ UNCHANGED confirmed

\* Any error deletes t.
ResendFailed(t) ==
    /\ t \in list
    /\ Failed(t)
    /\ DeleteRawUnmined(t)
    /\ Through(t)
    /\ UNCHANGED <<senders, kicked, evictions, crashes>>

Crash ==
    /\ crashes < MaxCrashes
    /\ crashes' = crashes + 1
    /\ Ends

-----------------------------------------------------------------------------
Resend(t) == ResendAccepted(t) \/ ResendFailed(t)

Publish(t) == PublishAccepted(t) \/ PublishFailed(t)
Store(t) == Insert(t) \/ InsertFails(t)

Next ==
    \/ Create
    \/ \E t \in Txs : Publish(t) \/ Store(t) \/ InsertPanics(t)
    \/ \E t \in Txs : MineTx(t) \/ Evict(t) \/ Resend(t)
    \/ MineEmpty \/ ConnectBlock \/ ResendRead \/ ResendSkip \/ Crash

Safety == Init /\ [][Next]_vars

\* The goroutines go on, blocks come, and what the server keeps gets mined.
Fairness ==
    /\ \A t \in Txs :
          WF_vars(Publish(t)) /\ WF_vars(Store(t)) /\ WF_vars(MineTx(t)) /\ WF_vars(Resend(t))
    /\ WF_vars(MineEmpty) /\ WF_vars(ConnectBlock) /\ WF_vars(ResendRead)

Spec == Safety /\ Fairness

-----------------------------------------------------------------------------
(* Properties *)

\* A coin is held if and only if a stored transaction spends it, and one only:
\* over sends, blocks, evictions and a resend list that is out of date.
HeldIsStored ==
    /\ held = Inputs(stored)
    /\ \A t, u \in stored : t # u => ~Share(t, u)

\* A coin is mature, held, or spent by an attached block, and only one of them:
\* a lost reply or a crash between publishing and storing loses none.
CoinsAccounted ==
    /\ mature \cup held \cup Inputs(confirmed) = Coins
    /\ mature \cap held = {}
    /\ (mature \cup held) \cap Inputs(confirmed) = {}

\* A coin is not held for good: its transaction is mined, or sent again and
\* mined, or given up (resendUnminedTx).
CoinsComeBack == \A c \in Coins : c \in held ~> c \notin held

=============================================================================
