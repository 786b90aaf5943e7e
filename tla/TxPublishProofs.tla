-------------------------- MODULE TxPublishProofs --------------------------
(***************************************************************************)
(* No coin is lost or left held by a send, whatever the interleaving of    *)
(* senders, blocks and resends, for any number of each, as long as the     *)
(* server forgets no transaction that a send in flight conflicts with.     *)
(***************************************************************************)
EXTENDS TxPublish, TLAPS

\* The server's transactions share no input; nothing stored, and nothing that
\* is being stored, can be driven out by another; what a resend still has to
\* send is stored, or has been confirmed since.
Undisputed ==
    /\ \A t, u \in mempool \cup mined : t # u => ~Share(t, u)
    /\ \A t \in stored, u \in mempool \cup mined : t # u => ~Share(t, u)
    /\ \A t \in stored, u \in created : Share(t, u) => t \in mempool \cup mined
    /\ sent \subseteq mempool \cup mined
    /\ list \subseteq stored \cup confirmed

\* Only transactions that have been made are anywhere, and they spend coins.
Made ==
    /\ created \cup sent \cup stored \cup confirmed \cup mempool \cup mined \cup list
           \subseteq 1 .. sends
    /\ \A t \in 1 .. sends : ins[t] # {}

Inv == TypeOK /\ Made /\ Undisputed /\ HeldIsStored /\ CoinsAccounted

-----------------------------------------------------------------------------
\* A mined block joins what the server has mined.
LEMMA MinedGrows ==
    ASSUME TypeOK, NEW t \in Txs,
           blocks' = Append(blocks, {t}), confirmed' = confirmed
    PROVE  mined' = mined \cup {t}
<1>1. /\ Len(blocks') = Len(blocks) + 1
      /\ Len(blocks) \in Nat
      /\ \A i \in 1 .. Len(blocks) : blocks'[i] = blocks[i]
      /\ blocks'[Len(blocks) + 1] = {t}
  BY DEF TypeOK
<1>2. DOMAIN blocks = 1 .. Len(blocks) /\ DOMAIN blocks' = 1 .. Len(blocks')
  BY DEF TypeOK
<1>3. ASSUME NEW u PROVE u \in mined' <=> u \in mined \cup {t}
  BY <1>1, <1>2 DEF mined
<1> QED
  BY <1>3

\* Attaching a block only moves it.
LEMMA MinedStays ==
    ASSUME TypeOK, blocks # <<>>,
           blocks' = Tail(blocks), confirmed' = confirmed \cup Head(blocks)
    PROVE  mined' = mined /\ Head(blocks) \subseteq mined /\ Head(blocks) \subseteq Txs
<1>1. /\ Len(blocks) \in Nat \ {0}
      /\ Len(blocks') = Len(blocks) - 1
      /\ Head(blocks) = blocks[1]
      /\ \A i \in 1 .. Len(blocks) - 1 : blocks'[i] = blocks[i + 1]
  BY DEF TypeOK
<1>2. DOMAIN blocks = 1 .. Len(blocks) /\ DOMAIN blocks' = 1 .. Len(blocks) - 1
  BY <1>1 DEF TypeOK
<1>3. ASSUME NEW u PROVE u \in UNION {blocks[i] : i \in DOMAIN blocks}
                       <=> u \in Head(blocks) \cup UNION {blocks'[i] : i \in DOMAIN blocks'}
  <2>1. ASSUME NEW i \in DOMAIN blocks, u \in blocks[i], i # 1
        PROVE  i - 1 \in DOMAIN blocks' /\ u \in blocks'[i - 1]
    BY <1>1, <1>2, <2>1
  <2>2. ASSUME NEW i \in DOMAIN blocks', u \in blocks'[i]
        PROVE  i + 1 \in DOMAIN blocks /\ u \in blocks[i + 1]
    BY <1>1, <1>2, <2>2
  <2>3. 1 \in DOMAIN blocks
    BY <1>1, <1>2
  <2> QED
    BY <1>1, <2>1, <2>2, <2>3
<1>4. mined' = mined /\ Head(blocks) \subseteq mined
  BY <1>3 DEF mined
<1>5. Head(blocks) \subseteq Txs
  BY <1>1, <1>2 DEF TypeOK
<1> QED
  BY <1>4, <1>5

\* The server's answer: what it accepts shares no input with what it has.
LEMMA AnswerUndisputed ==
    ASSUME Inv, NEW t \in Txs, t \in created \cup list, Accepted(t) \/ Failed(t)
    PROVE  /\ UNCHANGED blocks
           /\ mempool \subseteq mempool' /\ mempool' \subseteq mempool \cup {t}
           /\ Accepted(t) => t \in mempool'
           /\ t \in mempool' => \A u \in mempool \cup mined : u # t => ins[t] \cap ins[u] = {}
           /\ lost' \in 0 .. MaxLost
<1> USE BoundsAssumption
<1>1. UNCHANGED blocks /\ lost' \in 0 .. MaxLost
  BY DEF Accepted, Failed, Inv, TypeOK
<1>2. mempool' \in {mempool, Accepting(t)} /\ (Accepted(t) => mempool' = mempool \cup {t})
  BY DEF Accepted, Failed, Accepting
<1>3. t \in mempool => \A u \in mempool \cup mined : u # t => ins[t] \cap ins[u] = {}
  BY DEF Inv, Undisputed, Share
<1>4. ~Refuses(t) => \A u \in mempool \cup mined : u # t => ins[t] \cap ins[u] = {}
  BY DEF Refuses, Share
<1> QED
  BY <1>1, <1>2, <1>3, <1>4 DEF Accepting

-----------------------------------------------------------------------------
(* Every action preserves the invariant *)

\* A new transaction takes mature coins, and holds none of them yet.
LEMMA CreateInv ==
    ASSUME Inv, Create PROVE Inv'
<1> USE BoundsAssumption DEF Inv
<1>1. PICK S \in (SUBSET mature) \ {{}} : ins' = [ins EXCEPT ![sends + 1] = S]
  BY DEF Create
<1>2. /\ sends' = sends + 1 /\ sends + 1 \in Txs /\ created' = created \cup {sends + 1}
      /\ UNCHANGED <<sent, store, node, resend, lost, evictions, crashes>>
  BY DEF Create, TypeOK, Txs
<1>3. UNCHANGED mined
  BY <1>2 DEF mined, store, node
<1>4. \A t \in 1 .. sends : t \in Txs /\ t # sends + 1 /\ ins'[t] = ins[t]
  BY <1>1, <1>2 DEF TypeOK, Txs
<1>5. ins'[sends + 1] = S
  BY <1>1, <1>2 DEF TypeOK
<1>6. TypeOK'
  <2>1. sends' \in 0 .. MaxSends /\ created' \subseteq Txs
    BY <1>2 DEF TypeOK, Txs
  <2>2. ins' \in [Txs -> SUBSET Coins]
    BY <1>1, <1>2 DEF TypeOK
  <2> QED
    BY <1>2, <2>1, <2>2 DEF TypeOK, store, node, resend
<1>7. Made'
  <2>1. 1 .. sends' = (1 .. sends) \cup {sends + 1}
    BY <1>2 DEF TypeOK
  <2>2. \A t \in 1 .. sends' : ins'[t] # {}
    BY <1>4, <1>5, <2>1 DEF Made
  <2> QED
    BY <1>2, <1>3, <2>1, <2>2 DEF Made, store, node, resend
<1>8. HeldIsStored' /\ CoinsAccounted'
  BY <1>2, <1>4 DEF HeldIsStored, CoinsAccounted, Made, Inputs, Share, store
<1>9. Undisputed'
  <2>1. \A t \in stored : ins[t] \cap S = {}
    BY DEF HeldIsStored, CoinsAccounted, Inputs
  <2> QED
    BY <1>2, <1>3, <1>4, <1>5, <2>1 DEF Undisputed, Made, Share, store, node, resend
<1> QED
  BY <1>6, <1>7, <1>8, <1>9

\* Publishing takes a transaction to the server or back to the caller.
LEMMA PublishInv ==
    ASSUME Inv, NEW t \in Txs, PublishAccepted(t) \/ PublishFailed(t) PROVE Inv'
<1> USE DEF Inv
<1>1. /\ t \in created /\ created' = created \ {t}
      /\ sent' = sent \/ (Accepted(t) /\ sent' = sent \cup {t})
      /\ UNCHANGED <<sends, ins, store, resend, evictions, crashes>>
      /\ Accepted(t) \/ Failed(t)
  BY DEF PublishAccepted, PublishFailed
<1>2. /\ UNCHANGED blocks
      /\ mempool \subseteq mempool' /\ mempool' \subseteq mempool \cup {t}
      /\ Accepted(t) => t \in mempool'
      /\ t \in mempool' => \A u \in mempool \cup mined : u # t => ins[t] \cap ins[u] = {}
      /\ lost' \in 0 .. MaxLost
  BY <1>1, AnswerUndisputed
<1>3. UNCHANGED mined
  BY <1>1, <1>2 DEF mined, store
<1>4. TypeOK'
  BY <1>1, <1>2 DEF TypeOK, store, resend
<1>5. Made'
  BY <1>1, <1>2, <1>3 DEF Made, store, resend
<1>6. HeldIsStored' /\ CoinsAccounted'
  BY <1>1 DEF HeldIsStored, CoinsAccounted, Inputs, Share, store
<1>7. Undisputed'
  <2>1. \A u \in stored : u # t /\ t \in mempool' => ~Share(u, t)
    BY <1>1, <1>2 DEF Undisputed, Share
  <2> QED
    BY <1>1, <1>2, <1>3, <2>1 DEF Undisputed, Share, store, resend
<1> QED
  BY <1>4, <1>5, <1>6, <1>7

\* Recording what the server accepted, or failing to.
LEMMA StoreInv ==
    ASSUME Inv, NEW t \in Txs, Insert(t) \/ InsertFails(t) PROVE Inv'
<1> USE DEF Inv
<1>1. /\ t \in sent /\ sent' = sent \ {t} /\ t \in 1 .. sends
      /\ UNCHANGED <<sends, created, ins, confirmed, node, resend, lost, evictions, crashes>>
  BY DEF Insert, InsertFails, Made, store
<1>2. UNCHANGED mined
  BY <1>1 DEF mined, node
<1>3. CASE InsertFails(t)
  <2>1. UNCHANGED store
    BY <1>3 DEF InsertFails
  <2>2. TypeOK' /\ Made'
    <3>1. TypeOK'
      BY <1>1, <2>1 DEF TypeOK, store, node, resend
    <3>2. Made'
      BY <1>1, <1>2, <2>1 DEF Made, store, node, resend
    <3> QED
      BY <3>1, <3>2
  <2>3. HeldIsStored' /\ CoinsAccounted'
    BY <1>1, <2>1 DEF HeldIsStored, CoinsAccounted, Inputs, Share, store
  <2>4. Undisputed'
    BY <1>1, <1>2, <2>1 DEF Undisputed, Share, store, node, resend
  <2> QED
    BY <2>2, <2>3, <2>4
<1>4. CASE Insert(t)
  <2>1. /\ ins[t] \subseteq mature
        /\ mature' = mature \ ins[t] /\ held' = held \cup ins[t]
        /\ stored' = {u \in stored : ~Share(t, u)} \cup {t}
    BY <1>4 DEF Insert
  <2>2. \A u \in stored : ins[u] \cap ins[t] = {}
    BY <2>1 DEF HeldIsStored, CoinsAccounted, Inputs
  <2>3. stored' = stored \cup {t}
    BY <2>1, <2>2 DEF Share
  <2>4. TypeOK' /\ Made'
    <3>1. TypeOK'
      BY <1>1, <2>1, <2>3 DEF TypeOK, node, resend
    <3>2. Made'
      BY <1>1, <1>2, <2>3 DEF Made, node, resend
    <3> QED
      BY <3>1, <3>2
  <2>5. HeldIsStored'
    BY <1>1, <2>1, <2>2, <2>3 DEF HeldIsStored, Inputs, Share
  <2>6. CoinsAccounted'
    BY <1>1, <2>1 DEF CoinsAccounted, Inputs
  <2>7. t \in mempool \cup mined
    BY <1>1 DEF Undisputed
  <2>8. Undisputed'
    BY <1>1, <1>2, <2>3, <2>7 DEF Undisputed, Share, node, resend
  <2> QED
    BY <2>4, <2>5, <2>6, <2>8
<1> QED
  BY <1>3, <1>4

\* A crash loses what is under way, not what is stored.
LEMMA EndsInv ==
    ASSUME Inv, Ends, crashes' \in 0 .. MaxCrashes PROVE Inv'
<1> USE DEF Inv
<1>1. /\ created' = {} /\ sent' = {} /\ list' = {} /\ kicked' = FALSE /\ resending' = FALSE
      /\ UNCHANGED <<sends, ins, store, node, lost, evictions>>
  BY DEF Ends
<1>2. UNCHANGED mined
  BY <1>1 DEF mined, store, node
<1>3. TypeOK' /\ Made'
  BY <1>1, <1>2 DEF TypeOK, Made, store, node
<1>4. HeldIsStored' /\ CoinsAccounted'
  BY <1>1 DEF HeldIsStored, CoinsAccounted, Inputs, Share, store
<1>5. Undisputed'
  BY <1>1, <1>2 DEF Undisputed, Share, store, node
<1> QED
  BY <1>3, <1>4, <1>5

\* The server mines or drops a transaction; it drops none that is under way.
LEMMA ServerInv ==
    ASSUME Inv, EvictsInFlight = FALSE, NEW t \in Txs, MineTx(t) \/ Evict(t)
    PROVE  Inv'
<1> USE BoundsAssumption DEF Inv
<1>1. UNCHANGED <<senders, store, resend, lost, crashes>>
  BY DEF MineTx, Evict
<1>2. HeldIsStored' /\ CoinsAccounted'
  BY <1>1 DEF HeldIsStored, CoinsAccounted, Inputs, Share, senders, store
<1>3. CASE MineTx(t)
  <2>1. /\ t \in mempool /\ mempool' = mempool \ {t}
        /\ blocks' = Append(blocks, {t}) /\ UNCHANGED evictions
    BY <1>3 DEF MineTx
  <2>2. mined' = mined \cup {t}
    BY <1>1, <2>1, MinedGrows DEF store
  <2>3. mempool' \cup mined' = mempool \cup mined
    BY <2>1, <2>2
  <2>4. {t} \in SUBSET Txs /\ blocks' \in Seq(SUBSET Txs)
    BY <2>1 DEF TypeOK
  <2>5. TypeOK'
    BY <1>1, <2>1, <2>4 DEF TypeOK, senders, store, resend
  <2>6. Made' /\ Undisputed'
    BY <1>1, <2>1, <2>2, <2>3 DEF Made, Undisputed, Share, senders, store, resend
  <2> QED
    BY <1>2, <2>5, <2>6
<1>4. CASE Evict(t)
  <2>1. /\ t \in mempool /\ mempool' = mempool \ {t} /\ UNCHANGED blocks
        /\ \A u \in created \cup sent : ~Share(t, u)
        /\ evictions' \in 0 .. MaxEvictions
    BY <1>4 DEF Evict, InFlight, TypeOK
  <2>2. UNCHANGED mined
    BY <1>1, <2>1 DEF mined, store
  <2>3. TypeOK' /\ Made'
    BY <1>1, <2>1, <2>2 DEF TypeOK, Made, senders, store, resend
  <2>4. t \notin sent
    BY <2>1 DEF Share, Made
  <2>5. Undisputed'
    BY <1>1, <2>1, <2>2, <2>4 DEF Undisputed, Share, senders, store, resend
  <2> QED
    BY <1>2, <2>3, <2>5
<1> QED
  BY <1>3, <1>4

\* A block without transactions changes no transaction.
LEMMA MineEmptyInv ==
    ASSUME Inv, MineEmpty PROVE Inv'
<1> USE DEF Inv
<1>1. /\ blocks = <<>> /\ blocks' = <<{}>>
      /\ UNCHANGED <<senders, store, mempool, resend, lost, evictions, crashes>>
  BY DEF MineEmpty
<1>2. UNCHANGED mined
  BY <1>1 DEF mined, store
<1>3. TypeOK' /\ Made'
  BY <1>1, <1>2 DEF TypeOK, Made, senders, store, resend
<1>4. HeldIsStored' /\ CoinsAccounted'
  BY <1>1 DEF HeldIsStored, CoinsAccounted, Inputs, Share, senders, store
<1>5. Undisputed'
  BY <1>1, <1>2 DEF Undisputed, Share, senders, store, resend
<1> QED
  BY <1>3, <1>4, <1>5

\* Attaching a block confirms its transactions and turns down their rivals.
LEMMA ConnectBlockInv ==
    ASSUME Inv, ConnectBlock PROVE Inv'
<1> USE DEF Inv
<1> DEFINE txs == Head(blocks)
<1>1. /\ blocks # <<>> /\ blocks' = Tail(blocks) /\ kicked' = TRUE
      /\ mature' = mature \ Inputs(txs) /\ held' = held \ Inputs(txs)
      /\ stored' = {t \in stored \ txs : \A u \in txs : ~Share(t, u)}
      /\ confirmed' = confirmed \cup txs
      /\ UNCHANGED <<senders, mempool, resending, list, lost, evictions, crashes>>
  BY DEF ConnectBlock
<1>2. mined' = mined /\ txs \subseteq mined /\ txs \subseteq Txs
  BY <1>1, MinedStays
<1>3. blocks' \in Seq(SUBSET Txs)
  BY <1>1 DEF TypeOK
<1>4. TypeOK'
  BY <1>1, <1>2, <1>3 DEF TypeOK, senders
<1>5. Made'
  BY <1>1, <1>2 DEF Made, senders
<1>6. \A t \in stored \ txs, u \in txs : ins[t] \cap ins[u] = {}
  BY <1>2 DEF Undisputed, Share
<1>7. stored' = stored \ txs
  BY <1>1, <1>6 DEF Share
<1>8. HeldIsStored'
  <2>1. held' = Inputs(stored \ txs)
    BY <1>1, <1>6 DEF HeldIsStored, Inputs
  <2> QED
    BY <1>1, <1>7, <2>1 DEF HeldIsStored, Inputs, Share, senders
<1>9. CoinsAccounted'
  BY <1>1, <1>2 DEF CoinsAccounted, Inputs, TypeOK, senders
<1>10. Undisputed'
  BY <1>1, <1>2, <1>7 DEF Undisputed, Share, senders
<1> QED
  BY <1>4, <1>5, <1>8, <1>9, <1>10

\* The resend goroutine reads what is unconfirmed, or skips its turn.
LEMMA ResendReadInv ==
    ASSUME Inv, ResendRead \/ ResendSkip PROVE Inv'
<1> USE DEF Inv
<1>1. /\ list' \in {list, stored} /\ kicked' \in BOOLEAN /\ resending' \in BOOLEAN
      /\ UNCHANGED <<senders, store, node, lost, evictions, crashes>>
  BY DEF ResendRead, ResendSkip, TypeOK
<1>2. UNCHANGED mined
  BY <1>1 DEF mined, store, node
<1>3. TypeOK' /\ Made'
  BY <1>1, <1>2 DEF TypeOK, Made, senders, store, node
<1>4. HeldIsStored' /\ CoinsAccounted'
  BY <1>1 DEF HeldIsStored, CoinsAccounted, Inputs, Share, senders, store
<1>5. Undisputed'
  BY <1>1, <1>2 DEF Undisputed, Share, senders, store, node
<1> QED
  BY <1>3, <1>4, <1>5

\* Publishing again, or deleting what the server turns down.
LEMMA ResendInv ==
    ASSUME Inv, NEW t \in Txs, Resend(t) PROVE Inv'
<1> USE DEF Inv
<1>1. /\ t \in list /\ list' = list \ {t} /\ resending' \in BOOLEAN
      /\ Accepted(t) \/ Failed(t)
      /\ UNCHANGED <<senders, kicked, evictions, crashes>>
      /\ UNCHANGED store \/ DeleteRawUnmined(t)
  BY DEF Resend, ResendAccepted, ResendFailed, Through
<1>2. /\ UNCHANGED blocks
      /\ mempool \subseteq mempool' /\ mempool' \subseteq mempool \cup {t}
      /\ t \in mempool' => \A u \in mempool \cup mined : u # t => ins[t] \cap ins[u] = {}
      /\ lost' \in 0 .. MaxLost
  BY <1>1, AnswerUndisputed
<1>3. confirmed' = confirmed
  BY <1>1 DEF store, DeleteRawUnmined
<1>4. UNCHANGED mined
  BY <1>2, <1>3 DEF mined
<1>5. /\ stored' \subseteq stored /\ stored \ {t} \subseteq stored'
      /\ mature' \subseteq Coins /\ held' \subseteq Coins
  BY <1>1 DEF store, DeleteRawUnmined, TypeOK
<1>6. TypeOK'
  BY <1>1, <1>2, <1>3, <1>5 DEF TypeOK, senders
<1>7. Made'
  BY <1>1, <1>2, <1>3, <1>4, <1>5 DEF Made, senders
<1>8. HeldIsStored'
  <2>1. CASE UNCHANGED store
    BY <1>1, <2>1 DEF HeldIsStored, Inputs, Share, senders, store
  <2>2. CASE DeleteRawUnmined(t) /\ t \in stored
    <3>1. held' = Inputs(stored \ {t})
      BY <2>2 DEF DeleteRawUnmined, HeldIsStored, Inputs, Share
    <3> QED
      BY <1>1, <2>2, <3>1 DEF DeleteRawUnmined, HeldIsStored, Inputs, Share, senders
  <2>3. CASE DeleteRawUnmined(t) /\ t \notin stored
    <3>1. ins[t] \cap held = {}
      BY <1>1, <2>3 DEF Undisputed, CoinsAccounted, Inputs
    <3>2. held' = held /\ stored' = stored
      BY <2>3, <3>1 DEF DeleteRawUnmined
    <3> QED
      BY <1>1, <3>2 DEF HeldIsStored, Inputs, Share, senders
  <2> QED
    BY <1>1, <2>1, <2>2, <2>3
<1>9. CoinsAccounted'
  BY <1>1, <1>3 DEF CoinsAccounted, Inputs, DeleteRawUnmined, senders, store
<1>10. Undisputed'
  <2>1. \A u \in stored : u # t /\ t \in mempool' => ~Share(u, t)
    <3>1. CASE t \in stored
      BY <3>1 DEF HeldIsStored, Share
    <3>2. CASE t \notin stored
      BY <1>1, <3>2 DEF Undisputed, Share, mined
    <3> QED
      BY <3>1, <3>2
  <2> QED
    BY <1>1, <1>2, <1>3, <1>4, <1>5, <2>1 DEF Undisputed, Share, senders
<1> QED
  BY <1>6, <1>7, <1>8, <1>9, <1>10

-----------------------------------------------------------------------------
(* Theorems *)

\* Nothing is under way in a new wallet.
LEMMA InitInv == Init => Inv
<1> SUFFICES ASSUME Init PROVE Inv
  OBVIOUS
<1>1. mined = {}
  BY DEF Init, mined
<1>2. TypeOK
  <2>1. /\ MaxSends \in Nat /\ MaxLost \in Nat
        /\ MaxEvictions \in Nat /\ MaxCrashes \in Nat
    BY BoundsAssumption
  <2>2. <<>> \in Seq(SUBSET Txs)
    OBVIOUS
  <2>3. [t \in Txs |-> {}] \in [Txs -> SUBSET Coins]
    OBVIOUS
  <2>4. sends \in 0 .. MaxSends /\ lost \in 0 .. MaxLost
        /\ evictions \in 0 .. MaxEvictions /\ crashes \in 0 .. MaxCrashes
    BY <2>1 DEF Init
  <2> QED
    BY <2>2, <2>3, <2>4 DEF Init, TypeOK
<1>3. Made /\ Undisputed
  BY <1>1 DEF Init, Made, Undisputed
<1>4. HeldIsStored /\ CoinsAccounted
  BY DEF Init, HeldIsStored, CoinsAccounted, Inputs
<1> QED
  BY <1>2, <1>3, <1>4 DEF Inv

\* Every step preserves the invariant, with a server that keeps what it accepted
\* until it is recorded.
LEMMA NextInv ==
    ASSUME Inv, EvictsInFlight = FALSE, [Next]_vars PROVE Inv'
<1>1. CASE UNCHANGED vars
  <2> USE <1>1 DEF vars, senders, store, node, resend
  <2>1. UNCHANGED mined
    BY DEF mined
  <2>2. TypeOK'
    BY DEF Inv, TypeOK
  <2>3. Made' /\ Undisputed'
    BY <2>1 DEF Inv, Made, Undisputed, Share
  <2>4. HeldIsStored' /\ CoinsAccounted'
    BY DEF Inv, HeldIsStored, CoinsAccounted, Inputs, Share
  <2> QED
    BY <2>2, <2>3, <2>4 DEF Inv
<1>2. CASE Create
  BY <1>2, CreateInv
<1>3. ASSUME NEW t \in Txs, Publish(t) PROVE Inv'
  BY <1>3, PublishInv DEF Publish
<1>4. ASSUME NEW t \in Txs, Store(t) PROVE Inv'
  BY <1>4, StoreInv DEF Store
<1>5. ASSUME NEW t \in Txs, InsertPanics(t) PROVE Inv'
  BY <1>5, EndsInv DEF InsertPanics, Inv, TypeOK
<1>6. ASSUME NEW t \in Txs, MineTx(t) \/ Evict(t) PROVE Inv'
  BY <1>6, ServerInv
<1>7. ASSUME NEW t \in Txs, Resend(t) PROVE Inv'
  BY <1>7, ResendInv
<1>8. CASE MineEmpty
  BY <1>8, MineEmptyInv
<1>9. CASE ConnectBlock
  BY <1>9, ConnectBlockInv
<1>10. CASE ResendRead \/ ResendSkip
  BY <1>10, ResendReadInv
<1>11. CASE Crash
  <2>1. crashes' \in 0 .. MaxCrashes
    BY <1>11, BoundsAssumption DEF Crash, Inv, TypeOK
  <2> QED
    BY <1>11, <2>1, EndsInv DEF Crash
<1> QED
  BY <1>1, <1>2, <1>3, <1>4, <1>5, <1>6, <1>7, <1>8, <1>9, <1>10, <1>11 DEF Next

\* The inductive invariant holds if no transaction is forgotten that a send
\* in flight conflicts with.
THEOREM Invariance ==
    ASSUME EvictsInFlight = FALSE PROVE Safety => []Inv
<1>1. Inv /\ [Next]_vars => Inv'
  BY NextInv
<1> QED
  BY InitInv, <1>1, PTL DEF Safety

\* A coin is held if and only if exactly one stored transaction spends it
\* (InsertTx, InsertBlock, DeleteRawUnmined).
THEOREM HeldIsStoredTheorem ==
    ASSUME EvictsInFlight = FALSE PROVE Safety => []HeldIsStored
<1>1. Inv => HeldIsStored
  BY DEF Inv
<1> QED
  BY Invariance, <1>1, PTL

\* Whatever is lost and wherever the process ends, a coin is mature, held, or
\* spent by an attached block.
THEOREM CoinsAccountedTheorem ==
    ASSUME EvictsInFlight = FALSE PROVE Safety => []CoinsAccounted
<1>1. Inv => CoinsAccounted
  BY DEF Inv
<1> QED
  BY Invariance, <1>1, PTL
=============================================================================
