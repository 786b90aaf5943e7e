# abewallet in TLA+

A verification development of the wallet in `src/`: TLA+ modules translated from
its Go source, TLC configurations that check them on small instances, and
theorems checked by TLAPS for every value of the constants.

abewallet descends from btcwallet. It differs where it matters most: an output
of the Abelian chain cannot be spent by its outpoint. Every three blocks the
protocol groups the outputs of those blocks into *rings*, a transaction names
rings and reveals one *serial number* per output it spends, and only the owner
can tell which member a serial number stands for. An output (a TXO) is therefore
spendable only once its ring exists, coinbase outputs only once the whole group
has matured, and the wallet must undo all of this when the chain reorganizes.
That is the core of the program and the core of this project.

## 1. Inventory

### 1.1 Components

| Component | Source | State it keeps | Operations |
|---|---|---|---|
| Transaction store | `wtxmgr/tx.go`, `db.go`, `unconfirmed.go`, `query.go` | about twenty database buckets: block records, own outputs and spent rings per block, two immature buckets keyed by block, mature / unconfirmed / confirmed TXOs, rings, unconfirmed / invalid / confirmed transactions, spenders of each TXO, stored balances; leases of outputs in memory | `InsertGenesisBlock`, `InsertBlock`, `Rollback`, `InsertTx`, `UnconfirmedTxs`, `DeleteRawUnmined`, `LockOutput`, `Balance` |
| CTAUT accounting | `wtxmgr/db_ctaut.go`, `db_aut.go` (commented out as a whole) | token records, root coins disabled per block, token counters beside the balances | called from the operations above |
| Block attachment and synchronisation | `wallet/chainntfns.go`, `rescan.go`, `recovery.go`, `waddrmgr/sync.go` | the synced block (memory and database), a window of block hashes | `connectBlock`, `disconnectBlock`, `syncWithChain`, `rescan`, `SetSyncedTo` |
| Sending and resending | `wallet/wallet.go` | the resend flag; channels to `txCreator` | `SendOutputs`, `publishTransaction`, `resendUnminedTx` |
| Transaction authoring | `wallet/createtx.go`, `createauttx.go`, `rpc/legacyrpc/methods.go` (token requests) | none | input selection, fees, change, layout of token transactions |
| Wallet locker | `wallet/wallet.go` 822-1195 | lock state held by one goroutine, requests on channels, held unlocks, timeout | `Unlock`, `Lock`, `holdUnlock`, `ChangePassphrase*` |
| Address manager | `waddrmgr` | root and crypto keys, lock state, sync state | `Unlock`, `Lock`, `ChangePassphrase`, `SetSyncedTo` |
| Chain client | `chain` | unbounded queue of notifications, the best block as last delivered | websocket callbacks, `handler`, `BlockStamp` |
| Client notifications | `wallet/notifications.go` | registered clients | notify, register, done |
| Loader | `wallet/loader.go` | loaded wallet, callbacks | create, open, unload, run after load |
| Database and migrations | `walletdb`, `*/migrations.go` | bbolt file, schema versions | transactions, upgrades |
| JSON-RPC server | `rpc/legacyrpc` | websocket clients and their queues, subscriptions, quit flags | requests, notifications, shutdown |
| gRPC server | `rpc/rpcserver`, `rpc/walletrpc` | none | request translation |
| Daemon | root package | process life cycle; nothing of its own but the list of interrupt handlers | start, reconnect loop, interrupt handlers |
| Secret box | `snacl` | a key, and of a master key the salt and digest | derive, open, seal |
| Port forwarding, tools, word lists, parameters | `nat`, `cmd`, `wordlists`, `netparams` | - | - |

### 1.2 Interactions

The chain server (abec, outside this repository) pushes block notifications over
a websocket; the chain client queues them; one goroutine (`handleChainNotifications`)
takes them out and calls `connectBlock` or `disconnectBlock`, each inside one
database transaction that updates the address manager's synced block and the
transaction store. After a connected block it starts a goroutine that publishes
the unconfirmed transactions again. Client requests arrive in other goroutines;
they send to `txCreator` (one goroutine), publish, and then store the result with
`InsertTx` in a transaction of their own. The lock state of the address manager is
serialised by the `walletLocker` goroutine; `txCreator` takes a held unlock from it
while it signs. The database admits one writer, so a database transaction is atomic
with respect to the others; what is not atomic is everything between two of them.

### 1.3 What is hard, and what makes each part correct

* **Reorganizations.** `Rollback` is the inverse of `InsertBlock`, written by hand,
  stage by stage, from undo records, 1000 lines against 1100. It must be right
  after any sends and resends in between. Correct: each TXO is in the one bucket
  the branch says, rings know the branch's serial numbers and no others, balances
  and token counters equal the buckets, and what is written with a TXO (its ring, its
  name, its spender) is true of the branch.
* **Double spends.** Another copy of the wallet may spend what this one holds; a
  transaction may be unconfirmed, invalid, confirmed and back. Correct: in one
  bucket at a time, confirmed exactly when on the branch.
* **Stale reads.** The resend goroutine works on a list read earlier; `txCreator`
  chooses inputs in one goroutine that are held only later in another; maturing
  blocks are asked for by height while the server reorganizes; a lock may come between
  the look at the lock and the use of a key. Correct: no coin is lost, held for nothing
  or held for good; what is found by height belongs to the branch.
* **Order of notifications, crashes, catching up.** A connected block is compared
  with the synced one by height; memory changes before commit; catching up goes by
  height in batches; a new release migrates what an old one left. Correct: the store
  follows one branch block by block and comes to rest on the server's; every migration is
  made once and in order; what is stored can be read again.
* **Goroutines waiting on each other.** Locker, creator, held unlocks, quit; the seven
  goroutines between a wallet transaction and a websocket. Correct: every request is
  answered, a time limit ends in locking, stopping comes to an end, the database is
  closed when nobody needs it, notifications come in order and reach who subscribed.
* **Arithmetic on lists.** Coins are sorted, chosen, cut off at a limit and spliced into
  positions a script then points at. Correct: the transaction pays what was asked, spends
  each coin once, and the script points at its tokens.
* **Limits.** Block records are kept for 24 blocks, block hashes in a window,
  notification queues without bound.

`PROJECT.json` lists each hazard at its line, with the properties that cover it or
why none does yet.

## 2. Plan

| Order | Module | What | Composition |
|---|---|---|---|
| 1, done | `BlockTree`, `WalletChain` | tree of blocks and groups; rings, ownership and contents of the blocks | constants shared by all chain modules |
| 1, done | `TxStore` | the transaction store | extends `WalletChain` |
| 1, done | `CoinLedger` | what the store promises, with no buckets | refined by `TxStore` |
| 1, done | `TxStoreProofs` | types, the sum of the balances, then every invariant of the store and its implementation of `CoinLedger`; on top of these, the invariants of `TxoRecords` and `CtautLedger` | extends `TxoRecords` and `CtautLedger`, and so `TxStore` |
| 1, done | `BlockTreeProofs` | branches, heights, groups, for any tree | used by the proofs of all chain modules |
| 2, done | `WalletLocker`, `WalletLockerProofs` | locker, creator, held unlocks, timers, shutdown | with the lock state of `Manager`, the reconnect loop and the interrupt handlers |
| 3, done | `ChainSync` | notifications, attaching, detaching, catching up, lost connections, stops of the process | implements `ChainFollower` |
| 3, done | `ChainFollower` | what following a chain means; all that `TxStore` assumes of its callers | |
| 3, done | `ChainSyncProofs` | hashes and store agree; the birthday block covers the birthday; the wallet follows one branch | extends `ChainSync`, uses `BlockTreeProofs` |
| 4, done | `TxPublish`, `TxPublishProofs` | publish, store, resend, blocks and crashes as separate steps | on a reduced store |
| 5, done | `TxoRecords` | what is written with each TXO from bucket to bucket | every step is a step of `TxStore` |
| 5, done | `CtautLedger` | token records and counters | every step is a step of `TxStore` |
| 6, done | `InputSelection`, `TokenTx` | selection, fee, change and token layout as operators | |
| 6, done | `TxCreator` | requests, their checks in the RPC handlers, and the answers | uses both |
| 7, done | `WsClients` | the notification manager and the goroutines of a websocket client | |
| 7, done | `KeyStore` | master keys, crypto keys, passphrases, readers of the root seeds | |
| 7, done | `Loader`, `Migration` | create, open, migrate, callbacks, reconnect loop | `Loader` uses `Migration` |
| 8, done | `KeyStoreProofs`, `WsClientsProofs`, `LoaderProofs` | their safety invariants | each extends its module |
| 9, done | proofs | what remains true of the buckets and of the names of TXOs when a block that matured coinbases is detached (`CoinbasesStay`) | `TxStoreProofs` |
| next | proofs | the same of the rings of the records (`RingsKnown`, `SpentHere`) | `TxStoreProofs` |
| next | trees | a fork below the group whose coinbases mature, where outputs of detached blocks stay (`db.go:679`) | `TxStore` |
| next | codecs | the byte layouts of `wtxmgr/db.go` and their limits (`db.go:869`), as pure functions | beside `TxoRecords` |

A run is kept for each distinct question. Runs that only documented a disagreement found
on the way have been retired in favour of runs that check a module; what they showed is
in section 5.

## 3. The modules

### 3.1 `BlockTree`, `WalletChain`: what the chain server and the address manager say

All constants. A block is its hash; `Parent` and `Height` give the tree, `Branch`
its paths (`BlockTree`, with the arithmetic of heights that groups blocks and matures
coinbases). `Coinbase`, `TxsOf`, `Outputs` and `Spends` give the contents;
`RingsOf` and `Members` the rings the protocol forms when a block completes its
group of `GroupSize`; `Mine` the outputs `ReceiveTxo` recognises. A serial
number is written as the ring member it is the image of: the code recomputes the
image with the secret key of each own member and compares bytes, which says the
same. `KeyRank` is the byte order of block hashes: it orders bucket keys, and one
look-up (`fetchBlockOutputWithHeight`) takes the last key with a prefix.

Assumptions, all on constants: `TreeAssumption`, `GroupAssumption` (a group fits in the
maturity), `SetsAssumption` (types; finitely many blocks, ranked as keys),
`NumbersAssumption` (a group fits in the kept records: 3 blocks, against 24). Three say
what the chain server has checked of a block it offers, and the wallet takes from it
unchecked: an output is created once on a branch (`OutputsAssumption`); the rings over a
group are new and hold the outputs of the group, each in one ring (`RingsAssumption`); a
transfer spends members of rings formed before, matured if they are coinbases, by serial
numbers not revealed yet (`SpendsAssumption`). `Detachable` is the assumption on when it
takes one back: only in favour of another branch that is at least as high. TLC evaluates
them all on the trees of the runs. `NoCoinbaseUnmatured` is no assumption of the module but a
hypothesis of theorems (section 4); TLC evaluates it on the trees of `fork` and `tokens`.
So is the weaker `CoinbasesStay`, evaluated on the tree of `across`.

### 3.2 `TxStore`: the store

One action per operation of the store, each one database transaction, with
everything the operation does to any bucket:

| Action | Code |
|---|---|
| `Init` | `InsertGenesisBlock`, `tx.go:2741` |
| `InsertBlock(b)` | `InsertBlock`, `tx.go:1623`, with the extra blocks `connectBlock` fetches (`chainntfns.go:228`) |
| `Rollback(b)` | `rollback`, `tx.go:2980`, one turn of its loop, as `disconnectBlock` asks for |
| `InsertTx(t)` | `InsertTx`, `tx.go:1282`, called after a publication succeeded |
| `ResendRead`, `ResendAccepted(t)`, `ResendRejected(t)` | `resendUnminedTx`, `wallet.go:1652`: the read, and each publication with its outcome (`DeleteRawUnmined`, `db.go:1782`) |

Buckets become variables of the same meaning; the comment beside each variable
names the bucket, and assigning the variable stands for the put, fetch and delete
functions of `db.go` for that bucket. Both immature buckets are keyed by block, as in the
code. `blockInputs` is the undo record: a copy of each ring entry before the block and the
serial numbers the block adds. `InsertBlock` is split by the state it writes
(`InsertBlockRecords`, `...Rings`, `...Txs`, `...Txos`, `...Balances`); `Rollback`
is split by the code's stages, since each stage reads what the one before left:

1. rings of the group `b` completed are undone, and the outputs of the group's
   blocks go back to immature, from whichever bucket they are in (`Unringed...`);
2. the outputs of `b` leave the store (`Dropped...`);
3. rings `b` spent from get their saved entry, and the TXOs `b` spent become mature
   (`Restored...`); a TXO looked up in the confirmed bucket and not found there is
   a nil dereference, `RollbackPanics`;
4. coinbases `b` matured become immature (`Unmatured...`).

Stored balances are sums of amounts. The model keeps, for each balance, how often
each TXO counts in it: what holds of the counts holds of the sums for all amounts.

What is abstracted, and why it loses nothing the properties tell apart:

* The ring hash stored in a TXO is the ring of its group, so it is found by
  `RingsOf` (`TxoRecords` keeps it as a field); the `Spent` flags of a ring entry are a
  function of the serial numbers seen (`SpentFlags`), as `AddGotSerialNumber` computes them.
* Under one key of an immature bucket a coin occurs once: a set. `OneBucket`
  checks that no coin is under two keys.
* `DoubleSerialNumber` compares all inputs of the block with the numbers seen; the
  code compares the first per ring. `BlocksGoThrough` shows that neither ever finds one,
  and that no rollback panics.
* Errors and nil dereferences inside a database transaction leave the database as
  it was, so they are steps not taken; that none is due is a property.
* `InsertBlock` requires the parent, and takes the extra blocks (its group, the blocks it
  matures) from its own branch. That is what `ChainFollower` says of the callers and
  what `ChainSync` is checked against (3.6).
* `UnconfirmedTxs` stops after 400 transactions; the model has a handful.
* A block whose record has been dropped is never detached: the code assumes so
  (`tx.go:1688`).

### 3.3 `CoinLedger`: what the store promises

Five variables: the tip and four sets. Given a branch, which TXOs are immature,
ready and spent is a definition (`WalletChain`); the only state beyond the tip is
which of the TXOs that may be spent are held. `TxStore` implements it with
`immature` as the union of the two immature buckets and `spendable`, `held`, `spent`
as the three other buckets. That every operation of the store is one step of this
ledger is the strongest statement checked of it: it relates insert, rollback, send and
resend to the branch at once, with no reference to how they are undone.

### 3.4 `TxoRecords`, `CtautLedger`: what is stored beside the sets

`TxoRecords` adds to each step of `TxStore` the fields written with a TXO. A TXO is
written anew, in the format of the next bucket, each time it moves; a format keeps some
fields and drops others (`ImmatureRecord`, `SpendableRecord`, ...), and one of them, the
hash by which users name the TXO, is computed once and from then on carried along. After
a reorganization the same TXO may be in another ring: `NamesFresh`, `RingsKnown` and
`SpentHere` say that nothing of the branch before survives in a record.

`CtautLedger` adds the tokens: `autCoins`, which of them are spent, which root coins a
re-registration disables in which block, and the counters in total, spendable, immature and
unconfirmed. A root coin counts as one and a token by its value in the code; both are
counted here per output, as balances are. `TokenTotals` (the total is the sum of the
three others) and `TokensMatchTxos` (each counter counts what the TXO buckets say) are
checked over registrations, a mint, a transfer and a re-registration on two branches. A token is
taken to be re-registered at most once in a block: the transactions of a block have no order
here, and a second re-registration would disable the root coins of the first
(`tx.go:2155`), which `DisabledIn` does not say.

### 3.5 `WalletLocker`: who locks the wallet, and who waits for whom

All locking goes through one goroutine, `walletLocker`. Requests reach it on
unbuffered channels; `txCreator`, the second goroutine of the wallet, asks it to
hold the wallet unlocked while it builds a transaction, and `walletLocker` then
waits for the release and serves nobody. Both end when the quit channel is closed,
which two parts of the daemon do: the reconnect loop, which stops the wallet, waits
and starts it again whenever the chain client ends, and the interrupt handlers, which
run in the order JSON-RPC server, `UnloadWallet`.

| State | Code |
|---|---|
| `locked`, `hashed`, `memPrivate`, `memPublic` | fields of `waddrmgr.Manager`: `locked`, `hashedPrivPassphrase`, the two master keys |
| `dbPrivate`, `dbPublic` | the master key parameters in the database |
| `timer`, `timeout` | the timer that came with the unlock in force; whether `walletLocker`'s local `timeout` is its channel |
| `locker`, `creator`, `serving` | where the two goroutines are, and the caller `txCreator` works for |
| `request` | what each handler goroutine of the RPC server is blocked on |
| `quit`, `connected`, `reconnect`, `interrupt` | the quit channel; the chain client; where the loop and the handlers are |

| Action | Code |
|---|---|
| `Call` | a handler calls `Unlock`, `Lock`, `Locked`, `Change...` or `CreateSimpleTx` |
| `ServeUnlock`, `ServeChange`, `ServeChanges`, `ServeLocked`, `ServeLock`, `LockTimeout`, `HoldUnlock`, `LockerQuit` | the cases of the select statement, `wallet.go:1007` |
| `Release` | `release`, and the look at the timer after it, `wallet.go:1064` |
| `Tick` | the timer of `walletPassphrase` fires |
| `TakeCreate`, `AnswerCreate`, `CreatorQuit` | `txCreator`, whose six request channels are handled alike |
| `Disconnect`, `ConnectionLost`, `ReconnectStop`, `ReconnectClose`, `Restart` | the chain client ends; `rpcClientConnectLoop`, `abewallet.go:217` |
| `Interrupt`, `InterruptStop`, `...Close`, `...Join`, `...Drain`, `...Unload` | the handlers; `Server.Stop` to its last line, then `UnloadWallet` |

A send and the receive it meets are one step, as they are for unbuffered channels.
One turn of `walletLocker` is one step where it waits for nobody: the manager is
touched by no other goroutine but to read `IsLocked` (`createtx.go:932`, under a hold).
`Wallet.Stop` is two steps, the look at the quit channel and the close, because no
lock joins them. Of the two, `UnloadWallet` does both in one step: at that time the
channel is closed, or the loop has started the wallet again.

Abstracted: a passphrase stands for the key derived from it and for its salted hash;
`None` is a hash or a request that is not there. Errors of the random source, of
encryption or of the database are left out, so a request fails exactly for a wrong
passphrase. The other goroutines in the wallet's wait group (`handleChainNotifications`
and those of a rescan) end with the chain client and do not touch the lock; they are
not waited for here. A panic ends the process; `panic` marks where it happened.

Bounds. Two callers give every race for a channel, between two requests as between a
request and `txCreator`'s hold; a caller makes requests again and again, so sequences
are not bounded. Two passphrases give a right and a wrong one before and after every
change. `timer` is the timer in force: an older one is on a channel nobody reads.
Callers and passphrases are interchangeable, and `interrupt`, which checks no liveness,
uses that (`MC_Symmetry`). It does not check for deadlock, since a daemon that is
interrupted ends.

`Disconnects` says when the chain client may end: `"never"`, `"any"` time, or `"idle"`,
while no transaction is asked for or made. `serves` takes `"idle"`: if the client ends
while `txCreator` is about to ask for a hold, both wait for ever (section 5), and
`Served` would not hold of that. It has no request that changes both passphrases, since
the gRPC server that would make it has no such method (`wallet.go:1182`); `interrupt`
has it. `interrupt` takes `"never"`: with disconnections the wallet may be started again
while it closes (section 5), so `ClosedQuietly` is claimed without them; the other
properties of the run are proved with them too.

Fairness (`Fairness`). A Go select statement chooses at random among the cases that
are ready, and those who wait to send on one channel are served in turn; a case that
is ready again and again, by a loop that comes back to it, is taken: strong fairness of
each case, per caller. A goroutine that can proceed does, and a timer fires: weak
fairness of the creator's release and answer, of `Tick`, of the reconnect loop and of
the handlers. Weak fairness would not do for the cases of the select: every hold
disables them. Callers, disconnections and interrupts are not fair: nobody need call.

### 3.6 `ChainSync`, `ChainFollower`: how the wallet follows the server

`ChainFollower` has two variables, the tip and the blocks stored, and two actions:
go forward along a branch, go back along the one stored. That is what `TxStore` assumes
of those who call it. `ChainSync` is the code that calls it:

| State | Code |
|---|---|
| `best`, `goal` | the server's active chain, and where it is going while it reorganizes (external) |
| `link`, `wanted`, `queue` | the connection, whether `NotifyBlocks` was called, and the notifications between the server and `handleChainNotifications` (`chain/rpc.go:233`) |
| `handler`, `at`, `target` | where `handleChainNotifications` is within `syncWithChain` and `rescan` |
| `synced` | `syncState.syncedTo`, in memory |
| `db`, `tx`, `batch` | the committed database, the open transaction of a batch of `rescan`, and its length; in `db`: hashes by height, synced block, birthday block, stored blocks, blocks found matured |

| Action | Code |
|---|---|
| `TakeConnected`, `TakeDisconnected`, `TakeClient` | the cases of `handleChainNotifications`, with `connectBlock` and `disconnectBlock` |
| `CompareDown`, `CompareDone` | `syncWithChain`: compare hashes downwards, roll back (`RollbackTo`, `MoveBirthday`) |
| `RequestNotifications`, `AskBest`, `CatchUp` | `NotifyBlocks`, then `rescan` batch by batch |
| `Crash`, `SyncPanics`, `Restart` | the end of the process anywhere, the panic when synchronizing fails (`chainntfns.go:155`), and the next process |
| `ConnectionLost`, `Reconnect`, `Reregister` | the websocket client: `ClientConnected` is queued before blocks are registered for again (external) |
| `NewGoal`, `ServerDetach`, `ServerAttach` | the server reorganizes block by block, and tells a registered client each step (external) |

Abstracted: in catching up, the request for a block's hash and those for the hashes it
matures are one step; the polling until the server is synced itself and the current block
(`BlockStamp`) are left out; the binary search for the birthday is one step; of the store
there is the set of blocks, since `TxStore` has the rest.

`follow` checks the refinement (`FollowsABranch`), that what `InsertBlock` looks up by
height is of its own branch (`FoundByHeight`), and that the wallet comes to rest on the
server's chain (`CatchesUp`), with one lost connection and one stop of the process at any
point. It takes `Overlap = "none"`: the server does not reorganize while the wallet
synchronizes. The code does not claim more: it asks by height, batch after batch, and
compares no parent, so with a reorganization in between the refinement is false.
`overlap` checks what remains true then (`Overlap = "any"`: the server reorganizes whenever
it likes, blocks asked for by height may come from several branches, the connection is
lost once and the process stops once). `HashesMatchStore`: the hash kept at the height
of the synced block is that block's, no block is stored above it, and a block stored below
has its own hash at its height, or none any more. By these hashes the next synchronization
finds its way back. And the birthday block lies below the first payment. `FoundByHeight` and the
refinement do not hold there, which is why they are checked in `follow`.

How deep a reorganization may be is said by `ShallowForks`, which the runs' trees satisfy
and theorems have as a hypothesis: none replaces a block below `syncfrom`, a block whose
coinbases have matured, or one of the two lowest blocks whose hash is still kept.
`TimesInOrder` is the hypothesis of the theorem on the birthday block, which the tree
satisfies too: as far as the birthday goes, the times of blocks rise with their heights.

Bounds: maturity 3; hashes of 6 blocks kept in `follow` and of 4 in `overlap`, so that windows
end within the tree, and in `follow` below every fork (`PutSyncedTo` looks at the
hash below the one it writes); batches of 2; `syncfrom` 4, which `SyncFrom` rounds down to
a group; forks at two heights.
`StorageFails` is FALSE in both runs: with it a block is attached to one that is not its
parent, because the synced block in memory is ahead of the database (section 5).

Fairness: the server finishes a reorganization it began, a lost connection comes back, a
dead process is started again (as often as `Restarts` says), the goroutine runs. Weak
fairness is enough: none of these is disabled by another's step again and again.

### 3.7 `InputSelection`, `TokenTx`, `TxCreator`: making a transaction

`InputSelection` and `TokenTx` are pure: `Drafts` is the set of inputs and fees that
`createtx.go` may come to for a request (sorting is by version and amount only, so equal
coins may come in any order), `Transactions` adds the change and the order of outputs,
`TokenTxs` does the same for the five token transactions, with the positions the token
script points at (`InStart`, `OutStart`, `Splice`). The limits on outputs, the limits on inputs, which
the code checks only for named coins with a rate, and the fee that grows with each input are
as in the code.
`TxCreator` runs them: `Ask...` actions are the RPC handlers, with the checks and the token
change they add (`methods.go`); `Create...` actions are the cases of `txCreator`.

External: the fee of a transaction of a given size (`RateFee`, `TokenFee`), and
`TransferTxGen` of the crypto library, which refuses inputs that do not balance or occur
twice. `PaysIfItCan` needs amounts above what one coin adds to the fee. The look-up of a
chosen coin's ring is merged with its choice, and errors for a locked or unsynced wallet
are left out; a rate in the configuration only switches the fixed fee off.

`create` takes four small coins and four tokens, every set of them mature, and every request of
a small set. `CreatedPays`, `PaysIfItCan` and `ScriptPointsAtTokens` state what a created
transaction is, independently of how it was found. `CreatedPays` has one exception to the fee,
the one the code makes: when no coins are named, the fee goes by a rate, and all the coins
that fit are worth exactly the outputs, the loop of `createtx.go:707` ends with the fee still at
0, line 838 lets that pass, and a transaction without a fee is made. The payments of 6
and of 13 reach it, with one coin and with two; `ExactlySpent` says that nothing less than this
excuses a fee below the rate.

### 3.8 `TxPublish`: from created to confirmed

`SendOutputs` publishes first and stores afterwards, in steps of its own: between them
other senders choose coins, blocks are attached, `resendUnminedTx` works through a list it
read before, replies get lost, the server forgets transactions, the process ends. Each
sender is a transaction in `created` (about to be published) or `sent` (about to be stored).
The answers of the server are those `publishTransaction` tells apart: accepted, known,
already in a block, or refused because an input is spent. On a panic in `InsertTx`
(`InsertPanics`) the handler of a POST request survives and that of a websocket ends the
process; both are a lost send.

`EvictsInFlight` is FALSE in the run and in the theorems: the server does not forget a
transaction that one being sent conflicts with. With TRUE it accepts the second, which is
then stored beside the first, and both hold the coin (`HeldIsStored` fails; section 5).

Bounds: two senders at a time, two coins, three sends, one loss, one transaction forgotten, one
crash. Several resend goroutines that have been started and wait are one `kicked`.
Reorganizations are `TxStore`'s. Fairness, for `CoinsComeBack`: goroutines go on, blocks
come, and what the server keeps is mined.

### 3.9 `WsClients`: telling clients

The notification manager (a goroutine that queues, one that handles) and the goroutines of
each websocket client (reading, serving a request, queueing, writing, waiting for the
others), with their channels: unbuffered ones as one step for both sides, the send channel
with its buffer. `Notify` is called inside the wallet's database transactions. Connections
fail and peers leave at any time; the server stops at any time.

`ws` has one client with two requests, `MaxReqs` 1, a buffer of 3 and two notifications.
`SendBufferAssumption` (`SendBuffer >= MaxReqs + 2`; the program has 50 and 5 per client) is what
makes `Ends` true: that many goroutines may have found the client connected before it went.
`Ends` is about the goroutines a connection waits for and those of the manager; one that serves
a request is not waited for and may hang once the server stops (section 5). A request is one whose
method has a handler (section 5), and is answered.
`Told` allows for a client that has gone and is still subscribed, since the manager then
gives up on the others (section 5). Fairness: goroutines go on; a peer reads or its connection
fails; a read of a closed connection returns.

### 3.10 `KeyStore`: passphrases and keys

A key is a name, what is encrypted under it a record (`Sealed`): decryption succeeds with
that key only. Master keys are parameters in the database (passphrase and salt, the salts
numbered by `changes`); in memory the manager has them, the crypto keys encrypted, and, while
unlocked, in clear. Actions: `Create` and `Open`, `Lock`, `Unlock`, both changes of
passphrases with a commit that may fail after memory has changed, `ConvertToWatchingOnly`,
and the two goroutines that read the root seeds step by step while locks come between (an
address being made; outputs of a block being tried). `StoredReadable`: whatever failed or stopped
half-way, the database opens under the passphrases of its own master keys.
`SecretsFollowLock`: no key in clear while locked, the right ones while not.

`keys`: two passphrases, symmetric; two changes; the three kinds of master seed. `Lock` and
`Unlock` are unbounded. The key generation of the crypto library is assumed to refuse a
missing seed.

### 3.11 `Loader`, `Migration`: from a file to a wallet that is served

`Loader` has the process (create, or open and run the callbacks), the file and the versions
and migrations of both services, and the reconnect loop with its chain clients. A wallet
may be loaded before or after the first client connects: `RunAfterLoad` keeps a callback, and
a client that ends in between must not stay the wallet's. `Migration` is
`walletdb/migration/manager.go` as operators; both services are upgraded in one database
transaction (`wallet.go:2759`), so that a failure undoes both (`OpenFails`).

`loader` runs two made-up releases, since both services know only one version today: one with
version 1 of the address service, one with 1, 2 and 3. Four processes, three clients,
`MaxVersion` 3. `ReleasesAssumption`: the versions a release knows count up from 1 without
a gap, as the lists of `waddrmgr/migrations.go:17` and `wtxmgr/migrations.go:15` do, where an
entry is added for each release.
Fairness: the main goroutine and the loop go on; the notification handler of a stopped
wallet ends.

### 3.12 Runs

| Run | Configuration | States | What it checks |
|---|---|---|---|
| `fork` | `TxStoreFork.cfg` | 28,141 | three branches, six outputs, seven transactions, one publication turned down: the store is the ledger, and its balances, rings and transactions are as the branch says |
| `across` | `TxoRecords.cfg` | 4,039 | a fork below which coinbases mature, block records going: no TXO is duplicated, balances add up, records stay true of the branch |
| `tokens` | `Ctaut.cfg` | 738 | token counters follow tokens, tokens their TXOs |
| `serves` | `LockerServes.cfg` | 10,728 | every request is answered; an expired timer locks |
| `interrupt` | `LockerInterrupt.cfg` | 177,504 | holds, unlocking, reasons to lock, the private passphrase in the database, closing |
| `follow` | `SyncFollow.cfg` | 78,573 | the wallet follows one branch and comes to rest on the server's |
| `overlap` | `SyncOverlap.cfg` | 625,660 | what holds whatever the server does during a synchronization |
| `create` | `TxCreator.cfg` | 51,632 | transactions pay what was asked and point at their tokens |
| `publish` | `TxPublish.cfg` | 187,836 | coins are not lost, held for nothing or held for good |
| `ws` | `WsOne.cfg` | 231,795 | notifications come in order and arrive; goroutines end |
| `keys` | `KeyStore.cfg` | 110,022 | what is stored is readable; secrets follow the lock |
| `loader` | `Loader.cfg` | 2,382 | migrations once and in order; a live client comes to serve the wallet |

Bounds of the store's trees. A reorganization is a fork, and the store's handling of a block
depends on its height modulo the group, on whether it matures coinbases, on the spends in
it and on what its rings have revealed. The trees place a fork at the block that forms the
first ring (both branches form it, under other hashes), one above it with a double spend
between branches, and at the block above which coinbases mature and a ring forms over an
output received below. Within a tree TLC walks up and down in every order `Detachable`
allows, any number of times, with sends and resends anywhere. *Group size* 3 is the
protocol's. *Maturity* is 8 in `fork` and `tokens` (out of reach: rings alone) and 3 in
`across`, where *NumberBlock* 4 makes block records go, which 24 would not in so few
blocks. `across` has no fork deeper than the maturity: a coinbase lost there (section 5)
whose own block is then detached and attached again would be counted once more each time,
without bound; real reorganizations do not go as deep as a maturity. *Rings* of up to three
members, one not the wallet's, let a ring be exhausted by own and foreign serial numbers.
*MaxRejections* 1 lets the server turn a publication down at any moment; `BalancesMatchBuckets`
says what that does to the balances, exactly. No symmetry is used: blocks are not
interchangeable.

Deadlock is not checked where the modelled system may stop: an interrupted daemon, a server
that stopped, a bounded number of processes, clients, restarts or rejected publications that
has been used up (`CHECK_DEADLOCK FALSE` in `interrupt`, `ws`, `loader`, `follow`, `overlap`, `tokens`).

No fairness is assumed of the store: it only reacts, and nothing in it must eventually
happen.

## 4. What is proved

`TxStoreProofs`, for every tree of blocks, set of transactions, ring structure,
maturity and number of kept records that satisfies the named assumptions:

* `TypeCorrect`: `Spec => []TypeOK`. `TypeOK` is inductive as it stands. One lemma
  per action; `RollbackType` goes stage by stage through the code's intermediate
  sets, and `RingTypes` says a ring entry stays one when serial numbers are added.
* `TotalAlwaysSum`: `Spec => []TotalIsSum`. The total the store keeps equals the
  sum of the four partial balances, after anything, for all amounts. Inductive
  given `TypeOK`. The argument is per coin: `PlusMinusAt` turns each update into
  plus or minus one at that coin, and the disjointness of the sets a handler splits
  its TXOs into (found in the mature, else in the unconfirmed, else in the confirmed
  bucket) makes the total move exactly as the four parts do. It needs no
  disjointness of the buckets and no validity of the chain. It therefore holds
  also where the parts no longer match the buckets (section 5: lost coinbases,
  publications turned down).
* Under `NoCoinbaseUnmatured`, everything else that is checked of the store:
  `BalancesAreOfBuckets`, `RingsAreOfBranch`, `BlocksAlwaysGoThrough`,
  `ConfirmedAreOfBranch`, and `Refinement`: `Spec => LedgerSpec`.

  The argument: the state of the store is a function of the branch of the tip, of which
  TXOs are held, and of the publications turned down. `Inv` spells this function
  out: what each immature bucket has under each block (`ImmatureCBAt`, `ImmatureTRAt`),
  each ring entry (`RingAt`), each undo record, the spenders and the
  transactions filed, each balance; the mature bucket is what is left over. No single
  property is inductive without the rest: `Rollback` puts back ring entries from the
  undo records, finds the TXOs to restore by the ring entries, and
  the keys of their blocks by the outputs filed. So the lemmas come in two rows: what `Inv`
  says of one step of a branch (`ImmatureStep`, `SpentStep`, `NewRing`), and that the
  sets the handlers compute are just that (`UnringedIs`, `RestoredIs`,
  `InsertBlockMoves`). That a block detached leaves the state its parent had is then
  no lemma of its own: both are the function of the same branch.

  The hypothesis: no block that the server may take back has matured a coinbase of the
  wallet. It is needed, for where it fails `Rollback` writes the coinbases
  of several blocks under the key of one (`wtxmgr/tx.go:3951`) and loses coins (section
  5). It holds of a wallet that mines nothing, and wherever reorganizations stay above a
  group whose coinbases matured: TLC evaluates it on the tree of `fork`.
* Under `CoinbasesStay`, which is less (`StayIfNone`): `AlwaysOneBucket`, and
  `NoneReadyEarly`: what is in the mature, unconfirmed or confirmed bucket is an output of the
  branch, in a ring of the branch, and has matured there if it is a coinbase. The hypothesis
  lets the server take back blocks that matured coinbases of the wallet, as long as it does not
  go back to the blocks of these coinbases; a reorganization less deep than `Maturity` does not.
  There the immature coinbase bucket is no function of the branch any more: it
  depends on which blocks have been undone, and what they lost. `PlacesInv` gives bounds where
  `Inv` gives values: under the key of a block are coinbases of its own, or some that it
  had matured, of blocks no rollback reaches. Two parts carry the argument. What has a ring was
  moved by `Rollback` when the ring went, because it finds it by the outputs filed under the
  blocks of the group (`RollbackMoves`). And the block of a coinbase made immature again is
  the only one of its height, so that the lookup by height, which takes the last key, cannot
  take another one and leave the coinbase in the mature bucket.
* `TxoRecords`, also under `CoinbasesStay`: `NamesAlwaysFresh`: `RecordsSpec => []NamesFresh`.
  `NamesInv` adds to `PlacesInv` that what is immature has no name yet; `InsertNames` and
  `RollbackNames` go through the cases in which a TXO is written, which exclude one another only
  because each TXO is in one place.
* `TxoRecords`, under `NoCoinbaseUnmatured`: `RecordsInvariance`, and from it
  `RingsAlwaysKnown` and `AlwaysSpentHere`: `RecordsSpec` implies
  `[]RingsKnown` and `[]SpentHere`. `TxoInv` says of each record what the branch
  says of its TXO: a TXO that is ready has the ring that the branch put it in and is named
  after it; an immature one has no name, and its ring as soon as the branch has formed it.
  Each bucket keeps other fields (`Formats`), and `InsertBlock` and `Rollback` write a
  record through several of them in one transaction; `InsertBlockWrites` and
  `RollbackWrites` say what is left in the end. `DetailsInv` says which ring details are
  stored. The tree of `across` does not satisfy the hypothesis: there TLC looks at what the
  proof leaves out.
* `CtautLedger`: `TokenInvariance`, and from it two theorems.
  `TotalsAreOfTokens`: `TokenSpec => []TokenTotals`, under `NoCoinbaseUnmatured`,
  `DisabledRinged` and `DisabledNotRestored`; `TokensAreWithTxos`:
  `TokenSpec => []TokensMatchTxos`, under these and `DisabledNotSpent`.
  `MarksInv` says that a token is marked if and only if a block of the branch spends its TXO or
  a re-registration on the branch disables it, and that no two blocks disable the same one.
  `TotalsInv` and `CountersInv` give each counter token by token, as the balances are
  given coin by coin: what is disabled counts as less spendable, whichever bucket its TXO is in.
  The counters are integers here and unsigned in the code, where a negative one has
  wrapped (section 5).

  The hypotheses are on the blocks. `DisabledRinged`: the root coins that a
  re-registration disables have their rings; they come from one transaction, and the re-registration
  spends one of them. The other two leave out blocks on which the code goes wrong: the TXO
  of a disabled root coin stays where it is, and nothing in the store keeps a block from spending it.
  If the block that spends it is then detached, `Rollback` un-marks the token, and counts
  it once more when it detaches the re-registration too: without
  `DisabledNotRestored`, TLC finds a total of 2 for one token. If it is spent while held, it
  stays in the unconfirmed counter: without `DisabledNotSpent`, TLC finds
  `TokensMatchTxos` violated. All four hypotheses hold on the tree of `tokens`, as TLC evaluates.

`BlockTreeProofs`, for any tree: a branch goes down to the genesis block with one block at
each height, the blocks of a branch at or below a height are a branch, groups and
maturing blocks lie on it. Everything about chains rests on these eight lemmas. They are
proved by a least counterexample, for lack of induction rules with an operator.

`ChainSyncProofs`, for any tree, any losses, stops and late notifications, under
`StorageFails = FALSE` (section 5 says what is lost without it):

* `HashesAlwaysMatch`: `Spec => []HashesMatchStore`, whatever the server does at
  any time. `Inv` says it of the database and of the open transaction alike, and that
  the synced block in memory is never below the committed one, so that what
  `connectBlock` or `rescan` stores is above all that is stored.
* `BirthdayAlwaysCovers`: `Spec => []BirthdayCovers`, under `TimesInOrder`. That the
  binary search of `locateBirthdayBlock` ends is proved first: its equation has a solution
  on ever wider ranges (`SearchIs`), since each half is narrower than its range. The loop
  keeps an early block at the left end (`SearchEarly`), so that the block found is early,
  too: the first one, or not later than the birthday and two hours. Both are proved by a least
  counterexample. `BirthdayEarly` then says it of the database and of the open transaction,
  and that there is a birthday block whenever hashes are compared. The hypothesis is for the
  rollback alone, which moves the birthday block to the block rolled back to
  (`wallet.go:474`) and does not look at its time; the search needs no order of times.
* `BlocksFoundByHeight` and `FollowsOneBranch` (`Spec => FollowsABranch`, the
  implementation of `ChainFollower`), under `Overlap = "none"` and `ShallowForks`.
  The queue is read as a walk of the server's: each notification starts where the
  one before ended, and the last ends at the server's block (`QueueOK`). `Leads(q, l, b, x)`
  says that a wallet at `x` may go through the rest of it: some notifications it
  passes over, none of them above it, and then one that starts at `x`, or a new connection, after
  which the wallet compares anyway. `HandlerFollows` says of each stage of
  `handleChainNotifications` where the wallet stands; in catching up it stands on the branch of the server
  and the notifications queued meanwhile lead from where it will end. `DbFollows`
  is what the database then is: the stored blocks are those of the branch of the synced one.
  Each hypothesis is needed. Asking by height during a reorganization mixes branches (3.6). A fork
  deeper than the hashes kept is not found by comparing them; one below a block that
  matured coinbases has asked the server for blocks of another branch; one below
  `syncfrom` leaves groups that are stored in part.

`WalletLockerProofs`, for any number of callers, any passphrases, any kinds of
request, with or without disconnections and interrupts:

* `LockerTypeCorrect`: `Spec => []TypeOK`, inductive as it stands.
* `HeldNeverLocked`: `Spec => []HeldStaysUnlocked`. The invariant says of the creator
  alone that the wallet is unlocked; what protects it is that `walletLocker` waits.
  `HeldInv` says so: the creator is at work exactly while the locker is held, and it
  is held with an unlocked wallet only. Every case of the select needs the locker
  elsewhere; a restart needs both goroutines ended.
* `UnlockDecides`: `Spec => UnlockByPassphrase`, from `HashInv`: the hash an unlocked
  manager compares with is that of the passphrase in force. `OnlyUnlockEnds` shows
  that nothing else answers an unlock request.
* `LockedForAReason`: `Spec => LocksForAReason`, from the same invariant: without it
  a right passphrase could be taken for a wrong one.
* `ClosedAfterUse`: if the chain server never disconnects, `Spec => []ClosedQuietly`.
  `CloseInv` keeps what each stage of shutdown has waited for, and that the reconnect
  loop never leaves `wait` but to end: a connection ends then only after `quit`. The
  hypothesis is needed: see `abewallet.go:227` in section 5.
* `PrivateAgrees`: `Spec => []PrivateMatchesDb`, inductive as it stands: the private
  passphrase is the last thing a request changes. A change fails here for a wrong passphrase
  only (3.5). After a failed commit, which `KeyStore` has, memory and database differ.

The assumptions are those on the constants: the kinds of request are among the six,
and `None` is neither a caller nor a passphrase.

`TxPublishProofs`, for any number of senders, coins, transactions, losses, forgotten
transactions and crashes, under `EvictsInFlight = FALSE`:

* `HeldIsStoredTheorem`: `Safety => []HeldIsStored`, and `CoinsAccountedTheorem`:
  `Safety => []CoinsAccounted`, both from `Invariance`. What is stored and what is held are
  written in different steps from what the server answers, so the invariant has to speak of
  the server: `Undisputed` says that its transactions share no input, that nothing
  stored and nothing being stored can be driven out by another, and that a resend's list,
  however old, has only transactions still stored or confirmed since. `Made` says
  that only transactions that have been made are anywhere. The step that needs most of it is
  `StoreInv`: the coins of a transaction that was accepted are mature still, or the
  block that spends them has been attached (`InsertTx` then changes nothing).

`KeyStoreProofs`, for any passphrases, number of changes, master seeds and interleavings of the
readers: `AlwaysReadable`: `Spec => []StoredReadable`, and `SecretsLocked`:
`Spec => []SecretsFollowLock`. What is stored is sealed from what is in memory, and a
change of passphrases alters memory before a commit that may fail. `MemReadable` says that
memory opens, too: the crypto keys in it are sealed under the master keys in it, whichever
of them reached the database. `ReadSoFar` says what the readers carry from one step
to the next, past a lock that comes between. The assumption on `Gone` says that a missing
entry is no passphrase, key or parameter.

`WsClientsProofs`, for any number of clients, requests and buffer places: `ToldInOrder`:
`Spec => []InOrder`. A notification on its way passes nine places, from the
queue of the manager to what the client has been told. `ClientInv` puts them in one line: in
each place the numbers rise, and those in a place are greater than those in all places
after it. Every step hands the head of one place to the end of the next, which keeps the
line, whatever the other goroutines hold.

`LoaderProofs`, for any set of programs whose versions count up from 1 without gaps, any number
of processes, crashes and failed commits: `AlwaysMigratedOnce`:
`Spec => []MigratedOnce`. The lemmas on `Migration` say which versions `VersionsToApply`
returns and in which order, and that `Upgrade` extends what was applied by just those.

Only model-checked:

* Liveness (`CatchesUp`, `Served`, `Relocks`, `CoinsComeBack`, `Told`, `Ends`,
  `NoEndedClientKept`, `ClientServes` and the like): out of the prover's reach.
* All of `TxCreator`: its sums, sorts and selections are recursive functions and folds, and
  what they give for every input would take an induction over data.
* `RingsKnown` and `SpentHere` where matured coinbases are made immature
  again (not `NoCoinbaseUnmatured`), which TLC checks on the tree of `across`. A proof would need
  what the ring entries are, and `CoinbasesStay` does not say: when the block that completed a
  ring goes too, the entry of a ring whose only own member is a lost coinbase stays.

## 5. Seen while modelling

Where the code departs from what a comment, a document or another part of it says, or
where a property holds only under a condition the code does not state. The runs stay
clear of these cases by the bounds and constants of section 3; several of them were runs
that showed the violation, before the modules above took their place. They are given with the line
where they bite.

Store:

* `tx.go:3951`: undoing a block that matured coinbases puts the coinbases of each
  block of the group back, always under the height and hash of the block being undone. Each
  put replaces the last; what remains is under a block that is gone, and the coinbases are lost
  to the wallet (`docs/AbewalletDesign.md:305` has them become immature).
* `db.go:1803`: deleting a transaction the server turned down moves its TXOs to the mature
  bucket and leaves the balances; the caller says it updates them (`chainntfns.go:174`).
  `BalancesMatchBuckets` states what remains true.
* `tx.go:1818`: a transaction that loses to a conflicting one in a block becomes invalid;
  its other inputs stay in the unconfirmed bucket, and nothing returns them.
* `tx.go:3490`: after a block is detached its transactions are unconfirmed, but the TXOs
  they spend are mature and may be chosen again (`docs/AbewalletDesign.md:358`: unconfirmed).
* `tx.go:1990`: a held TXO that a foreign transaction spends keeps this wallet's own as
  its spender; `ConfirmSpentTXO` would have corrected it and is not called.
* `tx.go:3858`: a held or spent coinbase made immature again loses its `PublicRand`; the check
  that reads the record back is commented out there.
* The height at which a ring was used up is not reset by a rollback; nothing reads it.
* `InsertTx` announces a new transaction as one rolled back; `tx.go:2861` says blocks at the
  height and onwards are removed, the code removes those above it.
* `db.go:1782`: deleting a transaction that is no longer unconfirmed may free a coin
  that another holds.

Tokens: `tx.go:3283` is never reached, because the spender is rolled back first; a resend that
is refused leaves the token counters as `DeleteRawUnmined` leaves the balances; disabling
a root coin that is held takes it from the spendable counter, which is unsigned and wraps until
the block is detached; a disabled root coin whose TXO is later spent and that
spend detached is enabled again, and counted a second time when the re-registration is
detached too; the last token a burn makes is skipped (`tx.go:2100`), so no TXO is
marked with it.

Locker and daemon:

* `wallet.go:1133`: `holdUnlock` does not watch quit. If `walletLocker` quits first,
  `txCreator` waits for ever, and with it the reconnect loop in `WaitForShutdown`.
* `wallet.go:1002`: a restart for a new chain client makes a new `walletLocker`, without the
  timer of the old one; the wallet stays unlocked.
* `rpc/legacyrpc/server.go:250`: the server stops the wallet and then waits for the requests
  it has taken; one that waits on `walletLocker`'s channels is never answered, so
  `InterruptDrain` may wait for ever and the database stays open.
* `wallet.go:291`: `Stop` looks at the quit channel and closes it without a lock that joins the
  two; two may find it open, and the second close panics (`Panics`).
* `abewallet.go:227`: the loop looks whether the wallet was stopped on purpose before it stops
  it itself; an interrupt after that look does not keep it from starting the wallet again,
  while the handlers go on to close its database.
* `wallet.go:1049`: the change of the public passphrase stays in memory when that of the private
  one fails ("atomically", `wallet.go:1181`); no method calls it yet.
* `waddrmgr/manager.go:718`: a changed passphrase keeps an unlocked wallet unlocked;
  `methods.go:2651` says it is locked at once, `wallet.go:1155` that the state stays.

Synchronization:

* `waddrmgr/sync.go:62` says "Update memory now that the database is updated", while the
  transaction has not committed. After a failed commit the next block is attached to one
  that is not its parent.
* `wallet.go:423`: a reorganization between comparing and `NotifyBlocks` is never noticed; one
  while catching up gives blocks of several branches; a notification queued before it may then
  attach to a block that is not its parent.
* `PutSyncedTo` leaves the hashes above the synced block when it goes back.
* `wallet.go:294`: the chain client is set to nil while `chainntfns.go:234` may use it.
* `chainntfns.go:155`: a synchronization that fails while the wallet is not stopping panics.

Sending:

* `wallet.go:1802`: two senders may be given the same coin, because it is held only after
  publishing (`wallet.go:925` says requests are serialised to avoid that).
* `wallet.go:1690`: a resend deletes the transaction on any error of the chain server, a lost
  connection included, against `wallet.go:1792` ("continue to re-broadcast the transaction
  upon restarts until it has been confirmed").
* `wallet.go:2411`: a resend of a confirmed transaction is meant to be no error, and falls
  through to the error for a double spend; the transaction is deleted, which changes nothing
  then. A sender whose reply was lost is told of an error though its transaction is mined.
* With `EvictsInFlight`, two stored transactions hold one coin.
* A conflict in the server's pool returns no hash, which a caller dereferences.
* Selection: a coin named twice counts twice until the library refuses it; with a rate,
  coins that are together worth exactly the outputs make a transaction with no fee
  (`createtx.go:838`; `CreatedPays` has it as its one exception); the limit on single outputs counts a ring change; the
  token creators refuse where further coins would do; change below the threshold goes to the
  fee. `findEligibleTxosAbeCTAUT` and its sort, which is off by one, are not called.

Clients, keys, loader:

* `rpcwebsocket.go:405`, `421`, `437`: the loop over clients returns at the first that is
  disconnected, so the others are not told. A client that subscribes after it was removed stays in
  the list for ever. A peer that does not read blocks the manager, since nothing bounds a write;
  `rpcwebsocket.go:744` says it does not.
* `AddClient` and `RegisteTransactionNotification` do not watch quit.
* `server.go:681` calls the `handler` of a method without looking whether it has one; `getinfo` and
  `signrawtransaction` have only a `handlerWithChain` (`methods.go:93`, `157`), so that such a
  request of a websocket panics. `lazyApplyHandler`, which serves a POST, does look.
* `waddrmgr/manager.go:452`: a lock between the look at the lock and the decryption makes the
  read of the public seeds fail too, and with it the block being attached
  (`manager.go:343` says only the private ones need the lock open).
* `manager.go:899`: the script key is never put back by `Unlock`; wallets imported from the old
  command-line wallet have no token root seed, and addresses for hidden values are refused.
* A file left without the namespaces can neither be opened nor created again; the error of
  inserting the genesis block is ignored; the callbacks are dropped after a load, though "the
  Loader may be reused"; the loop tries a failing server again without a pause; `SynchronizeRPC`
  ignores a second client; `MigrationManager.SetVersion` ignores the namespace it
  is given.

## 6. Not modelled

* `wallet/notifications.go` and the gRPC server: the server's start is commented out
  (`rpcserver.go`) and no client of `NotificationServer` is ever registered. Its messages are
  generated code, and with the word lists they are a sixth of the implementation's lines.
* The byte layouts of the codecs and their widths (`db.go:869` keeps a count in 16 bits).
  `TxoRecords` says which fields each format keeps.
* `recovery.go`, which derives addresses ahead of a scan; output locks and leases, which nothing
  calls; labels and request hashes.
* Checks of arguments and the read-only methods in `methods.go`; options, logging, start-up.
* Cryptography, key generation, the proofs in transactions; port forwarding; command-line
  tools; `db_aut.go`, which is commented out as a whole; functions with no caller
  (`createTransactionMLPByKeys`, `txPqringCTToOutputs`, `ConfirmSpentTXO`, `LeaseOutput`,
  `signRawTransaction`, `blockIterator`, `deleteBuckets`).

## 7. Running

In this directory: `tlc -config TxStoreFork.cfg MCTxStore.tla`, and likewise each
configuration with its module (`PROJECT.json` lists them: `MCTxoRecords`, `MCCtaut`,
`MCWalletLocker`, `MCChainSync`, `MCTxCreator`, `TxPublish`, `MCWsClients`, `MCKeyStore`,
`MCLoader`); `tlapm` on each of `BlockTreeProofs`, `TxStoreProofs`,
`WalletLockerProofs`, `TxPublishProofs`, `ChainSyncProofs`, `KeyStoreProofs`,
`WsClientsProofs`, `LoaderProofs`; the longest takes a few minutes. The longest run takes about three minutes on two cores. A mutated
form of a definition stands before it, named for the mistake it makes; `PROJECT.json` says which
property it breaks.
