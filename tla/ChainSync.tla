----------------------------- MODULE ChainSync -----------------------------
(***************************************************************************)
(* How the wallet follows the chain server: the queue of notifications of  *)
(* the chain client, the goroutine handleChainNotifications that takes     *)
(* them out, connectBlock and disconnectBlock, and syncWithChain, which    *)
(* compares hashes, asks for notifications and catches up by height.       *)
(*                                                                         *)
(* The chain server moves on between any two requests; the connection may  *)
(* be lost with what it carried; the process may stop anywhere, and starts *)
(* again with what the database holds.                                     *)
(***************************************************************************)
EXTENDS BlockTree, Sequences

CONSTANTS
    Time,           \* timestamp of every block
    Birthday,       \* birthday of the wallet, 48 hours before its creation
    BirthdayDelta,  \* birthdayBlockDelta
    MaxReorgDepth,  \* how many block hashes the address manager keeps
    BatchSize,      \* blocks per database transaction when catching up
    RequestedFrom,  \* the option syncfrom
    Restarts,       \* bound: how often a dead process is started again
    Losses,         \* bound: how often the connection is lost
    Overlap,        \* when the server may detach blocks during a sync
    StorageFails,   \* whether a database transaction may fail to commit
    None            \* no block

ASSUME SyncAssumption ==
    /\ None \notin Blocks
    /\ MaxReorgDepth \in Nat \ {0}
    /\ BatchSize \in Nat \ {0}
    /\ RequestedFrom \in Nat

ASSUME TimeAssumption ==
    /\ Time \in [Blocks -> Int]
    /\ Birthday \in Int
    /\ BirthdayDelta \in Nat

VARIABLES
    best, goal,     \* the server's active chain, and where it is going
    link,           \* "down", "up", or "registered" for notifications
    wanted,         \* NotifyBlocks was called; rpcclient registers again
    queue,          \* notifications on their way and in handler's queue
    handler,        \* where handleChainNotifications is
    at, target,     \* loop variable and end of comparing and catching up
    synced,         \* syncState.syncedTo, in memory
    db,             \* the committed database
    tx, batch,      \* the open batch of catching up, and its blocks so far
    restarts, losses

server == <<best, goal>>
client == <<link, wanted, queue>>
loop == <<handler, at, target, tx, batch>>
vars == <<server, client, loop, synced, db, restarts, losses>>

Heights == {Height[b] : b \in Blocks}
NoTx == [open |-> FALSE]

\* A notification of the chain client.
ClientConnected == [kind |-> "client", block |-> None]
Connected(b) == [kind |-> "connected", block |-> b]
Disconnected(b) == [kind |-> "disconnected", block |-> b]

\* A mutated form of SyncFrom: the option is taken as it is.
SyncFromExactly == RequestedFrom

\* setSyncFrom: the first block stored is the first of its group.
SyncFrom == RequestedFrom - (RequestedFrom % GroupSize)

Syncing == handler \in {"compare", "register", "ask", "catchup"}

-----------------------------------------------------------------------------
(* Answers of the chain server.  A block is found by its hash on any        *)
(* branch, by its height on the active chain only.                          *)

Answers == link # "down"
HasHeight(h) == h <= Height[best]
ServerBlock(h) == CHOOSE b \in Branch[best] : Height[b] = h

\* The hashes connectBlock and rescan ask for by height, to mature coinbases.
Asked(b) ==
    IF MaturesGroup(b) THEN {ServerBlock(h) : h \in MaturedHeights(b)} ELSE {}
CanAsk(b) == MaturesGroup(b) => HasHeight(Height[b] - Maturity)

\* A mutated form of LocateBirthday: the block at the end of the range.
LocateBirthdayBest == best

\* locateBirthdayBlock: binary search for a block near the birthday, in a range
\* from left to right.
Ranges == {r \in (0 .. Height[best]) \X (0 .. Height[best]) : r[1] <= r[2]}

Search[r \in Ranges] ==
    LET mid == r[1] + (r[2] - r[1]) \div 2
        b == ServerBlock(mid)
    IN  IF mid \in {0, Height[best], r[1]} THEN b
        ELSE IF Time[b] - Birthday > BirthdayDelta THEN Search[<<r[1], mid>>]
        ELSE IF Birthday - Time[b] > BirthdayDelta THEN Search[<<mid, r[2]>>]
        ELSE b

LocateBirthday == Search[<<0, Height[best]>>]

-----------------------------------------------------------------------------
(* The address manager's and the store's part of a database transaction.    *)

\* PutSyncedTo, the check first: once there is a birthday block the hash
\* below must be there.
MayPut(d, b) ==
    Height[b] > 0 /\ d.birthday # None => d.hashes[Height[b] - 1] # None

\* A mutated form of PutSyncedTo: a hash already there is kept.
PutSyncedToOnce(d, b) ==
    [d EXCEPT
        !.synced = b,
        !.hashes = [h \in Heights |->
            IF h = Height[b] /\ d.hashes[h] = None THEN b
            ELSE IF h > 0 /\ h = Height[b] - MaxReorgDepth THEN None
            ELSE d.hashes[h]]]

PutSyncedTo(d, b) ==
    [d EXCEPT
        !.synced = b,
        !.hashes = [h \in Heights |->
            IF h = Height[b] THEN b
            ELSE IF h > 0 /\ h = Height[b] - MaxReorgDepth THEN None
            ELSE d.hashes[h]]]

\* InsertBlock does not look whether the parent of the block is there.
InsertBlock(d, b) ==
    [d EXCEPT !.stored = @ \cup {b}, !.matured = @ \cup {<<b, Asked(b)>>}]

Rollback(d, h) ==
    [d EXCEPT
        !.stored = {b \in @ : Height[b] <= h},
        !.matured = {m \in @ : Height[m[1]] <= h}]

-----------------------------------------------------------------------------
Init ==
    /\ best \in {b \in Blocks : Height[b] >= SyncFrom} /\ goal = best
    /\ link = "up" /\ wanted = FALSE /\ queue = <<ClientConnected>>
    /\ handler = "idle" /\ at = 0 /\ target = 0
    /\ tx = NoTx /\ batch = 0
    /\ synced = Genesis
    /\ db = [synced |-> Genesis, stored |-> {Genesis}, matured |-> {},
             hashes |-> [h \in Heights |-> IF h = 0 THEN Genesis ELSE None],
             birthday |-> None]
    /\ restarts = Restarts /\ losses = Losses

(* The chain server. *)

\* A higher chain appears, a continuation of the active one or another.
NewGoal ==
    /\ best = goal
    /\ \E b \in Blocks : Height[b] > Height[best] /\ goal' = b
    /\ UNCHANGED <<best, client, loop, synced, db, restarts, losses>>

Notify(n) ==
    queue' = IF link = "registered" THEN Append(queue, n) ELSE queue

\* Overlap bounds what the server does while the wallet synchronizes.
MayDetach ==
    Syncing => \/ Overlap = "any"
               \/ Overlap = "registered" /\ link = "registered"

ServerDetach ==
    /\ best \notin Branch[goal]
    /\ MayDetach
    /\ best' = Parent[best]
    /\ Notify(Disconnected(best))
    /\ UNCHANGED <<goal, link, wanted, loop, synced, db, restarts, losses>>

ServerAttach ==
    /\ best \in Branch[goal] \ {goal}
    /\ \E b \in Branch[goal] :
        /\ Height[b] = Height[best] + 1
        /\ best' = b
        /\ Notify(Connected(b))
    /\ UNCHANGED <<goal, link, wanted, loop, synced, db, restarts, losses>>

-----------------------------------------------------------------------------
(* The connection. *)

\* What was on its way is lost; what the client queued is not, and neither is
\* a ClientConnected, which the client makes itself.
ConnectionLost ==
    /\ link # "down" /\ losses > 0
    /\ losses' = losses - 1
    /\ link' = "down"
    /\ \E n \in 0 .. Len(queue) :
        /\ \A i \in n + 1 .. Len(queue) : queue[i].kind # "client"
        /\ queue' = SubSeq(queue, 1, n)
    /\ UNCHANGED <<server, wanted, loop, synced, db, restarts>>

Reconnect ==
    /\ link = "down" /\ handler # "down"
    /\ link' = "up"
    /\ queue' = Append(queue, ClientConnected)
    /\ UNCHANGED <<server, wanted, loop, synced, db, restarts, losses>>

\* rpcclient repeats the request for notifications.
Reregister ==
    /\ link = "up" /\ wanted
    /\ link' = "registered"
    /\ UNCHANGED <<server, wanted, queue, loop, synced, db, restarts, losses>>

-----------------------------------------------------------------------------
(* The process. *)

Die ==
    /\ handler' = "down" /\ link' = "down" /\ wanted' = FALSE /\ queue' = <<>>
    /\ at' = 0 /\ target' = 0 /\ tx' = NoTx /\ batch' = 0
    /\ UNCHANGED <<server, synced, db, restarts, losses>>

Crash == handler # "down" /\ restarts > 0 /\ Die

\* A mutated form of Restart: the connection made by a started client is not
\* announced.
RestartUnannounced ==
    /\ handler = "down" /\ restarts > 0
    /\ restarts' = restarts - 1
    /\ handler' = "idle" /\ link' = "up" /\ queue' = <<>>
    /\ synced' = db.synced
    /\ UNCHANGED <<server, wanted, at, target, tx, batch, db, losses>>

\* The address manager reads the synced block; a new chain client connects.
Restart ==
    /\ handler = "down" /\ restarts > 0
    /\ restarts' = restarts - 1
    /\ handler' = "idle" /\ link' = "up" /\ queue' = <<ClientConnected>>
    /\ synced' = db.synced
    /\ UNCHANGED <<server, wanted, at, target, tx, batch, db, losses>>

-----------------------------------------------------------------------------
(* handleChainNotifications: one notification after another. *)

Take(kind) ==
    /\ handler = "idle" /\ queue # <<>> /\ Head(queue).kind = kind
    /\ queue' = Tail(queue)

\* connectBlock, if the block is higher than the synced one.  A failed database
\* transaction leaves the synced block in memory as it was set.
ConnectBlock(b) ==
    \/ /\ Height[synced] >= Height[b] \/ ~MayPut(db, b)
       /\ UNCHANGED <<synced, db>>
    \/ /\ Height[synced] < Height[b] /\ MayPut(db, b)
       /\ synced' = b
       /\ \/ CanAsk(b) /\ db' = InsertBlock(PutSyncedTo(db, b), b)
          \/ ~CanAsk(b) /\ UNCHANGED db
          \/ StorageFails /\ UNCHANGED db

\* disconnectBlock, if the block is the one stored at its height.
DisconnectBlock(b) ==
    IF \/ Height[b] > Height[synced]
       \/ db.hashes[Height[b]] # b
       \/ db.hashes[Height[b] - 1] = None
       \/ ~MayPut(db, db.hashes[Height[b] - 1])
    THEN UNCHANGED <<synced, db>>
    ELSE LET p == db.hashes[Height[b] - 1] IN
         /\ synced' = p
         /\ \/ db' = Rollback(PutSyncedTo(db, p), Height[p])
            \/ StorageFails /\ UNCHANGED db

\* Both ask the server for the block or its header.
TakeConnected ==
    /\ Take("connected") /\ Answers
    /\ ConnectBlock(Head(queue).block)
    /\ UNCHANGED <<server, link, wanted, loop, restarts, losses>>

TakeDisconnected ==
    /\ Take("disconnected") /\ Answers
    /\ DisconnectBlock(Head(queue).block)
    /\ UNCHANGED <<server, link, wanted, loop, restarts, losses>>

\* The stored birthday block: None until one is put, and verified once it is.
SetBirthdayBlock(d, b) == [d EXCEPT !.birthday = b]

\* The birthday block is located and stored if there is none yet.
WithBirthday(d) ==
    IF d.birthday = None THEN SetBirthdayBlock(d, LocateBirthday) ELSE d

\* birthdaySanityCheck, which finds a stored birthday block verified, and the
\* start of syncWithChain.
TakeClient ==
    /\ Take("client") /\ Answers
    /\ Overlap = "none" => best = goal
    /\ handler' = "compare" /\ at' = Height[synced]
    /\ db' = WithBirthday(db)
    /\ UNCHANGED <<server, link, wanted, target, tx, batch, synced, restarts, losses>>

-----------------------------------------------------------------------------
(* syncWithChain. *)

\* The hash at one height is compared with the server's.  One of them may be
\* missing, or they agree and PutSyncedTo refuses to go back to the block.
CompareFails ==
    \/ db.hashes[at] = None \/ ~HasHeight(at)
    \/ /\ HasHeight(at) /\ db.hashes[at] = ServerBlock(at)
       /\ at < Height[synced] /\ ~MayPut(db, ServerBlock(at))

CompareDown ==
    /\ handler = "compare" /\ Answers /\ ~CompareFails
    /\ db.hashes[at] # ServerBlock(at)
    /\ at' = at - 1
    /\ UNCHANGED <<server, client, handler, target, tx, batch, synced, db, restarts, losses>>

\* A rollback past the birthday block moves the birthday block.
MoveBirthday(d, b) ==
    IF Height[b] <= Height[d.birthday] /\ d.birthday # b
    THEN SetBirthdayBlock(d, b) ELSE d

\* A mutated form of RollbackTo: the synced block alone goes back.
RollbackToSynced(b) ==
    IF at < Height[synced]
    THEN synced' = b /\ db' = PutSyncedTo(db, b)
    ELSE UNCHANGED <<synced, db>>

RollbackTo(b) ==
    IF at < Height[synced]
    THEN /\ synced' = b
         /\ db' = Rollback(MoveBirthday(PutSyncedTo(db, b), b), Height[b])
    ELSE UNCHANGED <<synced, db>>

CompareDone ==
    /\ handler = "compare" /\ Answers /\ ~CompareFails
    /\ db.hashes[at] = ServerBlock(at)
    /\ RollbackTo(ServerBlock(at))
    /\ handler' = "register" /\ at' = 0
    /\ UNCHANGED <<server, client, target, tx, batch, restarts, losses>>

\* NotifyBlocks.
RequestNotifications ==
    /\ handler = "register" /\ Answers
    /\ link' = "registered" /\ wanted' = TRUE
    /\ handler' = "ask"
    /\ UNCHANGED <<server, queue, at, target, tx, batch, synced, db, restarts, losses>>

\* rescanWithTarget asks for the best block.
AskBest ==
    /\ handler = "ask" /\ Answers
    /\ IF Height[best] > Height[synced]
       THEN handler' = "catchup" /\ at' = Height[synced] + 1 /\ target' = Height[best]
       ELSE handler' = "idle" /\ UNCHANGED <<at, target>>
    /\ UNCHANGED <<server, client, tx, batch, synced, db, restarts, losses>>

OpenTx == IF tx = NoTx THEN db ELSE tx

\* One block of a batch; the last commits it.
Store(d, b) ==
    IF Height[b] < SyncFrom THEN PutSyncedTo(d, b)
    ELSE PutSyncedTo(InsertBlock(d, b), b)

\* A batch ends with BatchSize blocks or the last one.
BatchFull == at = target \/ batch + 1 = BatchSize

CatchUp ==
    /\ handler = "catchup" /\ Answers /\ HasHeight(at)
    /\ LET b == ServerBlock(at)
           d == Store(OpenTx, b)
       IN  /\ MayPut(OpenTx, b)
           /\ synced' = b
           /\ IF BatchFull
              THEN db' = d /\ tx' = NoTx /\ batch' = 0
              ELSE db' = db /\ tx' = d /\ batch' = batch + 1
    /\ IF at = target
       THEN handler' = "idle" /\ at' = 0 /\ target' = 0
       ELSE at' = at + 1 /\ UNCHANGED <<handler, target>>
    /\ UNCHANGED <<server, client, restarts, losses>>

\* An error while synchronizing is a panic.
SyncPanics ==
    /\ Answers
    /\ \/ handler = "compare" /\ CompareFails
       \/ /\ handler = "catchup"
          /\ HasHeight(at) => ~MayPut(OpenTx, ServerBlock(at))
    /\ Die

-----------------------------------------------------------------------------
Server == NewGoal \/ ServerDetach \/ ServerAttach
Connection == ConnectionLost \/ Reconnect \/ Reregister
Handler ==
    \/ TakeConnected \/ TakeDisconnected \/ TakeClient
    \/ CompareDown \/ CompareDone \/ RequestNotifications \/ AskBest
    \/ CatchUp \/ SyncPanics

Next == Server \/ Connection \/ Crash \/ Restart \/ Handler

\* The server finishes what it began, a lost connection comes back, a dead
\* process is started again, and the goroutine runs.
Fairness ==
    /\ WF_vars(ServerDetach) /\ WF_vars(ServerAttach)
    /\ WF_vars(Reconnect) /\ WF_vars(Restart)
    /\ WF_vars(Handler)

Spec == Init /\ [][Next]_vars
FairSpec == Spec /\ Fairness

-----------------------------------------------------------------------------

\* No branch has another block at the height of a.
Settled(a) == \A c \in Blocks : Height[c] >= Height[a] => a \in Branch[c]

\* The reorganizations the wallet is built for: none replaces a block below
\* syncfrom, one whose coinbases have matured, or one of the two blocks above a
\* height whose hash is kept no more (PutSyncedTo looks for the hash below).
ShallowForks ==
    \A b \in Blocks : \A a \in Branch[b] :
        /\ Height[a] < SyncFrom /\ SyncFrom <= Height[b] => Settled(a)
        /\ MaturesGroup(b) /\ Height[a] <= Height[b] - Maturity => Settled(a)
        /\ Height[a] <= Height[b] - MaxReorgDepth + 2 => Settled(a)

\* The times of the blocks are in order as far as the birthday goes: what is not
\* above a block from before the birthday, with its margin, is not later either.
TimesInOrder ==
    \A a, b \in Blocks :
        Height[a] <= Height[b] /\ Time[b] <= Birthday + BirthdayDelta
            => Time[a] <= Birthday + BirthdayDelta

Follower == INSTANCE ChainFollower WITH
    tip <- db.synced, stored <- db.stored, From <- SyncFrom

\* Whatever is lost, queued late or repeated, and wherever the process stops,
\* the database follows a branch block by block: connectBlock, disconnectBlock,
\* syncWithChain and catching up attach a block to its parent only and detach
\* the blocks above a block of the branch.
FollowsABranch == Follower!Spec

\* The wallet is at rest: everything notified is done, and the server has told
\* everything.
AtRest ==
    /\ handler = "idle" /\ queue = <<>> /\ link = "registered" /\ best = goal

\* The wallet comes to rest on the server's chain once that stays as it is.
CatchesUp == <>[](AtRest /\ synced = best)

\* The hash the address manager keeps at a height, as far as it keeps one, is
\* that of the block the store holds there, and no block is stored above the
\* synced one, whose hash is kept: disconnectBlock and syncWithChain decide by
\* the hashes what they do to the store.
HashesMatchStore ==
    /\ db.hashes[Height[db.synced]] = db.synced
    /\ \A b \in db.stored :
        /\ Height[b] <= Height[db.synced]
        /\ db.hashes[Height[b]] \in {b, None}

\* What InsertBlock looks for by height it finds on the branch of its block:
\* the other blocks of a ring group are stored, however syncfrom is set, and the
\* coinbases that mature are of that branch, although the server may be on
\* another one when it is asked for their blocks.
FoundByHeight ==
    /\ \A b \in db.stored : CompletesGroup(b) => Group(b) \subseteq db.stored
    /\ \A m \in db.matured : m[2] = MaturedBlocks(m[1])

\* Everything paid to the wallet is in or above the birthday block.
BirthdayCovers ==
    db.birthday # None =>
        \/ Height[db.birthday] = 0
        \/ Time[db.birthday] <= Birthday + BirthdayDelta
=============================================================================
