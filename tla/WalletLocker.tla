---------------------------- MODULE WalletLocker ----------------------------
(***************************************************************************)
(* Who may lock the wallet, and when: the goroutine walletLocker, which    *)
(* alone locks and unlocks the address manager, the goroutine txCreator,   *)
(* which holds the wallet unlocked while it creates a transaction, the     *)
(* callers waiting on their channels, and the two parts of the daemon that *)
(* stop the two goroutines: the loop that reconnects to the chain server,  *)
(* and the interrupt handlers.                                             *)
(*                                                                         *)
(* A channel operation that two goroutines meet in is one step.  One turn  *)
(* of walletLocker's loop runs without waiting for anybody, but for a hold,*)
(* and is one step too.                                                    *)
(***************************************************************************)
EXTENDS Integers

CONSTANTS
    Callers,        \* goroutines of the RPC server, each with one request
    Passphrases,
    Kinds,          \* the kinds of request the callers make
    Disconnects,    \* may the chain server disconnect: never, while no
                    \* transaction is asked for (idle), or at any time?
    MayInterrupt    \* may the daemon be interrupted?

KindsOfRequests == {"unlock", "lock", "locked", "change", "changes", "createTx"}

ASSUME RequestsAssumption ==
    /\ Kinds \subseteq KindsOfRequests
    /\ Disconnects \in {"never", "idle", "any"}
    /\ MayInterrupt \in BOOLEAN

None == [kind |-> "none"]
ASSUME PassphraseAssumption == None \notin Passphrases
ASSUME CallersAssumption == None \notin Callers

Requests ==
    {r \in [kind : {"unlock"}, pass : Passphrases, limited : BOOLEAN]
           \cup [kind : {"change"}, private : BOOLEAN,
                 old : Passphrases, new : Passphrases]
           \cup [kind : {"changes"},
                 publicOld : Passphrases, publicNew : Passphrases,
                 privateOld : Passphrases, privateNew : Passphrases]
           \cup [kind : {"lock", "locked", "createTx"}] :
        r.kind \in Kinds}

VARIABLES
    locked,         \* Manager.locked
    hashed,         \* the passphrase hashedPrivPassphrase is of
    memPrivate,     \* the passphrase of masterKeyPriv, in memory
    memPublic,      \* the passphrase of masterKeyPub, in memory
    dbPrivate,      \* the same, in the database
    dbPublic,
    timer,          \* the timer that came with the unlock in force
    timeout,        \* does walletLocker watch it?
    locker,         \* where walletLocker is
    creator,        \* where txCreator is
    serving,        \* the caller txCreator works for
    request,        \* the request a caller waits to have served
    quit,           \* is the quit channel closed?
    connected,      \* is the chain client running?
    reconnect,      \* where rpcClientConnectLoop is
    interrupt       \* where the interrupt handlers are

manager == <<locked, hashed, memPrivate, memPublic, dbPrivate, dbPublic>>
time    == <<timer, timeout>>
threads == <<locker, creator, serving>>
daemon  == <<quit, connected, reconnect, interrupt>>
vars    == <<manager, time, threads, request, daemon>>

Init ==
    /\ locked = TRUE
    /\ hashed = None
    /\ memPrivate \in Passphrases /\ dbPrivate = memPrivate
    /\ memPublic \in Passphrases /\ dbPublic = memPublic
    /\ timer = "none" /\ timeout = FALSE
    /\ locker = "select" /\ creator = "select" /\ serving = None
    /\ request = [c \in Callers |-> None]
    /\ quit = FALSE /\ connected = TRUE
    /\ reconnect = "wait" /\ interrupt = "off"

-----------------------------------------------------------------------------
(* The address manager *)

ManagerLock == locked' = TRUE /\ hashed' = None

\* Unlocking with passphrase p; any failure leaves the manager locked.
ManagerUnlock(p) ==
    LET known == IF locked THEN memPrivate ELSE hashed
    IN  IF p = known THEN locked' = FALSE /\ hashed' = p ELSE ManagerLock

\* A mutated form of ChangePrivate: the hash of the old passphrase stays.
ChangePrivateNotHash(old, new) ==
    IF old = memPrivate
    THEN memPrivate' = new /\ dbPrivate' = new /\ UNCHANGED hashed
    ELSE UNCHANGED <<memPrivate, dbPrivate, hashed>>

\* ChangePassphrase: the database first, then memory.
ChangePrivate(old, new) ==
    IF old = memPrivate
    THEN /\ memPrivate' = new
         /\ dbPrivate' = new
         /\ hashed' = IF locked THEN None ELSE new
    ELSE UNCHANGED <<memPrivate, dbPrivate, hashed>>

ChangePublic(old, new) ==
    IF old = memPublic
    THEN memPublic' = new /\ dbPublic' = new
    ELSE UNCHANGED <<memPublic, dbPublic>>

\* A mutated form of ChangeBoth: the private passphrase comes first.
ChangeBothPrivateFirst(r) ==
    IF r.privateOld = memPrivate
    THEN /\ memPrivate' = r.privateNew
         /\ hashed' = IF locked THEN None ELSE r.privateNew
         /\ ChangePublic(r.publicOld, r.publicNew)
         /\ dbPrivate' = IF r.publicOld = memPublic THEN r.privateNew ELSE dbPrivate
    ELSE UNCHANGED <<memPrivate, dbPrivate, hashed, memPublic, dbPublic>>

\* Both in one database transaction, which is undone when the second fails;
\* what the first changed in memory is not.
ChangeBoth(r) ==
    IF r.publicOld = memPublic
    THEN /\ memPublic' = r.publicNew
         /\ ChangePrivate(r.privateOld, r.privateNew)
         /\ dbPublic' = IF r.privateOld = memPrivate THEN r.publicNew ELSE dbPublic
    ELSE UNCHANGED <<memPrivate, dbPrivate, hashed, memPublic, dbPublic>>

-----------------------------------------------------------------------------
(* Callers *)

\* The RPC server takes requests until its own quit channel is closed.
ServerUp == interrupt \in {"off", "stop", "close"}

Call(c, r) ==
    /\ ServerUp
    /\ request[c] = None
    /\ Disconnects = "idle" /\ r.kind = "createTx" => connected
    /\ request' = [request EXCEPT ![c] = r]
    /\ UNCHANGED <<manager, time, threads, daemon>>

\* Caller c is blocked sending a request of this kind.
Sends(c, kind) == request[c].kind = kind /\ serving # c
Answer(c) == request' = [request EXCEPT ![c] = None]

-----------------------------------------------------------------------------
(* walletLocker: one action per case of its select statement *)

\* A mutated form of Watches: the timer is taken over only from a wallet that
\* was locked.
WatchesIfLocked(r) == r.limited /\ locked

Watches(r) == r.limited
NewTimer(r) == IF r.limited THEN "armed" ELSE "none"

ServeUnlock(c) ==
    LET r == request[c] IN
    /\ locker = "select"
    /\ Sends(c, "unlock")
    /\ ManagerUnlock(r.pass)
    /\ IF locked' THEN UNCHANGED time
       ELSE timer' = NewTimer(r) /\ timeout' = Watches(r)
    /\ Answer(c)
    /\ UNCHANGED <<memPrivate, memPublic, dbPrivate, dbPublic, threads, daemon>>

ServeChange(c) ==
    LET r == request[c] IN
    /\ locker = "select"
    /\ Sends(c, "change")
    /\ IF r.private
       THEN ChangePrivate(r.old, r.new) /\ UNCHANGED <<memPublic, dbPublic>>
       ELSE ChangePublic(r.old, r.new) /\ UNCHANGED <<memPrivate, dbPrivate, hashed>>
    /\ Answer(c)
    /\ UNCHANGED <<locked, time, threads, daemon>>

ServeChanges(c) ==
    /\ locker = "select"
    /\ Sends(c, "changes")
    /\ ChangeBoth(request[c])
    /\ Answer(c)
    /\ UNCHANGED <<locked, time, threads, daemon>>

\* The case that sends the lock state.
ServeLocked(c) ==
    /\ locker = "select"
    /\ Sends(c, "locked")
    /\ Answer(c)
    /\ UNCHANGED <<manager, time, threads, daemon>>

\* Falling through the select statement: the wallet is locked.
LockNow ==
    /\ ManagerLock
    /\ timer' = "none"
    /\ timeout' = FALSE
    /\ UNCHANGED <<memPrivate, memPublic, dbPrivate, dbPublic>>

ServeLock(c) ==
    /\ locker = "select"
    /\ Sends(c, "lock")
    /\ LockNow
    /\ Answer(c)
    /\ UNCHANGED <<threads, daemon>>

TimerFired == timeout /\ timer = "expired"

LockTimeout ==
    /\ locker = "select"
    /\ TimerFired
    /\ LockNow
    /\ UNCHANGED <<threads, request, daemon>>

\* A mutated form of HoldUnlock: walletLocker goes on without waiting.
HoldUnlockNoWait ==
    /\ locker = "select"
    /\ creator = "hold"
    /\ creator' = IF locked THEN "answer" ELSE "create"
    /\ UNCHANGED <<locker, manager, time, serving, request, daemon>>

\* The hold: walletLocker waits for txCreator until it releases the wallet,
\* or closes its channel if the wallet is locked.
HoldUnlock ==
    /\ locker = "select"
    /\ creator = "hold"
    /\ IF locked
       THEN creator' = "answer" /\ UNCHANGED locker
       ELSE creator' = "create" /\ locker' = "held"
    /\ UNCHANGED <<manager, time, serving, request, daemon>>

\* A mutated form of Release: the wallet is locked whatever the timer says.
ReleaseLocks ==
    /\ creator = "create"
    /\ locker = "held"
    /\ creator' = "answer"
    /\ locker' = "select"
    /\ LockNow
    /\ UNCHANGED <<serving, request, daemon>>

\* Once released, the wallet is locked at once if the timer has fired.
Release ==
    /\ creator = "create"
    /\ locker = "held"
    /\ creator' = "answer"
    /\ locker' = "select"
    /\ IF TimerFired THEN LockNow ELSE UNCHANGED <<manager, time>>
    /\ UNCHANGED <<serving, request, daemon>>

LockerQuit ==
    /\ locker = "select"
    /\ quit
    /\ locker' = "done"
    /\ UNCHANGED <<manager, time, creator, serving, request, daemon>>

\* A timer fires some time after it was armed.
Tick ==
    /\ timer = "armed"
    /\ timer' = "expired"
    /\ UNCHANGED <<manager, timeout, threads, request, daemon>>

-----------------------------------------------------------------------------
(* txCreator *)

TakeCreate(c) ==
    /\ creator = "select"
    /\ Sends(c, "createTx")
    /\ creator' = "hold"
    /\ serving' = c
    /\ UNCHANGED <<manager, time, locker, request, daemon>>

\* A mutated form of AnswerCreate: only a request that went well is answered.
AnswerCreateUnlocked ==
    /\ creator = "answer"
    /\ IF locked THEN UNCHANGED <<request, serving>>
       ELSE Answer(serving) /\ serving' = None
    /\ creator' = "select"
    /\ UNCHANGED <<manager, time, locker, daemon>>

AnswerCreate ==
    /\ creator = "answer"
    /\ Answer(serving)
    /\ creator' = "select"
    /\ serving' = None
    /\ UNCHANGED <<manager, time, locker, daemon>>

CreatorQuit ==
    /\ creator = "select"
    /\ quit
    /\ creator' = "done"
    /\ UNCHANGED <<manager, time, locker, serving, request, daemon>>

-----------------------------------------------------------------------------
(* Stopping the wallet.  Wallet.Stop looks at the quit channel first and   *)
(* closes it next, without a lock; closing a closed channel is a panic.    *)

\* A mutated form of GoroutinesDone: only one goroutine is waited for.
LockerDone == locker = "done"

GoroutinesDone == locker = "done" /\ creator = "done"

Disconnect ==
    /\ Disconnects # "never"
    /\ Disconnects = "idle" => \A c \in Callers : request[c].kind # "createTx"
    /\ connected
    /\ connected' = FALSE
    /\ UNCHANGED <<manager, time, threads, request, quit, reconnect, interrupt>>

\* The chain client has ended.  A wallet that shuts down is left alone.
ConnectionLost ==
    /\ reconnect = "wait"
    /\ ~connected
    /\ reconnect' = IF quit THEN "gone" ELSE "stop"
    /\ UNCHANGED <<manager, time, threads, request, quit, connected, interrupt>>

ReconnectStop ==
    /\ reconnect = "stop"
    /\ reconnect' = IF quit THEN "join" ELSE "close"
    /\ UNCHANGED <<manager, time, threads, request, quit, connected, interrupt>>

\* Whoever was about to close the channel as well will panic.
CloseQuit == quit' = TRUE /\ connected' = FALSE
Panics(pc) == IF pc = "close" THEN "panic" ELSE pc

ReconnectClose ==
    /\ reconnect = "close"
    /\ CloseQuit
    /\ reconnect' = "join"
    /\ interrupt' = Panics(interrupt)
    /\ UNCHANGED <<manager, time, threads, request>>

\* WaitForShutdown, Start and the connection to the chain server: the two
\* goroutines are new ones, which know nothing of a timer.
Restart ==
    /\ reconnect = "join"
    /\ GoroutinesDone
    /\ quit' = FALSE
    /\ locker' = "select" /\ creator' = "select"
    /\ timer' = "none" /\ timeout' = FALSE
    /\ connected' = TRUE
    /\ reconnect' = "wait"
    /\ UNCHANGED <<manager, serving, request, interrupt>>

Interrupt ==
    /\ MayInterrupt
    /\ interrupt = "off"
    /\ interrupt' = "stop"
    /\ UNCHANGED <<manager, time, threads, request, quit, connected, reconnect>>

\* The server stops the wallet first, then itself.
InterruptStop ==
    /\ interrupt = "stop"
    /\ interrupt' = IF quit THEN "join" ELSE "close"
    /\ UNCHANGED <<manager, time, threads, request, quit, connected, reconnect>>

InterruptClose ==
    /\ interrupt = "close"
    /\ CloseQuit
    /\ interrupt' = "join"
    /\ reconnect' = Panics(reconnect)
    /\ UNCHANGED <<manager, time, threads, request>>

InterruptJoin ==
    /\ interrupt = "join"
    /\ GoroutinesDone
    /\ interrupt' = "drain"
    /\ UNCHANGED <<manager, time, threads, request, quit, connected, reconnect>>

\* The server waits for the requests it has taken; then UnloadWallet stops
\* the wallet again, should it run, and closes the database.
InterruptDrain ==
    /\ interrupt = "drain"
    /\ \A c \in Callers : request[c] = None
    /\ interrupt' = "unload"
    /\ CloseQuit
    /\ reconnect' = Panics(reconnect)
    /\ UNCHANGED <<manager, time, threads, request>>

InterruptUnload ==
    /\ interrupt = "unload"
    /\ GoroutinesDone
    /\ interrupt' = "down"
    /\ UNCHANGED <<manager, time, threads, request, quit, connected, reconnect>>

-----------------------------------------------------------------------------
Serve(c) ==
    ServeUnlock(c) \/ ServeChange(c) \/ ServeChanges(c) \/ ServeLocked(c)
        \/ ServeLock(c)
Locker == LockTimeout \/ HoldUnlock \/ LockerQuit
Creator == Release \/ AnswerCreate
Reconnect == ConnectionLost \/ ReconnectStop \/ ReconnectClose \/ Restart
Shutdown ==
    InterruptStop \/ InterruptClose \/ InterruptJoin \/ InterruptDrain
        \/ InterruptUnload

Next ==
    \/ \E c \in Callers : (\E r \in Requests : Call(c, r)) \/ Serve(c) \/ TakeCreate(c)
    \/ Locker \/ Creator \/ CreatorQuit \/ Tick
    \/ Disconnect \/ Reconnect
    \/ Interrupt \/ Shutdown

\* A select statement chooses among the cases that are ready at random, and a
\* channel serves those who wait in turn: a case that is ready again and again
\* is chosen.  A goroutine that can go on does, and a timer fires.
Fairness ==
    /\ \A c \in Callers : SF_vars(Serve(c)) /\ SF_vars(TakeCreate(c))
    /\ SF_vars(LockTimeout) /\ SF_vars(HoldUnlock) /\ SF_vars(LockerQuit)
    /\ SF_vars(CreatorQuit)
    /\ WF_vars(Creator) /\ WF_vars(Tick)
    /\ WF_vars(Reconnect) /\ WF_vars(Shutdown)

Safety == Init /\ [][Next]_vars
Spec == Safety /\ Fairness

-----------------------------------------------------------------------------
(* Properties *)

\* The goroutines, their places and what they share have their types.
TypeOK ==
    /\ locked \in BOOLEAN
    /\ hashed \in Passphrases \cup {None}
    /\ {memPrivate, memPublic, dbPrivate, dbPublic} \subseteq Passphrases
    /\ timer \in {"none", "armed", "expired"} /\ timeout \in BOOLEAN
    /\ locker \in {"select", "held", "done"}
    /\ creator \in {"select", "hold", "create", "answer", "done"}
    /\ serving \in Callers \cup {None}
    /\ request \in [Callers -> Requests \cup {None}]
    /\ quit \in BOOLEAN /\ connected \in BOOLEAN
    /\ reconnect \in {"wait", "stop", "close", "join", "gone", "panic"}
    /\ interrupt \in {"off", "stop", "close", "join", "drain", "unload", "down",
                      "panic"}

\* While txCreator creates a transaction the wallet stays unlocked: neither a
\* lock request nor a timer nor a failed unlock locks it (holdUnlock).
HeldStaysUnlocked == creator = "create" => ~locked

\* An unlock request leaves the wallet unlocked if and only if its passphrase
\* is the one in force, also after passphrase changes, and whether or not it
\* was unlocked before (Manager.Unlock compares a hash then, and derives a key
\* otherwise).
UnlockByPassphrase ==
    [][\A c \in Callers :
          Sends(c, "unlock") /\ request'[c] = None
              => (locked' <=> request[c].pass # memPrivate)]_vars

\* Nothing but a timer, a lock request or a wrong passphrase locks the wallet:
\* not a release, nor a passphrase change.
LocksForAReason ==
    [][~locked /\ locked' =>
          \/ TimerFired
          \/ \E c \in Callers :
                /\ request'[c] = None
                /\ \/ Sends(c, "lock")
                   \/ Sends(c, "unlock") /\ request[c].pass # memPrivate]_vars

\* The private passphrase in memory is the one in the database, also after a
\* change of both passphrases of which the second was refused for a wrong one:
\* otherwise the wallet would unlock with one passphrase now and with another
\* once started again.  (The commit succeeds here; KeyStore has one that fails.)
PrivateMatchesDb == memPrivate = dbPrivate

\* The database is closed only when no goroutine and no request would use it
\* any more (the order of the interrupt handlers).
ClosedQuietly ==
    interrupt = "down" =>
        /\ locker = "done" /\ creator = "done"
        /\ \A c \in Callers : request[c] = None

\* Every request is served: a sender on an unbuffered channel does not wait
\* for ever, whatever the other callers and the timer do.
Served == \A c \in Callers : (request[c] # None) ~> (request[c] = None)

\* "Unlock unlocks the wallet's address manager and relocks it after timeout
\* has expired": an expired timer locks the wallet unless another unlock
\* replaces it, or the wallet is stopped first, which forgets the timer.
Relocks ==
    (timer = "expired" /\ ~locked) ~> (locked \/ timer # "expired" \/ quit)
=============================================================================
