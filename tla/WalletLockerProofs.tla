------------------------- MODULE WalletLockerProofs -------------------------
(***************************************************************************)
(* What is proved of locking and unlocking, for any number of callers, any *)
(* passphrases and any kinds of request, with or without reconnections and *)
(* interrupts.                                                             *)
(***************************************************************************)
EXTENDS WalletLocker, TLAPS

\* A request has the fields of its kind.
LEMMA RequestTypes ==
    ASSUME NEW r \in Requests \cup {None}
    PROVE  /\ r.kind = "unlock" => r.pass \in Passphrases /\ r.limited \in BOOLEAN
           /\ r.kind = "change" => /\ r.private \in BOOLEAN
                                   /\ r.old \in Passphrases
                                   /\ r.new \in Passphrases
           /\ r.kind = "changes" => /\ r.publicNew \in Passphrases
                                    /\ r.privateOld \in Passphrases
                                    /\ r.privateNew \in Passphrases
  BY DEF Requests, None

\* Changing the private passphrase keeps the types.
LEMMA ChangePrivateType ==
    ASSUME TypeOK, NEW old \in Passphrases, NEW new \in Passphrases,
           ChangePrivate(old, new)
    PROVE  /\ memPrivate' \in Passphrases
           /\ dbPrivate' \in Passphrases
           /\ hashed' \in Passphrases \cup {None}
  BY DEF TypeOK, ChangePrivate

\* Serving a request, or taking it, keeps the types.
LEMMA ServeType ==
    ASSUME TypeOK, NEW c \in Callers, Serve(c)
    PROVE  TypeOK'
  <1> DEFINE r == request[c]
  <1>1. r \in Requests \cup {None}
    BY DEF TypeOK
  <1>2. Answer(c) => request' \in [Callers -> Requests \cup {None}]
    BY DEF TypeOK, Answer
  <1>3. CASE ServeUnlock(c)
    <2>1. r.pass \in Passphrases /\ r.limited \in BOOLEAN
      BY <1>1, <1>3, RequestTypes DEF ServeUnlock, Sends
    <2>2. locked' \in BOOLEAN /\ hashed' \in Passphrases \cup {None}
      BY <1>3, <2>1 DEF ServeUnlock, ManagerUnlock, ManagerLock, TypeOK
    <2>3. timer' \in {"none", "armed", "expired"} /\ timeout' \in BOOLEAN
      BY <1>3, <2>1 DEF ServeUnlock, NewTimer, Watches, TypeOK, time
    <2> QED
      BY <1>2, <1>3, <2>2, <2>3 DEF ServeUnlock, TypeOK, threads, daemon
  <1>4. CASE ServeChange(c)
    <2>1. r.private \in BOOLEAN /\ r.old \in Passphrases /\ r.new \in Passphrases
      BY <1>1, <1>4, RequestTypes DEF ServeChange, Sends
    <2>2. CASE r.private
      BY <1>2, <1>4, <2>1, <2>2, ChangePrivateType
      DEF ServeChange, TypeOK, time, threads, daemon
    <2>3. CASE ~r.private
      BY <1>2, <1>4, <2>1, <2>3
      DEF ServeChange, ChangePublic, TypeOK, time, threads, daemon
    <2> QED BY <2>2, <2>3
  <1>5. CASE ServeChanges(c)
    <2>1. /\ r.publicNew \in Passphrases
          /\ r.privateOld \in Passphrases
          /\ r.privateNew \in Passphrases
      BY <1>1, <1>5, RequestTypes DEF ServeChanges, Sends
    <2>2. ChangeBoth(r)
      BY <1>5 DEF ServeChanges
    <2>3. CASE r.publicOld = memPublic
      <3>1. /\ memPublic' = r.publicNew
            /\ ChangePrivate(r.privateOld, r.privateNew)
            /\ dbPublic' \in {r.publicNew, dbPublic}
        BY <2>2, <2>3 DEF ChangeBoth
      <3>2. /\ memPrivate' \in Passphrases
            /\ dbPrivate' \in Passphrases
            /\ hashed' \in Passphrases \cup {None}
        BY <2>1, <3>1, ChangePrivateType
      <3> QED
        BY <1>2, <1>5, <2>1, <3>1, <3>2
        DEF ServeChanges, TypeOK, time, threads, daemon
    <2>4. CASE r.publicOld # memPublic
      BY <1>2, <1>5, <2>2, <2>4
      DEF ServeChanges, ChangeBoth, TypeOK, time, threads, daemon
    <2> QED BY <2>3, <2>4
  <1>6. CASE ServeLocked(c)
    BY <1>2, <1>6 DEF ServeLocked, TypeOK, manager, time, threads, daemon
  <1>7. CASE ServeLock(c)
    <2>1. /\ locked' = TRUE /\ hashed' = None /\ timer' = "none" /\ timeout' = FALSE
      BY <1>7 DEF ServeLock, LockNow, ManagerLock
    <2>2. request' \in [Callers -> Requests \cup {None}]
      BY <1>2, <1>7 DEF ServeLock
    <2>3. /\ UNCHANGED <<memPrivate, memPublic, dbPrivate, dbPublic>>
          /\ UNCHANGED <<locker, creator, serving>>
      BY <1>7 DEF ServeLock, LockNow, threads
    <2>4. UNCHANGED daemon
      BY <1>7 DEF ServeLock
    <2>5. /\ quit' \in BOOLEAN /\ connected' \in BOOLEAN
          /\ reconnect' \in {"wait", "stop", "close", "join", "gone", "panic"}
          /\ interrupt' \in {"off", "stop", "close", "join", "drain", "unload",
                             "down", "panic"}
      BY <2>4 DEF TypeOK, daemon
    <2>6. /\ locker' \in {"select", "held", "done"}
          /\ creator' \in {"select", "hold", "create", "answer", "done"}
          /\ serving' \in Callers \cup {None}
      BY <2>3 DEF TypeOK
    <2> QED
      BY <2>1, <2>2, <2>3, <2>5, <2>6 DEF TypeOK
  <1> QED BY <1>3, <1>4, <1>5, <1>6, <1>7 DEF Serve

\* The steps of the two goroutines keep the types.
LEMMA GoroutineType ==
    ASSUME TypeOK, Locker \/ Creator \/ CreatorQuit \/ Tick
    PROVE  TypeOK'
  <1>1. CASE LockTimeout
    <2>1. /\ locked' \in BOOLEAN /\ hashed' \in Passphrases \cup {None}
          /\ timer' \in {"none", "armed", "expired"} /\ timeout' \in BOOLEAN
      BY <1>1 DEF LockTimeout, LockNow, ManagerLock, TypeOK
    <2>2. UNCHANGED <<memPrivate, memPublic, dbPrivate, dbPublic, threads, request, daemon>>
      BY <1>1 DEF LockTimeout, LockNow, ManagerLock
    <2> QED
      BY <2>1, <2>2 DEF TypeOK, threads, daemon
  <1>2. CASE HoldUnlock
    BY <1>2 DEF HoldUnlock, TypeOK, manager, time, daemon
  <1>3. CASE LockerQuit \/ CreatorQuit
    BY <1>3 DEF LockerQuit, CreatorQuit, TypeOK, manager, time, daemon
  <1>4. CASE Release
    <2>1. /\ creator' = "answer" /\ locker' = "select"
          /\ UNCHANGED <<serving, request, daemon>>
      BY <1>4 DEF Release
    <2>2. CASE LockNow
      BY <2>1, <2>2 DEF LockNow, ManagerLock, TypeOK, daemon
    <2>3. CASE UNCHANGED <<manager, time>>
      BY <2>1, <2>3 DEF TypeOK, manager, time, daemon
    <2> QED
      BY <1>4, <2>2, <2>3 DEF Release
  <1>5. CASE AnswerCreate
    <2>1. request' \in [Callers -> Requests \cup {None}]
      BY <1>5 DEF AnswerCreate, Answer, TypeOK
    <2> QED
      BY <1>5, <2>1 DEF AnswerCreate, TypeOK, manager, time, daemon
  <1>6. CASE Tick
    BY <1>6 DEF Tick, TypeOK, manager, threads, daemon
  <1> QED
    BY <1>1, <1>2, <1>3, <1>4, <1>5, <1>6 DEF Locker, Creator

\* The steps of the daemon keep the types.
LEMMA DaemonType ==
    ASSUME TypeOK, Disconnect \/ Reconnect \/ Interrupt \/ Shutdown
    PROVE  TypeOK'
  <1>1. CASE Disconnect
    <2>1. connected' \in BOOLEAN
      BY <1>1 DEF Disconnect
    <2>2. UNCHANGED <<manager, time, threads, request, quit, reconnect, interrupt>>
      BY <1>1 DEF Disconnect
    <2> QED
      BY <2>1, <2>2 DEF TypeOK, manager, time, threads
  <1>2. CASE Interrupt
    BY <1>2 DEF Interrupt, TypeOK, manager, time, threads
  <1>3. CASE ConnectionLost \/ ReconnectStop
    BY <1>3 DEF ConnectionLost, ReconnectStop, TypeOK, manager, time, threads
  <1>4. CASE ReconnectClose \/ InterruptClose \/ InterruptDrain
    <2>1. /\ quit' = TRUE /\ connected' = FALSE
          /\ reconnect' \in {reconnect, "join", "panic"}
          /\ interrupt' \in {interrupt, "join", "unload", "panic"}
      BY <1>4 DEF ReconnectClose, InterruptClose, InterruptDrain, CloseQuit, Panics
    <2>2. UNCHANGED <<manager, time, threads, request>>
      BY <1>4 DEF ReconnectClose, InterruptClose, InterruptDrain
    <2>3. /\ reconnect' \in {"wait", "stop", "close", "join", "gone", "panic"}
          /\ interrupt' \in {"off", "stop", "close", "join", "drain", "unload",
                             "down", "panic"}
      BY <2>1 DEF TypeOK
    <2> QED
      BY <2>1, <2>2, <2>3 DEF TypeOK, manager, time, threads
  <1>5. CASE Restart
    BY <1>5 DEF Restart, TypeOK, manager
  <1>6. CASE InterruptStop \/ InterruptJoin \/ InterruptUnload
    <2>1. /\ interrupt' \in {"close", "join", "drain", "down"}
          /\ UNCHANGED <<manager, time, threads, request, quit, connected, reconnect>>
      BY <1>6 DEF InterruptStop, InterruptJoin, InterruptUnload
    <2> QED
      BY <2>1 DEF TypeOK, manager, time, threads
  <1> QED
    BY <1>1, <1>2, <1>3, <1>4, <1>5, <1>6 DEF Reconnect, Shutdown

\* Every variable of the locker, the manager and the daemon keeps its type.
THEOREM LockerTypeCorrect == Spec => []TypeOK
  <1>1. Init => TypeOK
    BY DEF Init, TypeOK, None
  <1>2. TypeOK /\ [Next]_vars => TypeOK'
    <2> SUFFICES ASSUME TypeOK, [Next]_vars PROVE TypeOK'
      OBVIOUS
    <2>1. CASE \E c \in Callers : \E r \in Requests : Call(c, r)
      BY <2>1 DEF Call, TypeOK, manager, time, threads, daemon
    <2>2. CASE \E c \in Callers : Serve(c)
      BY <2>2, ServeType
    <2>3. CASE \E c \in Callers : TakeCreate(c)
      BY <2>3 DEF TakeCreate, TypeOK, manager, time, daemon
    <2>4. CASE Locker \/ Creator \/ CreatorQuit \/ Tick
      BY <2>4, GoroutineType
    <2>5. CASE Disconnect \/ Reconnect \/ Interrupt \/ Shutdown
      BY <2>5, DaemonType
    <2>6. CASE UNCHANGED vars
      BY <2>6 DEF vars, TypeOK, manager, time, threads, daemon
    <2> QED
      BY <2>1, <2>2, <2>3, <2>4, <2>5, <2>6 DEF Next
  <1> QED
    BY <1>1, <1>2, PTL DEF Spec, Safety

-----------------------------------------------------------------------------
(* Holding the wallet unlocked *)

\* txCreator creates a transaction exactly while walletLocker waits for it, and
\* it waits with an unlocked wallet only.
HeldInv ==
    /\ creator = "create" <=> locker = "held"
    /\ locker = "held" => ~locked

\* Serving a request is a turn of walletLocker's loop, which waits for nobody.
LEMMA ServeIsATurn ==
    ASSUME NEW c \in Callers, Serve(c)
    PROVE  locker = "select" /\ UNCHANGED <<locker, creator, serving>>
  BY DEF Serve, ServeUnlock, ServeChange, ServeChanges, ServeLocked, ServeLock,
         threads

\* The daemon changes the two goroutines by a restart, and the manager never.
LEMMA DaemonKeepsManager ==
    ASSUME Disconnect \/ Reconnect \/ Interrupt \/ Shutdown
    PROVE  /\ UNCHANGED manager
           /\ \/ UNCHANGED threads
              \/ /\ locker' = "select" /\ creator' = "select"
                 /\ locker = "done" /\ creator = "done"
  BY DEF Disconnect, Interrupt, Reconnect, Shutdown, ConnectionLost, ReconnectStop,
         ReconnectClose, Restart, GoroutinesDone, InterruptStop, InterruptClose,
         InterruptJoin, InterruptDrain, InterruptUnload

\* While a transaction is created the wallet is not locked, whatever the other
\* callers, the timers and the daemon do (holdUnlock).
THEOREM HeldNeverLocked == Spec => []HeldStaysUnlocked
  <1>1. Init => HeldInv
    BY DEF Init, HeldInv
  <1>2. HeldInv /\ [Next]_vars => HeldInv'
    <2> SUFFICES ASSUME HeldInv, [Next]_vars PROVE HeldInv'
      OBVIOUS
    <2>1. CASE \E c \in Callers : \E r \in Requests : Call(c, r)
      BY <2>1 DEF Call, HeldInv, manager, threads
    <2>2. CASE \E c \in Callers : Serve(c)
      BY <2>2, ServeIsATurn DEF HeldInv
    <2>3. CASE \E c \in Callers : TakeCreate(c)
      BY <2>3 DEF TakeCreate, HeldInv, manager
    <2>4. CASE Locker
      BY <2>4 DEF Locker, LockTimeout, HoldUnlock, LockerQuit, HeldInv, manager,
                  threads
    <2>5. CASE Release
      BY <2>5 DEF Release, HeldInv
    <2>6. CASE AnswerCreate \/ CreatorQuit
      BY <2>6 DEF AnswerCreate, CreatorQuit, HeldInv, manager
    <2>7. CASE Tick
      BY <2>7 DEF Tick, HeldInv, manager, threads
    <2>8. CASE Disconnect \/ Reconnect \/ Interrupt \/ Shutdown
      BY <2>8, DaemonKeepsManager DEF HeldInv, manager, threads
    <2>9. CASE UNCHANGED vars
      BY <2>9 DEF vars, HeldInv, manager, threads
    <2> QED
      BY <2>1, <2>2, <2>3, <2>4, <2>5, <2>6, <2>7, <2>8, <2>9 DEF Next, Creator
  <1>3. HeldInv => HeldStaysUnlocked
    BY DEF HeldInv, HeldStaysUnlocked
  <1> QED
    BY <1>1, <1>2, <1>3, PTL DEF Spec, Safety

-----------------------------------------------------------------------------
(* Which passphrase unlocks *)

\* The hash an unlocked manager compares with is that of the passphrase in
\* force, also after the passphrase was changed.
HashInv == ~locked => hashed = memPrivate

\* A step that serves the unlock request of c is the one of walletLocker, and
\* no other step ends it.
LEMMA OnlyUnlockEnds ==
    ASSUME TypeOK, Next, NEW c \in Callers, Sends(c, "unlock"), request'[c] = None
    PROVE  ServeUnlock(c)
  <1> request[c].kind = "unlock" /\ serving # c /\ request[c] # None
    BY DEF Sends, None
  <1> request \in [Callers -> Requests \cup {None}]
    BY DEF TypeOK
  <1>1. ASSUME NEW d \in Callers, NEW r \in Requests, Call(d, r) PROVE FALSE
    BY <1>1 DEF Call
  <1>2. ASSUME NEW d \in Callers, Serve(d) PROVE d = c /\ ServeUnlock(c)
    <2>1. d = c
      BY <1>2 DEF Serve, ServeUnlock, ServeChange, ServeChanges, ServeLocked,
                  ServeLock, Answer
    <2> QED
      BY <1>2, <2>1 DEF Serve, ServeChange, ServeChanges, ServeLocked, ServeLock,
                        Sends
  <1>3. AnswerCreate => FALSE
    BY DEF AnswerCreate, Answer
  <1>4. UNCHANGED request => FALSE
    OBVIOUS
  <1>5. \/ \E d \in Callers : TakeCreate(d)
        \/ Locker \/ Release \/ CreatorQuit \/ Tick
        \/ Disconnect \/ Reconnect \/ Interrupt \/ Shutdown
        => UNCHANGED request
    BY DEF TakeCreate, Locker, LockTimeout, HoldUnlock, LockerQuit, Release,
           CreatorQuit, Tick, Disconnect, Reconnect, ConnectionLost, ReconnectStop,
           ReconnectClose, Restart, Interrupt, Shutdown, InterruptStop,
           InterruptClose, InterruptJoin, InterruptDrain, InterruptUnload
  <1> QED
    BY <1>1, <1>2, <1>3, <1>4, <1>5 DEF Next, Creator

\* Every step keeps the hash that of the passphrase in force.
LEMMA HashStep ==
    ASSUME HashInv, [Next]_vars
    PROVE  HashInv'
  <1>1. CASE \E c \in Callers : \E r \in Requests : Call(c, r)
    BY <1>1 DEF Call, HashInv, manager
  <1>2. CASE \E c \in Callers : Serve(c)
    <2> PICK c \in Callers : Serve(c)
      BY <1>2
    <2>1. CASE ServeUnlock(c)
      BY <2>1 DEF ServeUnlock, ManagerUnlock, ManagerLock, HashInv
    <2>2. CASE ServeChange(c)
      BY <2>2 DEF ServeChange, ChangePrivate, ChangePublic, HashInv
    <2>3. CASE ServeChanges(c)
      BY <2>3 DEF ServeChanges, ChangeBoth, ChangePrivate, HashInv
    <2>4. CASE ServeLocked(c)
      BY <2>4 DEF ServeLocked, HashInv, manager
    <2>5. CASE ServeLock(c)
      BY <2>5 DEF ServeLock, LockNow, ManagerLock, HashInv
    <2> QED
      BY <2>1, <2>2, <2>3, <2>4, <2>5 DEF Serve
  <1>3. CASE \E c \in Callers : TakeCreate(c)
    BY <1>3 DEF TakeCreate, HashInv, manager
  <1>4. CASE Locker \/ Release
    BY <1>4 DEF Locker, LockTimeout, HoldUnlock, LockerQuit, Release, LockNow,
                ManagerLock, HashInv, manager
  <1>5. CASE AnswerCreate \/ CreatorQuit \/ Tick
    BY <1>5 DEF AnswerCreate, CreatorQuit, Tick, HashInv, manager
  <1>6. CASE Disconnect \/ Reconnect \/ Interrupt \/ Shutdown
    BY <1>6, DaemonKeepsManager DEF HashInv, manager
  <1>7. CASE UNCHANGED vars
    BY <1>7 DEF vars, HashInv, manager
  <1> QED
    BY <1>1, <1>2, <1>3, <1>4, <1>5, <1>6, <1>7 DEF Next, Creator

\* Whether an unlock request succeeds is decided by the passphrase in force
\* alone, by the hash of an unlocked wallet as by the key of a locked one.
THEOREM UnlockDecides == Spec => UnlockByPassphrase
  <1>1. Init => HashInv
    BY DEF Init, HashInv
  <1>2. HashInv /\ [Next]_vars => HashInv'
    BY HashStep
  <1>3. TypeOK /\ HashInv /\ [Next]_vars
        => [\A c \in Callers :
               Sends(c, "unlock") /\ request'[c] = None
                   => (locked' <=> request[c].pass # memPrivate)]_vars
    <2> SUFFICES ASSUME TypeOK, HashInv, Next,
                        NEW c \in Callers, Sends(c, "unlock"), request'[c] = None
                 PROVE  locked' <=> request[c].pass # memPrivate
      OBVIOUS
    <2>1. ServeUnlock(c)
      BY OnlyUnlockEnds
    <2> QED
      BY <2>1 DEF ServeUnlock, ManagerUnlock, ManagerLock, HashInv
  <1> QED
    BY <1>1, <1>2, <1>3, LockerTypeCorrect, PTL DEF Spec, Safety, UnlockByPassphrase

-----------------------------------------------------------------------------
(* What locks *)

\* Serving a request locks the wallet only if it asks for that, or comes with
\* a wrong passphrase.
LEMMA ServeLocks ==
    ASSUME TypeOK, HashInv, NEW c \in Callers, Serve(c), ~locked, locked'
    PROVE  /\ request'[c] = None
           /\ \/ Sends(c, "lock")
              \/ Sends(c, "unlock") /\ request[c].pass # memPrivate
  <1>1. request'[c] = None
    BY DEF Serve, ServeUnlock, ServeChange, ServeChanges, ServeLocked, ServeLock,
           Answer, TypeOK
  <1>2. CASE ServeUnlock(c)
    BY <1>1, <1>2 DEF ServeUnlock, ManagerUnlock, ManagerLock, HashInv
  <1>3. CASE ServeLock(c)
    BY <1>1, <1>3 DEF ServeLock
  <1>4. CASE ServeChange(c) \/ ServeChanges(c) \/ ServeLocked(c)
    BY <1>4 DEF ServeChange, ServeChanges, ServeLocked, manager
  <1> QED
    BY <1>2, <1>3, <1>4 DEF Serve

\* The wallet is locked by a timer, a lock request or a wrong passphrase, and
\* by nothing else.
THEOREM LockedForAReason == Spec => LocksForAReason
  <1> DEFINE Reason ==
               \/ TimerFired
               \/ \E c \in Callers :
                     /\ request'[c] = None
                     /\ \/ Sends(c, "lock")
                        \/ Sends(c, "unlock") /\ request[c].pass # memPrivate
  <1>1. Init => HashInv
    BY DEF Init, HashInv
  <1>2. HashInv /\ [Next]_vars => HashInv'
    BY HashStep
  <1>3. TypeOK /\ HashInv /\ [Next]_vars => [~locked /\ locked' => Reason]_vars
    <2> SUFFICES ASSUME TypeOK, HashInv, Next, ~locked, locked'
                 PROVE  Reason
      OBVIOUS
    <2>1. CASE \E c \in Callers : Serve(c)
      BY <2>1, ServeLocks
    <2>2. CASE LockTimeout
      BY <2>2 DEF LockTimeout
    <2>3. CASE Release
      BY <2>3 DEF Release, manager
    <2>4. CASE \/ \E c \in Callers : (\E r \in Requests : Call(c, r)) \/ TakeCreate(c)
               \/ HoldUnlock \/ LockerQuit \/ AnswerCreate \/ CreatorQuit \/ Tick
      BY <2>4 DEF Call, TakeCreate, HoldUnlock, LockerQuit, AnswerCreate,
                  CreatorQuit, Tick, manager
    <2>5. CASE Disconnect \/ Reconnect \/ Interrupt \/ Shutdown
      BY <2>5, DaemonKeepsManager DEF manager
    <2> QED
      BY <2>1, <2>2, <2>3, <2>4, <2>5 DEF Next, Locker, Creator
  <1> QED
    BY <1>1, <1>2, <1>3, LockerTypeCorrect, PTL DEF Spec, Safety, LocksForAReason

-----------------------------------------------------------------------------
(* Closing the database *)

\* Without a lost connection the wallet is stopped once and for all: the
\* reconnect loop never starts it again, a connection ends only when quit is
\* closed, and the last stages of the interrupt handlers have what the earlier
\* ones waited for.
CloseInv ==
    /\ reconnect \in {"wait", "gone"}
    /\ ~connected => quit
    /\ interrupt \in {"unload", "down"} => \A c \in Callers : request[c] = None
    /\ interrupt = "down" => GoroutinesDone

\* Once the interrupt handlers are over nothing is left that would use the
\* database, provided that the chain server does not disconnect meanwhile.
THEOREM ClosedAfterUse ==
    ASSUME Disconnects = "never"
    PROVE  Spec => []ClosedQuietly
  <1>1. Init => CloseInv
    BY DEF Init, CloseInv
  <1>2. TypeOK /\ CloseInv /\ [Next]_vars => CloseInv'
    <2> SUFFICES ASSUME TypeOK, CloseInv, [Next]_vars PROVE CloseInv'
      OBVIOUS
    <2>1. CASE \E c \in Callers : \E r \in Requests : Call(c, r)
      BY <2>1 DEF Call, ServerUp, CloseInv, GoroutinesDone, threads, daemon
    <2>2. CASE \E c \in Callers : Serve(c)
      <3> PICK c \in Callers : Serve(c)
        BY <2>2
      <3>1. locker = "select" /\ UNCHANGED daemon /\ Answer(c)
        BY DEF Serve, ServeUnlock, ServeChange, ServeChanges, ServeLocked, ServeLock
      <3> QED
        BY <3>1 DEF Answer, CloseInv, GoroutinesDone, daemon, TypeOK
    <2>3. CASE \E c \in Callers : TakeCreate(c)
      BY <2>3 DEF TakeCreate, CloseInv, GoroutinesDone, daemon
    <2>4. CASE Locker \/ Release \/ CreatorQuit \/ Tick
      BY <2>4 DEF Locker, LockTimeout, HoldUnlock, LockerQuit, Release, CreatorQuit,
                  Tick, CloseInv, GoroutinesDone, threads, daemon
    <2>5. CASE AnswerCreate
      <3>1. \A c \in Callers : request[c] = None => request'[c] = None
        BY <2>5 DEF AnswerCreate, Answer, TypeOK
      <3> QED
        BY <2>5, <3>1 DEF AnswerCreate, CloseInv, GoroutinesDone, daemon
    <2>6. CASE Disconnect \/ Reconnect
      BY <2>6 DEF Disconnect, Reconnect, ConnectionLost, ReconnectStop,
                  ReconnectClose, Restart, CloseInv, GoroutinesDone, threads
    <2>7. CASE Interrupt \/ InterruptStop \/ InterruptJoin
      BY <2>7 DEF Interrupt, InterruptStop, InterruptJoin, CloseInv,
                  GoroutinesDone, threads
    <2>8. CASE InterruptClose \/ InterruptDrain \/ InterruptUnload
      BY <2>8 DEF InterruptClose, InterruptDrain, InterruptUnload, CloseQuit,
                  Panics, CloseInv, GoroutinesDone, threads
    <2>9. CASE UNCHANGED vars
      BY <2>9 DEF vars, CloseInv, GoroutinesDone, threads, daemon
    <2> QED
      BY <2>1, <2>2, <2>3, <2>4, <2>5, <2>6, <2>7, <2>8, <2>9
      DEF Next, Creator, Shutdown
  <1>3. CloseInv => ClosedQuietly
    BY DEF CloseInv, ClosedQuietly, GoroutinesDone
  <1> QED
    BY <1>1, <1>2, <1>3, LockerTypeCorrect, PTL DEF Spec, Safety

-----------------------------------------------------------------------------
(* Memory and database *)

\* The private passphrase in memory and the one in the database are the same
\* after any change, of one passphrase or of both, that is made or is refused
\* for a wrong passphrase.
THEOREM PrivateAgrees == Spec => []PrivateMatchesDb
  <1>1. Init => PrivateMatchesDb
    BY DEF Init, PrivateMatchesDb
  <1>2. PrivateMatchesDb /\ [Next]_vars => PrivateMatchesDb'
    <2> SUFFICES ASSUME PrivateMatchesDb, [Next]_vars PROVE PrivateMatchesDb'
      OBVIOUS
    <2>1. ASSUME NEW c \in Callers, ServeUnlock(c) \/ ServeLock(c) PROVE PrivateMatchesDb'
      BY <2>1 DEF ServeUnlock, ServeLock, LockNow, PrivateMatchesDb
    <2>2. ASSUME NEW c \in Callers, ServeChange(c) PROVE PrivateMatchesDb'
      BY <2>2 DEF ServeChange, ChangePrivate, PrivateMatchesDb
    <2>3. ASSUME NEW c \in Callers, ServeChanges(c) PROVE PrivateMatchesDb'
      BY <2>3 DEF ServeChanges, ChangeBoth, ChangePrivate, PrivateMatchesDb
    <2>4. ASSUME NEW c \in Callers, ServeLocked(c) PROVE PrivateMatchesDb'
      BY <2>4 DEF ServeLocked, PrivateMatchesDb, manager
    <2>5. CASE \E c \in Callers : (\E r \in Requests : Call(c, r)) \/ TakeCreate(c)
      BY <2>5 DEF Call, TakeCreate, PrivateMatchesDb, manager
    <2>6. CASE LockTimeout \/ Release
      BY <2>6 DEF LockTimeout, Release, LockNow, PrivateMatchesDb, manager
    <2>7. CASE HoldUnlock \/ LockerQuit \/ AnswerCreate \/ CreatorQuit \/ Tick
      BY <2>7 DEF HoldUnlock, LockerQuit, AnswerCreate, CreatorQuit, Tick,
                  PrivateMatchesDb, manager
    <2>8. CASE Disconnect \/ Reconnect \/ Interrupt \/ Shutdown
      BY <2>8, DaemonKeepsManager DEF PrivateMatchesDb, manager
    <2>9. CASE UNCHANGED vars
      BY <2>9 DEF vars, PrivateMatchesDb, manager
    <2> QED
      BY <2>1, <2>2, <2>3, <2>4, <2>5, <2>6, <2>7, <2>8, <2>9
      DEF Next, Serve, Locker, Creator
  <1> QED
    BY <1>1, <1>2, PTL DEF Spec, Safety
=============================================================================
