------------------------------- MODULE Loader -------------------------------
(***************************************************************************)
(* Start-up: creating the wallet's database, opening and upgrading it, the *)
(* functions that run once a wallet is loaded, and the loop that connects  *)
(* to the chain server and associates each client with the wallet, in one  *)
(* process after another.                                                  *)
(*                                                                         *)
(* The loader's mutex is held from the opening of the wallet to the end of *)
(* its callbacks.  A database transaction is one step.                     *)
(***************************************************************************)
EXTENDS Migration

CONSTANTS
    Services,       \* the address manager and the transaction manager
    Programs,       \* per program release, the versions each service knows
    MaxVersion,     \* bound on the versions of a service
    MaxClients,     \* bound on the chain clients of one process
    MaxProcesses    \* bound on the processes

ASSUME BoundsAssumption ==
    /\ MaxClients \in Nat \ {0}
    /\ MaxProcesses \in Nat
    /\ MaxVersion \in Nat

\* A release numbers the versions of a service from 0, which needs no migration,
\* and a later one adds to the list.
ASSUME ReleasesAssumption ==
    \A p \in Programs : \A s \in Services : \E n \in 0 .. MaxVersion : p[s] = 1 .. n

None == 0
Clients == 1 .. MaxClients

VARIABLES
    file,       \* the database file: "none", "empty", "bare" of blocks, or "whole"
    services,   \* per service, its version and the migrations it went through
    main,       \* where the process is
    program,    \* the release it runs
    processes,  \* processes so far
    callbacks,  \* clients whose callback waits for the wallet, oldest first
    chosen,     \* a callback under way: the client it found, or None
    loop,       \* where rpcClientConnectLoop is
    client,     \* the client of its present turn
    ended,      \* clients that have ended
    gone,       \* clients whose callback has been emptied
    chain,      \* Wallet.chainClient
    server,     \* the RPC server's chain client
    handler,    \* the client handleChainNotifications serves, or None
    quit        \* is the wallet's quit channel closed?

disk   == <<file, services>>
start  == <<main, program, processes>>
wallet == <<chain, server, handler, quit>>
cycle  == <<loop, client, ended, gone>>
vars   == <<disk, start, callbacks, chosen, cycle, wallet>>

NoProcess == main = "none"
Loaded == main = "loaded"

\* Is Loader.mu free?
MutexFree == main \in {"setup", "loaded"}

\* A file left without the namespaces can be neither opened nor created anew.
HasNamespaces == file \in {"bare", "whole"}

\* What the migration manager of a service tells: the versions the program
\* knows, and the one the database is at.
Versions(s) == program[s]
CurrentVersion(s) == services[s].version

Init ==
    /\ file = "none"
    /\ services = [s \in Services |-> [version |-> 0, applied |-> <<>>]]
    /\ main = "none" /\ program \in Programs /\ processes = 0
    /\ callbacks = <<>> /\ chosen = None
    /\ loop = "off" /\ client = None /\ ended = {} /\ gone = {}
    /\ chain = None /\ server = None /\ handler = None /\ quit = FALSE

-----------------------------------------------------------------------------
(* Processes: creating a wallet is one of its own *)

Exit ==
    /\ main' = "none" /\ UNCHANGED <<program, processes>>
    /\ callbacks' = <<>> /\ chosen' = None
    /\ loop' = "off" /\ client' = None /\ ended' = {} /\ gone' = {}
    /\ chain' = None /\ server' = None /\ handler' = None /\ quit' = FALSE

Begin(p, pc) ==
    /\ NoProcess
    /\ processes < MaxProcesses
    /\ processes' = processes + 1
    /\ program' = p
    /\ main' = pc
    /\ loop' = IF pc = "setup" THEN "connect" ELSE "off"
    /\ UNCHANGED <<disk, callbacks, chosen, client, ended, gone, wallet>>

\* A process may end at any point, killed or interrupted.
Crash ==
    /\ ~NoProcess
    /\ Exit
    /\ UNCHANGED disk

\* CreateNewWallet: the file first; one that exists is refused.
CreateFile ==
    /\ main = "create"
    /\ IF file = "none"
       THEN file' = "empty" /\ main' = "fill"
            /\ UNCHANGED <<program, processes, callbacks, chosen, cycle, wallet>>
       ELSE Exit /\ UNCHANGED file
    /\ UNCHANGED services

\* Then both namespaces in one transaction, at the versions the program knows.
Create ==
    /\ main = "fill"
    /\ file' = "bare"
    /\ services' = [s \in Services |->
                        [version |-> LatestVersion(Versions(s)),
                         applied |-> Sorted(VersionsToApply(0, Versions(s)))]]
    /\ main' = "genesis"
    /\ UNCHANGED <<program, processes, callbacks, chosen, cycle, wallet>>

\* And the genesis block, in another; an error is not looked at.  The process
\* ends with that.
InsertGenesis ==
    /\ main = "genesis"
    /\ file' \in {"bare", "whole"}
    /\ Exit
    /\ UNCHANGED services

\* Opening fails on a file without the namespaces, on a database of a later
\* version, or when a migration does: nothing is committed.
OpenFails ==
    /\ main = "setup"
    /\ Exit
    /\ UNCHANGED disk

Open ==
    /\ main = "setup" /\ HasNamespaces
    /\ \A s \in Services : ~Reverts(CurrentVersion(s), Versions(s))
    /\ services' = [s \in Services |-> Upgraded(services[s], Versions(s))]
    /\ main' = "callbacks"
    /\ UNCHANGED <<file, program, processes, callbacks, chosen, cycle, wallet>>

-----------------------------------------------------------------------------
(* The wallet's side *)

\* SynchronizeRPC: a wallet that stops, or that has a client, ignores this one;
\* the RPC server takes it all the same.
Synchronize(c) ==
    /\ server' = c
    /\ IF quit \/ chain # None THEN UNCHANGED <<chain, handler>>
       ELSE chain' = c /\ handler' = c
    /\ UNCHANGED quit

\* handleChainNotifications ends with the wallet; with its client too, if the
\* client closes its channel, which one that failed at once does not.
HandlerEnds ==
    /\ handler # None
    /\ quit \/ handler \in ended
    /\ handler' = None
    /\ UNCHANGED <<disk, start, callbacks, chosen, cycle, chain, server, quit>>

-----------------------------------------------------------------------------
(* onLoaded: the callbacks in order.  A callback looks for its client, which *)
(* may end before it is associated.                                          *)

Find ==
    /\ main = "callbacks" /\ callbacks # <<>> /\ chosen = None
    /\ IF Head(callbacks) \in gone
       THEN callbacks' = Tail(callbacks) /\ UNCHANGED chosen
       ELSE chosen' = Head(callbacks) /\ UNCHANGED callbacks
    /\ UNCHANGED <<disk, start, cycle, wallet>>

Associate ==
    /\ main = "callbacks" /\ chosen # None
    /\ Synchronize(chosen)
    /\ callbacks' = Tail(callbacks)
    /\ chosen' = None
    /\ UNCHANGED <<disk, start, cycle>>

Finish ==
    /\ main = "callbacks" /\ callbacks = <<>>
    /\ main' = "loaded"
    /\ UNCHANGED <<disk, program, processes, callbacks, chosen, cycle, wallet>>

-----------------------------------------------------------------------------
(* rpcClientConnectLoop *)

Connect ==
    /\ loop = "connect" /\ client < MaxClients
    /\ client' = client + 1
    /\ loop' = "register"
    /\ UNCHANGED <<disk, start, callbacks, chosen, ended, gone, wallet>>

\* A client ends: its first request failed, or it was stopped.
ClientEnds ==
    /\ loop # "off" /\ client # None
    /\ ended' = ended \cup {client}
    /\ UNCHANGED <<disk, start, callbacks, chosen, loop, client, gone, wallet>>

\* RunAfterLoad: at once if there is a wallet.
Register ==
    /\ loop = "register" /\ MutexFree
    /\ IF Loaded THEN loop' = "associate" /\ UNCHANGED callbacks
       ELSE loop' = "wait" /\ callbacks' = Append(callbacks, client)
    /\ UNCHANGED <<disk, start, chosen, client, ended, gone, wallet>>

AssociateNow ==
    /\ loop = "associate"
    /\ Synchronize(client)
    /\ loop' = "wait"
    /\ UNCHANGED <<disk, start, callbacks, chosen, client, ended, gone>>

Forget ==
    /\ loop = "wait" /\ client \in ended
    /\ gone' = gone \cup {client}
    /\ loop' = "look"
    /\ UNCHANGED <<disk, start, callbacks, chosen, client, ended, wallet>>

\* A mutated form of Look: the wallet is looked for without the mutex.
LookUnlocked ==
    /\ loop = "look"
    /\ loop' = IF ~Loaded THEN "connect" ELSE IF quit THEN "off" ELSE "stop"
    /\ UNCHANGED <<disk, start, callbacks, chosen, client, ended, gone, wallet>>

Look ==
    /\ loop = "look" /\ MutexFree
    /\ loop' = IF ~Loaded THEN "connect" ELSE IF quit THEN "off" ELSE "stop"
    /\ UNCHANGED <<disk, start, callbacks, chosen, client, ended, gone, wallet>>

\* A mutated form of Stop: the wallet's client is stopped and kept.
StopKeepsClient ==
    /\ loop = "stop"
    /\ quit' = TRUE
    /\ ended' = ended \cup ({chain} \ {None})
    /\ loop' = "join"
    /\ UNCHANGED <<disk, start, callbacks, chosen, client, gone, chain, server, handler>>

\* Wallet.Stop stops the wallet's client and drops it.
Stop ==
    /\ loop = "stop"
    /\ quit' = TRUE
    /\ ended' = ended \cup ({chain} \ {None})
    /\ chain' = None
    /\ loop' = "join"
    /\ UNCHANGED <<disk, start, callbacks, chosen, client, gone, server, handler>>

\* WaitForShutdown and Start.
Restart ==
    /\ loop = "join" /\ handler = None
    /\ quit' = FALSE
    /\ loop' = "connect"
    /\ UNCHANGED <<disk, start, callbacks, chosen, client, ended, gone, chain, server, handler>>

LoopStep ==
    Connect \/ Register \/ AssociateNow \/ Forget \/ Look \/ Stop \/ Restart
MainStep == Find \/ Associate \/ Finish

Next ==
    \/ \E p \in Programs, pc \in {"create", "setup"} : Begin(p, pc)
    \/ Crash \/ CreateFile \/ Create \/ InsertGenesis \/ OpenFails \/ Open
    \/ MainStep \/ LoopStep \/ ClientEnds \/ HandlerEnds

\* Goroutines that can go on do; no process need end, nor any client.
Spec ==
    /\ Init /\ [][Next]_vars
    /\ WF_vars(MainStep) /\ WF_vars(LoopStep) /\ WF_vars(quit /\ HandlerEnds)

-----------------------------------------------------------------------------
(* Properties *)

\* Whatever releases ran, crashed or failed in whatever order, each service has
\* gone through every migration up to its version once, in order, and no
\* process uses a database of a version its own program does not know.
MigratedOnce ==
    \A s \in Services :
        /\ services[s].applied = [i \in 1 .. services[s].version |-> i]
        /\ main \in {"callbacks", "loaded"} =>
              services[s].version = LatestVersion(program[s])

\* "This prevents the callback from associating a wallet loaded at a later time
\* with a client that has already disconnected": if one ends in the very moment
\* between, the wallet does not stay with it.
NoEndedClientKept ==
    \A c \in Clients :
        (Loaded /\ chain = c /\ c \in ended) ~> (chain # c)

\* A client that does not end becomes that of the wallet, the RPC server and
\* the goroutine that handles its notifications, whenever the wallet was loaded.
ClientServes ==
    \A c \in Clients :
        (Loaded /\ client = c /\ c \notin ended)
            ~> (\/ c \in ended \/ ~Loaded
                \/ chain = c /\ server = c /\ handler = c)
=============================================================================
