----------------------------- MODULE WsClients -----------------------------
(***************************************************************************)
(* The websocket clients of the JSON-RPC server and the manager that tells *)
(* them what happens to transactions (rpc/legacyrpc/rpcwebsocket.go).      *)
(*                                                                         *)
(* The wallet calls the manager from inside its database transactions; the *)
(* manager has a goroutine that queues and one that handles what is        *)
(* queued.  Every client has three goroutines, which read requests, queue  *)
(* notifications and write, one per request being served, and the one that *)
(* accepted the connection, which waits for the three.                     *)
(*                                                                         *)
(* The network is external: a connection delivers messages, fails when it  *)
(* likes, and takes what is written if the peer reads.                     *)
(***************************************************************************)
EXTENDS Integers, Sequences, FiniteSets

CONSTANTS
    Clients,      \* connections made
    MaxClients,   \* MaxWebsocketClients
    MaxReqs,      \* maxConcurrentReqs, of one client
    SendBuffer,   \* websocketSendBufferSize
    MaxNotes,     \* bound on the wallet's notifications
    MaxMessages,  \* bound on the messages of a client
    MayStop       \* whether the server is stopped

ASSUME WsAssumption ==
    /\ MaxClients \in Nat \ {0}
    /\ MaxReqs \in Nat \ {0}
    /\ SendBuffer \in Nat
    /\ MaxNotes \in Nat
    /\ MaxMessages \in [Clients -> Nat]
    /\ MayStop \in BOOLEAN

\* Three kinds of senders may find a client connected and send to it after
\* its outHandler has gone.  The program's 50 and 5 satisfy this.
ASSUME SendBufferAssumption == SendBuffer >= MaxReqs + 2

Notes == 1 .. MaxNotes
Reply == 0     \* any response to a request; a notification is its number

VARIABLES
    \* the manager
    queue,         \* what queueHandler holds
    queueHandler,  \* "run" or "done"
    handler,       \* notificationHandler: "select", "send", "put" or "done"
    current,       \* the notification being sent
    todo,          \* clients it has still to go to
    target,        \* the client found connected last
    clients, txNotifications,
    quit,          \* the manager's quit channel is closed
    notes,         \* notifications so far
    \* each client
    conn,          \* goroutine of the connection
    in, nq, out,   \* inHandler, notificationQueueHandler, outHandler
    authenticated,
    disconnected,  \* set together with closing the client's quit channel
    ntfnChan, sendChan,
    doneChan,      \* ntfnSentChan
    pending, waiting,
    nqMsg, outMsg, \* what nq and out are sending
    serving,       \* requests being served, by stage
    messages,      \* messages read so far
    received,      \* notifications the peer has read
    audience       \* history: who is subscribed when a notification is queued

manager == <<queue, queueHandler, handler, current, todo, target, clients,
             txNotifications, quit, notes, audience>>
client == <<conn, in, nq, out, authenticated, disconnected, ntfnChan, sendChan,
            doneChan, pending, waiting, nqMsg, outMsg, serving, messages, received>>
vars == <<manager, client>>

\* A request being served: its handler runs or subscribes; then SendMessage
\* finds the client connected, or not, and sends.
Stages == {"run", "subscribe", "reply", "push"}

Init ==
    /\ queue = <<>> /\ queueHandler = "run"
    /\ handler = "select" /\ current = Reply /\ todo = {} /\ target = {}
    /\ clients = {} /\ txNotifications = {}
    /\ quit = FALSE
    /\ notes = 0
    /\ audience = [n \in Notes |-> {}]
    /\ conn = [c \in Clients |-> "none"]
    /\ in = [c \in Clients |-> "none"]
    /\ nq = [c \in Clients |-> "none"]
    /\ out = [c \in Clients |-> "none"]
    /\ authenticated \in [Clients -> BOOLEAN]
    /\ disconnected = [c \in Clients |-> FALSE]
    /\ ntfnChan = [c \in Clients |-> <<>>]
    /\ sendChan = [c \in Clients |-> <<>>]
    /\ doneChan = [c \in Clients |-> <<>>]
    /\ pending = [c \in Clients |-> <<>>]
    /\ waiting = [c \in Clients |-> FALSE]
    /\ nqMsg = [c \in Clients |-> Reply]
    /\ outMsg = [c \in Clients |-> Reply]
    /\ serving = [c \in Clients |-> [s \in Stages |-> 0]]
    /\ messages = [c \in Clients |-> 0]
    /\ received = [c \in Clients |-> <<>>]

-----------------------------------------------------------------------------
(* The manager *)

\* A mutated form of Enqueue: the notification is handed on past those queued.
EnqueueSkips(m) ==
    /\ queueHandler = "run"
    /\ queue' = <<m>> \o queue

\* Sending on queueNotification: queueHandler hands it on or appends it.
Enqueue(m) ==
    /\ queueHandler = "run"
    /\ queue' = Append(queue, m)

\* Who is subscribed once the queue has been handled.
Subscribed ==
    {c \in Clients :
        \/ /\ c \in txNotifications
           /\ \A i \in DOMAIN queue : queue[i] # <<"unregister", c>>
        \/ \E i \in DOMAIN queue :
              /\ queue[i] = <<"subscribe", c>>
              /\ \A j \in DOMAIN queue : queue[j] = <<"unregister", c>> => j < i}

\* HandleMinerManagerNotification: the wallet tells of a transaction.
Notify ==
    /\ notes < MaxNotes
    /\ notes' = notes + 1
    /\ \/ /\ Enqueue(<<"note", notes + 1>>)
          /\ audience' = [audience EXCEPT ![notes + 1] = Subscribed]
       \/ quit /\ UNCHANGED <<queue, audience>>
    /\ UNCHANGED <<queueHandler, handler, current, todo, target, clients,
                   txNotifications, quit, client>>

QueueHandlerQuits ==
    /\ queueHandler = "run"
    /\ quit
    /\ queueHandler' = "done"
    /\ UNCHANGED <<queue, handler, current, todo, target, clients,
                   txNotifications, quit, notes, audience, client>>

\* Registering and subscribing clients.
Control(kind, c) ==
    /\ clients' = CASE kind = "register" -> clients \cup {c}
                    [] kind = "unregister" -> clients \ {c}
                    [] OTHER -> clients
    /\ txNotifications' = CASE kind = "subscribe" -> txNotifications \cup {c}
                            [] kind = "unregister" -> txNotifications \ {c}
                            [] OTHER -> txNotifications

HandlerTakes ==
    /\ handler = "select"
    /\ queueHandler = "run"
    /\ queue # <<>>
    /\ queue' = Tail(queue)
    /\ IF Head(queue)[1] = "note"
       THEN /\ todo' = txNotifications
            /\ handler' = IF txNotifications = {} THEN "select" ELSE "send"
            /\ current' = IF txNotifications = {} THEN Reply ELSE Head(queue)[2]
            /\ UNCHANGED <<clients, txNotifications>>
       ELSE /\ Control(Head(queue)[1], Head(queue)[2])
            /\ UNCHANGED <<handler, todo, current>>
    /\ UNCHANGED <<queueHandler, target, quit, notes, audience, client>>

\* QueueNotification looks at one client after the other, in any order; the
\* first that has gone ends the round for all that come after it.
HandlerLooks(c) ==
    /\ handler = "send"
    /\ c \in todo
    /\ IF disconnected[c]
       THEN /\ handler' = "select"
            /\ todo' = {} /\ current' = Reply
            /\ UNCHANGED target
       ELSE /\ handler' = "put"
            /\ todo' = todo \ {c}
            /\ target' = {c}
            /\ UNCHANGED current
    /\ UNCHANGED <<queue, queueHandler, clients, txNotifications, quit, notes,
                   audience, client>>

\* The client found connected is sent the notification; its channel takes one.
HandlerPuts(c) ==
    /\ handler = "put"
    /\ c \in target
    /\ ntfnChan[c] = <<>>
    /\ ntfnChan' = [ntfnChan EXCEPT ![c] = <<current>>]
    /\ target' = {}
    /\ handler' = IF todo = {} THEN "select" ELSE "send"
    /\ current' = IF todo = {} THEN Reply ELSE current
    /\ UNCHANGED <<queue, queueHandler, todo, clients, txNotifications, quit,
                   notes, audience>>
    /\ UNCHANGED <<conn, in, nq, out, authenticated, disconnected, sendChan,
                   doneChan, pending, waiting, nqMsg, outMsg, serving, messages,
                   received>>

\* On its way out the handler disconnects the clients it knows.
HandlerQuits ==
    /\ handler = "select"
    /\ quit
    /\ handler' = "done"
    /\ disconnected' = [c \in Clients |-> disconnected[c] \/ c \in clients]
    /\ UNCHANGED <<queue, queueHandler, current, todo, target, clients,
                   txNotifications, quit, notes, audience>>
    /\ UNCHANGED <<conn, in, nq, out, authenticated, ntfnChan, sendChan, doneChan,
                   pending, waiting, nqMsg, outMsg, serving, messages, received>>

\* Server.Stop, once the wallet has stopped.
Shutdown ==
    /\ MayStop
    /\ ~quit
    /\ quit' = TRUE
    /\ UNCHANGED <<queue, queueHandler, handler, current, todo, target, clients,
                   txNotifications, notes, audience, client>>

-----------------------------------------------------------------------------
(* Connections *)

Active == {c \in Clients : conn[c] \notin {"none", "gone"}}

\* throttled: at most MaxClients connections are dealt with at a time.
Admits(c) == Cardinality(Active) < MaxClients

Connect(c) ==
    /\ conn[c] = "none"
    /\ conn' = [conn EXCEPT ![c] = IF Admits(c) THEN "count" ELSE "gone"]
    /\ UNCHANGED <<manager, in, nq, out, authenticated, disconnected, ntfnChan,
                   sendChan, doneChan, pending, waiting, nqMsg, outMsg, serving,
                   messages, received>>

\* NumClients asks the handler, or takes zero if the manager has quit.
Count(c) ==
    /\ conn[c] = "count"
    /\ \/ /\ handler = "select"
          /\ conn' = [conn EXCEPT ![c] =
                IF Cardinality(clients) + 1 > MaxClients THEN "gone" ELSE "add"]
       \/ quit /\ conn' = [conn EXCEPT ![c] = "add"]
    /\ UNCHANGED <<manager, in, nq, out, authenticated, disconnected, ntfnChan,
                   sendChan, doneChan, pending, waiting, nqMsg, outMsg, serving,
                   messages, received>>

\* AddClient, which does not watch quit, and Start.
Add(c) ==
    /\ conn[c] = "add"
    /\ Enqueue(<<"register", c>>)
    /\ conn' = [conn EXCEPT ![c] = "wait"]
    /\ in' = [in EXCEPT ![c] = "read"]
    /\ nq' = [nq EXCEPT ![c] = "select"]
    /\ out' = [out EXCEPT ![c] = "select"]
    /\ UNCHANGED <<queueHandler, handler, current, todo, target, clients,
                   txNotifications, quit, notes, audience>>
    /\ UNCHANGED <<authenticated, disconnected, ntfnChan, sendChan, doneChan,
                   pending, waiting, nqMsg, outMsg, serving, messages, received>>

\* WaitForShutdown, then RemoveClient.
Remove(c) ==
    /\ conn[c] = "wait"
    /\ in[c] = "done" /\ nq[c] = "done" /\ out[c] = "done"
    /\ \/ Enqueue(<<"unregister", c>>)
       \/ quit /\ UNCHANGED queue
    /\ conn' = [conn EXCEPT ![c] = "gone"]
    /\ UNCHANGED <<queueHandler, handler, current, todo, target, clients,
                   txNotifications, quit, notes, audience>>
    /\ UNCHANGED <<in, nq, out, authenticated, disconnected, ntfnChan, sendChan,
                   doneChan, pending, waiting, nqMsg, outMsg, serving, messages,
                   received>>

-----------------------------------------------------------------------------
(* Requests *)

\* Disconnect: closes quit and the connection.
Disconnect(c) == disconnected' = [disconnected EXCEPT ![c] = TRUE]

\* The channel inHandler and the others send on has room for one more.
Room(c) == Len(sendChan[c]) < SendBuffer

\* inHandler reads a message.  It answers a malformed or unknown one itself, a
\* successful authentication too; one without id gets no answer; a command
\* waits for the semaphore.  All but the authentication need a client that is
\* authenticated; anything else ends the loop (InEnds).
InReads(c) ==
    /\ in[c] = "read"
    /\ ~disconnected[c]
    /\ messages[c] < MaxMessages[c]
    /\ messages' = [messages EXCEPT ![c] = @ + 1]
    /\ \E next \in (IF authenticated[c]
                   THEN {"reply", "read", "run", "subscribe"} ELSE {"reply"}) :
          in' = [in EXCEPT ![c] = next]
    /\ authenticated' = [authenticated EXCEPT ![c] = TRUE]
    /\ UNCHANGED <<manager, conn, nq, out, disconnected, ntfnChan, sendChan,
                   doneChan, pending, waiting, nqMsg, outMsg, serving, received>>

\* The connection fails, is closed by Disconnect or brings what ends the loop.
InEnds(c) ==
    /\ in[c] = "read"
    /\ Disconnect(c)
    /\ in' = [in EXCEPT ![c] = "done"]
    /\ UNCHANGED <<manager, conn, nq, out, authenticated, ntfnChan, sendChan,
                   doneChan, pending, waiting, nqMsg, outMsg, serving, messages,
                   received>>

Servings(c) == serving[c]["run"] + serving[c]["subscribe"] + serving[c]["reply"]
                  + serving[c]["push"]

\* The semaphore is acquired and a goroutine serves the command.
InServes(c) ==
    /\ in[c] \in {"run", "subscribe"}
    /\ Servings(c) < MaxReqs
    /\ serving' = [serving EXCEPT ![c][in[c]] = @ + 1]
    /\ in' = [in EXCEPT ![c] = "read"]
    /\ UNCHANGED <<manager, conn, nq, out, authenticated, disconnected, ntfnChan,
                   sendChan, doneChan, pending, waiting, nqMsg, outMsg, messages,
                   received>>

\* SendMessage by inHandler: look, then send.
InReplies(c) ==
    /\ in[c] = "reply"
    /\ in' = [in EXCEPT ![c] = IF disconnected[c] THEN "read" ELSE "push"]
    /\ UNCHANGED <<manager, conn, nq, out, authenticated, disconnected, ntfnChan,
                   sendChan, doneChan, pending, waiting, nqMsg, outMsg, serving,
                   messages, received>>

InPushes(c) ==
    /\ in[c] = "push"
    /\ Room(c)
    /\ sendChan' = [sendChan EXCEPT ![c] = Append(@, Reply)]
    /\ in' = [in EXCEPT ![c] = "read"]
    /\ UNCHANGED <<manager, conn, nq, out, authenticated, disconnected, ntfnChan,
                   doneChan, pending, waiting, nqMsg, outMsg, serving, messages,
                   received>>

\* A service goes from one stage to the next; "end" releases the semaphore.
Move(c, from, to) ==
    /\ serving[c][from] > 0
    /\ serving' = [serving EXCEPT ![c] =
          [s \in Stages |-> @[s] - (IF s = from THEN 1 ELSE 0)
                                + (IF s = to THEN 1 ELSE 0)]]

\* standardCmdResult, or the handler of a websocket extension.
ServiceRuns(c) ==
    /\ Move(c, "run", "reply")
    /\ UNCHANGED <<manager, conn, in, nq, out, authenticated, disconnected,
                   ntfnChan, sendChan, doneChan, pending, waiting, nqMsg, outMsg,
                   messages, received>>

\* RegisteTransactionNotification, which does not watch quit.
ServiceSubscribes(c) ==
    /\ Move(c, "subscribe", "reply")
    /\ Enqueue(<<"subscribe", c>>)
    /\ UNCHANGED <<queueHandler, handler, current, todo, target, clients,
                   txNotifications, quit, notes, audience>>
    /\ UNCHANGED <<conn, in, nq, out, authenticated, disconnected, ntfnChan,
                   sendChan, doneChan, pending, waiting, nqMsg, outMsg, messages,
                   received>>

ServiceReplies(c) ==
    /\ Move(c, "reply", IF disconnected[c] THEN "end" ELSE "push")
    /\ UNCHANGED <<manager, conn, in, nq, out, authenticated, disconnected,
                   ntfnChan, sendChan, doneChan, pending, waiting, nqMsg, outMsg,
                   messages, received>>

ServicePushes(c) ==
    /\ Move(c, "push", "end")
    /\ Room(c)
    /\ sendChan' = [sendChan EXCEPT ![c] = Append(@, Reply)]
    /\ UNCHANGED <<manager, conn, in, nq, out, authenticated, disconnected,
                   ntfnChan, doneChan, pending, waiting, nqMsg, outMsg, messages,
                   received>>

-----------------------------------------------------------------------------
(* notificationQueueHandler *)

NqTakes(c) ==
    /\ nq[c] = "select"
    /\ ntfnChan[c] # <<>>
    /\ ntfnChan' = [ntfnChan EXCEPT ![c] = <<>>]
    /\ IF waiting[c]
       THEN /\ pending' = [pending EXCEPT ![c] = @ \o ntfnChan[c]]
            /\ UNCHANGED <<nq, nqMsg>>
       ELSE /\ nqMsg' = [nqMsg EXCEPT ![c] = Head(ntfnChan[c])]
            /\ nq' = [nq EXCEPT ![c] = "send"]
            /\ UNCHANGED pending
    /\ waiting' = [waiting EXCEPT ![c] = TRUE]
    /\ UNCHANGED <<manager, conn, in, out, authenticated, disconnected, sendChan,
                   doneChan, outMsg, serving, messages, received>>

\* A mutated form of NqSent: what is pending waits for the next notification.
NqSentForgets(c) ==
    /\ nq[c] = "select"
    /\ doneChan[c] # <<>>
    /\ doneChan' = [doneChan EXCEPT ![c] = Tail(@)]
    /\ waiting' = [waiting EXCEPT ![c] = FALSE]
    /\ UNCHANGED <<manager, conn, in, nq, out, authenticated, disconnected,
                   ntfnChan, sendChan, pending, nqMsg, outMsg, serving, messages,
                   received>>

\* The last one has been sent, or given up: the next, if one is pending.
NqSent(c) ==
    /\ nq[c] = "select"
    /\ doneChan[c] # <<>>
    /\ doneChan' = [doneChan EXCEPT ![c] = Tail(@)]
    /\ IF pending[c] = <<>>
       THEN /\ waiting' = [waiting EXCEPT ![c] = FALSE]
            /\ UNCHANGED <<nq, nqMsg, pending>>
       ELSE /\ nqMsg' = [nqMsg EXCEPT ![c] = Head(pending[c])]
            /\ pending' = [pending EXCEPT ![c] = Tail(@)]
            /\ nq' = [nq EXCEPT ![c] = "send"]
            /\ UNCHANGED waiting
    /\ UNCHANGED <<manager, conn, in, out, authenticated, disconnected, ntfnChan,
                   sendChan, outMsg, serving, messages, received>>

\* SendMessage looks at the client; gone, it answers on ntfnSentChan itself.
NqSends(c) ==
    /\ nq[c] = "send"
    /\ IF disconnected[c]
       THEN /\ doneChan[c] = <<>>
            /\ doneChan' = [doneChan EXCEPT ![c] = <<FALSE>>]
            /\ nq' = [nq EXCEPT ![c] = "select"]
       ELSE /\ nq' = [nq EXCEPT ![c] = "push"]
            /\ UNCHANGED doneChan
    /\ UNCHANGED <<manager, conn, in, out, authenticated, disconnected, ntfnChan,
                   sendChan, pending, waiting, nqMsg, outMsg, serving, messages,
                   received>>

NqPushes(c) ==
    /\ nq[c] = "push"
    /\ Room(c)
    /\ sendChan' = [sendChan EXCEPT ![c] = Append(@, nqMsg[c])]
    /\ nq' = [nq EXCEPT ![c] = "select"]
    /\ UNCHANGED <<manager, conn, in, out, authenticated, disconnected, ntfnChan,
                   doneChan, pending, waiting, nqMsg, outMsg, serving, messages,
                   received>>

\* A mutated form of NqQuits: a notification put meanwhile stays in the channel.
NqQuitsAtOnce(c) ==
    /\ nq[c] = "select"
    /\ disconnected[c]
    /\ nq' = [nq EXCEPT ![c] = "done"]
    /\ UNCHANGED <<manager, conn, in, out, authenticated, disconnected, ntfnChan,
                   doneChan, sendChan, pending, waiting, nqMsg, outMsg, serving,
                   messages, received>>

\* Once quit is closed the two channels are drained.
NqQuits(c) ==
    /\ nq[c] = "select"
    /\ disconnected[c]
    /\ nq' = [nq EXCEPT ![c] = "done"]
    /\ ntfnChan' = [ntfnChan EXCEPT ![c] = <<>>]
    /\ doneChan' = [doneChan EXCEPT ![c] = <<>>]
    /\ UNCHANGED <<manager, conn, in, out, authenticated, disconnected, sendChan,
                   pending, waiting, nqMsg, outMsg, serving, messages, received>>

-----------------------------------------------------------------------------
(* outHandler *)

OutTakes(c) ==
    /\ out[c] = "select"
    /\ sendChan[c] # <<>>
    /\ outMsg' = [outMsg EXCEPT ![c] = Head(sendChan[c])]
    /\ sendChan' = [sendChan EXCEPT ![c] = Tail(@)]
    /\ out' = [out EXCEPT ![c] = "write"]
    /\ UNCHANGED <<manager, conn, in, nq, authenticated, disconnected, ntfnChan,
                   doneChan, pending, waiting, nqMsg, serving, messages, received>>

\* ntfnSentChan takes one answer, which is given for a notification only.
Answer(c, m, sent) ==
    IF m = Reply THEN UNCHANGED doneChan
                 ELSE doneChan[c] = <<>> /\ doneChan' = [doneChan EXCEPT ![c] = <<sent>>]

\* The peer reads the message.
OutWrites(c) ==
    /\ out[c] = "write"
    /\ ~disconnected[c]
    /\ Answer(c, outMsg[c], TRUE)
    /\ received' = [received EXCEPT ![c] =
                       IF outMsg[c] = Reply THEN @ ELSE Append(@, outMsg[c])]
    /\ out' = [out EXCEPT ![c] = "select"]
    /\ outMsg' = [outMsg EXCEPT ![c] = Reply]
    /\ UNCHANGED <<manager, conn, in, nq, authenticated, disconnected, ntfnChan,
                   sendChan, pending, waiting, nqMsg, serving, messages>>

\* Writing fails; nobody is answered for this message.
OutFails(c) ==
    /\ out[c] = "write"
    /\ Disconnect(c)
    /\ out' = [out EXCEPT ![c] = "drain"]
    /\ outMsg' = [outMsg EXCEPT ![c] = Reply]
    /\ UNCHANGED <<manager, conn, in, nq, authenticated, ntfnChan, sendChan,
                   doneChan, pending, waiting, nqMsg, serving, messages, received>>

OutQuits(c) ==
    /\ out[c] = "select"
    /\ disconnected[c]
    /\ out' = [out EXCEPT ![c] = "drain"]
    /\ UNCHANGED <<manager, conn, in, nq, authenticated, disconnected, ntfnChan,
                   sendChan, doneChan, pending, waiting, nqMsg, outMsg, serving,
                   messages, received>>

\* What is left in sendChan is dropped, one message after the other.
OutDrains(c) ==
    /\ out[c] = "drain"
    /\ IF sendChan[c] = <<>>
       THEN out' = [out EXCEPT ![c] = "done"] /\ UNCHANGED <<sendChan, doneChan>>
       ELSE /\ Answer(c, Head(sendChan[c]), FALSE)
            /\ sendChan' = [sendChan EXCEPT ![c] = Tail(@)]
            /\ UNCHANGED out
    /\ UNCHANGED <<manager, conn, in, nq, authenticated, disconnected, ntfnChan,
                   pending, waiting, nqMsg, outMsg, serving, messages, received>>

-----------------------------------------------------------------------------
Manager ==
    \/ Notify \/ QueueHandlerQuits \/ HandlerTakes \/ HandlerQuits \/ Shutdown
    \/ \E c \in Clients : HandlerLooks(c) \/ HandlerPuts(c)

Connection(c) == Connect(c) \/ Count(c) \/ Add(c) \/ Remove(c)

Requests(c) ==
    \/ InReads(c) \/ InEnds(c) \/ InServes(c) \/ InReplies(c) \/ InPushes(c)
    \/ ServiceRuns(c) \/ ServiceSubscribes(c) \/ ServiceReplies(c)
    \/ ServicePushes(c)

Sending(c) ==
    \/ NqTakes(c) \/ NqSent(c) \/ NqSends(c) \/ NqPushes(c) \/ NqQuits(c)
    \/ OutTakes(c) \/ OutWrites(c) \/ OutFails(c) \/ OutQuits(c) \/ OutDrains(c)

Next == Manager \/ \E c \in Clients : Connection(c) \/ Requests(c) \/ Sending(c)

\* Goroutines go on; a peer reads what is written or its connection fails; a
\* read of a connection that was closed returns.
Fairness ==
    /\ WF_vars(QueueHandlerQuits) /\ WF_vars(HandlerTakes) /\ WF_vars(HandlerQuits)
    /\ WF_vars(\E c \in Clients : HandlerLooks(c) \/ HandlerPuts(c))
    /\ \A c \in Clients :
          /\ WF_vars(Remove(c))
          /\ WF_vars(disconnected[c] /\ InEnds(c))
          /\ WF_vars(InServes(c) \/ InReplies(c) \/ InPushes(c))
          /\ WF_vars(ServiceRuns(c)) /\ WF_vars(ServiceSubscribes(c))
          /\ WF_vars(ServiceReplies(c)) /\ WF_vars(ServicePushes(c))
          /\ WF_vars(NqSends(c) \/ NqPushes(c))
          /\ WF_vars(NqTakes(c) \/ NqSent(c) \/ NqQuits(c))
          /\ WF_vars(OutWrites(c) \/ OutFails(c))
          /\ WF_vars(OutTakes(c) \/ OutQuits(c))
          /\ WF_vars(OutDrains(c))

Spec == Init /\ [][Next]_vars /\ Fairness

-----------------------------------------------------------------------------
(* Properties *)

\* A client gets notifications in the order the wallet gave them, none twice,
\* through the manager's queue, the client's pending list and its send channel.
InOrder ==
    \A c \in Clients : \A i, j \in DOMAIN received[c] :
        i < j => received[c][i] < received[c][j]

\* A client subscribed when a notification is queued gets it, unless it goes or
\* a client that has gone is subscribed still: a notification does not stay in a
\* pending list and a goroutine does not wait for another in vain, whatever else
\* the clients ask.
Told ==
    \A c \in Clients, n \in Notes :
        c \in audience[n] ~> \/ \E i \in DOMAIN received[c] : received[c][i] = n
                            \/ \E d \in txNotifications \cup {c} : disconnected[d]
                            \/ quit

\* A client that has gone leaves none of the goroutines behind that read its
\* requests, queue and write for it, which its connection waits for, unless the
\* server stops; and the manager's goroutines end when it does, whatever channel
\* each of them was about to send on.  Requests still served are not waited for.
Ends ==
    /\ \A c \in Clients : disconnected[c] ~> conn[c] = "gone" \/ quit
    /\ quit ~> handler = "done" /\ queueHandler = "done"
=============================================================================
