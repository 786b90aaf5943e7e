-------------------------- MODULE WsClientsProofs --------------------------
(***************************************************************************)
(* A client gets notifications in order, whatever the number of clients,   *)
(* of requests and of notifications and the size of the channels, and      *)
(* whenever a connection fails or the server stops.                        *)
(*                                                                         *)
(* Every notification is on a line of nine stages, from those the wallet   *)
(* has still to give to those the peer has read, and only ever moves to an *)
(* earlier stage with nothing between the two, or is dropped.              *)
(***************************************************************************)
EXTENDS WsClients, SequenceTheorems, TLAPS

\* What a queue of the manager's and a channel of a client's have of notifications.
Note(e) == IF e[1] = "note" THEN e[2] ELSE Reply
NotesOf(q) == [i \in 1 .. Len(q) |-> Note(q[i])]
Carried(s) == {s[i] : i \in 1 .. Len(s)} \ {Reply}

Rising(s) ==
    \A i, j \in 1 .. Len(s) :
        i < j /\ s[i] # Reply /\ s[j] # Reply => s[i] < s[j]

\* The stages of the line a client's notifications are on, the last first.
Line(c) ==
    [k \in 1 .. 9 |->
        CASE k = 1 -> Carried(received[c])
          [] k = 2 -> IF out[c] = "write" THEN {outMsg[c]} \ {Reply} ELSE {}
          [] k = 3 -> Carried(sendChan[c])
          [] k = 4 -> IF nq[c] \in {"send", "push"} THEN {nqMsg[c]} \ {Reply} ELSE {}
          [] k = 5 -> Carried(pending[c])
          [] k = 6 -> Carried(ntfnChan[c])
          [] k = 7 -> IF c \in todo \cup target THEN {current} \ {Reply} ELSE {}
          [] k = 8 -> Carried(NotesOf(queue))
          [] k = 9 -> {n \in Notes : n > notes}]

Ordered(line) ==
    \A j, k \in 1 .. 9 : j < k => \A m \in line[j], n \in line[k] : m < n

Controls == {"register", "unregister", "subscribe"} \X Clients
Entries == ({"note"} \X Notes) \cup Controls

\* A channel that holds one notification.
OneChannels == [Clients -> {<<>>} \cup {<<n>> : n \in Nat}]

TypeOK ==
    /\ queue \in Seq(Entries)
    /\ handler \in {"select", "send", "put", "done"}
    /\ current \in Nat
    /\ todo \subseteq Clients /\ target \subseteq Clients
    /\ txNotifications \subseteq Clients
    /\ notes \in Nat
    /\ nq \in [Clients -> {"none", "select", "send", "push", "done"}]
    /\ waiting \in [Clients -> BOOLEAN]
    /\ received \in [Clients -> Seq(Nat \ {0})]
    /\ sendChan \in [Clients -> Seq(Nat)]
    /\ pending \in [Clients -> Seq(Nat)]
    /\ ntfnChan \in OneChannels
    /\ nqMsg \in [Clients -> Nat]
    /\ outMsg \in [Clients -> Nat]
    /\ out \in [Clients -> {"none", "select", "write", "drain", "done"}]

\* The handler has one client in hand at most while it puts, and none otherwise.
InHand ==
    /\ handler # "put" => target = {}
    /\ handler = "select" => todo = {}
    /\ todo \cap target = {}

ClientInv(c) ==
    /\ ~waiting[c] => pending[c] = <<>>
    /\ Rising(received[c]) /\ Rising(sendChan[c]) /\ Rising(pending[c])
    /\ Ordered(Line(c))

QueueInv ==
    /\ Rising(NotesOf(queue))
    /\ \A n \in Carried(NotesOf(queue)) : n <= notes

Inv ==
    /\ TypeOK
    /\ InHand
    /\ QueueInv
    /\ \A c \in Clients : ClientInv(c)

-----------------------------------------------------------------------------
(* Sequences *)

\* What is appended goes last.
LEMMA Appended ==
    ASSUME NEW S, NEW s \in Seq(S), NEW m \in S
    PROVE  /\ Carried(Append(s, m)) = Carried(s) \cup ({m} \ {Reply})
           /\ Rising(s) /\ (m # Reply => \A n \in Carried(s) : n < m)
                 => Rising(Append(s, m))
<1>1. /\ Append(s, m) \in Seq(S) /\ Len(Append(s, m)) = Len(s) + 1 /\ Len(s) \in Nat
      /\ \A i \in 1 .. Len(s) : Append(s, m)[i] = s[i]
      /\ Append(s, m)[Len(s) + 1] = m
  OBVIOUS
<1> DEFINE t == Append(s, m)
<1> HIDE DEF t
<1>2. Carried(t) = Carried(s) \cup ({m} \ {Reply})
  BY <1>1 DEF Carried, t
<1>3. ASSUME Rising(s), m # Reply => \A n \in Carried(s) : n < m PROVE Rising(t)
  <2> SUFFICES ASSUME NEW i \in 1 .. Len(t), NEW j \in 1 .. Len(t), i < j,
                      t[i] # Reply, t[j] # Reply
               PROVE  t[i] < t[j]
    BY DEF Rising
  <2>1. i \in 1 .. Len(s) /\ t[i] = s[i]
    BY <1>1 DEF t
  <2>2. CASE j \in 1 .. Len(s)
    BY <1>1, <1>3, <2>1, <2>2 DEF Rising, t
  <2>3. CASE j = Len(s) + 1
    BY <1>1, <1>3, <2>1, <2>3 DEF Carried, t
  <2> QED
    BY <1>1, <2>2, <2>3 DEF t
<1> QED
  BY <1>2, <1>3 DEF t

\* What is taken is the first, and nothing else changes its place.
LEMMA Taken ==
    ASSUME NEW S, NEW s \in Seq(S), s # <<>>
    PROVE  /\ Head(s) \in S /\ Tail(s) \in Seq(S)
           /\ Head(s) # Reply => Head(s) \in Carried(s)
           /\ Carried(Tail(s)) \subseteq Carried(s)
           /\ Rising(s) => /\ Rising(Tail(s))
                           /\ Head(s) # Reply => \A n \in Carried(Tail(s)) : Head(s) < n
<1>1. /\ Len(s) \in Nat \ {0} /\ Head(s) = s[1] /\ s[1] \in S
      /\ Tail(s) \in Seq(S) /\ Len(Tail(s)) = Len(s) - 1
      /\ \A i \in 1 .. Len(s) - 1 : Tail(s)[i] = s[i + 1]
  OBVIOUS
<1> DEFINE t == Tail(s)
<1> HIDE DEF t
<1>2. Head(s) # Reply => Head(s) \in Carried(s)
  BY <1>1 DEF Carried
<1>3. \A i \in 1 .. Len(t) : i + 1 \in 1 .. Len(s) /\ t[i] = s[i + 1]
  BY <1>1 DEF t
<1>4. Carried(t) \subseteq Carried(s)
  BY <1>3 DEF Carried
<1>5. ASSUME Rising(s)
      PROVE  /\ Rising(t)
             /\ Head(s) # Reply => \A n \in Carried(t) : Head(s) < n
  <2>1. Rising(t)
    <3> SUFFICES ASSUME NEW i \in 1 .. Len(t), NEW j \in 1 .. Len(t), i < j,
                        t[i] # Reply, t[j] # Reply
                 PROVE  t[i] < t[j]
      BY DEF Rising
    <3>1. i + 1 < j + 1
      BY <1>1 DEF t
    <3> QED
      BY <1>3, <1>5, <3>1 DEF Rising
  <2>2. ASSUME Head(s) # Reply, NEW i \in 1 .. Len(t), t[i] # Reply PROVE Head(s) < t[i]
    <3>1. 1 \in 1 .. Len(s) /\ 1 < i + 1
      BY <1>1, <2>2 DEF t
    <3> QED
      BY <1>1, <1>3, <1>5, <2>2, <3>1 DEF Rising
  <2> QED
    BY <2>1, <2>2 DEF Carried
<1> QED
  BY <1>1, <1>2, <1>4, <1>5 DEF t

\* A notification has a number.
LEMMA NoteType == ASSUME NEW e \in Entries PROVE Note(e) \in Nat
BY DEF Entries, Controls, Note, Notes, Reply

\* Appending to the queue of entries appends to its notifications.
LEMMA QueueAppended ==
    ASSUME NEW q \in Seq(Entries), NEW e \in Entries
    PROVE  /\ NotesOf(q) \in Seq(Nat)
           /\ NotesOf(Append(q, e)) = Append(NotesOf(q), Note(e))
<1>1. NotesOf(q) \in Seq(Nat) /\ Len(NotesOf(q)) = Len(q) /\ Note(e) \in Nat
  BY NoteType DEF NotesOf
<1>2. Append(q, e) \in Seq(Entries) /\ Len(Append(q, e)) = Len(q) + 1
  OBVIOUS
<1>3. \A i \in 1 .. Len(q) + 1 :
          NotesOf(Append(q, e))[i] = Append(NotesOf(q), Note(e))[i]
  BY <1>1, <1>2 DEF NotesOf
<1>4. NotesOf(Append(q, e)) \in Seq(Nat) /\ Append(NotesOf(q), Note(e)) \in Seq(Nat)
  BY <1>1, <1>2, NoteType DEF NotesOf
<1>5. Len(NotesOf(Append(q, e))) = Len(q) + 1 /\ Len(Append(NotesOf(q), Note(e))) = Len(q) + 1
  BY <1>1, <1>2 DEF NotesOf
<1> QED
  BY <1>1, <1>2, <1>3, <1>4, <1>5, SeqEqual

\* The head of the queue is the head of its notifications.
LEMMA QueueTaken ==
    ASSUME NEW q \in Seq(Entries), q # <<>>
    PROVE  /\ NotesOf(q) \in Seq(Nat) /\ NotesOf(q) # <<>>
           /\ Head(NotesOf(q)) = Note(Head(q))
           /\ NotesOf(Tail(q)) = Tail(NotesOf(q))
<1>1. /\ NotesOf(q) \in Seq(Nat) /\ Len(NotesOf(q)) = Len(q) /\ Len(q) \in Nat \ {0}
  BY NoteType DEF NotesOf
<1>2. Tail(q) \in Seq(Entries) /\ Len(Tail(q)) = Len(q) - 1
  OBVIOUS
<1>3. NotesOf(q) # <<>> /\ Head(NotesOf(q)) = Note(Head(q))
  BY <1>1 DEF NotesOf
<1>4. \A i \in 1 .. Len(q) - 1 : NotesOf(Tail(q))[i] = Tail(NotesOf(q))[i]
  BY <1>1, <1>2, <1>3 DEF NotesOf
<1>5. NotesOf(Tail(q)) \in Seq(Nat) /\ Tail(NotesOf(q)) \in Seq(Nat)
  BY <1>1, <1>2, <1>3, NoteType DEF NotesOf
<1>6. Len(NotesOf(Tail(q))) = Len(q) - 1 /\ Len(Tail(NotesOf(q))) = Len(q) - 1
  BY <1>1, <1>2, <1>3 DEF NotesOf
<1> QED
  BY <1>1, <1>3, <1>4, <1>5, <1>6, SeqEqual

-----------------------------------------------------------------------------
(* The line *)

\* Between the lines f and g, m moves up from place i to place j or is dropped,
\* as anything else may be; none is left in between.
Moves(f, g, i, j, m) ==
    /\ j < i
    /\ \A k \in 1 .. 9 : k # j => g[k] \subseteq f[k]
    /\ \A k \in 1 .. 9 : j < k /\ k < i => g[k] = {}
    /\ g[j] \subseteq f[j] \cup ({m} \ {Reply})
    /\ m # Reply => m \in f[i] /\ \A n \in g[i] : m < n

\* What moves up takes the place of the last of an earlier stage, with none in
\* between; anything may be dropped on the way.
LEMMA Moved ==
    ASSUME NEW f, NEW g, NEW i \in 1 .. 9, NEW j \in 1 .. 9, NEW m,
           Ordered(f), Moves(f, g, i, j, m)
    PROVE  Ordered(g)
<1> USE DEF Moves
<1> SUFFICES ASSUME NEW a \in 1 .. 9, NEW b \in 1 .. 9, a < b, NEW x \in g[a], NEW y \in g[b]
             PROVE  x < y
  BY DEF Ordered
<1>1. CASE x \in f[a] /\ y \in f[b]
  BY <1>1 DEF Ordered
<1>2. CASE x \notin f[a]
  <2>1. a = j /\ x = m /\ m # Reply /\ b # j /\ y \in f[b]
    BY <1>2
  <2>2. CASE b < i
    BY <2>1, <2>2
  <2>3. CASE b = i
    BY <2>1, <2>3
  <2>4. CASE i < b
    BY <2>1, <2>4 DEF Ordered
  <2> QED
    BY <2>2, <2>3, <2>4
<1>3. CASE y \notin f[b]
  <2>1. b = j /\ y = m /\ m # Reply /\ a # j /\ x \in f[a] /\ a < i
    BY <1>3
  <2> QED
    BY <2>1 DEF Ordered
<1> QED
  BY <1>1, <1>2, <1>3

\* Places that lose notifications, as one that closes does, stay in order.
LEMMA Dropped ==
    ASSUME NEW f, NEW g, Ordered(f), \A k \in 1 .. 9 : g[k] \subseteq f[k]
    PROVE  Ordered(g)
BY DEF Ordered

\* A step of the manager or of another client leaves a client as it is.
LEMMA ClientKeeps ==
    ASSUME NEW c \in Clients, ClientInv(c),
           waiting'[c] = waiting[c], pending'[c] = pending[c],
           out'[c] = "write" => out[c] = "write", outMsg'[c] = outMsg[c],
           received'[c] = received[c], sendChan'[c] = sendChan[c], nqMsg'[c] = nqMsg[c], ntfnChan'[c] = ntfnChan[c],
           nq'[c] \in {"send", "push"} => nq[c] \in {"send", "push"},
           current' \in {current, Reply}, UNCHANGED notes,
           Carried(NotesOf(queue')) \subseteq Carried(NotesOf(queue)),
           todo' \cup target' \subseteq todo \cup target
    PROVE  ClientInv(c)'
<1>1. \A k \in 1 .. 9 : Line(c)'[k] \subseteq Line(c)[k]
  BY DEF Line
<1> QED
  BY <1>1, Dropped DEF ClientInv

\* A step of one client: only its own channels and handlers change.
LEMMA OneClient ==
    ASSUME Inv, TypeOK', NEW c \in Clients, ClientInv(c)',
           UNCHANGED <<handler, current, todo, target, notes>>,
           QueueInv', Carried(NotesOf(queue))' \subseteq Carried(NotesOf(queue)),
           \A d \in Clients \ {c} :
              /\ waiting'[d] = waiting[d] /\ pending'[d] = pending[d] /\ out'[d] = out[d]
              /\ outMsg'[d] = outMsg[d] /\ received'[d] = received[d]
              /\ sendChan'[d] = sendChan[d] /\ nqMsg'[d] = nqMsg[d]
              /\ ntfnChan'[d] = ntfnChan[d] /\ nq'[d] = nq[d]
    PROVE  Inv'
<1>1. \A d \in Clients \ {c} : ClientInv(d)'
  BY ClientKeeps DEF Inv
<1>2. InHand'
  BY DEF Inv, InHand
<1> QED
  BY <1>1, <1>2 DEF Inv

\* A step of one client disturbs the invariant of no other.
LEMMA ClientAlone ==
    ASSUME Inv, TypeOK', NEW c \in Clients, ClientInv(c)',
           UNCHANGED <<queue, handler, current, todo, target, notes>>,
           \A d \in Clients \ {c} :
              /\ waiting'[d] = waiting[d] /\ pending'[d] = pending[d] /\ out'[d] = out[d]
              /\ outMsg'[d] = outMsg[d] /\ received'[d] = received[d]
              /\ sendChan'[d] = sendChan[d] /\ nqMsg'[d] = nqMsg[d]
              /\ ntfnChan'[d] = ntfnChan[d] /\ nq'[d] = nq[d]
    PROVE  Inv'
<1>1. QueueInv' /\ NotesOf(queue)' = NotesOf(queue)
  BY DEF Inv, QueueInv
<1> QED
  BY <1>1, OneClient

-----------------------------------------------------------------------------
(* Every action preserves the invariant *)

\* Every channel and queue is empty.
LEMMA InitInv == Init => Inv
<1> SUFFICES ASSUME Init PROVE Inv
  OBVIOUS
<1> USE DEF Init
<1>1. TypeOK
  BY DEF TypeOK, Reply, OneChannels
<1>2. InHand
  BY DEF InHand
<1>3. QueueInv
  BY DEF QueueInv, Rising, NotesOf, Carried
<1>4. ASSUME NEW c \in Clients PROVE ClientInv(c)
  <2>1. \A k \in 1 .. 9 : k < 9 => Line(c)[k] = {}
    BY DEF Line, Carried, NotesOf
  <2>2. Ordered(Line(c))
    BY <2>1 DEF Ordered
  <2> QED
    BY <2>2 DEF ClientInv, Rising
<1> QED
  BY <1>1, <1>2, <1>3, <1>4 DEF Inv

\* The variables of the line, and those on which moving along it depends.
line == <<queue, handler, current, todo, target, notes, txNotifications, nq, waiting,
          received, sendChan, pending, ntfnChan, nqMsg, outMsg, out>>

\* Most steps of a connection and of a request do not touch them.
LEMMA Aside == ASSUME Inv, UNCHANGED line PROVE Inv'
<1>1. TypeOK' /\ InHand' /\ QueueInv'
  BY DEF Inv, line, TypeOK, InHand, QueueInv
<1>2. \A c \in Clients : ClientInv(c)'
  BY ClientKeeps DEF Inv, line
<1> QED
  BY <1>1, <1>2 DEF Inv

\* Registering, unregistering and subscribing queue no notification.
LEMMA ControlQueued ==
    ASSUME Inv, NEW e \in Controls, Enqueue(e)
    PROVE  /\ queue' \in Seq(Entries)
           /\ UNCHANGED notes => QueueInv'
           /\ Carried(NotesOf(queue))' \subseteq Carried(NotesOf(queue))
<1>1. queue \in Seq(Entries) /\ e \in Entries /\ queue' = Append(queue, e) /\ Note(e) = Reply
  BY DEF Inv, TypeOK, Enqueue, Entries, Controls, Note
<1>2. NotesOf(queue') = Append(NotesOf(queue), Reply) /\ NotesOf(queue) \in Seq(Nat)
  BY <1>1, QueueAppended
<1>3. Reply \in Nat
  BY DEF Reply
<1>4. /\ Carried(Append(NotesOf(queue), Reply)) = Carried(NotesOf(queue)) \cup ({Reply} \ {Reply})
      /\ Rising(NotesOf(queue)) => Rising(Append(NotesOf(queue), Reply))
  BY <1>2, <1>3, Appended
<1> QED
  BY <1>1, <1>2, <1>4 DEF Inv, QueueInv

\* The notifications queued are numbers.
LEMMA QueueType ==
    ASSUME Inv
    PROVE  NotesOf(queue) \in Seq(Nat) /\ \A n \in Carried(NotesOf(queue)) : n \in Nat
<1>1. NotesOf(queue) \in Seq(Nat)
  BY NoteType DEF Inv, TypeOK, NotesOf
<1>2. \A i \in 1 .. Len(NotesOf(queue)) : NotesOf(queue)[i] \in Nat
  BY <1>1
<1> QED
  BY <1>1, <1>2 DEF Carried

\* A new notification is later than all that are on their way.
LEMMA NotifyInv == ASSUME Inv, Notify PROVE Inv'
<1>1. UNCHANGED <<handler, todo, target, current, txNotifications, client>>
      /\ notes' = notes + 1 /\ notes < MaxNotes /\ notes \in Nat
  BY DEF Notify, Inv, TypeOK
<1>2. CASE UNCHANGED queue
  <2>1. TypeOK' /\ InHand'
    BY <1>1, <1>2 DEF Inv, TypeOK, InHand, client
  <2>2. ASSUME NEW c \in Clients PROVE ClientInv(c)'
    <3>1. \A k \in 1 .. 9 : Line(c)'[k] \subseteq Line(c)[k]
      BY <1>1, <1>2 DEF Line, client, Notes
    <3> QED
      BY <1>1, <3>1, Dropped DEF Inv, ClientInv, client
  <2>3. QueueInv'
    BY <1>1, <1>2, QueueType DEF Inv, QueueInv
  <2> QED
    BY <2>1, <2>2, <2>3 DEF Inv
<1>3. CASE Enqueue(<<"note", notes + 1>>)
  <2> DEFINE e == <<"note", notes + 1>>
             m == notes + 1
  <2>1. e \in Entries /\ queue \in Seq(Entries) /\ queue' = Append(queue, e) /\ Note(e) = m
        /\ m \in Notes /\ m \in Nat /\ m # Reply
    BY <1>1, <1>3, WsAssumption DEF Inv, TypeOK, Entries, Notes, Enqueue, Note, Reply
  <2> HIDE DEF m
  <2>2. NotesOf(queue') = Append(NotesOf(queue), m) /\ NotesOf(queue) \in Seq(Nat)
    BY <2>1, QueueAppended
  <2>3. \A n \in Carried(NotesOf(queue)) : n \in Nat /\ n < m
    BY <1>1, QueueType DEF Inv, QueueInv, m
  <2>4. /\ Carried(NotesOf(queue')) = Carried(NotesOf(queue)) \cup ({m} \ {Reply})
        /\ Rising(NotesOf(queue'))
    <3>1. \A n \in Carried(NotesOf(queue)) : n < m
      BY <2>3
    <3>2. Rising(NotesOf(queue)) /\ m \in Nat
      BY <2>1 DEF Inv, QueueInv
    <3>3. /\ Carried(Append(NotesOf(queue), m)) = Carried(NotesOf(queue)) \cup ({m} \ {Reply})
          /\ Rising(Append(NotesOf(queue), m))
      BY <2>2, <3>1, <3>2, Appended
    <3> QED
      BY <2>2, <3>3
  <2>5. QueueInv'
    <3>1. notes' = m
      BY <1>1 DEF m
    <3>2. ASSUME NEW n \in Carried(NotesOf(queue')) PROVE n <= m
      <4>1. CASE n \in Carried(NotesOf(queue))
        BY <2>1, <2>3, <4>1
      <4>2. CASE n = m
        BY <2>1, <4>2
      <4> QED
        BY <2>4, <4>1, <4>2
    <3> QED
      BY <2>4, <3>1, <3>2 DEF QueueInv
  <2>6. ASSUME NEW c \in Clients PROVE ClientInv(c)'
    <3>1. Ordered(Line(c))
      BY DEF Inv, ClientInv
    <3>2. m \in Line(c)[9]
      BY <1>1, <2>1 DEF Line, Notes, m
    <3>3. Line(c)'[8] = Line(c)[8] \cup ({m} \ {Reply})
      BY <2>4 DEF Line
    <3>4. \A n \in Line(c)'[9] : m < n
      BY <1>1, <2>1 DEF Line, Notes, m
    <3>5. \A k \in 1 .. 9 : k # 8 => Line(c)'[k] \subseteq Line(c)[k]
      BY <1>1 DEF Line, client, Notes
    <3>6. Ordered(Line(c)')
      <4>1. Moves(Line(c), Line(c)', 9, 8, m)
        BY <2>1, <3>1, <3>2, <3>3, <3>4, <3>5 DEF Moves
      <4> QED
        BY <3>1, <4>1, Moved
    <3> QED
      BY <1>1, <3>6 DEF Inv, ClientInv, client
  <2>7. TypeOK' /\ InHand'
    BY <1>1, <2>1 DEF Inv, TypeOK, InHand, client
  <2> QED
    BY <2>5, <2>6, <2>7 DEF Inv
<1> QED
  BY <1>2, <1>3 DEF Notify

\* What the handler takes is the first of the queue; it has none in hand.
LEMMA HandlerTakesInv == ASSUME Inv, HandlerTakes PROVE Inv'
<1> DEFINE e == Head(queue)
           m == Note(e)
           tl == Tail(queue)
<1>1. /\ queue \in Seq(Entries) /\ queue # <<>> /\ queue' = tl
      /\ handler = "select" /\ todo = {} /\ target = {} /\ UNCHANGED <<target, notes, client>>
      /\ txNotifications \subseteq Clients
  BY DEF Inv, TypeOK, InHand, HandlerTakes
<1>2. e \in Entries /\ tl \in Seq(Entries)
  BY <1>1
<1>3. m \in Nat
  BY <1>2, NoteType
<1>4. /\ NotesOf(queue) \in Seq(Nat) /\ NotesOf(queue) # <<>>
      /\ m = Head(NotesOf(queue)) /\ NotesOf(tl) = Tail(NotesOf(queue))
  BY <1>1, QueueTaken
<1> HIDE DEF m, tl
<1>5. /\ m # Reply => m \in Carried(NotesOf(queue))
      /\ Carried(NotesOf(tl)) \subseteq Carried(NotesOf(queue))
      /\ Rising(NotesOf(queue)) =>
            /\ Rising(NotesOf(tl))
            /\ m # Reply => \A n \in Carried(NotesOf(tl)) : m < n
  BY <1>4, Taken
<1>6. QueueInv'
  BY <1>1, <1>5 DEF Inv, QueueInv
<1>7. CASE e[1] = "note"
  <2>1. /\ todo' = txNotifications /\ UNCHANGED txNotifications
        /\ handler' = IF txNotifications = {} THEN "select" ELSE "send"
        /\ current' = IF txNotifications = {} THEN Reply ELSE m
    BY <1>7 DEF HandlerTakes, Note, m
  <2>2. TypeOK' /\ InHand'
    BY <1>1, <1>2, <1>3, <2>1 DEF Inv, TypeOK, InHand, client, Reply, tl
  <2>3. ASSUME NEW c \in Clients PROVE ClientInv(c)'
    <3>1. Ordered(Line(c))
      BY DEF Inv, ClientInv
    <3>2. /\ Line(c)[8] = Carried(NotesOf(queue))
          /\ Line(c)'[8] = Carried(NotesOf(tl))
          /\ Line(c)'[7] \subseteq Line(c)[7] \cup ({m} \ {Reply})
      BY <1>1, <2>1 DEF Line
    <3>3. \A k \in 1 .. 9 : k # 7 => Line(c)'[k] \subseteq Line(c)[k]
      BY <1>1, <1>5 DEF Line, client
    <3>4. m # Reply => m \in Line(c)[8] /\ \A n \in Line(c)'[8] : m < n
      BY <1>5, <3>2 DEF Inv, QueueInv
    <3>5. Ordered(Line(c)')
      <4>1. CASE m = Reply
        <5>1. \A k \in 1 .. 9 : Line(c)'[k] \subseteq Line(c)[k]
          BY <3>2, <3>3, <4>1
        <5> QED
          BY <3>1, <5>1, Dropped
      <4>2. CASE m # Reply
        <5>1. m \in Line(c)[8] /\ \A n \in Line(c)'[8] : m < n
          BY <3>4, <4>2
        <5> QED
          <6>1. Moves(Line(c), Line(c)', 8, 7, m)
            BY <3>1, <3>2, <3>3, <4>2, <5>1 DEF Moves
          <6> QED
            BY <3>1, <6>1, Moved
      <4> QED
        BY <4>1, <4>2
    <3> QED
      BY <1>1, <3>5 DEF Inv, ClientInv, client
  <2> QED
    BY <1>6, <2>2, <2>3 DEF Inv
<1>8. CASE e[1] # "note"
  <2>1. UNCHANGED <<handler, todo, current>> /\ Control(e[1], e[2])
    BY <1>8 DEF HandlerTakes
  <2>2. e \in Controls
    BY <1>2, <1>8 DEF Entries
  <2>3. txNotifications' \subseteq Clients
    BY <1>1, <2>1, <2>2 DEF Control, Controls
  <2>4. TypeOK' /\ InHand'
    BY <1>1, <1>2, <2>1, <2>3 DEF Inv, TypeOK, InHand, client, tl
  <2>5. \A c \in Clients : ClientInv(c)'
    BY <1>1, <1>5, <2>1, ClientKeeps DEF Inv, client
  <2> QED
    BY <1>6, <2>4, <2>5 DEF Inv
<1> QED
  BY <1>7, <1>8

\* The handler looks whether the next client is connected.
LEMMA HandlerLooksInv == ASSUME Inv, NEW c \in Clients, HandlerLooks(c) PROVE Inv'
<1>1. /\ UNCHANGED <<queue, txNotifications, notes, client>>
      /\ handler = "send" /\ target = {} /\ c \in todo
      /\ \/ handler' = "select" /\ todo' = {} /\ current' = Reply /\ target' = {}
         \/ /\ handler' = "put" /\ todo' = todo \ {c} /\ target' = {c}
            /\ current' = current
  BY DEF HandlerLooks, Inv, InHand
<1>2. TypeOK'
  BY <1>1 DEF Inv, TypeOK, client, Reply
<1>3. InHand' /\ QueueInv'
  BY <1>1 DEF Inv, InHand, QueueInv
<1>4. todo' \cup target' \subseteq todo \cup target /\ current' \in {current, Reply}
  BY <1>1
<1>5. \A d \in Clients : ClientInv(d)'
  BY <1>1, <1>4, ClientKeeps DEF Inv, client
<1> QED
  BY <1>2, <1>3, <1>5 DEF Inv

\* The handler sends its notification to the client it found connected.
LEMMA HandlerPutsInv == ASSUME Inv, NEW c \in Clients, HandlerPuts(c) PROVE Inv'
<1>1. /\ UNCHANGED <<queue, txNotifications, notes, todo, nq, out, sendChan, pending,
                     waiting, nqMsg, outMsg, received>>
      /\ c \in target /\ c \notin todo /\ target' = {} /\ ntfnChan[c] = <<>>
      /\ ntfnChan' = [ntfnChan EXCEPT ![c] = <<current>>]
      /\ handler' = IF todo = {} THEN "select" ELSE "send"
      /\ current' \in {current, Reply}
  BY DEF HandlerPuts, Inv, InHand
<1>2. /\ ntfnChan \in OneChannels /\ current \in Nat
  BY DEF Inv, TypeOK
<1>3. ntfnChan' \in OneChannels
  BY <1>1, <1>2 DEF OneChannels
<1>4. TypeOK'
  <2>1. /\ handler' \in {"select", "send", "put", "done"} /\ current' \in Nat
        /\ todo' \subseteq Clients /\ target' \subseteq Clients
    BY <1>1, <1>2 DEF Inv, TypeOK, Reply
  <2> QED
    BY <1>1, <1>3, <2>1 DEF Inv, TypeOK
<1>5. InHand' /\ QueueInv'
  BY <1>1 DEF Inv, InHand, QueueInv
<1>6. ASSUME NEW d \in Clients \ {c} PROVE ClientInv(d)'
  <2>1. ntfnChan'[d] = ntfnChan[d] /\ todo' \cup target' \subseteq todo \cup target
    BY <1>1, <1>2
  <2> QED
    BY <1>1, <2>1, ClientKeeps DEF Inv
<1>7. ClientInv(c)'
  <2>1. Ordered(Line(c))
    BY DEF Inv, ClientInv
  <2>2. ntfnChan'[c] = <<current>> /\ Carried(<<current>>) = {current} \ {Reply}
    BY <1>1, <1>2 DEF Carried, OneChannels
  <2>3. Line(c)[7] = {current} \ {Reply} /\ Line(c)'[7] = {}
        /\ Line(c)'[6] = {current} \ {Reply}
    BY <1>1, <2>2 DEF Line
  <2>4. \A k \in 1 .. 9 : k # 6 => Line(c)'[k] \subseteq Line(c)[k]
    BY <1>1 DEF Line
  <2>5. Ordered(Line(c)')
    <3>1. Moves(Line(c), Line(c)', 7, 6, current)
      BY <2>1, <2>3, <2>4 DEF Moves
    <3> QED
      BY <2>1, <3>1, Moved
  <2> QED
    BY <1>1, <2>5 DEF Inv, ClientInv
<1> QED
  BY <1>4, <1>5, <1>6, <1>7 DEF Inv

\* The handler leaves what it holds when it quits.
LEMMA HandlerQuitsInv == ASSUME Inv, HandlerQuits PROVE Inv'
<1>1. /\ UNCHANGED <<queue, current, todo, target, txNotifications, notes, nq, waiting,
                     received, sendChan, pending, ntfnChan, nqMsg, outMsg, out>>
      /\ handler = "select" /\ handler' = "done"
  BY DEF HandlerQuits
<1>2. TypeOK' /\ InHand' /\ QueueInv'
  BY <1>1 DEF Inv, TypeOK, InHand, QueueInv
<1>3. \A c \in Clients : ClientInv(c)'
  BY <1>1, ClientKeeps DEF Inv
<1> QED
  BY <1>2, <1>3 DEF Inv

-----------------------------------------------------------------------------
(* The clients' own steps *)

\* A client is registered and its goroutines start.
LEMMA AddInv == ASSUME Inv, NEW c \in Clients, Add(c) PROVE Inv'
<1>1. /\ UNCHANGED <<handler, current, todo, target, notes, txNotifications, waiting,
                     received, sendChan, pending, ntfnChan, nqMsg, outMsg>>
      /\ nq' = [nq EXCEPT ![c] = "select"] /\ out' = [out EXCEPT ![c] = "select"]
      /\ Enqueue(<<"register", c>>)
  BY DEF Add
<1>2. PICK e \in Controls : e = <<"register", c>> /\ Enqueue(e)
  BY <1>1 DEF Controls
<1>3. /\ queue' \in Seq(Entries) /\ QueueInv'
      /\ Carried(NotesOf(queue))' \subseteq Carried(NotesOf(queue))
  BY <1>1, <1>2, ControlQueued
<1>4. TypeOK'
  BY <1>1, <1>3 DEF Inv, TypeOK
<1>5. \A d \in Clients \ {c} : nq'[d] = nq[d] /\ out'[d] = out[d]
  BY <1>1 DEF Inv, TypeOK
<1>6. nq'[c] = "select" /\ out'[c] = "select"
  BY <1>1 DEF Inv, TypeOK
<1>7. ClientInv(c)'
  BY <1>1, <1>3, <1>6, ClientKeeps DEF Inv
<1> QED
  BY <1>1, <1>3, <1>4, <1>5, <1>7, OneClient

\* Removing a client and subscribing change the manager's queue only.
LEMMA QueuedInv ==
    ASSUME Inv, NEW e \in Controls, Enqueue(e) \/ UNCHANGED queue,
           UNCHANGED <<handler, current, todo, target, notes, txNotifications, nq, waiting,
                       received, sendChan, pending, ntfnChan, nqMsg, outMsg, out>>
    PROVE  Inv'
<1>1. /\ queue' \in Seq(Entries) /\ QueueInv'
      /\ Carried(NotesOf(queue))' \subseteq Carried(NotesOf(queue))
  <2>1. CASE Enqueue(e)
    BY <2>1, ControlQueued
  <2>2. CASE UNCHANGED queue
    BY <2>2 DEF Inv, TypeOK, QueueInv
  <2> QED
    BY <2>1, <2>2
<1>2. TypeOK' /\ InHand'
  BY <1>1 DEF Inv, TypeOK, InHand
<1>3. \A c \in Clients : ClientInv(c)'
  BY <1>1, ClientKeeps DEF Inv
<1> QED
  BY <1>1, <1>2, <1>3 DEF Inv

\* A client is unregistered when its goroutines have ended.
LEMMA RemoveInv == ASSUME Inv, NEW c \in Clients, Remove(c) PROVE Inv'
<1>1. PICK e \in Controls : e = <<"unregister", c>>
  BY DEF Controls
<1> QED
  BY <1>1, QueuedInv DEF Remove

\* A subscription is queued behind the notifications there are.
LEMMA ServiceSubscribesInv ==
    ASSUME Inv, NEW c \in Clients, ServiceSubscribes(c) PROVE Inv'
<1>1. PICK e \in Controls : e = <<"subscribe", c>>
  BY DEF Controls
<1> QED
  BY <1>1, QueuedInv DEF ServiceSubscribes

\* What inHandler and a service send is no notification.
LEMMA ReplyInv ==
    ASSUME Inv, NEW c \in Clients,
           sendChan' = [sendChan EXCEPT ![c] = Append(@, Reply)],
           UNCHANGED <<queue, handler, current, todo, target, notes, txNotifications, nq,
                       waiting, received, pending, ntfnChan, nqMsg, outMsg, out>>
    PROVE  Inv'
<1>1. sendChan \in [Clients -> Seq(Nat)] /\ Reply \in Nat
  BY DEF Inv, TypeOK, Reply
<1>2. /\ sendChan'[c] = Append(sendChan[c], Reply) /\ sendChan[c] \in Seq(Nat)
      /\ \A d \in Clients \ {c} : sendChan'[d] = sendChan[d]
      /\ sendChan' \in [Clients -> Seq(Nat)]
  BY <1>1
<1>3. /\ Carried(sendChan'[c]) = Carried(sendChan[c]) \cup ({Reply} \ {Reply})
      /\ Rising(sendChan[c]) => Rising(sendChan'[c])
  BY <1>1, <1>2, Appended
<1>4. ClientInv(c)'
  <2>1. \A k \in 1 .. 9 : Line(c)'[k] \subseteq Line(c)[k]
    BY <1>3 DEF Line
  <2> QED
    BY <1>3, <2>1, Dropped DEF Inv, ClientInv
<1>5. TypeOK'
  BY <1>2 DEF Inv, TypeOK
<1> QED
  BY <1>2, <1>4, <1>5, ClientAlone

\* The first waits for no answer and has none pending before it; the others
\* go to the end of the pending list.
LEMMA NqTakesInv == ASSUME Inv, NEW c \in Clients, NqTakes(c) PROVE Inv'
<1>1. /\ UNCHANGED <<queue, handler, current, todo, target, notes, txNotifications,
                     received, sendChan, outMsg, out>>
      /\ nq[c] = "select" /\ ntfnChan[c] # <<>>
      /\ ntfnChan' = [ntfnChan EXCEPT ![c] = <<>>]
      /\ waiting' = [waiting EXCEPT ![c] = TRUE]
  BY DEF NqTakes, manager
<1>2. /\ ntfnChan \in OneChannels
      /\ waiting \in [Clients -> BOOLEAN] /\ pending \in [Clients -> Seq(Nat)]
      /\ nqMsg \in [Clients -> Nat]
      /\ nq \in [Clients -> {"none", "select", "send", "push", "done"}]
  BY DEF Inv, TypeOK
<1>3. PICK m \in Nat : ntfnChan[c] = <<m>>
  BY <1>1, <1>2 DEF OneChannels
<1>4. Carried(<<m>>) = {m} \ {Reply} /\ Carried(<<>>) = {}
  BY DEF Carried
<1>5. /\ ntfnChan' \in OneChannels
      /\ waiting' \in [Clients -> BOOLEAN]
      /\ ntfnChan'[c] = <<>> /\ waiting'[c] = TRUE
      /\ \A d \in Clients \ {c} : ntfnChan'[d] = ntfnChan[d] /\ waiting'[d] = waiting[d]
  BY <1>1, <1>2 DEF OneChannels
<1>6. Line(c)[6] = {m} \ {Reply} /\ Line(c)'[6] = {} /\ Ordered(Line(c))
  <2>1. Line(c)[6] = Carried(ntfnChan[c]) /\ Line(c)'[6] = Carried(ntfnChan'[c])
    BY DEF Line
  <2>2. Ordered(Line(c))
    BY DEF Inv, ClientInv
  <2> QED
    BY <1>3, <1>4, <1>5, <2>1, <2>2, Zenon
<1>7. CASE waiting[c]
  <2>1. /\ UNCHANGED <<nq, nqMsg>>
        /\ pending' = [pending EXCEPT ![c] = @ \o <<m>>]
    BY <1>3, <1>7 DEF NqTakes
  <2>2. pending[c] \o <<m>> = Append(pending[c], m) /\ pending[c] \in Seq(Nat)
    BY <1>2
  <2>3. /\ pending'[c] = Append(pending[c], m) /\ pending' \in [Clients -> Seq(Nat)]
        /\ \A d \in Clients \ {c} : pending'[d] = pending[d]
    BY <1>2, <2>1, <2>2
  <2>4. m # Reply => \A n \in Carried(pending[c]) : n < m
    BY <1>6 DEF Ordered, Line
  <2>5. /\ Carried(pending'[c]) = Carried(pending[c]) \cup ({m} \ {Reply})
        /\ Rising(pending[c]) => Rising(pending'[c])
    BY <2>2, <2>3, <2>4, Appended
  <2>6. Line(c)'[5] = Line(c)[5] \cup ({m} \ {Reply})
    BY <2>5 DEF Line
  <2>7. \A k \in 1 .. 9 : k # 5 => Line(c)'[k] \subseteq Line(c)[k]
    BY <1>1, <1>6, <2>1 DEF Line
  <2>8. Ordered(Line(c)')
    <3>1. Moves(Line(c), Line(c)', 6, 5, m)
      BY <1>6, <2>6, <2>7 DEF Moves
    <3> QED
      BY <1>6, <3>1, Moved
  <2>9. ClientInv(c)'
    BY <1>1, <1>5, <2>5, <2>8 DEF Inv, ClientInv
  <2>10. TypeOK'
    BY <1>1, <1>5, <2>1, <2>3 DEF Inv, TypeOK
  <2> QED
    BY <1>1, <1>5, <2>1, <2>3, <2>9, <2>10, ClientAlone
<1>8. CASE ~waiting[c]
  <2>1. /\ UNCHANGED pending
        /\ nqMsg' = [nqMsg EXCEPT ![c] = m] /\ nq' = [nq EXCEPT ![c] = "send"]
    BY <1>3, <1>8 DEF NqTakes
  <2>2. /\ nqMsg' \in [Clients -> Nat] /\ nqMsg'[c] = m /\ nq'[c] = "send"
        /\ nq' \in [Clients -> {"none", "select", "send", "push", "done"}]
        /\ \A d \in Clients \ {c} : nqMsg'[d] = nqMsg[d] /\ nq'[d] = nq[d]
    BY <1>2, <2>1
  <2>3. pending[c] = <<>>
    BY <1>8 DEF Inv, ClientInv
  <2>4. Line(c)'[5] = {} /\ Line(c)[4] = {} /\ Line(c)'[4] = {m} \ {Reply}
    BY <1>1, <1>4, <2>1, <2>2, <2>3 DEF Line
  <2>5. \A k \in 1 .. 9 : k # 4 => Line(c)'[k] \subseteq Line(c)[k]
    BY <1>1, <1>6, <2>1, <2>2 DEF Line
  <2>6. \A k \in 1 .. 9 : 4 < k /\ k < 6 => Line(c)'[k] = {}
    BY <2>4
  <2>7. Ordered(Line(c)')
    <3>1. Moves(Line(c), Line(c)', 6, 4, m)
      BY <1>6, <2>4, <2>5, <2>6 DEF Moves
    <3> QED
      BY <1>6, <3>1, Moved
  <2>8. ClientInv(c)'
    BY <1>1, <1>5, <2>1, <2>7 DEF Inv, ClientInv
  <2>9. TypeOK'
    BY <1>1, <1>5, <2>1, <2>2 DEF Inv, TypeOK
  <2> QED
    BY <1>1, <1>5, <2>1, <2>2, <2>8, <2>9, ClientAlone
<1> QED
  BY <1>7, <1>8

\* When one has been sent or given up, the next pending one is taken.
LEMMA NqSentInv == ASSUME Inv, NEW c \in Clients, NqSent(c) PROVE Inv'
<1>1. /\ UNCHANGED <<queue, handler, current, todo, target, notes, txNotifications,
                     received, sendChan, ntfnChan, outMsg, out>>
      /\ nq[c] = "select"
  BY DEF NqSent, manager
<1>2. /\ waiting \in [Clients -> BOOLEAN] /\ pending \in [Clients -> Seq(Nat)]
      /\ nqMsg \in [Clients -> Nat]
      /\ nq \in [Clients -> {"none", "select", "send", "push", "done"}]
  BY DEF Inv, TypeOK
<1>3. CASE pending[c] = <<>>
  <2>1. waiting' = [waiting EXCEPT ![c] = FALSE] /\ UNCHANGED <<nq, nqMsg, pending>>
    BY <1>3 DEF NqSent
  <2>2. \A k \in 1 .. 9 : Line(c)'[k] \subseteq Line(c)[k]
    BY <1>1, <2>1 DEF Line
  <2>3. Ordered(Line(c)')
    BY <2>2, Dropped DEF Inv, ClientInv
  <2>4. ClientInv(c)'
    BY <1>1, <1>3, <2>1, <2>3 DEF Inv, ClientInv
  <2>5. waiting' \in [Clients -> BOOLEAN] /\ \A d \in Clients \ {c} : waiting'[d] = waiting[d]
    BY <1>2, <2>1
  <2>6. TypeOK'
    BY <1>1, <2>1, <2>5 DEF Inv, TypeOK
  <2> QED
    BY <1>1, <2>1, <2>4, <2>5, <2>6, ClientAlone
<1>4. CASE pending[c] # <<>>
  <2> DEFINE m == Head(pending[c])
  <2>1. /\ nqMsg' = [nqMsg EXCEPT ![c] = m] /\ nq' = [nq EXCEPT ![c] = "send"]
        /\ pending' = [pending EXCEPT ![c] = Tail(@)] /\ UNCHANGED waiting
    BY <1>4 DEF NqSent
  <2>2. pending[c] \in Seq(Nat)
    BY <1>2
  <2>3. /\ m \in Nat /\ Tail(pending[c]) \in Seq(Nat)
        /\ m # Reply => m \in Carried(pending[c])
        /\ Carried(Tail(pending[c])) \subseteq Carried(pending[c])
        /\ Rising(Tail(pending[c]))
        /\ m # Reply => \A n \in Carried(Tail(pending[c])) : m < n
    BY <1>4, <2>2, Taken DEF Inv, ClientInv
  <2> HIDE DEF m
  <2>4. /\ nqMsg' \in [Clients -> Nat] /\ nqMsg'[c] = m /\ nq'[c] = "send"
        /\ nq' \in [Clients -> {"none", "select", "send", "push", "done"}]
        /\ pending' \in [Clients -> Seq(Nat)] /\ pending'[c] = Tail(pending[c])
        /\ \A d \in Clients \ {c} :
              nqMsg'[d] = nqMsg[d] /\ nq'[d] = nq[d] /\ pending'[d] = pending[d]
    BY <1>2, <2>1, <2>3
  <2>5. /\ Line(c)[5] = Carried(pending[c]) /\ Line(c)'[5] = Carried(Tail(pending[c]))
        /\ Line(c)'[4] = {m} \ {Reply}
    BY <1>1, <2>4 DEF Line
  <2>0. Ordered(Line(c))
    BY DEF Inv, ClientInv
  <2>6. \A k \in 1 .. 9 : k # 4 => Line(c)'[k] \subseteq Line(c)[k]
    BY <1>1, <2>3, <2>4, <2>5 DEF Line
  <2>7. m # Reply => m \in Line(c)[5] /\ \A n \in Line(c)'[5] : m < n
    BY <2>3, <2>5
  <2>8. Ordered(Line(c)')
    <3>1. CASE m = Reply
      <4>1. \A k \in 1 .. 9 : Line(c)'[k] \subseteq Line(c)[k]
        BY <2>5, <2>6, <3>1
      <4> QED
        BY <2>0, <4>1, Dropped
    <3>2. CASE m # Reply
      <4>1. m \in Line(c)[5] /\ \A n \in Line(c)'[5] : m < n
        BY <2>7, <3>2
      <4>2. Line(c)'[4] \subseteq Line(c)[4] \cup ({m} \ {Reply})
        BY <2>5
      <4> QED
        <5>1. Moves(Line(c), Line(c)', 5, 4, m)
          BY <2>0, <2>6, <3>2, <4>1, <4>2 DEF Moves
        <5> QED
          BY <2>0, <5>1, Moved
    <3> QED
      BY <3>1, <3>2
  <2>9. ClientInv(c)'
    BY <1>1, <1>4, <2>1, <2>3, <2>4, <2>8 DEF Inv, ClientInv
  <2>10. TypeOK'
    BY <1>1, <2>1, <2>4 DEF Inv, TypeOK
  <2> QED
    BY <1>1, <2>1, <2>4, <2>9, <2>10, ClientAlone
<1> QED
  BY <1>3, <1>4

\* SendMessage looks at the client; when that is gone, it answers itself.
LEMMA NqSendsInv == ASSUME Inv, NEW c \in Clients, NqSends(c) PROVE Inv'
<1>1. /\ UNCHANGED <<queue, handler, current, todo, target, notes, txNotifications, waiting,
                     received, sendChan, pending, ntfnChan, nqMsg, outMsg, out>>
      /\ nq[c] = "send"
      /\ nq' = [nq EXCEPT ![c] = "select"] \/ nq' = [nq EXCEPT ![c] = "push"]
  BY DEF NqSends, manager
<1>2. /\ nq' \in [Clients -> {"none", "select", "send", "push", "done"}]
      /\ \A d \in Clients \ {c} : nq'[d] = nq[d]
  BY <1>1 DEF Inv, TypeOK
<1>3. TypeOK'
  BY <1>1, <1>2 DEF Inv, TypeOK
<1>4. ClientInv(c)'
  BY <1>1, ClientKeeps DEF Inv
<1> QED
  BY <1>1, <1>2, <1>3, <1>4, ClientAlone

\* SendMessage puts the notification behind the others.
LEMMA NqPushesInv == ASSUME Inv, NEW c \in Clients, NqPushes(c) PROVE Inv'
<1>1. /\ UNCHANGED <<queue, handler, current, todo, target, notes, txNotifications, waiting,
                     received, pending, ntfnChan, nqMsg, outMsg, out>>
      /\ nq[c] = "push"
      /\ nq' = [nq EXCEPT ![c] = "select"]
      /\ sendChan' = [sendChan EXCEPT ![c] = Append(@, nqMsg[c])]
  BY DEF NqPushes, manager
<1>2. /\ nq \in [Clients -> {"none", "select", "send", "push", "done"}]
      /\ sendChan \in [Clients -> Seq(Nat)] /\ nqMsg[c] \in Nat
  BY DEF Inv, TypeOK
<1> DEFINE m == nqMsg[c]
<1>3. /\ nq' \in [Clients -> {"none", "select", "send", "push", "done"}]
      /\ sendChan' \in [Clients -> Seq(Nat)] /\ sendChan[c] \in Seq(Nat)
      /\ nq'[c] = "select" /\ sendChan'[c] = Append(sendChan[c], m)
      /\ \A d \in Clients \ {c} : nq'[d] = nq[d] /\ sendChan'[d] = sendChan[d]
  BY <1>1, <1>2
<1>4. /\ Line(c)[4] = {m} \ {Reply} /\ Line(c)'[4] = {}
      /\ Line(c)[3] = Carried(sendChan[c])
  BY <1>1, <1>3 DEF Line
<1>5. Ordered(Line(c))
  BY DEF Inv, ClientInv
<1>6. m # Reply => \A n \in Carried(sendChan[c]) : n < m
  BY <1>4, <1>5 DEF Ordered
<1> HIDE DEF m
<1>7. /\ Carried(sendChan'[c]) = Carried(sendChan[c]) \cup ({m} \ {Reply})
      /\ Rising(sendChan[c]) => Rising(sendChan'[c])
  BY <1>2, <1>3, <1>6, Appended DEF m
<1>8. Line(c)'[3] = Line(c)[3] \cup ({m} \ {Reply})
  BY <1>7 DEF Line
<1>9. \A k \in 1 .. 9 : k # 3 => Line(c)'[k] \subseteq Line(c)[k]
  BY <1>1, <1>4 DEF Line
<1>10. Ordered(Line(c)')
  <2>1. Moves(Line(c), Line(c)', 4, 3, m)
    BY <1>4, <1>5, <1>8, <1>9 DEF Moves
  <2> QED
    BY <1>5, <2>1, Moved
<1>11. ClientInv(c)'
  BY <1>1, <1>7, <1>10 DEF Inv, ClientInv
<1>12. TypeOK'
  BY <1>1, <1>3 DEF Inv, TypeOK
<1> QED
  BY <1>1, <1>3, <1>11, <1>12, ClientAlone

\* The queue of a client that quits drains its channels.
LEMMA NqQuitsInv == ASSUME Inv, NEW c \in Clients, NqQuits(c) PROVE Inv'
<1>1. /\ UNCHANGED <<queue, handler, current, todo, target, notes, txNotifications, waiting,
                     received, sendChan, pending, nqMsg, outMsg, out>>
      /\ nq[c] = "select"
      /\ nq' = [nq EXCEPT ![c] = "done"]
      /\ ntfnChan' = [ntfnChan EXCEPT ![c] = <<>>]
  BY DEF NqQuits, manager
<1>2. /\ nq' \in [Clients -> {"none", "select", "send", "push", "done"}]
      /\ ntfnChan' \in OneChannels
      /\ nq'[c] = "done" /\ ntfnChan'[c] = <<>>
      /\ \A d \in Clients \ {c} : nq'[d] = nq[d] /\ ntfnChan'[d] = ntfnChan[d]
  BY <1>1 DEF Inv, TypeOK, OneChannels
<1>3. TypeOK'
  BY <1>1, <1>2 DEF Inv, TypeOK
<1>4. \A k \in 1 .. 9 : Line(c)'[k] \subseteq Line(c)[k]
  BY <1>1, <1>2 DEF Line, Carried
<1>5. ClientInv(c)'
  BY <1>1, <1>4, Dropped DEF Inv, ClientInv
<1> QED
  BY <1>1, <1>2, <1>3, <1>5, ClientAlone

\* The writer takes a message that is later than all it has written.
LEMMA OutTakesInv == ASSUME Inv, NEW c \in Clients, OutTakes(c) PROVE Inv'
<1> DEFINE m == Head(sendChan[c])
<1>1. /\ UNCHANGED <<queue, handler, current, todo, target, notes, txNotifications, nq,
                     waiting, received, pending, ntfnChan, nqMsg>>
      /\ sendChan[c] # <<>>
      /\ out[c] = "select" /\ out' = [out EXCEPT ![c] = "write"]
      /\ outMsg' = [outMsg EXCEPT ![c] = m]
      /\ sendChan' = [sendChan EXCEPT ![c] = Tail(@)]
  BY DEF OutTakes, manager
<1>2. /\ out \in [Clients -> {"none", "select", "write", "drain", "done"}]
      /\ sendChan \in [Clients -> Seq(Nat)] /\ outMsg \in [Clients -> Nat]
      /\ sendChan[c] \in Seq(Nat)
  BY DEF Inv, TypeOK
<1>3. /\ m \in Nat /\ Tail(sendChan[c]) \in Seq(Nat)
      /\ m # Reply => m \in Carried(sendChan[c])
      /\ Carried(Tail(sendChan[c])) \subseteq Carried(sendChan[c])
      /\ Rising(Tail(sendChan[c]))
      /\ m # Reply => \A n \in Carried(Tail(sendChan[c])) : m < n
  BY <1>1, <1>2, Taken DEF Inv, ClientInv
<1> HIDE DEF m
<1>4. /\ out' \in [Clients -> {"none", "select", "write", "drain", "done"}]
      /\ sendChan' \in [Clients -> Seq(Nat)] /\ outMsg' \in [Clients -> Nat]
      /\ out'[c] = "write" /\ sendChan'[c] = Tail(sendChan[c]) /\ outMsg'[c] = m
      /\ \A d \in Clients \ {c} :
            out'[d] = out[d] /\ sendChan'[d] = sendChan[d] /\ outMsg'[d] = outMsg[d]
  BY <1>1, <1>2, <1>3
<1>5. /\ Line(c)[3] = Carried(sendChan[c]) /\ Line(c)'[3] = Carried(Tail(sendChan[c]))
      /\ Line(c)'[2] = {m} \ {Reply}
  BY <1>1, <1>4 DEF Line
<1>6. \A k \in 1 .. 9 : k # 2 => Line(c)'[k] \subseteq Line(c)[k]
  BY <1>1, <1>3, <1>4 DEF Line
<1>7. Ordered(Line(c))
  BY DEF Inv, ClientInv
<1>8. Ordered(Line(c)')
  <2>1. CASE m = Reply
    <3>1. \A k \in 1 .. 9 : Line(c)'[k] \subseteq Line(c)[k]
      BY <1>5, <1>6, <2>1
    <3> QED
      BY <1>7, <3>1, Dropped
  <2>2. CASE m # Reply
    <3>1. m \in Line(c)[3] /\ \A n \in Line(c)'[3] : m < n
      BY <1>3, <1>5, <2>2
    <3>2. Line(c)'[2] \subseteq Line(c)[2] \cup ({m} \ {Reply})
      BY <1>5
    <3> QED
      <4>1. Moves(Line(c), Line(c)', 3, 2, m)
        BY <1>6, <1>7, <2>2, <3>1, <3>2 DEF Moves
      <4> QED
        BY <1>7, <4>1, Moved
  <2> QED
    BY <2>1, <2>2
<1>9. ClientInv(c)'
  BY <1>1, <1>3, <1>4, <1>8 DEF Inv, ClientInv
<1>10. TypeOK'
  BY <1>1, <1>4 DEF Inv, TypeOK
<1> QED
  BY <1>1, <1>4, <1>9, <1>10, ClientAlone

\* The client receives the message the writer has taken.
LEMMA OutWritesInv == ASSUME Inv, NEW c \in Clients, OutWrites(c) PROVE Inv'
<1> DEFINE m == outMsg[c]
<1>1. /\ UNCHANGED <<queue, handler, current, todo, target, notes, txNotifications, nq,
                     waiting, sendChan, pending, ntfnChan, nqMsg>>
      /\ out[c] = "write" /\ out' = [out EXCEPT ![c] = "select"]
      /\ outMsg' = [outMsg EXCEPT ![c] = Reply]
      /\ received' = [received EXCEPT ![c] = IF m = Reply THEN @ ELSE Append(@, m)]
  BY DEF OutWrites, manager
<1>2. /\ out \in [Clients -> {"none", "select", "write", "drain", "done"}]
      /\ received \in [Clients -> Seq(Nat \ {0})] /\ outMsg \in [Clients -> Nat]
      /\ received[c] \in Seq(Nat \ {0}) /\ m \in Nat /\ Reply \in Nat
  BY DEF Inv, TypeOK, Reply
<1>3. /\ Line(c)[2] = {m} \ {Reply} /\ Line(c)[1] = Carried(received[c])
  BY <1>1 DEF Line
<1>4. Ordered(Line(c))
  BY DEF Inv, ClientInv
<1>5. m # Reply => \A n \in Carried(received[c]) : n < m
  BY <1>3, <1>4 DEF Ordered
<1> HIDE DEF m
<1>6. PICK r \in Seq(Nat \ {0}) :
          /\ r = IF m = Reply THEN received[c] ELSE Append(received[c], m)
          /\ Carried(r) \subseteq Carried(received[c]) \cup ({m} \ {Reply})
          /\ Rising(received[c]) => Rising(r)
  <2>1. CASE m = Reply
    BY <1>2, <2>1
  <2>2. CASE m # Reply
    <3>1. m \in Nat \ {0} /\ Append(received[c], m) \in Seq(Nat \ {0})
      BY <1>2, <2>2 DEF Reply
    <3>2. \A n \in Carried(received[c]) : n < m
      BY <1>5, <2>2
    <3> DEFINE s == received[c]
               S == Nat \ {0}
    <3> HIDE DEF s, S
    <3>0. s \in Seq(S) /\ m \in S
      BY <1>2, <3>1 DEF s, S
    <3>3. /\ Carried(Append(s, m)) = Carried(s) \cup ({m} \ {Reply})
          /\ Rising(s) => Rising(Append(s, m))
      <4>1. \A n \in Carried(s) : n < m
        BY <3>2 DEF s
      <4> QED
        BY <3>0, <4>1, Appended
    <3> USE DEF s
    <3> QED
      BY <2>2, <3>1, <3>3
  <2> QED
    BY <2>1, <2>2
<1>7. /\ out' \in [Clients -> {"none", "select", "write", "drain", "done"}]
      /\ received' \in [Clients -> Seq(Nat \ {0})] /\ outMsg' \in [Clients -> Nat]
      /\ out'[c] = "select" /\ received'[c] = r
      /\ \A d \in Clients \ {c} :
            out'[d] = out[d] /\ received'[d] = received[d] /\ outMsg'[d] = outMsg[d]
  BY <1>1, <1>2, <1>6
<1>8. /\ Line(c)'[2] = {} /\ Line(c)'[1] \subseteq Line(c)[1] \cup ({m} \ {Reply})
  BY <1>3, <1>6, <1>7 DEF Line
<1>9. \A k \in 1 .. 9 : k # 1 => Line(c)'[k] \subseteq Line(c)[k]
  BY <1>1, <1>8 DEF Line
<1>10. Ordered(Line(c)')
  <2>1. CASE m = Reply
    <3>1. \A k \in 1 .. 9 : Line(c)'[k] \subseteq Line(c)[k]
      BY <1>8, <1>9, <2>1
    <3> QED
      BY <1>4, <3>1, Dropped
  <2>2. CASE m # Reply
    <3>1. m \in Line(c)[2] /\ Line(c)'[2] = {}
      BY <1>3, <1>8, <2>2
    <3>2. Line(c)'[1] \subseteq Line(c)[1] \cup ({m} \ {Reply})
      BY <1>8
    <3> QED
      <4>1. Moves(Line(c), Line(c)', 2, 1, m)
        BY <1>4, <1>9, <2>2, <3>1, <3>2 DEF Moves
      <4> QED
        BY <1>4, <4>1, Moved
  <2> QED
    BY <2>1, <2>2
<1>11. ClientInv(c)'
  BY <1>1, <1>6, <1>7, <1>10 DEF Inv, ClientInv
<1>12. TypeOK'
  BY <1>1, <1>7 DEF Inv, TypeOK
<1> QED
  BY <1>1, <1>7, <1>11, <1>12, ClientAlone

\* Writing fails, or there is nothing to write any more: the rest is dropped.
LEMMA OutEndsInv ==
    ASSUME Inv, NEW c \in Clients, OutFails(c) \/ OutQuits(c) \/ OutDrains(c) PROVE Inv'
<1>1. /\ UNCHANGED <<queue, handler, current, todo, target, notes, txNotifications, nq,
                     waiting, received, pending, ntfnChan, nqMsg>>
      /\ \/ out' = [out EXCEPT ![c] = "drain"]
         \/ out' = [out EXCEPT ![c] = "done"]
         \/ out[c] = "drain" /\ UNCHANGED out
      /\ outMsg' = [outMsg EXCEPT ![c] = Reply] \/ UNCHANGED outMsg
      /\ \/ UNCHANGED sendChan
         \/ sendChan[c] # <<>> /\ sendChan' = [sendChan EXCEPT ![c] = Tail(@)]
  BY DEF OutFails, OutQuits, OutDrains, manager
<1>2. /\ out \in [Clients -> {"none", "select", "write", "drain", "done"}]
      /\ sendChan \in [Clients -> Seq(Nat)] /\ outMsg \in [Clients -> Nat]
      /\ sendChan[c] \in Seq(Nat) /\ Reply \in Nat
  BY DEF Inv, TypeOK, Reply
<1>3. /\ out' \in [Clients -> {"none", "select", "write", "drain", "done"}]
      /\ outMsg' \in [Clients -> Nat] /\ out'[c] # "write"
      /\ \A d \in Clients \ {c} : out'[d] = out[d] /\ outMsg'[d] = outMsg[d]
  BY <1>1, <1>2
<1>4. /\ sendChan' \in [Clients -> Seq(Nat)]
      /\ Carried(sendChan'[c]) \subseteq Carried(sendChan[c])
      /\ Rising(sendChan[c]) => Rising(sendChan'[c])
      /\ \A d \in Clients \ {c} : sendChan'[d] = sendChan[d]
  <2>1. CASE UNCHANGED sendChan
    BY <1>2, <2>1
  <2>2. CASE sendChan[c] # <<>> /\ sendChan' = [sendChan EXCEPT ![c] = Tail(@)]
    <3>1. /\ Tail(sendChan[c]) \in Seq(Nat)
          /\ Carried(Tail(sendChan[c])) \subseteq Carried(sendChan[c])
          /\ Rising(sendChan[c]) => Rising(Tail(sendChan[c]))
      BY <1>2, <2>2, Taken
    <3> QED
      BY <1>2, <2>2, <3>1
  <2> QED
    BY <1>1, <2>1, <2>2
<1>5. TypeOK'
  BY <1>1, <1>3, <1>4 DEF Inv, TypeOK
<1>6. \A k \in 1 .. 9 : Line(c)'[k] \subseteq Line(c)[k]
  BY <1>1, <1>3, <1>4 DEF Line
<1>7. ClientInv(c)'
  BY <1>1, <1>4, <1>6, Dropped DEF Inv, ClientInv
<1> QED
  BY <1>1, <1>3, <1>4, <1>5, <1>7, ClientAlone

-----------------------------------------------------------------------------
\* Every step preserves the invariant.
LEMMA StepInv == Inv /\ [Next]_vars => Inv'
<1> SUFFICES ASSUME Inv, [Next]_vars PROVE Inv'
  OBVIOUS
<1>1. CASE UNCHANGED vars
  BY <1>1, Aside DEF vars, manager, client, line
<1>2. CASE Manager
  <2>1. QueueHandlerQuits \/ Shutdown => UNCHANGED line
    BY DEF QueueHandlerQuits, Shutdown, client, line
  <2> QED
    BY <1>2, <2>1, Aside, NotifyInv, HandlerTakesInv, HandlerLooksInv, HandlerPutsInv,
       HandlerQuitsInv DEF Manager
<1>3. ASSUME NEW c \in Clients, Connection(c) PROVE Inv'
  <2>1. Connect(c) \/ Count(c) => UNCHANGED line
    BY DEF Connect, Count, manager, line
  <2> QED
    BY <1>3, <2>1, Aside, AddInv, RemoveInv DEF Connection
<1>4. ASSUME NEW c \in Clients, Requests(c) PROVE Inv'
  <2>1. InReads(c) \/ InEnds(c) \/ InServes(c) \/ InReplies(c) \/ ServiceRuns(c)
            \/ ServiceReplies(c) => UNCHANGED line
    BY DEF InReads, InEnds, InServes, InReplies, ServiceRuns, ServiceReplies, manager, line
  <2>2. InPushes(c) => Inv'
    BY ReplyInv DEF InPushes, manager
  <2>3. ServicePushes(c) => Inv'
    BY ReplyInv DEF ServicePushes, manager
  <2> QED
    BY <1>4, <2>1, <2>2, <2>3, Aside, ServiceSubscribesInv DEF Requests
<1>5. ASSUME NEW c \in Clients, Sending(c) PROVE Inv'
  BY <1>5, NqTakesInv, NqSentInv, NqSendsInv, NqPushesInv, NqQuitsInv, OutTakesInv,
     OutWritesInv, OutEndsInv DEF Sending
<1> QED
  BY <1>1, <1>2, <1>3, <1>4, <1>5 DEF Next

\* In every reachable state what is on its way to a client is in order from queue
\* to socket, and later than all the client has received.
THEOREM Invariance == Spec => []Inv
BY InitInv, StepInv, PTL DEF Spec

\* Every client is told in the order in which the wallet gave the notifications,
\* and of none twice.
THEOREM ToldInOrder == Spec => []InOrder
<1>1. Inv => InOrder
  <2> SUFFICES ASSUME Inv, NEW c \in Clients, NEW i \in DOMAIN received[c],
                      NEW j \in DOMAIN received[c], i < j
               PROVE  received[c][i] < received[c][j]
    BY DEF InOrder
  <2>1. received[c] \in Seq(Nat \ {0}) /\ Rising(received[c])
    BY DEF Inv, TypeOK, ClientInv
  <2>2. /\ i \in 1 .. Len(received[c]) /\ received[c][i] # Reply
        /\ j \in 1 .. Len(received[c]) /\ received[c][j] # Reply
    BY <2>1 DEF Reply
  <2> QED
    BY <2>1, <2>2 DEF Rising
<1> QED
  BY <1>1, Invariance, PTL
=============================================================================
