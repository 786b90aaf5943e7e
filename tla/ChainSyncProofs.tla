-------------------------- MODULE ChainSyncProofs --------------------------
(***************************************************************************)
(* That the wallet's hashes, its blocks and the chain server's agree, for  *)
(* every tree of blocks and however often the connection is lost and the   *)
(* process stops.                                                          *)
(***************************************************************************)
EXTENDS ChainSync, BlockTreeProofs

-----------------------------------------------------------------------------
(* Blocks and the server's answers *)

\* The genesis block is the one at height 0, and the first of every branch.
LEMMA GenesisFirst ==
    ASSUME NEW b \in Blocks
    PROVE  /\ Height[b] \in Nat /\ Height[b] \in Heights /\ 0 \in Heights
           /\ Height[b] = 0 => b = Genesis
           /\ Genesis \in Branch[b]
<1>1. \A a \in Blocks : Height[a] \in Nat /\ (Height[a] = 0 => a = Genesis)
  BY ParentBelow, TreeAssumption
<1>2. PICK a \in Branch[b] : Height[a] = 0
  BY <1>1, BranchFull
<1>3. a \in Blocks
  BY BranchBelow
<1>4. Height[Genesis] = 0 /\ Genesis \in Blocks
  BY TreeAssumption
<1> QED
  BY <1>1, <1>2, <1>3, <1>4 DEF Heights

\* The block at a height is the one of the active chain.
LEMMA ServerBlockIs ==
    ASSUME NEW h \in Nat, best \in Blocks, HasHeight(h)
    PROVE  /\ ServerBlock(h) \in Branch[best] /\ ServerBlock(h) \in Blocks
           /\ Height[ServerBlock(h)] = h
           /\ \A a \in Branch[best] : Height[a] = h => a = ServerBlock(h)
<1>1. \E a \in Branch[best] : Height[a] = h
  BY BranchFull DEF HasHeight
<1>2. ServerBlock(h) \in Branch[best] /\ Height[ServerBlock(h)] = h
  BY <1>1 DEF ServerBlock
<1>3. Branch[best] \subseteq Blocks
  BY BranchBelow
<1> QED
  BY <1>2, <1>3, BranchHeights

-----------------------------------------------------------------------------
(* The database *)

\* The fields of the database.
Shape(d) ==
    d = [synced |-> d.synced, stored |-> d.stored, matured |-> d.matured,
         hashes |-> d.hashes, birthday |-> d.birthday]

\* The hashes of d with b put at its height.
HashesWith(d, b) ==
    [h \in Heights |->
        IF h = Height[b] THEN b
        ELSE IF h > 0 /\ h = Height[b] - MaxReorgDepth THEN None
        ELSE d.hashes[h]]

\* What each operation of the address manager and the store does to the fields.
LEMMA Fields ==
    ASSUME NEW d, Shape(d), NEW b, NEW h, NEW x
    PROVE  /\ PutSyncedTo(d, b) =
                  [synced |-> b, stored |-> d.stored, matured |-> d.matured,
                   hashes |-> HashesWith(d, b), birthday |-> d.birthday]
           /\ InsertBlock(d, b) =
                  [synced |-> d.synced, stored |-> d.stored \cup {b},
                   matured |-> d.matured \cup {<<b, Asked(b)>>},
                   hashes |-> d.hashes, birthday |-> d.birthday]
           /\ Rollback(d, h) =
                  [synced |-> d.synced, stored |-> {a \in d.stored : Height[a] <= h},
                   matured |-> {m \in d.matured : Height[m[1]] <= h},
                   hashes |-> d.hashes, birthday |-> d.birthday]
           /\ SetBirthdayBlock(d, x) =
                  [synced |-> d.synced, stored |-> d.stored, matured |-> d.matured,
                   hashes |-> d.hashes, birthday |-> x]
<1> DEFINE F == {"synced", "stored", "matured", "hashes", "birthday"}
           R(s, st, m, hs, bd) ==
              [synced |-> s, stored |-> st, matured |-> m, hashes |-> hs, birthday |-> bd]
<1>1. d = [f \in F |-> d[f]] /\ DOMAIN d = F
  BY DEF Shape
<1>2. ASSUME NEW e, e = [f \in F |-> e[f]]
      PROVE  e = R(e.synced, e.stored, e.matured, e.hashes, e.birthday)
  BY <1>2
<1>3. ASSUME NEW v, NEW w
      PROVE  /\ [d EXCEPT !.synced = v, !.hashes = w] = R(v, d.stored, d.matured, w, d.birthday)
             /\ [d EXCEPT !.stored = v, !.matured = w] = R(d.synced, v, w, d.hashes, d.birthday)
             /\ [d EXCEPT !.birthday = v] = R(d.synced, d.stored, d.matured, d.hashes, v)
  <2> DEFINE e == [d EXCEPT !.synced = v, !.hashes = w]
             g == [d EXCEPT !.stored = v, !.matured = w]
             k == [d EXCEPT !.birthday = v]
  <2> HIDE DEF R
  <2>1. e.synced = v /\ e.stored = d.stored /\ e.matured = d.matured /\ e.hashes = w
        /\ e.birthday = d.birthday
    BY <1>1
  <2>2. g.synced = d.synced /\ g.stored = v /\ g.matured = w /\ g.hashes = d.hashes
        /\ g.birthday = d.birthday
    BY <1>1
  <2>3. k.synced = d.synced /\ k.stored = d.stored /\ k.matured = d.matured
        /\ k.hashes = d.hashes /\ k.birthday = v
    BY <1>1
  <2>4. e = [f \in F |-> e[f]]
    BY <1>1
  <2>5. g = [f \in F |-> g[f]]
    BY <1>1
  <2>6. k = [f \in F |-> k[f]]
    BY <1>1
  <2> HIDE DEF e, g, k, F
  <2>7. e = R(v, d.stored, d.matured, w, d.birthday)
    BY <1>2, <2>1, <2>4
  <2>8. g = R(d.synced, v, w, d.hashes, d.birthday)
    BY <1>2, <2>2, <2>5
  <2>9. k = R(d.synced, d.stored, d.matured, d.hashes, v)
    BY <1>2, <2>3, <2>6
  <2> QED
    BY <2>7, <2>8, <2>9 DEF e, g, k
<1> HIDE DEF R, F
<1>4. PutSyncedTo(d, b) = R(b, d.stored, d.matured, HashesWith(d, b), d.birthday)
  BY <1>3 DEF PutSyncedTo, HashesWith
<1>5. InsertBlock(d, b) = R(d.synced, d.stored \cup {b}, d.matured \cup {<<b, Asked(b)>>},
                            d.hashes, d.birthday)
  BY <1>3 DEF InsertBlock
<1>6. Rollback(d, h) = R(d.synced, {a \in d.stored : Height[a] <= h},
                         {m \in d.matured : Height[m[1]] <= h}, d.hashes, d.birthday)
  BY <1>3 DEF Rollback
<1>7. SetBirthdayBlock(d, x) = R(d.synced, d.stored, d.matured, d.hashes, x)
  BY <1>3 DEF SetBirthdayBlock
<1> QED
  BY <1>4, <1>5, <1>6, <1>7 DEF R

\* A record with the fields of the database.
LEMMA RecordFields ==
    ASSUME NEW e, NEW s, NEW st, NEW m, NEW hs, NEW bd,
           e = [synced |-> s, stored |-> st, matured |-> m, hashes |-> hs, birthday |-> bd]
    PROVE  Shape(e) /\ e.synced = s /\ e.stored = st /\ e.matured = m /\ e.hashes = hs
  BY DEF Shape

\* The same, field by field: putting the synced block,
LEMMA PutFields ==
    ASSUME NEW d, Shape(d), NEW b, NEW e, e = PutSyncedTo(d, b)
    PROVE  /\ Shape(e) /\ e.synced = b /\ e.stored = d.stored /\ e.matured = d.matured
           /\ e.hashes = HashesWith(d, b)
<1> DEFINE hs == HashesWith(d, b)
<1>1. e = [synced |-> b, stored |-> d.stored, matured |-> d.matured,
           hashes |-> hs, birthday |-> d.birthday]
  BY Fields, Zenon
<1> HIDE DEF hs
<1>2. Shape(e) /\ e.synced = b /\ e.stored = d.stored /\ e.matured = d.matured /\ e.hashes = hs
  BY <1>1, RecordFields
<1> QED
  BY <1>2 DEF hs

\* storing a block,
LEMMA InsertFields ==
    ASSUME NEW d, Shape(d), NEW b, NEW e, e = InsertBlock(d, b)
    PROVE  /\ Shape(e) /\ e.synced = d.synced /\ e.stored = d.stored \cup {b}
           /\ e.matured = d.matured \cup {<<b, Asked(b)>>} /\ e.hashes = d.hashes
<1> DEFINE st == d.stored \cup {b}
           m == d.matured \cup {<<b, Asked(b)>>}
<1>1. e = [synced |-> d.synced, stored |-> st, matured |-> m,
           hashes |-> d.hashes, birthday |-> d.birthday]
  BY Fields, Zenon
<1> HIDE DEF st, m
<1>2. Shape(e) /\ e.synced = d.synced /\ e.stored = st /\ e.matured = m /\ e.hashes = d.hashes
  BY <1>1, RecordFields
<1> QED
  BY <1>2 DEF st, m

\* removing blocks,
LEMMA RollbackFields ==
    ASSUME NEW d, Shape(d), NEW h, NEW e, e = Rollback(d, h)
    PROVE  /\ Shape(e) /\ e.synced = d.synced
           /\ e.stored = {a \in d.stored : Height[a] <= h}
           /\ e.matured = {m \in d.matured : Height[m[1]] <= h} /\ e.hashes = d.hashes
<1> DEFINE st == {a \in d.stored : Height[a] <= h}
           m == {x \in d.matured : Height[x[1]] <= h}
<1>1. e = [synced |-> d.synced, stored |-> st, matured |-> m,
           hashes |-> d.hashes, birthday |-> d.birthday]
  BY Fields, Zenon
<1> HIDE DEF st, m
<1>2. Shape(e) /\ e.synced = d.synced /\ e.stored = st /\ e.matured = m /\ e.hashes = d.hashes
  BY <1>1, RecordFields
<1> QED
  BY <1>2 DEF st, m

\* and storing or moving the birthday block, of which nothing need be known.
LEMMA BirthdayFields ==
    ASSUME NEW d, Shape(d), NEW b, NEW e, e \in {WithBirthday(d), MoveBirthday(d, b)}
    PROVE  /\ Shape(e) /\ e.synced = d.synced /\ e.stored = d.stored
           /\ e.matured = d.matured /\ e.hashes = d.hashes
<1> DEFINE R(x) == [synced |-> d.synced, stored |-> d.stored, matured |-> d.matured,
                    hashes |-> d.hashes, birthday |-> x]
<1>1. d = R(d.birthday) /\ \A x : SetBirthdayBlock(d, x) = R(x)
  BY Fields DEF Shape
<1>2. WithBirthday(d) = d \/ WithBirthday(d) = SetBirthdayBlock(d, LocateBirthday)
  BY DEF WithBirthday
<1>3. MoveBirthday(d, b) = d \/ MoveBirthday(d, b) = SetBirthdayBlock(d, b)
  BY DEF MoveBirthday
<1> HIDE DEF R
<1>4. PICK x : e = R(x)
  BY <1>1, <1>2, <1>3
<1> QED
  BY <1>4, RecordFields DEF R

-----------------------------------------------------------------------------
(* The hashes and the store.  This part takes no bound on what the server   *)
(* does while the wallet synchronizes: only that transactions are committed. *)

\* The database is consistent with itself: a hash is kept at its own height, the
\* synced block's is, and so is that of every block stored unless it was dropped.
DbOK(d) ==
    /\ Shape(d)
    /\ d.synced \in Blocks /\ d.stored \subseteq Blocks
    /\ d.hashes \in [Heights -> Blocks \cup {None}]
    /\ \A h \in Heights : d.hashes[h] # None => Height[d.hashes[h]] = h
    /\ d.hashes[0] = Genesis
    /\ d.hashes[Height[d.synced]] = d.synced
    /\ \A b \in d.stored :
          /\ Height[b] <= Height[d.synced]
          /\ d.hashes[Height[b]] \in {b, None}

\* The hashes with one more.
LEMMA HashesAt ==
    ASSUME NEW d, DbOK(d), NEW b \in Blocks
    PROVE  /\ HashesWith(d, b) \in [Heights -> Blocks \cup {None}]
           /\ \A h \in Heights :
                 HashesWith(d, b)[h] # None => Height[HashesWith(d, b)[h]] = h
           /\ HashesWith(d, b)[0] = Genesis
           /\ HashesWith(d, b)[Height[b]] = b
           /\ \A h \in Heights :
                 h # Height[b] => HashesWith(d, b)[h] \in {d.hashes[h], None}
<1>1. Height[b] \in Nat /\ Height[b] \in Heights /\ 0 \in Heights
      /\ (Height[b] = 0 => b = Genesis)
  BY GenesisFirst
<1>2. d.hashes \in [Heights -> Blocks \cup {None}] /\ d.hashes[0] = Genesis
      /\ \A h \in Heights : d.hashes[h] # None => Height[d.hashes[h]] = h
  BY DEF DbOK
<1>3. \A h \in Heights :
          HashesWith(d, b)[h] = IF h = Height[b] THEN b
                                ELSE IF h > 0 /\ h = Height[b] - MaxReorgDepth THEN None
                                ELSE d.hashes[h]
  BY DEF HashesWith
<1>4. HashesWith(d, b) \in [Heights -> Blocks \cup {None}]
  BY <1>2 DEF HashesWith
<1>5. HashesWith(d, b)[Height[b]] = b
  BY <1>1, <1>3
<1>6. HashesWith(d, b)[0] = Genesis
  BY <1>1, <1>2, <1>3
<1>7. ASSUME NEW h \in Heights, h # Height[b]
      PROVE  HashesWith(d, b)[h] \in {d.hashes[h], None}
  BY <1>3, <1>7
<1>8. ASSUME NEW h \in Heights, HashesWith(d, b)[h] # None
      PROVE  Height[HashesWith(d, b)[h]] = h
  BY <1>2, <1>3, <1>8
<1> QED
  BY <1>4, <1>5, <1>6, <1>7, <1>8

\* Going forward: the hash of a block above the synced one is put, and the block
\* stored or not.
LEMMA ForwardOK ==
    ASSUME NEW d, DbOK(d), NEW b \in Blocks, Height[b] > Height[d.synced],
           NEW e, Shape(e), e.synced = b, e.hashes = HashesWith(d, b),
           e.stored \in {d.stored, d.stored \cup {b}}
    PROVE  DbOK(e)
<1>1. /\ d.synced \in Blocks /\ d.stored \subseteq Blocks
      /\ \A a \in d.stored : Height[a] <= Height[d.synced] /\ d.hashes[Height[a]] \in {a, None}
  BY DEF DbOK
<1>2. Height[b] \in Nat /\ Height[d.synced] \in Nat
      /\ \A a \in d.stored : Height[a] \in Nat /\ Height[a] \in Heights
  BY <1>1, GenesisFirst
<1>3. ASSUME NEW a \in e.stored
      PROVE  Height[a] <= Height[b] /\ e.hashes[Height[a]] \in {a, None}
  <2>1. CASE a = b
    BY <2>1, <1>2, HashesAt
  <2>2. CASE a # b
    <3>1. a \in d.stored
      BY <1>3, <2>2
    <3>2. Height[a] < Height[b]
      BY <1>1, <1>2, <3>1
    <3>3. e.hashes[Height[a]] \in {d.hashes[Height[a]], None}
      BY <1>2, <3>1, <3>2, HashesAt
    <3> QED
      BY <1>1, <1>2, <3>1, <3>2, <3>3
  <2> QED
    BY <2>1, <2>2
<1>4. e.stored \subseteq Blocks
  BY <1>1
<1> QED
  BY <1>3, <1>4, HashesAt DEF DbOK

\* Going back: the hash of a block is put that was there, and what is stored
\* above it is removed.
LEMMA BackOK ==
    ASSUME NEW d, DbOK(d), NEW b \in Blocks, d.hashes[Height[b]] = b,
           NEW e, Shape(e), e.synced = b, e.hashes = HashesWith(d, b),
           e.stored = {a \in d.stored : Height[a] <= Height[b]}
    PROVE  DbOK(e)
<1>1. /\ d.stored \subseteq Blocks
      /\ \A a \in d.stored : d.hashes[Height[a]] \in {a, None}
  BY DEF DbOK
<1>2. b # None
  BY SyncAssumption
<1>3. ASSUME NEW a \in e.stored
      PROVE  Height[a] <= Height[b] /\ e.hashes[Height[a]] \in {a, None}
  <2>1. a \in d.stored /\ Height[a] <= Height[b] /\ Height[a] \in Heights
    BY <1>1, GenesisFirst
  <2>2. CASE Height[a] = Height[b]
    BY <1>1, <1>2, <2>1, <2>2, HashesAt
  <2>3. CASE Height[a] # Height[b]
    BY <1>1, <2>1, <2>3, HashesAt
  <2> QED
    BY <2>1, <2>2, <2>3
<1>4. e.stored \subseteq Blocks
  BY <1>1
<1> QED
  BY <1>3, <1>4, HashesAt DEF DbOK

\* The operations that go forward.
LEMMA InsertOK ==
    ASSUME NEW d, DbOK(d), NEW b \in Blocks, Height[b] > Height[d.synced]
    PROVE  /\ DbOK(InsertBlock(PutSyncedTo(d, b), b))
           /\ InsertBlock(PutSyncedTo(d, b), b).synced = b
           /\ DbOK(Store(d, b)) /\ Store(d, b).synced = b
<1> DEFINE p == PutSyncedTo(d, b)
           q == InsertBlock(p, b)
           r == InsertBlock(d, b)
           s == PutSyncedTo(r, b)
<1>1. Shape(d)
  BY DEF DbOK
<1>2. Shape(p) /\ p.synced = b /\ p.stored = d.stored /\ p.hashes = HashesWith(d, b)
  BY <1>1, PutFields
<1> HIDE DEF p
<1>3. Shape(q) /\ q.synced = b /\ q.stored = d.stored \cup {b} /\ q.hashes = HashesWith(d, b)
  BY <1>2, InsertFields
<1>4. Shape(r) /\ r.stored = d.stored \cup {b} /\ r.hashes = d.hashes
  BY <1>1, InsertFields
<1> HIDE DEF q, r
<1>5. Shape(s) /\ s.synced = b /\ s.stored = d.stored \cup {b} /\ s.hashes = HashesWith(r, b)
  BY <1>4, PutFields
<1> HIDE DEF s
<1>6. HashesWith(r, b) = HashesWith(d, b)
  BY <1>4 DEF HashesWith
<1>7. DbOK(p)
  BY <1>2, ForwardOK
<1>8. DbOK(q)
  BY <1>3, ForwardOK
<1>9. DbOK(s)
  BY <1>5, <1>6, ForwardOK
<1>10. Store(d, b) = p \/ Store(d, b) = s
  BY DEF Store, p, s, r
<1> QED
  BY <1>2, <1>3, <1>5, <1>7, <1>8, <1>9, <1>10 DEF p, q

\* The operations that go back.
LEMMA RollbackOK ==
    ASSUME NEW d, DbOK(d), NEW b \in Blocks, d.hashes[Height[b]] = b
    PROVE  /\ DbOK(Rollback(PutSyncedTo(d, b), Height[b]))
           /\ Rollback(PutSyncedTo(d, b), Height[b]).synced = b
           /\ DbOK(Rollback(MoveBirthday(PutSyncedTo(d, b), b), Height[b]))
           /\ Rollback(MoveBirthday(PutSyncedTo(d, b), b), Height[b]).synced = b
<1> DEFINE p == PutSyncedTo(d, b)
           m == MoveBirthday(p, b)
<1>1. Shape(d)
  BY DEF DbOK
<1>2. p.synced = b /\ p.stored = d.stored /\ p.hashes = HashesWith(d, b) /\ Shape(p)
  BY <1>1, PutFields
<1> HIDE DEF p
<1>3. m.synced = b /\ m.stored = d.stored /\ m.hashes = HashesWith(d, b) /\ Shape(m)
  BY <1>2, BirthdayFields
<1> HIDE DEF m
<1>4. ASSUME NEW e, e.synced = b, e.stored = d.stored, e.hashes = HashesWith(d, b), Shape(e)
      PROVE  DbOK(Rollback(e, Height[b])) /\ Rollback(e, Height[b]).synced = b
  <2> DEFINE f == Rollback(e, Height[b])
  <2>1. f.synced = b /\ f.stored = {a \in d.stored : Height[a] <= Height[b]}
        /\ f.hashes = HashesWith(d, b) /\ Shape(f)
    BY <1>4, RollbackFields
  <2> HIDE DEF f
  <2>2. DbOK(f)
    BY <2>1, BackOK
  <2> QED
    BY <2>1, <2>2 DEF f
<1>5. DbOK(Rollback(p, Height[b])) /\ Rollback(p, Height[b]).synced = b
  BY <1>2, <1>4
<1>6. DbOK(Rollback(m, Height[b])) /\ Rollback(m, Height[b]).synced = b
  BY <1>3, <1>4
<1> QED
  BY <1>5, <1>6 DEF p, m

\* The birthday block makes no difference.
LEMMA BirthdayOK ==
    ASSUME NEW d, DbOK(d)
    PROVE  DbOK(WithBirthday(d)) /\ WithBirthday(d).synced = d.synced
<1> DEFINE e == WithBirthday(d)
<1>1. Shape(d)
  BY DEF DbOK
<1>2. e.synced = d.synced /\ e.stored = d.stored /\ e.hashes = d.hashes /\ Shape(e)
  BY <1>1, BirthdayFields
<1> HIDE DEF e
<1>3. DbOK(e)
  BY <1>2 DEF DbOK
<1> QED
  BY <1>2, <1>3 DEF e

\* What a notification may be.
Notification ==
    {ClientConnected} \cup {Connected(b) : b \in Blocks}
        \cup {Disconnected(b) : b \in Blocks \ {Genesis}}

\* The invariant.  The synced block in memory is never below the committed one,
\* so that a block connectBlock or rescan stores is above all stored ones.
Inv ==
    /\ best \in Blocks /\ goal \in Blocks
    /\ queue \in Seq(Notification)
    /\ synced \in Blocks /\ DbOK(db) /\ Height[db.synced] <= Height[synced]
    /\ handler = "compare" => at \in Nat /\ at <= Height[synced]
    /\ handler = "catchup" => at = Height[synced] + 1
    /\ tx # NoTx => handler = "catchup" /\ DbOK(tx) /\ tx.synced = synced

\* It holds of the first state.
LEMMA InitInv == Init => Inv
<1> SUFFICES ASSUME Init PROVE Inv
  OBVIOUS
<1>1. /\ best \in Blocks /\ goal \in Blocks /\ synced = Genesis /\ Genesis \in Blocks
      /\ handler = "idle" /\ tx = NoTx /\ Height[Genesis] = 0
  BY TreeAssumption DEF Init
<1>2. queue \in Seq(Notification)
  BY DEF Init, Notification
<1>3. DbOK(db)
  <2>1. db = [synced |-> Genesis, stored |-> {Genesis}, matured |-> {},
              hashes |-> [h \in Heights |-> IF h = 0 THEN Genesis ELSE None], birthday |-> None]
    BY DEF Init
  <2>2. /\ Shape(db) /\ db.synced = Genesis /\ db.stored = {Genesis}
        /\ db.hashes = [h \in Heights |-> IF h = 0 THEN Genesis ELSE None]
    BY <2>1 DEF Shape
  <2>3. 0 \in Heights
    BY <1>1, GenesisFirst
  <2> QED
    BY <1>1, <2>2, <2>3 DEF DbOK
<1>4. db.synced = Genesis
  BY DEF Init
<1>5. Height[db.synced] <= Height[synced]
  BY <1>1, <1>4
<1>6. handler # "compare" /\ handler # "catchup"
  BY <1>1
<1> QED
  BY <1>1, <1>2, <1>3, <1>5, <1>6 DEF Inv

\* What is in the queue is a notification, and so is what Take takes out.
LEMMA Taken ==
    ASSUME NEW q \in Seq(Notification), q # <<>>
    PROVE  /\ Tail(q) \in Seq(Notification) /\ Head(q) \in Notification
           /\ Head(q).kind = "connected" => Head(q).block \in Blocks
           /\ Head(q).kind = "disconnected" => Head(q).block \in Blocks \ {Genesis}
<1>1. Tail(q) \in Seq(Notification) /\ Head(q) \in Notification
  OBVIOUS
<1> DEFINE n == Head(q)
<1>2. n \in Notification
  BY <1>1
<1> HIDE DEF n
<1>3. /\ n.kind = "connected" => n.block \in Blocks
      /\ n.kind = "disconnected" => n.block \in Blocks \ {Genesis}
  BY <1>2 DEF Notification, ClientConnected, Connected, Disconnected
<1> QED
  BY <1>1, <1>3 DEF n

\* The server's steps.
LEMMA ServerInv ==
    ASSUME Inv, Server
    PROVE  Inv'
<1>1. UNCHANGED <<loop, synced, db>>
  BY DEF Server, NewGoal, ServerDetach, ServerAttach
<1>2. best' \in Blocks /\ goal' \in Blocks /\ queue' \in Seq(Notification)
  <2>1. CASE NewGoal
    BY <2>1 DEF Inv, NewGoal, client
  <2>2. CASE ServerDetach
    <3>1. best \in Blocks \ {Genesis}
      BY <2>2, GenesisFirst DEF Inv, ServerDetach
    <3>2. Parent[best] \in Blocks /\ Disconnected(best) \in Notification
      BY <3>1, ParentBelow DEF Notification
    <3> QED
      BY <2>2, <3>2 DEF Inv, ServerDetach, Notify
  <2>3. CASE ServerAttach
    <3>1. PICK b \in Branch[goal] : best' = b /\ Notify(Connected(b)) /\ goal' = goal
      BY <2>3 DEF ServerAttach
    <3>2. b \in Blocks
      BY BranchBelow DEF Inv
    <3>3. Connected(b) \in Notification
      BY <3>2 DEF Notification
    <3> QED
      BY <3>1, <3>2, <3>3 DEF Inv, Notify
  <2> QED
    BY <2>1, <2>2, <2>3 DEF Server
<1> QED
  BY <1>1, <1>2 DEF Inv, loop

\* The connection's.
LEMMA ConnectionInv ==
    ASSUME Inv, Connection
    PROVE  Inv'
<1>1. UNCHANGED <<server, loop, synced, db>>
  BY DEF Connection, ConnectionLost, Reconnect, Reregister
<1>2. queue' \in Seq(Notification)
  <2>1. CASE ConnectionLost
    <3>1. PICK n \in 0 .. Len(queue) : queue' = SubSeq(queue, 1, n)
      BY <2>1 DEF ConnectionLost
    <3> QED
      BY <3>1 DEF Inv
  <2>2. CASE Reconnect
    BY <2>2 DEF Inv, Reconnect, Notification
  <2>3. CASE Reregister
    BY <2>3 DEF Inv, Reregister
  <2> QED
    BY <2>1, <2>2, <2>3 DEF Connection
<1> QED
  BY <1>1, <1>2 DEF Inv, loop, server

\* A process that ends or starts.
LEMMA ProcessInv ==
    ASSUME Inv, Die \/ Restart
    PROVE  Inv'
<1>1. CASE Die
  BY <1>1 DEF Inv, Die, server
<1>2. CASE Restart
  <2>1. UNCHANGED <<best, goal, db, tx>> /\ synced' = db.synced /\ handler' = "idle"
        /\ handler = "down" /\ queue' = <<ClientConnected>>
    BY <1>2 DEF Restart, server
  <2>2. db.synced \in Blocks /\ tx = NoTx
    BY <2>1 DEF Inv, DbOK
  <2>3. Height[db.synced] \in Nat
    BY <2>2, GenesisFirst
  <2>4. queue' \in Seq(Notification)
    BY <2>1 DEF Notification
  <2> QED
    BY <2>1, <2>2, <2>3, <2>4 DEF Inv
<1> QED
  BY <1>1, <1>2

\* connectBlock.
LEMMA TakeConnectedInv ==
    ASSUME StorageFails = FALSE, Inv, TakeConnected
    PROVE  Inv'
<1> DEFINE b == Head(queue).block
<1>1. handler = "idle" /\ queue' = Tail(queue) /\ queue # <<>> /\ ConnectBlock(b)
      /\ UNCHANGED <<server, loop>> /\ Head(queue).kind = "connected"
  BY DEF TakeConnected, Take
<1>2. b \in Blocks /\ queue' \in Seq(Notification)
  BY <1>1, Taken DEF Inv
<1> HIDE DEF b
<1>3. /\ synced \in Blocks /\ db.synced \in Blocks /\ Height[synced] \in Nat
      /\ Height[db.synced] \in Nat /\ Height[b] \in Nat /\ Height[db.synced] <= Height[synced]
  BY <1>2, GenesisFirst DEF Inv, DbOK
<1>4. synced' \in Blocks /\ DbOK(db') /\ Height[db'.synced] <= Height[synced']
  <2>1. CASE UNCHANGED <<synced, db>>
    BY <2>1 DEF Inv
  <2>2. CASE Height[synced] < Height[b] /\ synced' = b /\ UNCHANGED db
    BY <1>2, <1>3, <2>2 DEF Inv
  <2>3. CASE /\ Height[synced] < Height[b] /\ synced' = b
             /\ db' = InsertBlock(PutSyncedTo(db, b), b)
    BY <1>2, <1>3, <2>3, InsertOK DEF Inv
  <2> QED
    BY <1>1, <2>1, <2>2, <2>3 DEF ConnectBlock
<1> QED
  BY <1>1, <1>2, <1>4 DEF Inv, server, loop

\* disconnectBlock.
LEMMA TakeDisconnectedInv ==
    ASSUME StorageFails = FALSE, Inv, TakeDisconnected
    PROVE  Inv'
<1> DEFINE b == Head(queue).block
           p == db.hashes[Height[b] - 1]
<1>1. handler = "idle" /\ queue' = Tail(queue) /\ queue # <<>> /\ DisconnectBlock(b)
      /\ UNCHANGED <<server, loop>> /\ Head(queue).kind = "disconnected"
  BY DEF TakeDisconnected, Take
<1>2. b \in Blocks \ {Genesis} /\ queue' \in Seq(Notification)
  BY <1>1, Taken DEF Inv
<1>3. Height[b] - 1 \in Heights
  BY <1>2, ParentBelow, GenesisFirst
<1>4. synced' \in Blocks /\ DbOK(db') /\ Height[db'.synced] <= Height[synced']
  <2>1. CASE UNCHANGED <<synced, db>>
    BY <2>1 DEF Inv
  <2>2. CASE /\ p # None /\ synced' = p
             /\ db' = Rollback(PutSyncedTo(db, p), Height[p])
    <3>1. p \in Blocks /\ Height[p] = Height[b] - 1
      BY <1>3, <2>2 DEF Inv, DbOK
    <3>2. db.hashes[Height[p]] = p
      BY <3>1
    <3>3. Height[p] \in Nat
      BY <3>1, GenesisFirst
    <3> HIDE DEF p, b
    <3>4. DbOK(db') /\ db'.synced = p
      BY <2>2, <3>1, <3>2, RollbackOK DEF Inv
    <3> QED
      BY <2>2, <3>1, <3>3, <3>4
  <2> QED
    BY <1>1, <2>1, <2>2 DEF DisconnectBlock
<1> QED
  BY <1>1, <1>2, <1>4 DEF Inv, server, loop

\* The start of a synchronization.
LEMMA TakeClientInv ==
    ASSUME Inv, TakeClient
    PROVE  Inv'
<1>1. /\ handler = "idle" /\ handler' = "compare" /\ at' = Height[synced]
      /\ db' = WithBirthday(db) /\ queue' = Tail(queue) /\ queue # <<>>
      /\ UNCHANGED <<server, tx, synced>>
  BY DEF TakeClient, Take
<1>2. queue' \in Seq(Notification)
  BY <1>1, Taken DEF Inv
<1>3. DbOK(db') /\ db'.synced = db.synced
  BY <1>1, BirthdayOK DEF Inv
<1>4. Height[synced] \in Nat
  BY GenesisFirst DEF Inv
<1> QED
  BY <1>1, <1>2, <1>3, <1>4 DEF Inv, server

\* Comparing hashes.
LEMMA CompareInv ==
    ASSUME Inv, CompareDown \/ CompareDone
    PROVE  Inv'
<1>1. handler = "compare" /\ at \in Nat /\ at <= Height[synced] /\ ~ CompareFails
      /\ UNCHANGED <<server, client, tx>> /\ tx = NoTx
  BY DEF CompareDown, CompareDone, Inv
<1>2. /\ ServerBlock(at) \in Blocks /\ Height[ServerBlock(at)] = at
      /\ ServerBlock(at) \in Branch[best]
      /\ \A a \in Branch[best] : Height[a] = at => a = ServerBlock(at)
  BY <1>1, ServerBlockIs DEF Inv, CompareFails
<1>3. CASE CompareDown
  <2>1. at' = at - 1 /\ UNCHANGED <<handler, synced, db>> /\ db.hashes[at] # ServerBlock(at)
    BY <1>3 DEF CompareDown
  <2>2. at # 0
    <3>1. db.hashes[0] = Genesis /\ Genesis \in Branch[best] /\ Height[Genesis] = 0
      BY GenesisFirst, TreeAssumption DEF Inv, DbOK
    <3> QED
      BY <1>2, <2>1, <3>1
  <2>3. at' \in Nat /\ at' <= Height[synced] /\ Height[synced] \in Nat
    BY <1>1, <2>1, <2>2, GenesisFirst DEF Inv
  <2> QED
    BY <1>1, <2>1, <2>3 DEF Inv, server, client
<1>4. CASE CompareDone
  <2> DEFINE b == ServerBlock(at)
  <2>1. RollbackTo(b) /\ handler' = "register" /\ db.hashes[at] = b
    BY <1>4 DEF CompareDone
  <2>2. b \in Blocks /\ Height[b] = at /\ db.hashes[Height[b]] = b
    BY <1>2, <2>1
  <2> HIDE DEF b
  <2>3. synced' \in Blocks /\ DbOK(db') /\ Height[db'.synced] <= Height[synced']
    <3>1. CASE UNCHANGED <<synced, db>>
      BY <3>1 DEF Inv
    <3>2. CASE /\ synced' = b
               /\ db' = Rollback(MoveBirthday(PutSyncedTo(db, b), b), Height[b])
      BY <1>1, <2>2, <3>2, RollbackOK DEF Inv
    <3> QED
      BY <2>1, <3>1, <3>2 DEF RollbackTo
  <2> QED
    BY <1>1, <2>1, <2>3 DEF Inv, server, client
<1> QED
  BY <1>3, <1>4

\* Asking for notifications and for the best block.
LEMMA AskInv ==
    ASSUME Inv, RequestNotifications \/ AskBest
    PROVE  Inv'
<1>1. CASE RequestNotifications
  BY <1>1 DEF Inv, RequestNotifications, server
<1>2. CASE AskBest
  <2>1. /\ handler = "ask" /\ UNCHANGED <<server, client, tx, synced, db>>
        /\ \/ handler' = "catchup" /\ at' = Height[synced] + 1
           \/ handler' = "idle"
    BY <1>2 DEF AskBest
  <2> QED
    BY <2>1 DEF Inv, server, client
<1> QED
  BY <1>1, <1>2

\* Catching up.
LEMMA CatchUpInv ==
    ASSUME Inv, CatchUp
    PROVE  Inv'
<1> DEFINE b == ServerBlock(at)
           d == Store(OpenTx, b)
<1>1. /\ handler = "catchup" /\ HasHeight(at) /\ synced' = b /\ UNCHANGED <<server, client>>
      /\ \/ db' = d /\ tx' = NoTx
         \/ db' = db /\ tx' = d
      /\ \/ at = target /\ handler' = "idle"
         \/ at # target /\ at' = at + 1 /\ UNCHANGED handler
      /\ at = target => tx' = NoTx
  <2>1. /\ handler = "catchup" /\ HasHeight(at) /\ synced' = b
        /\ IF BatchFull
           THEN db' = d /\ tx' = NoTx /\ batch' = 0
           ELSE db' = db /\ tx' = d /\ batch' = batch + 1
        /\ IF at = target
           THEN handler' = "idle" /\ at' = 0 /\ target' = 0
           ELSE at' = at + 1 /\ UNCHANGED <<handler, target>>
        /\ UNCHANGED <<server, client>>
    BY DEF CatchUp
  <2> QED
    BY <2>1 DEF BatchFull
<1>2. at = Height[synced] + 1 /\ synced \in Blocks /\ Height[synced] \in Nat
  BY <1>1, GenesisFirst DEF Inv
<1>3. b \in Blocks /\ Height[b] = at
  BY <1>1, <1>2, ServerBlockIs DEF Inv
<1>4. DbOK(OpenTx) /\ OpenTx.synced \in Blocks /\ Height[OpenTx.synced] <= Height[synced]
  BY GenesisFirst DEF Inv, OpenTx, DbOK
<1>5. Height[OpenTx.synced] \in Nat
  BY <1>4, GenesisFirst
<1> HIDE DEF b
<1>6. DbOK(d) /\ d.synced = b
  BY <1>2, <1>3, <1>4, <1>5, InsertOK
<1> HIDE DEF d
<1>7. DbOK(db') /\ Height[db'.synced] <= Height[b]
  <2>1. Height[db.synced] <= Height[synced] /\ DbOK(db)
    BY DEF Inv
  <2>2. Height[db.synced] \in Nat
    BY <2>1, GenesisFirst DEF DbOK
  <2> QED
    BY <1>1, <1>2, <1>3, <1>6, <2>1, <2>2
<1>8. tx' # NoTx => handler' = "catchup" /\ DbOK(tx') /\ tx'.synced = synced'
  BY <1>1, <1>6
<1>9. handler' # "compare" /\ (handler' = "catchup" => at' = Height[synced'] + 1)
  BY <1>1, <1>2, <1>3
<1> QED
  BY <1>1, <1>3, <1>7, <1>8, <1>9 DEF Inv, server, client

\* Every step keeps it.
LEMMA NextInv ==
    ASSUME StorageFails = FALSE, Inv, [Next]_vars
    PROVE  Inv'
<1>1. CASE Handler
  BY <1>1, TakeConnectedInv, TakeDisconnectedInv, TakeClientInv, CompareInv, AskInv,
     CatchUpInv, ProcessInv DEF Handler, SyncPanics
<1>2. CASE Crash
  BY <1>2, ProcessInv DEF Crash
<1>3. CASE UNCHANGED vars
  BY <1>3 DEF Inv, vars, server, client, loop
<1> QED
  BY <1>1, <1>2, <1>3, ServerInv, ConnectionInv, ProcessInv DEF Next

\* The hashes, the store and the synced block are consistent in every state.
THEOREM Invariance == ASSUME StorageFails = FALSE PROVE Spec => []Inv
<1>1. Inv /\ [Next]_vars => Inv'
  BY NextInv
<1> QED
  BY InitInv, <1>1, PTL DEF Spec

\* connectBlock, disconnectBlock, syncWithChain and rescan: whatever the server does
\* while the wallet synchronizes, whatever is lost and wherever the process stops,
\* a hash kept is that of the block stored at its height, and nothing is stored
\* above the synced block.
THEOREM HashesAlwaysMatch == ASSUME StorageFails = FALSE PROVE Spec => []HashesMatchStore
<1>1. Inv => HashesMatchStore
  BY DEF Inv, DbOK, HashesMatchStore
<1> QED
  BY <1>1, Invariance, PTL

-----------------------------------------------------------------------------
(* The birthday block *)

\* One step of the search, which goes on with what f gives for a half.
SearchStep(f, r) ==
    LET mid == r[1] + (r[2] - r[1]) \div 2
        b == ServerBlock(mid)
    IN  IF mid \in {0, Height[best], r[1]} THEN b
        ELSE IF Time[b] - Birthday > BirthdayDelta THEN f[<<r[1], mid>>]
        ELSE IF Birthday - Time[b] > BirthdayDelta THEN f[<<mid, r[2]>>]
        ELSE b

\* Ranges narrower than n.
Narrow(n) == {r \in Ranges : r[2] - r[1] < n}

\* A set of natural numbers has a least one.
LEMMA Least ==
    ASSUME NEW S \in SUBSET Nat, S # {}
    PROVE  \E n \in S : \A m \in S : n <= m
<1>1. PICK n \in S : \A m \in S : ~ (<<m, n>> \in OpToRel(<, Nat))
  BY WFMin, NatLessThanWellFounded
<1>2. \A m \in S : ~ (m < n)
  BY <1>1 DEF OpToRel
<1> QED
  BY <1>2

\* The middle of a range is in it, and below its end if it is not its start; both
\* halves are then narrower.
LEMMA Halves ==
    ASSUME best \in Blocks, NEW r \in Ranges, NEW mid, mid = r[1] + (r[2] - r[1]) \div 2
    PROVE  /\ r[1] \in Nat /\ r[2] \in Nat /\ mid \in Nat
           /\ r[1] <= mid /\ mid <= r[2] /\ r[2] <= Height[best] /\ HasHeight(mid)
           /\ mid # r[1] =>
                 /\ mid < r[2]
                 /\ <<r[1], mid>> \in Narrow(r[2] - r[1])
                 /\ <<mid, r[2]>> \in Narrow(r[2] - r[1])
<1> DEFINE low == r[1]
           high == r[2]
           H == Height[best]
<1>1. low \in 0 .. H /\ high \in 0 .. H /\ low <= high
  BY DEF Ranges
<1>2. H \in Nat
  BY TreeAssumption
<1> HIDE DEF low, high, H
<1>3. mid = low + (high - low) \div 2
  BY DEF low, high
<1>4. mid \in Nat /\ low <= mid /\ mid <= high /\ mid <= H
      /\ (mid # low => low < mid /\ mid < high)
  BY <1>1, <1>2, <1>3
<1>5. ASSUME mid # low
      PROVE  <<low, mid>> \in Narrow(high - low) /\ <<mid, high>> \in Narrow(high - low)
  BY <1>1, <1>2, <1>4, <1>5 DEF Narrow, Ranges, H
<1> QED
  BY <1>1, <1>2, <1>4, <1>5 DEF low, high, H, HasHeight

\* A step of the search looks at f on narrower ranges only.
LEMMA StepNarrow ==
    ASSUME best \in Blocks, NEW r \in Ranges, NEW f, NEW g,
           \A q \in Narrow(r[2] - r[1]) : f[q] = g[q]
    PROVE  SearchStep(f, r) = SearchStep(g, r)
<1> DEFINE mid == r[1] + (r[2] - r[1]) \div 2
<1>1. mid # r[1] => f[<<r[1], mid>>] = g[<<r[1], mid>>] /\ f[<<mid, r[2]>>] = g[<<mid, r[2]>>]
  BY Halves
<1> QED
  BY <1>1 DEF SearchStep

\* The search comes to an end from every range: Search is the function its
\* equation defines.
LEMMA SearchIs ==
    ASSUME best \in Blocks
    PROVE  \A r \in Ranges : Search[r] = SearchStep(Search, r)
<1> DEFINE Solves(f, n) == f = [r \in Narrow(n) |-> SearchStep(f, r)]
           Bad == {n \in Nat : \A f : ~ Solves(f, n)}
<1>1. \A r \in Ranges : r[1] \in Nat /\ r[2] \in Nat /\ r[2] - r[1] \in Nat
  BY TreeAssumption DEF Ranges
<1>2. Bad = {}
  <2>1. SUFFICES ASSUME Bad # {} PROVE FALSE
    OBVIOUS
  <2>2. PICK n \in Bad : \A m \in Bad : n <= m
    BY <2>1, Least
  <2>3. CASE n = 0
    <3> DEFINE f == [r \in {} |-> 0]
    <3>1. Narrow(0) = {}
      BY <1>1 DEF Narrow
    <3>2. Solves(f, 0)
      BY <3>1
    <3> QED
      BY <2>2, <2>3, <3>2
  <2>4. CASE n # 0
    <3>1. n - 1 \in Nat /\ n - 1 \notin Bad
      BY <2>2, <2>4
    <3>2. PICK f : Solves(f, n - 1)
      BY <3>1
    <3> DEFINE g == [r \in Narrow(n) |-> SearchStep(f, r)]
    <3>3. ASSUME NEW r \in Narrow(n)
          PROVE  SearchStep(f, r) = SearchStep(g, r)
      <4>1. r \in Ranges /\ r[2] - r[1] < n /\ r[2] - r[1] \in Nat
        BY <1>1 DEF Narrow
      <4>2. ASSUME NEW q \in Narrow(r[2] - r[1])
            PROVE  f[q] = g[q]
        <5>1. q \in Ranges /\ q[2] - q[1] < r[2] - r[1] /\ q[2] - q[1] \in Nat
          BY <1>1 DEF Narrow
        <5>2. q \in Narrow(n - 1) /\ q \in Narrow(n)
          <6> DEFINE w == q[2] - q[1]
                     v == r[2] - r[1]
          <6>1. w < v /\ v < n /\ w \in Nat /\ v \in Nat /\ n \in Nat
            BY <2>2, <4>1, <5>1
          <6> HIDE DEF w, v
          <6>2. w < n - 1 /\ w < n
            BY <6>1
          <6> QED
            BY <5>1, <6>2 DEF Narrow, w
        <5>3. f[q] = SearchStep(f, q)
          BY <3>2, <5>2
        <5> QED
          BY <5>2, <5>3
      <4> HIDE DEF g
      <4> QED
        BY <4>1, <4>2, StepNarrow
    <3>4. Solves(g, n)
      BY <3>3
    <3> QED
      BY <2>2, <3>4
  <2> QED
    BY <2>3, <2>4
<1> DEFINE H == Height[best]
<1>3. H + 1 \in Nat /\ Narrow(H + 1) = Ranges
  <2>1. H \in Nat
    BY TreeAssumption
  <2>2. ASSUME NEW r \in Ranges PROVE r[2] - r[1] < H + 1
    <3>1. r[1] \in 0 .. H /\ r[2] \in 0 .. H
      BY DEF Ranges
    <3> QED
      BY <2>1, <3>1
  <2> QED
    BY <2>1, <2>2 DEF Narrow
<1>4. PICK f : Solves(f, H + 1)
  BY <1>2, <1>3
<1>5. f = [r \in Ranges |-> SearchStep(f, r)]
  BY <1>3, <1>4, Zenon
<1>6. Search = CHOOSE h : h = [r \in Ranges |-> SearchStep(h, r)]
  BY DEF Search, SearchStep
<1>7. Search = [r \in Ranges |-> SearchStep(Search, r)]
  BY <1>5, <1>6, Zenon
<1> QED
  BY <1>7, Zenon

\* From before the birthday, with its margin, or the first block.
Early(b) == Height[b] = 0 \/ Time[b] <= Birthday + BirthdayDelta

\* The search keeps an early block at the start of its range, and finds an early one.
LEMMA SearchEarly ==
    ASSUME best \in Blocks, NEW r \in Ranges, r[1] < r[2], Early(ServerBlock(r[1]))
    PROVE  Search[r] \in Blocks /\ Early(Search[r])
<1> DEFINE Good(q) == Search[q] \in Blocks /\ Early(Search[q])
           Wrong == {q \in Ranges : q[1] < q[2] /\ Early(ServerBlock(q[1])) /\ ~ Good(q)}
           Widths == {q[2] - q[1] : q \in Wrong}
<1>1. SUFFICES ASSUME Wrong # {} PROVE FALSE
  OBVIOUS
<1>2. \A q \in Ranges : q[1] \in Nat /\ q[2] \in Nat /\ q[2] - q[1] \in Nat
  BY TreeAssumption DEF Ranges
<1>3. Widths \in SUBSET Nat /\ Widths # {}
  BY <1>1, <1>2
<1> HIDE DEF Widths
<1>4. PICK n \in Widths : \A m \in Widths : n <= m
  BY <1>3, Least
<1>5. PICK q \in Wrong : n = q[2] - q[1]
  BY <1>4 DEF Widths
<1>6. \A p \in Narrow(q[2] - q[1]) : p \notin Wrong
  <2>1. ASSUME NEW p \in Narrow(q[2] - q[1]), p \in Wrong
        PROVE  FALSE
    <3> DEFINE w == p[2] - p[1]
               v == q[2] - q[1]
    <3>1. w \in Widths /\ w < v
      BY <2>1 DEF Widths, Narrow
    <3>2. w \in Nat /\ v \in Nat /\ v <= w
      BY <1>2, <1>4, <1>5, <2>1, <3>1
    <3> HIDE DEF w, v
    <3> QED
      BY <3>1, <3>2
  <2> QED
    BY <2>1
<1> DEFINE mid == q[1] + (q[2] - q[1]) \div 2
           b == ServerBlock(mid)
<1>7. /\ q[1] \in Nat /\ q[2] \in Nat /\ mid \in Nat /\ HasHeight(mid)
      /\ q[1] <= mid /\ q[2] <= Height[best]
      /\ mid # q[1] => /\ mid < q[2]
                       /\ <<q[1], mid>> \in Narrow(q[2] - q[1])
                       /\ <<mid, q[2]>> \in Narrow(q[2] - q[1])
  BY Halves
<1>8. b \in Blocks /\ Height[b] = mid /\ Time[b] \in Int /\ Height[best] \in Nat
  BY <1>7, ServerBlockIs, TimeAssumption, TreeAssumption
<1>9. q[1] < q[2] /\ Early(ServerBlock(q[1])) /\ ~ Good(q) /\ q \in Ranges
  OBVIOUS
<1>10. Search[q] = SearchStep(Search, q)
  BY <1>9, SearchIs
<1>11. Birthday \in Int /\ BirthdayDelta \in Nat
  BY TimeAssumption
<1>12. \A p \in Narrow(q[2] - q[1]) : p \in Ranges
  BY DEF Narrow
<1> DEFINE s == q[1]
           e == q[2]
           lower == <<s, mid>>
           upper == <<mid, e>>
<1>13. lower[1] = s /\ lower[2] = mid /\ upper[1] = mid /\ upper[2] = e
  OBVIOUS
<1>14. SearchStep(Search, q) =
         IF mid \in {0, Height[best], s} THEN b
         ELSE IF Time[b] - Birthday > BirthdayDelta THEN Search[lower]
         ELSE IF Birthday - Time[b] > BirthdayDelta THEN Search[upper]
         ELSE b
  BY DEF SearchStep
<1>15. ASSUME mid # s, Early(ServerBlock(s)) PROVE Good(lower)
  <2>1. lower \in Ranges /\ lower \notin Wrong
    BY <1>6, <1>7, <1>12, <1>15
  <2>2. lower[1] < lower[2]
    BY <1>7, <1>13, <1>15
  <2> HIDE DEF lower, mid, s
  <2> QED
    BY <1>13, <1>15, <2>1, <2>2
<1>16. ASSUME mid # s, Early(b) PROVE Good(upper)
  <2>1. upper \in Ranges /\ upper \notin Wrong
    BY <1>6, <1>7, <1>12, <1>16
  <2>2. upper[1] < upper[2]
    BY <1>7, <1>13, <1>16
  <2>3. Early(ServerBlock(upper[1]))
    BY <1>13, <1>16
  <2> HIDE DEF upper, mid, e
  <2> QED
    BY <2>1, <2>2, <2>3
<1>17. mid = s => Early(b)
  BY <1>9
<1>18. s <= mid /\ s < e /\ e <= Height[best] /\ s \in Nat /\ e \in Nat
       /\ (mid # s => mid < e)
  BY <1>7, <1>9
<1>19. mid \in Nat /\ b \in Blocks /\ Height[b] = mid
  BY <1>7, <1>8
<1>20. Early(ServerBlock(s))
  BY <1>9
<1> HIDE DEF mid, b, s, e, lower, upper
<1>21. CASE mid \in {0, Height[best], s}
  <2>1. Search[q] = b
    BY <1>10, <1>14, <1>21
  <2>2. mid # Height[best]
    BY <1>8, <1>18, <1>19
  <2>3. Early(b)
    BY <1>17, <1>19, <1>21, <2>2 DEF Early
  <2> QED
    BY <1>9, <1>19, <2>1, <2>3
<1>22. CASE mid \notin {0, Height[best], s} /\ Time[b] - Birthday > BirthdayDelta
  <2>1. Search[q] = Search[lower] /\ mid # s
    BY <1>10, <1>14, <1>22
  <2> QED
    BY <1>9, <1>15, <1>20, <2>1
<1>23. CASE /\ mid \notin {0, Height[best], s}
            /\ ~ (Time[b] - Birthday > BirthdayDelta)
            /\ Birthday - Time[b] > BirthdayDelta
  <2>1. Search[q] = Search[upper] /\ mid # s
    BY <1>10, <1>14, <1>23
  <2>2. Early(b)
    BY <1>8, <1>11, <1>23 DEF Early
  <2> QED
    BY <1>9, <1>16, <2>1, <2>2
<1>24. CASE /\ mid \notin {0, Height[best], s}
            /\ ~ (Time[b] - Birthday > BirthdayDelta)
            /\ ~ (Birthday - Time[b] > BirthdayDelta)
  <2>1. Search[q] = b
    BY <1>10, <1>14, <1>24
  <2>2. Early(b)
    BY <1>8, <1>11, <1>24 DEF Early
  <2> QED
    BY <1>9, <1>19, <2>1, <2>2
<1> QED
  BY <1>21, <1>22, <1>23, <1>24

\* locateBirthdayBlock finds an early block.
LEMMA LocateEarly ==
    ASSUME best \in Blocks
    PROVE  LocateBirthday \in Blocks /\ Early(LocateBirthday)
<1> DEFINE H == Height[best]
           r == <<0, H>>
<1>1. H \in Nat /\ r \in Ranges /\ r[1] = 0 /\ r[2] = H
  BY TreeAssumption DEF Ranges
<1>2. ServerBlock(0) \in Blocks /\ Height[ServerBlock(0)] = 0
  BY <1>1, ServerBlockIs DEF HasHeight
<1>3. Early(ServerBlock(0))
  BY <1>2 DEF Early
<1>4. LocateBirthday = Search[r]
  BY DEF LocateBirthday
<1>5. Search[r] = SearchStep(Search, r)
  BY <1>1, SearchIs
<1>6. H = 0 => SearchStep(Search, r) = ServerBlock(0)
  <2>1. SUFFICES ASSUME H = 0 PROVE SearchStep(Search, r) = ServerBlock(0)
    OBVIOUS
  <2>2. r[1] + (r[2] - r[1]) \div 2 = 0
    BY <1>1, <2>1
  <2> QED
    BY <2>2 DEF SearchStep
<1> HIDE DEF r, H
<1>7. H # 0 => Search[r] \in Blocks /\ Early(Search[r])
  BY <1>1, <1>3, SearchEarly
<1> QED
  BY <1>2, <1>3, <1>4, <1>5, <1>6, <1>7

\* The operations of a database transaction keep the birthday block, but for the
\* one that stores it.
LEMMA BirthdayKept ==
    ASSUME NEW d, Shape(d), NEW b, NEW h
    PROVE  /\ Shape(PutSyncedTo(d, b)) /\ PutSyncedTo(d, b).birthday = d.birthday
           /\ Shape(InsertBlock(d, b)) /\ InsertBlock(d, b).birthday = d.birthday
           /\ Shape(Rollback(d, h)) /\ Rollback(d, h).birthday = d.birthday
           /\ Shape(SetBirthdayBlock(d, b)) /\ SetBirthdayBlock(d, b).birthday = b
<1>1. ASSUME NEW e, NEW s, NEW st, NEW m, NEW hs, NEW bd,
             e = [synced |-> s, stored |-> st, matured |-> m, hashes |-> hs, birthday |-> bd]
      PROVE  Shape(e) /\ e.birthday = bd
  BY <1>1 DEF Shape
<1>2. Shape(PutSyncedTo(d, b)) /\ PutSyncedTo(d, b).birthday = d.birthday
  BY <1>1, Fields
<1>3. Shape(InsertBlock(d, b)) /\ InsertBlock(d, b).birthday = d.birthday
  BY <1>1, Fields
<1>4. Shape(Rollback(d, h)) /\ Rollback(d, h).birthday = d.birthday
  BY <1>1, Fields
<1>5. Shape(SetBirthdayBlock(d, b)) /\ SetBirthdayBlock(d, b).birthday = b
  BY <1>1, Fields
<1> QED
  BY <1>2, <1>3, <1>4, <1>5

\* A birthday block, if there is one, is early.
Covered(d) == d.birthday # None => d.birthday \in Blocks /\ Early(d.birthday)

\* The invariant: of the committed database and of the open transaction, and the
\* block is there when the hashes are compared.
BirthdayEarly ==
    /\ Covered(db)
    /\ tx # NoTx => Covered(tx)
    /\ handler = "compare" => db.birthday # None

\* Catching up and following notifications do not touch the birthday block.
LEMMA BirthdayStays ==
    ASSUME Inv, TakeConnected \/ TakeDisconnected \/ CatchUp, BirthdayEarly
    PROVE  BirthdayEarly'
<1>1. Shape(db) /\ Covered(db) /\ Shape(OpenTx) /\ Covered(OpenTx)
  BY DEF Inv, DbOK, BirthdayEarly, OpenTx
<1>2. CASE TakeConnected
  <2>1. handler' # "compare" /\ tx' = tx
    BY <1>2 DEF TakeConnected, Take, loop
  <2>2. PICK b : db' = db \/ db' = InsertBlock(PutSyncedTo(db, b), b)
    BY <1>2 DEF TakeConnected, ConnectBlock
  <2>3. db'.birthday = db.birthday
    BY <1>1, <2>2, BirthdayKept
  <2> QED
    BY <1>1, <2>1, <2>3 DEF BirthdayEarly, Covered, Early
<1>3. CASE TakeDisconnected
  <2>1. handler' # "compare" /\ tx' = tx
    BY <1>3 DEF TakeDisconnected, Take, loop
  <2>2. PICK p, h : db' = db \/ db' = Rollback(PutSyncedTo(db, p), h)
    BY <1>3 DEF TakeDisconnected, DisconnectBlock
  <2>3. db'.birthday = db.birthday
    BY <1>1, <2>2, BirthdayKept
  <2> QED
    BY <1>1, <2>1, <2>3 DEF BirthdayEarly, Covered, Early
<1>4. CASE CatchUp
  <2> DEFINE d == Store(OpenTx, ServerBlock(at))
  <2>1. /\ handler' # "compare"
        /\ \/ db' = d /\ tx' = NoTx
           \/ db' = db /\ tx' = d
    <3>1. handler = "catchup" /\ handler' \in {"idle", handler}
      BY <1>4 DEF CatchUp
    <3>2. IF BatchFull
          THEN db' = d /\ tx' = NoTx /\ batch' = 0
          ELSE db' = db /\ tx' = d /\ batch' = batch + 1
      BY <1>4 DEF CatchUp
    <3> QED
      BY <3>1, <3>2
  <2>2. d.birthday = OpenTx.birthday
    BY <1>1, BirthdayKept DEF Store
  <2> HIDE DEF d
  <2>3. Covered(d)
    BY <1>1, <2>2 DEF Covered
  <2> QED
    BY <1>1, <2>1, <2>3 DEF BirthdayEarly, Covered, Early
<1> QED
  BY <1>2, <1>3, <1>4

\* A synchronization starts with a birthday block, which it locates if need be.
LEMMA BirthdayLocated ==
    ASSUME Inv, TakeClient, BirthdayEarly
    PROVE  BirthdayEarly'
<1>1. db' = WithBirthday(db) /\ tx' = tx /\ tx = NoTx
  BY DEF TakeClient, Take, Inv
<1>2. Shape(db) /\ Covered(db) /\ None \notin Blocks
  BY SyncAssumption DEF Inv, DbOK, BirthdayEarly
<1>3. LocateBirthday \in Blocks /\ Early(LocateBirthday)
  BY LocateEarly DEF Inv
<1>4. Covered(db') /\ db'.birthday # None
  <2>1. CASE db.birthday = None
    <3>1. db'.birthday = LocateBirthday
      BY <1>1, <1>2, <2>1, BirthdayKept DEF WithBirthday
    <3> QED
      BY <1>2, <1>3, <3>1 DEF Covered
  <2>2. CASE db.birthday # None
    BY <1>1, <1>2, <2>2 DEF WithBirthday
  <2> QED
    BY <2>1, <2>2
<1> QED
  BY <1>1, <1>4 DEF BirthdayEarly, Covered, Early

\* A rollback past the birthday block moves it down, to a block that is early too.
LEMMA BirthdayMoved ==
    ASSUME TimesInOrder, Inv, CompareDone, BirthdayEarly
    PROVE  BirthdayEarly'
<1> DEFINE b == ServerBlock(at)
           e == PutSyncedTo(db, b)
<1>1. handler = "compare" /\ handler' = "register" /\ tx' = tx /\ RollbackTo(b)
      /\ at \in Nat /\ HasHeight(at)
  BY DEF CompareDone, Inv, CompareFails
<1>2. b \in Blocks
  BY <1>1, ServerBlockIs DEF Inv
<1>3. Shape(db) /\ db.birthday \in Blocks /\ Early(db.birthday) /\ None \notin Blocks
  BY <1>1, SyncAssumption DEF Inv, DbOK, BirthdayEarly, Covered
<1> HIDE DEF b
<1>4. Shape(e) /\ e.birthday = db.birthday
  BY <1>3, BirthdayKept
<1>5. db' = db \/ db' = Rollback(MoveBirthday(e, b), Height[b])
  BY <1>1 DEF RollbackTo
<1> HIDE DEF e
<1>6. Covered(db')
  <2>1. CASE db' = db
    BY <1>3, <2>1 DEF Covered
  <2>2. CASE db' = Rollback(e, Height[b])
    BY <1>3, <1>4, <2>2, BirthdayKept DEF Covered
  <2>3. CASE /\ Height[b] <= Height[e.birthday]
             /\ db' = Rollback(SetBirthdayBlock(e, b), Height[b])
    <3>1. db'.birthday = b
      BY <1>4, <2>3, BirthdayKept
    <3>2. Height[b] \in Nat /\ Height[db.birthday] \in Nat
          /\ Height[b] <= Height[db.birthday]
      BY <1>2, <1>3, <1>4, <2>3, TreeAssumption
    <3>3. CASE Height[db.birthday] = 0
      BY <1>2, <3>1, <3>2, <3>3 DEF Covered, Early
    <3>4. CASE Time[db.birthday] <= Birthday + BirthdayDelta
      BY <1>2, <1>3, <3>1, <3>2, <3>4 DEF Covered, Early, TimesInOrder
    <3> QED
      BY <1>3, <3>3, <3>4 DEF Early
  <2> QED
    BY <1>5, <2>1, <2>2, <2>3 DEF MoveBirthday
<1> QED
  BY <1>1, <1>6 DEF BirthdayEarly, Covered, Early

\* No other step does anything to it.
LEMMA BirthdayNext ==
    ASSUME TimesInOrder, Inv, BirthdayEarly, [Next]_vars
    PROVE  BirthdayEarly'
<1>1. CASE UNCHANGED db /\ tx' \in {tx, NoTx} /\ handler' \in {handler, "down", "idle", "ask", "catchup"}
  BY <1>1 DEF BirthdayEarly, Covered, Early
<1>2. CASE Server
  BY <1>1, <1>2 DEF Server, NewGoal, ServerDetach, ServerAttach, loop
<1>3. CASE Connection
  BY <1>1, <1>3 DEF Connection, ConnectionLost, Reconnect, Reregister, loop
<1>4. CASE Die \/ Restart
  BY <1>1, <1>4 DEF Die, Restart
<1>5. CASE CompareDown \/ RequestNotifications \/ AskBest
  BY <1>1, <1>5 DEF CompareDown, RequestNotifications, AskBest
<1>6. CASE UNCHANGED vars
  BY <1>1, <1>6 DEF vars, loop
<1>7. CASE Handler
  BY <1>4, <1>5, <1>7, BirthdayStays, BirthdayLocated, BirthdayMoved DEF Handler, SyncPanics
<1> QED
  BY <1>2, <1>3, <1>4, <1>6, <1>7 DEF Next, Crash

\* locateBirthdayBlock and the rollback of syncWithChain: if the times of the blocks
\* are in order as far as the birthday goes, then whatever chain the server is on
\* when the block is located and however far a rollback moves it, the birthday block
\* is the first one or not later than the birthday, with its margin of two hours.
THEOREM BirthdayAlwaysCovers ==
    ASSUME StorageFails = FALSE, TimesInOrder
    PROVE  Spec => []BirthdayCovers
<1>1. Init => BirthdayEarly
  BY DEF Init, BirthdayEarly, Covered
<1>2. BirthdayEarly => BirthdayCovers
  BY DEF BirthdayEarly, Covered, Early, BirthdayCovers
<1>3. Inv /\ BirthdayEarly /\ [Next]_vars => BirthdayEarly'
  BY BirthdayNext
<1> QED
  BY <1>1, <1>2, <1>3, Invariance, PTL DEF Spec

-----------------------------------------------------------------------------
(* Following a branch: what the store keeps *)

\* The blocks kept of a branch are those of the parent's and the block itself.
LEMMA KeptNext ==
    ASSUME NEW b \in Blocks \ {Genesis}
    PROVE  Follower!Kept(b) =
               Follower!Kept(Parent[b]) \cup (IF Height[b] >= SyncFrom THEN {b} ELSE {})
  BY ParentBelow DEF Follower!Kept

\* Those of a block of the branch are those not above it.
LEMMA KeptBelow ==
    ASSUME NEW b \in Blocks, NEW a \in Branch[b]
    PROVE  /\ Follower!Kept(a) = {x \in Follower!Kept(b) : Height[x] <= Height[a]}
           /\ Follower!Kept(b) = Follower!Kept(a) \cup (Follower!Kept(b) \ Branch[a])
<1>1. /\ a \in Blocks /\ Branch[a] \subseteq Branch[b]
      /\ \A x \in Branch[a] : Height[x] <= Height[a]
  BY BranchBelow
<1>2. \A x \in Branch[b] : Height[x] <= Height[a] => x \in Branch[a]
  BY BranchOrdered
<1> QED
  BY <1>1, <1>2 DEF Follower!Kept

\* syncfrom rounded down is the first height of a group.
LEMMA SyncFromMultiple ==
    /\ SyncFrom \in Nat
    /\ \E s \in Int : SyncFrom = GroupSize * s
<1> DEFINE r == RequestedFrom % GroupSize
           q == RequestedFrom \div GroupSize
<1>1. GroupSize \in Nat /\ GroupSize > 0 /\ RequestedFrom \in Nat
  BY GroupAssumption, SyncAssumption
<1>2. r \in 0 .. GroupSize - 1 /\ q \in Int /\ RequestedFrom = GroupSize * q + r
      /\ r <= RequestedFrom
  BY <1>1
<1>3. SyncFrom = RequestedFrom - r
  BY DEF SyncFrom
<1> HIDE DEF r, q
<1>4. SyncFrom = GroupSize * q /\ SyncFrom \in Nat
  BY <1>1, <1>2, <1>3
<1> QED
  BY <1>2, <1>4

\* A group that is completed by a block kept is kept.
LEMMA GroupKept ==
    ASSUME NEW t \in Blocks, NEW b \in Follower!Kept(t), CompletesGroup(b)
    PROVE  Group(b) \subseteq Follower!Kept(t)
<1>1. b \in Branch[t] /\ b \in Blocks /\ Branch[b] \subseteq Branch[t]
  BY BranchBelow DEF Follower!Kept
<1>2. SUFFICES ASSUME NEW a \in Branch[b], Height[a] > Height[b] - GroupSize
               PROVE  a \in Follower!Kept(t)
  BY DEF Group
<1>3. CASE b = Genesis
  BY <1>1, <1>3, TreeAssumption DEF Follower!Kept
<1>4. CASE b # Genesis
  <2> DEFINE g == GroupSize
             p == Height[b] \div g
             r == Height[b] % g
             ha == Height[a]
             hb == Height[b]
  <2>1. g \in Nat /\ g > 0 /\ hb \in Nat /\ ha \in Nat /\ ha > hb - g /\ r = g - 1
    BY <1>1, <1>2, BranchBelow, GenesisFirst, GroupAssumption DEF CompletesGroup
  <2>2. p \in Int /\ hb = g * p + r
    BY <2>1
  <2>3. PICK s \in Int : SyncFrom = g * s
    BY SyncFromMultiple
  <2>4. SyncFrom <= hb
    BY <1>4 DEF Follower!Kept
  <2> HIDE DEF g, p, r, ha, hb
  <2>5. g * s <= g * p + g - 1 /\ ha >= g * p
    BY <2>1, <2>2, <2>3, <2>4
  <2>6. g * s <= g * p
    <3>1. CASE s <= p
      BY <2>1, <2>2, <2>3, <3>1
    <3>2. CASE s >= p + 1
      <4>1. g * s >= g * (p + 1)
        BY <2>1, <2>2, <2>3, <3>2
      <4>2. g * (p + 1) = g * p + g
        BY <2>1, <2>2
      <4> QED
        BY <2>1, <2>2, <2>3, <2>5, <4>1, <4>2
    <3> QED
      BY <2>2, <2>3, <3>1, <3>2
  <2>7. g * p \in Int /\ g * s \in Int
    BY <2>1, <2>2, <2>3
  <2>8. ha >= SyncFrom
    BY <2>1, <2>3, <2>5, <2>6, <2>7
  <2> QED
    BY <1>1, <1>2, <2>8 DEF Follower!Kept, ha
<1> QED
  BY <1>3, <1>4

\* The heights at which coinbases mature are heights.
LEMMA MaturedNat ==
    ASSUME NEW b \in Blocks, MaturesGroup(b)
    PROVE  \A h \in MaturedHeights(b) : h \in Nat /\ h <= Height[b] - Maturity
<1> DEFINE g == GroupSize
           n == Height[b] - Maturity
           q == (n + 1) \div g
<1>1. g \in Nat /\ g > 0 /\ n \in Nat /\ (n + 1) % g = 0
  BY GenesisFirst, GroupAssumption DEF MaturesGroup
<1>2. q \in Int /\ n + 1 = g * q
  <2>1. n + 1 = g * q + ((n + 1) % g)
    BY <1>1
  <2>2. q \in Int /\ g * q \in Int
    BY <1>1
  <2> QED
    BY <1>1, <2>1, <2>2
<1> HIDE DEF g, n, q
<1>3. n + 1 >= g
  <2>1. CASE q >= 1
    BY <1>1, <1>2, <2>1
  <2>2. CASE q <= 0
    BY <1>1, <1>2, <2>2
  <2> QED
    BY <1>2, <2>1, <2>2
<1>4. ASSUME NEW i \in 0 .. g - 1
      PROVE  n - i \in Nat /\ n - i <= n
  BY <1>1, <1>3
<1> QED
  BY <1>4 DEF MaturedHeights, g, n

\* Asked by height, the server answers with the blocks that mature, if it is on
\* their branch.
LEMMA AskedIs ==
    ASSUME NEW b \in Blocks, best \in Blocks,
           MaturesGroup(b) =>
               /\ Height[best] >= Height[b] - Maturity
               /\ \A a \in Branch[b] : Height[a] <= Height[b] - Maturity => a \in Branch[best]
    PROVE  Asked(b) = MaturedBlocks(b)
<1>1. CASE ~ MaturesGroup(b)
  BY <1>1 DEF Asked, MaturedBlocks
<1>2. CASE MaturesGroup(b)
  <2>1. /\ \A h \in MaturedHeights(b) : h \in Nat /\ h <= Height[b] - Maturity
        /\ Height[b] \in Nat /\ Height[best] \in Nat /\ Maturity \in Nat
    BY <1>2, MaturedNat, GenesisFirst, GroupAssumption
  <2>2. ASSUME NEW h \in MaturedHeights(b)
        PROVE  /\ ServerBlock(h) \in Branch[b] /\ Height[ServerBlock(h)] = h
               /\ \A a \in Branch[b] : Height[a] = h => a = ServerBlock(h)
    <3>1. h \in Nat /\ h <= Height[b] - Maturity /\ h <= Height[b] /\ HasHeight(h)
      BY <1>2, <2>1 DEF HasHeight
    <3>2. PICK a \in Branch[b] : Height[a] = h
      BY <3>1, BranchFull
    <3>3. a \in Branch[best]
      BY <1>2, <3>1, <3>2
    <3>4. a = ServerBlock(h)
      BY <3>1, <3>2, <3>3, ServerBlockIs
    <3> QED
      BY <3>2, <3>4, BranchHeights
  <2>3. Asked(b) = {ServerBlock(h) : h \in MaturedHeights(b)}
    BY <1>2 DEF Asked
  <2>4. MaturedBlocks(b) = {a \in Branch[b] : Height[a] \in MaturedHeights(b)}
    BY <1>2 DEF MaturedBlocks
  <2> QED
    BY <2>2, <2>3, <2>4
<1> QED
  BY <1>1, <1>2

\* The database follows the branch of its synced block: it stores what is kept of
\* it, its hashes up to that block are of it, one is missing only if a block so
\* much higher exists, and the blocks found matured are those of the branch.
DbFollows(d) ==
    /\ d.stored = Follower!Kept(d.synced)
    /\ \A h \in Heights : h <= Height[d.synced] =>
          d.hashes[h] = None \/ d.hashes[h] \in Branch[d.synced]
    /\ \A h \in Heights : h > 0 /\ h <= Height[d.synced] /\ d.hashes[h] = None =>
          \E z \in Blocks : Height[z] >= h + MaxReorgDepth
    /\ \A m \in d.matured : m[2] = MaturedBlocks(m[1])

\* Attaching a block to the synced one.
LEMMA AttachFollows ==
    ASSUME NEW d, DbOK(d), DbFollows(d),
           NEW b \in Blocks \ {Genesis}, Parent[b] = d.synced, Asked(b) = MaturedBlocks(b),
           NEW e, e.synced = b, e.hashes = HashesWith(d, b),
           e.stored = d.stored \cup (IF Height[b] >= SyncFrom THEN {b} ELSE {}),
           e.matured \in {d.matured, d.matured \cup {<<b, Asked(b)>>}}
    PROVE  DbFollows(e)
<1>1. /\ d.synced \in Blocks /\ Height[d.synced] = Height[b] - 1 /\ Height[b] \in Nat
      /\ Height[d.synced] \in Nat /\ Branch[b] = Branch[d.synced] \cup {b}
  BY ParentBelow
<1>2. e.stored = Follower!Kept(b)
  BY KeptNext DEF DbFollows
<1>3. ASSUME NEW h \in Heights, h <= Height[b]
      PROVE  /\ e.hashes[h] = None \/ e.hashes[h] \in Branch[b]
             /\ h > 0 /\ e.hashes[h] = None => \E z \in Blocks : Height[z] >= h + MaxReorgDepth
  <2>1. e.hashes[h] = IF h = Height[b] THEN b
                      ELSE IF h > 0 /\ h = Height[b] - MaxReorgDepth THEN None
                      ELSE d.hashes[h]
    BY DEF HashesWith
  <2>2. CASE h = Height[b]
    <3>1. b # None
      BY SyncAssumption
    <3> QED
      BY <1>1, <2>1, <2>2, <3>1
  <2>3. CASE h # Height[b] /\ h > 0 /\ h = Height[b] - MaxReorgDepth
    <3>1. Height[b] >= h + MaxReorgDepth
      BY <1>1, <2>3, SyncAssumption
    <3> QED
      BY <2>1, <2>3, <3>1
  <2>4. CASE h # Height[b] /\ ~ (h > 0 /\ h = Height[b] - MaxReorgDepth)
    <3>1. e.hashes[h] = d.hashes[h]
      BY <2>1, <2>4
    <3>2. h <= Height[d.synced]
      <4>1. h \in Nat
        BY GenesisFirst DEF Heights
      <4> QED
        BY <1>1, <1>3, <2>4, <4>1
    <3> QED
      BY <1>1, <3>1, <3>2 DEF DbFollows
  <2> QED
    BY <2>2, <2>3, <2>4
<1>4. ASSUME NEW m \in e.matured
      PROVE  m[2] = MaturedBlocks(m[1])
  BY <1>4 DEF DbFollows
<1> QED
  BY <1>2, <1>3, <1>4 DEF DbFollows

\* Detaching the blocks above one of the branch.
LEMMA DetachFollows ==
    ASSUME NEW d, DbOK(d), DbFollows(d), NEW b \in Branch[d.synced], d.hashes[Height[b]] = b,
           NEW e, e.synced = b, e.hashes = HashesWith(d, b),
           e.stored = {a \in d.stored : Height[a] <= Height[b]},
           e.matured \subseteq d.matured
    PROVE  DbFollows(e)
<1>1. /\ d.synced \in Blocks /\ b \in Blocks /\ Height[b] <= Height[d.synced]
      /\ Height[b] \in Nat /\ Height[d.synced] \in Nat /\ b # None
  BY BranchBelow, GenesisFirst, SyncAssumption DEF DbOK
<1>2. e.stored = Follower!Kept(b)
  BY <1>1, KeptBelow DEF DbFollows
<1>3. ASSUME NEW h \in Heights, h <= Height[b]
      PROVE  /\ e.hashes[h] = None \/ e.hashes[h] \in Branch[b]
             /\ h > 0 /\ e.hashes[h] = None => \E z \in Blocks : Height[z] >= h + MaxReorgDepth
  <2>1. e.hashes[h] = IF h = Height[b] THEN b
                      ELSE IF h > 0 /\ h = Height[b] - MaxReorgDepth THEN None
                      ELSE d.hashes[h]
    BY DEF HashesWith
  <2>2. CASE h = Height[b]
    BY <1>1, <2>1, <2>2, BranchBelow
  <2>3. CASE h # Height[b] /\ h > 0 /\ h = Height[b] - MaxReorgDepth
    <3>1. Height[b] >= h + MaxReorgDepth
      BY <1>1, <2>3, SyncAssumption
    <3> QED
      BY <1>1, <2>1, <2>3, <3>1
  <2>4. CASE h # Height[b] /\ ~ (h > 0 /\ h = Height[b] - MaxReorgDepth)
    <3>1. e.hashes[h] = d.hashes[h]
      BY <2>1, <2>4
    <3>2. h <= Height[d.synced]
      <4>1. h \in Nat
        BY GenesisFirst DEF Heights
      <4> QED
        BY <1>1, <1>3, <4>1
    <3>3. /\ d.hashes[h] = None \/ d.hashes[h] \in Branch[d.synced]
          /\ h > 0 /\ d.hashes[h] = None => \E z \in Blocks : Height[z] >= h + MaxReorgDepth
          /\ d.hashes[h] # None => Height[d.hashes[h]] = h
      BY <3>2 DEF DbFollows, DbOK
    <3>4. d.hashes[h] # None => d.hashes[h] \in Branch[b]
      BY <1>1, <1>3, <3>3, BranchOrdered
    <3> QED
      BY <3>1, <3>3, <3>4
  <2> QED
    BY <2>2, <2>3, <2>4
<1>4. \A m \in e.matured : m[2] = MaturedBlocks(m[1])
  BY DEF DbFollows
<1> QED
  BY <1>2, <1>3, <1>4 DEF DbFollows

\* Attaching as connectBlock and rescan do.
LEMMA InsertFollows ==
    ASSUME NEW d, DbOK(d), DbFollows(d),
           NEW b \in Blocks \ {Genesis}, Parent[b] = d.synced, Asked(b) = MaturedBlocks(b)
    PROVE  /\ Height[b] >= SyncFrom => DbFollows(InsertBlock(PutSyncedTo(d, b), b))
           /\ DbFollows(Store(d, b))
<1> DEFINE p == PutSyncedTo(d, b)
           q == InsertBlock(p, b)
           r == InsertBlock(d, b)
           s == PutSyncedTo(r, b)
<1>1. Shape(d) /\ Height[b] \in Nat /\ SyncFrom \in Nat
  BY GenesisFirst, SyncFromMultiple DEF DbOK
<1>2. Shape(p) /\ p.synced = b /\ p.stored = d.stored /\ p.hashes = HashesWith(d, b)
      /\ p.matured = d.matured
  BY <1>1, PutFields
<1> HIDE DEF p
<1>3. q.synced = b /\ q.stored = d.stored \cup {b} /\ q.hashes = HashesWith(d, b)
      /\ q.matured = d.matured \cup {<<b, Asked(b)>>}
  BY <1>2, InsertFields
<1>4. Shape(r) /\ r.stored = d.stored \cup {b} /\ r.hashes = d.hashes
      /\ r.matured = d.matured \cup {<<b, Asked(b)>>}
  BY <1>1, InsertFields
<1> HIDE DEF q, r
<1>5. s.synced = b /\ s.stored = d.stored \cup {b} /\ s.hashes = HashesWith(r, b)
      /\ s.matured = d.matured \cup {<<b, Asked(b)>>}
  BY <1>4, PutFields
<1> HIDE DEF s
<1>6. HashesWith(r, b) = HashesWith(d, b)
  BY <1>4 DEF HashesWith
<1>7. Height[b] >= SyncFrom => DbFollows(q) /\ DbFollows(s)
  BY <1>3, <1>5, <1>6, AttachFollows
<1>8. Height[b] < SyncFrom => DbFollows(p)
  BY <1>1, <1>2, AttachFollows
<1>9. Store(d, b) = IF Height[b] < SyncFrom THEN p ELSE s
  BY DEF Store, p, s, r
<1> QED
  BY <1>1, <1>7, <1>8, <1>9 DEF p, q

\* Detaching as disconnectBlock and syncWithChain do.
LEMMA RollbackFollows ==
    ASSUME NEW d, DbOK(d), DbFollows(d), NEW b \in Branch[d.synced], d.hashes[Height[b]] = b
    PROVE  /\ DbFollows(Rollback(PutSyncedTo(d, b), Height[b]))
           /\ DbFollows(Rollback(MoveBirthday(PutSyncedTo(d, b), b), Height[b]))
           /\ Rollback(PutSyncedTo(d, b), Height[b]).stored =
                  {a \in d.stored : Height[a] <= Height[b]}
           /\ Rollback(MoveBirthday(PutSyncedTo(d, b), b), Height[b]).stored =
                  {a \in d.stored : Height[a] <= Height[b]}
<1> DEFINE p == PutSyncedTo(d, b)
           m == MoveBirthday(p, b)
<1>1. Shape(d)
  BY DEF DbOK
<1>2. /\ p.synced = b /\ p.stored = d.stored /\ p.hashes = HashesWith(d, b)
      /\ p.matured = d.matured /\ Shape(p)
  BY <1>1, PutFields
<1> HIDE DEF p
<1>3. /\ m.synced = b /\ m.stored = d.stored /\ m.hashes = HashesWith(d, b)
      /\ m.matured = d.matured /\ Shape(m)
  BY <1>2, BirthdayFields
<1> HIDE DEF m
<1>4. ASSUME NEW e, e.synced = b, e.stored = d.stored, e.hashes = HashesWith(d, b),
             e.matured = d.matured, Shape(e)
      PROVE  /\ DbFollows(Rollback(e, Height[b]))
             /\ Rollback(e, Height[b]).stored = {a \in d.stored : Height[a] <= Height[b]}
  <2> DEFINE f == Rollback(e, Height[b])
  <2>1. /\ f.synced = b /\ f.stored = {a \in d.stored : Height[a] <= Height[b]}
        /\ f.hashes = HashesWith(d, b)
        /\ f.matured = {x \in d.matured : Height[x[1]] <= Height[b]}
    BY <1>4, RollbackFields
  <2> HIDE DEF f
  <2>2. f.matured \subseteq d.matured
    BY <2>1
  <2>3. DbFollows(f)
    BY <2>1, <2>2, DetachFollows
  <2> QED
    BY <2>1, <2>3 DEF f
<1>5. /\ DbFollows(Rollback(p, Height[b]))
      /\ Rollback(p, Height[b]).stored = {a \in d.stored : Height[a] <= Height[b]}
  BY <1>2, <1>4
<1>6. /\ DbFollows(Rollback(m, Height[b]))
      /\ Rollback(m, Height[b]).stored = {a \in d.stored : Height[a] <= Height[b]}
  BY <1>3, <1>4
<1> QED
  BY <1>5, <1>6 DEF p, m

-----------------------------------------------------------------------------
(* The queue *)

\* Is the i-th notification one about a block?
Moves(q, i) == q[i].kind # "client"

\* Where the server stood before and after what a notification tells.
Start(n) == IF n.kind = "connected" THEN Parent[n.block] ELSE n.block
End(n) == IF n.kind = "connected" THEN n.block ELSE Parent[n.block]

\* Between two announcements of a connection the notifications q are a walk of
\* the server's; on a link l that tells everything the last ends where the server
\* stands, at b, and one not registered yet has told of nothing.  No block is
\* above where the server is going, g, and those told of are none the
\* reorganizations of ShallowForks leave alone.
QueueOK(q, l, b, g) ==
    /\ \A i \in 1 .. Len(q) :
          i < Len(q) /\ Moves(q, i) /\ Moves(q, i + 1) => End(q[i]) = Start(q[i + 1])
    /\ Len(q) > 0 /\ l = "registered" /\ Moves(q, Len(q)) => End(q[Len(q)]) = b
    /\ Len(q) > 0 /\ l = "up" => ~ Moves(q, Len(q))
    /\ \A i \in 1 .. Len(q) : Moves(q, i) => Height[q[i].block] <= Height[g]
    /\ \A i \in 1 .. Len(q) : q[i].kind = "connected" =>
          /\ q[i].block # Genesis /\ Height[q[i].block] >= SyncFrom
          /\ MaturesGroup(q[i].block) => Height[b] >= Height[q[i].block] - Maturity
    /\ \A i \in 1 .. Len(q) : q[i].kind = "disconnected" => ~ Settled(q[i].block)

\* A wallet at x may go through the queue: after j blocks that it passes over,
\* none above x, either the server stands at x too, or the next notification
\* starts there, or the next is a connection and the wallet compares again.
Leads(q, l, b, x) ==
    \E j \in 0 .. Len(q) :
        /\ \A i \in 1 .. j : Moves(q, i) /\ Height[q[i].block] <= Height[x]
        /\ j = Len(q) => \/ l = "down"
                         \/ l = "registered" /\ b = x
        /\ j < Len(q) => \/ ~ Moves(q, j + 1)
                         \/ Start(q[j + 1]) = x

\* None of the blocks told of is above b.
Low(q, b) == \A i \in 1 .. Len(q) : Moves(q, i) => Height[q[i].block] <= Height[b]

HasClient(q) == \E i \in 1 .. Len(q) : ~ Moves(q, i)

\* The block of a notification.
LEMMA MovesBlock ==
    ASSUME NEW q \in Seq(Notification), NEW i \in 1 .. Len(q)
    PROVE  /\ Moves(q, i) => q[i].block \in Blocks /\ q[i].kind \in {"connected", "disconnected"}
           /\ q[i].kind = "disconnected" => q[i].block \in Blocks \ {Genesis}
           /\ q[i].kind \in {"connected", "disconnected"} => Moves(q, i)
<1>1. q[i] \in Notification
  OBVIOUS
<1> DEFINE n == q[i]
<1>2. n \in Notification
  BY <1>1
<1> HIDE DEF n
<1>3. /\ n.kind # "client" => n.block \in Blocks /\ n.kind \in {"connected", "disconnected"}
      /\ n.kind = "disconnected" => n.block \in Blocks \ {Genesis}
  BY <1>2 DEF Notification, ClientConnected, Connected, Disconnected
<1> QED
  BY <1>3 DEF n, Moves

\* Taking the first out.
LEMMA QueueTail ==
    ASSUME NEW q \in Seq(Notification), q # <<>>, NEW l, NEW b, NEW g, NEW c,
           QueueOK(q, l, b, g), Low(q, c)
    PROVE  QueueOK(Tail(q), l, b, g) /\ Low(Tail(q), c)
<1> DEFINE t == Tail(q)
<1>1. t \in Seq(Notification) /\ Len(t) = Len(q) - 1 /\ Len(q) \in Nat \ {0}
  OBVIOUS
<1>2. \A i \in 1 .. Len(t) : t[i] = q[i + 1] /\ i + 1 \in 1 .. Len(q)
  OBVIOUS
<1> HIDE DEF t
<1>3. ASSUME NEW i \in 1 .. Len(t), i < Len(t), Moves(t, i), Moves(t, i + 1)
      PROVE  End(t[i]) = Start(t[i + 1])
  <2>1. i + 1 \in 1 .. Len(t) /\ i + 1 < Len(q)
    BY <1>1, <1>3
  <2> QED
    BY <1>1, <1>2, <1>3, <2>1 DEF QueueOK, Moves
<1>4. Len(t) > 0 => t[Len(t)] = q[Len(q)]
  BY <1>1, <1>2
<1> QED
  BY <1>1, <1>2, <1>3, <1>4 DEF QueueOK, Low, Moves, t

\* Keeping the first n of a connection that is lost.
LEMMA QueueCut ==
    ASSUME NEW q \in Seq(Notification), NEW n \in 0 .. Len(q), NEW l, NEW b, NEW g, NEW c,
           QueueOK(q, l, b, g)
    PROVE  /\ QueueOK(SubSeq(q, 1, n), "down", b, g)
           /\ Low(q, c) => Low(SubSeq(q, 1, n), c)
<1> DEFINE t == SubSeq(q, 1, n)
<1>1. t \in Seq(Notification) /\ Len(t) = n /\ n \in Nat /\ Len(q) \in Nat
  OBVIOUS
<1>2. \A i \in 1 .. Len(t) : t[i] = q[i] /\ i \in 1 .. Len(q)
  OBVIOUS
<1> HIDE DEF t
<1>3. ASSUME NEW i \in 1 .. Len(t), i < Len(t), Moves(t, i), Moves(t, i + 1)
      PROVE  End(t[i]) = Start(t[i + 1])
  <2>1. i + 1 \in 1 .. Len(t) /\ i < Len(q)
    BY <1>1, <1>3
  <2> QED
    BY <1>1, <1>2, <1>3, <2>1 DEF QueueOK, Moves
<1> QED
  BY <1>1, <1>2, <1>3 DEF QueueOK, Low, Moves, t

\* What a wallet at x may go through it may go through when the connection is lost.
LEMMA LeadsCut ==
    ASSUME NEW q \in Seq(Notification), NEW n \in 0 .. Len(q), NEW l, NEW b, NEW x,
           Leads(q, l, b, x)
    PROVE  Leads(SubSeq(q, 1, n), "down", b, x)
<1> DEFINE t == SubSeq(q, 1, n)
<1>1. t \in Seq(Notification) /\ Len(t) = n /\ n \in Nat /\ Len(q) \in Nat
  OBVIOUS
<1>2. \A i \in 1 .. Len(t) : t[i] = q[i] /\ i \in 1 .. Len(q)
  OBVIOUS
<1> HIDE DEF t
<1>3. PICK j \in 0 .. Len(q) :
          /\ \A i \in 1 .. j : Moves(q, i) /\ Height[q[i].block] <= Height[x]
          /\ j < Len(q) => \/ ~ Moves(q, j + 1)
                           \/ Start(q[j + 1]) = x
  BY DEF Leads
<1>4. CASE n <= j
  <2>1. \A i \in 1 .. n : Moves(t, i) /\ Height[t[i].block] <= Height[x]
    BY <1>1, <1>2, <1>3, <1>4 DEF Moves
  <2>2. n \in 0 .. Len(t) /\ ~ (n < Len(t))
    BY <1>1
  <2>3. Leads(t, "down", b, x)
    BY <2>1, <2>2 DEF Leads
  <2> QED
    BY <2>3 DEF t
<1>5. CASE j < n
  <2>1. \A i \in 1 .. j : Moves(t, i) /\ Height[t[i].block] <= Height[x]
    BY <1>1, <1>2, <1>3, <1>5 DEF Moves
  <2>2. \/ ~ Moves(t, j + 1)
        \/ Start(t[j + 1]) = x
    BY <1>1, <1>2, <1>3, <1>5 DEF Moves
  <2>3. j \in 0 .. Len(t) /\ j < Len(t)
    BY <1>1, <1>5
  <2> QED
    BY <2>1, <2>2, <2>3 DEF Leads, t
<1> QED
  BY <1>1, <1>4, <1>5

\* One more notification, of what the server did where it stood, or of a
\* connection.
LEMMA LeadsAppend ==
    ASSUME NEW q \in Seq(Notification), NEW e \in Notification, NEW l, NEW m, NEW b, NEW c,
           NEW x, Leads(q, l, b, x),
           \/ e.kind = "client"
           \/ l # "down" /\ Start(e) = b
    PROVE  Leads(Append(q, e), m, c, x)
<1> DEFINE t == Append(q, e)
<1>1. t \in Seq(Notification) /\ Len(t) = Len(q) + 1 /\ Len(q) \in Nat /\ t[Len(q) + 1] = e
  OBVIOUS
<1>2. \A i \in 1 .. Len(q) : t[i] = q[i]
  OBVIOUS
<1> HIDE DEF t
<1>3. PICK j \in 0 .. Len(q) :
          /\ \A i \in 1 .. j : Moves(q, i) /\ Height[q[i].block] <= Height[x]
          /\ j = Len(q) => \/ l = "down"
                           \/ l = "registered" /\ b = x
          /\ j < Len(q) => \/ ~ Moves(q, j + 1)
                           \/ Start(q[j + 1]) = x
  BY DEF Leads
<1>4. \A i \in 1 .. j : Moves(t, i) /\ Height[t[i].block] <= Height[x]
  BY <1>1, <1>2, <1>3 DEF Moves
<1>5. \/ ~ Moves(t, j + 1)
      \/ Start(t[j + 1]) = x
  <2>1. CASE j = Len(q)
    BY <1>1, <1>3, <2>1 DEF Moves
  <2>2. CASE j < Len(q)
    BY <1>1, <1>2, <1>3, <2>2 DEF Moves
  <2> QED
    BY <1>1, <2>1, <2>2
<1>6. j \in 0 .. Len(t) /\ j < Len(t)
  BY <1>1
<1> QED
  BY <1>4, <1>5, <1>6 DEF Leads, t

\* A wallet where the server stands may go through any queue of blocks below,
\* provided a connection is announced if one is not registered.
LEMMA LeadsToBest ==
    ASSUME NEW q \in Seq(Notification), NEW l, NEW b, Low(q, b),
           HasClient(q) \/ l \in {"down", "registered"}
    PROVE  Leads(q, l, b, b)
<1>1. CASE ~ HasClient(q)
  <2>1. Len(q) \in 0 .. Len(q)
    OBVIOUS
  <2> QED
    BY <1>1, <2>1 DEF Leads, Low, HasClient
<1>2. CASE HasClient(q)
  <2> DEFINE C == {i \in 1 .. Len(q) : ~ Moves(q, i)}
  <2>1. C \subseteq Nat /\ C # {}
    BY <1>2 DEF HasClient
  <2>2. PICK k \in C : \A i \in C : ~ (<<i, k>> \in OpToRel(<, Nat))
    BY <2>1, WFMin, NatLessThanWellFounded
  <2>3. \A i \in C : ~ (i < k)
    BY <2>1, <2>2 DEF OpToRel
  <2>4. k - 1 \in 0 .. Len(q) /\ k - 1 < Len(q) /\ ~ Moves(q, (k - 1) + 1) /\ k \in 1 .. Len(q)
    <3>1. k \in 1 .. Len(q) /\ ~ Moves(q, k) /\ Len(q) \in Nat
      OBVIOUS
    <3>2. (k - 1) + 1 = k
      BY <3>1
    <3> QED
      BY <3>1, <3>2
  <2>5. \A i \in 1 .. (k - 1) : i \in 1 .. Len(q) /\ Moves(q, i)
    BY <2>3, <2>4
  <2>6. \A i \in 1 .. (k - 1) : Moves(q, i) /\ Height[q[i].block] <= Height[b]
    BY <2>5 DEF Low
  <2> QED
    BY <2>4, <2>6 DEF Leads
<1> QED
  BY <1>1, <1>2

\* The first notification: it starts at x, or is below and passed over, or is a
\* connection.
LEMMA LeadsFirst ==
    ASSUME NEW q \in Seq(Notification), q # <<>>, NEW l, NEW b, NEW x, Leads(q, l, b, x),
           Moves(q, 1)
    PROVE  \/ Start(q[1]) = x
           \/ Height[q[1].block] <= Height[x] /\ Leads(Tail(q), l, b, x)
<1> DEFINE t == Tail(q)
<1>1. t \in Seq(Notification) /\ Len(t) = Len(q) - 1 /\ Len(q) \in Nat \ {0}
  OBVIOUS
<1>2. \A i \in 1 .. Len(t) : t[i] = q[i + 1] /\ i + 1 \in 1 .. Len(q)
  OBVIOUS
<1> HIDE DEF t
<1>3. PICK j \in 0 .. Len(q) :
          /\ \A i \in 1 .. j : Moves(q, i) /\ Height[q[i].block] <= Height[x]
          /\ j = Len(q) => \/ l = "down"
                           \/ l = "registered" /\ b = x
          /\ j < Len(q) => \/ ~ Moves(q, j + 1)
                           \/ Start(q[j + 1]) = x
  BY DEF Leads
<1>4. CASE j = 0
  BY <1>1, <1>3, <1>4
<1>5. CASE j > 0
  <2> DEFINE k == j - 1
  <2>1. k \in 0 .. Len(t) /\ k + 1 = j
    BY <1>1, <1>5
  <2> HIDE DEF k
  <2>2. ASSUME NEW i \in 1 .. k
        PROVE  Moves(t, i) /\ Height[t[i].block] <= Height[x]
    <3>1. i \in 1 .. Len(t) /\ i + 1 \in 1 .. j
      BY <1>1, <2>1
    <3> QED
      BY <1>2, <1>3, <3>1 DEF Moves
  <2>3. k = Len(t) => \/ l = "down"
                      \/ l = "registered" /\ b = x
    BY <1>1, <1>3, <2>1
  <2>4. k < Len(t) => \/ ~ Moves(t, k + 1)
                      \/ Start(t[k + 1]) = x
    <3>1. ASSUME k < Len(t) PROVE t[k + 1] = q[j + 1] /\ j < Len(q)
      BY <1>1, <1>2, <2>1, <3>1
    <3> QED
      BY <1>3, <3>1 DEF Moves
  <2>5. Leads(t, l, b, x)
    BY <2>1, <2>2, <2>3, <2>4 DEF Leads
  <2>6. Height[q[1].block] <= Height[x]
    BY <1>3, <1>5
  <2> QED
    BY <2>5, <2>6 DEF t
<1> QED
  BY <1>4, <1>5

\* Having gone with the first notification the wallet is where the next starts.
LEMMA LeadsOn ==
    ASSUME NEW q \in Seq(Notification), q # <<>>, NEW l \in {"down", "up", "registered"},
           NEW b, NEW g, QueueOK(q, l, b, g), Moves(q, 1)
    PROVE  Leads(Tail(q), l, b, End(q[1]))
<1> DEFINE t == Tail(q)
<1>1. t \in Seq(Notification) /\ Len(t) = Len(q) - 1 /\ Len(q) \in Nat \ {0}
  OBVIOUS
<1>2. Len(t) > 0 => t[1] = q[2]
  OBVIOUS
<1> HIDE DEF t
<1>3. CASE Len(t) = 0
  <2>1. Len(q) = 1
    BY <1>1, <1>3
  <2>2. l = "down" \/ (l = "registered" /\ b = End(q[1]))
    BY <2>1 DEF QueueOK
  <2>3. 0 \in 0 .. Len(t) /\ ~ (0 < Len(t)) /\ \A i \in 1 .. 0 : FALSE
    BY <1>3
  <2>4. Leads(t, l, b, End(q[1]))
    BY <1>3, <2>2, <2>3 DEF Leads
  <2> QED
    BY <2>4 DEF t
<1>4. CASE Len(t) > 0
  <2>1. Moves(q, 1 + 1) => Start(q[1 + 1]) = End(q[1])
    BY <1>1, <1>4 DEF QueueOK
  <2>2. ~ Moves(t, 0 + 1) \/ Start(t[0 + 1]) = End(q[1])
    BY <1>2, <1>4, <2>1 DEF Moves
  <2> QED
    BY <1>4, <2>2 DEF Leads, t
<1> QED
  BY <1>1, <1>3, <1>4

\* One more notification keeps a queue as it should be: that of a connection,
LEMMA QueueClient ==
    ASSUME NEW q \in Seq(Notification), NEW b, NEW g, QueueOK(q, "down", b, g)
    PROVE  QueueOK(Append(q, ClientConnected), "up", b, g)
<1> DEFINE t == Append(q, ClientConnected)
<1>1. t \in Seq(Notification) /\ Len(t) = Len(q) + 1 /\ Len(q) \in Nat
      /\ t[Len(q) + 1] = ClientConnected
  BY DEF Notification
<1>2. \A i \in 1 .. Len(q) : t[i] = q[i]
  OBVIOUS
<1> HIDE DEF t
<1>3. /\ ~ Moves(t, Len(t)) /\ t[Len(t)].kind # "connected" /\ t[Len(t)].kind # "disconnected"
  BY <1>1 DEF Moves, ClientConnected
<1>4. \A i \in 1 .. Len(t) : i = Len(t) \/ i \in 1 .. Len(q)
  BY <1>1
<1>5. ASSUME NEW i \in 1 .. Len(t), i < Len(t), Moves(t, i), Moves(t, i + 1)
      PROVE  End(t[i]) = Start(t[i + 1])
  <2>1. i + 1 # Len(t)
    BY <1>3, <1>5
  <2>2. i \in 1 .. Len(q) /\ i + 1 \in 1 .. Len(q) /\ i < Len(q)
    BY <1>1, <1>5, <2>1
  <2> QED
    BY <1>2, <1>5, <2>2 DEF QueueOK, Moves
<1>6. \A i \in 1 .. Len(t) : Moves(t, i) => Height[t[i].block] <= Height[g]
  BY <1>2, <1>3, <1>4 DEF QueueOK, Moves
<1>7. \A i \in 1 .. Len(t) : t[i].kind = "connected" =>
          /\ t[i].block # Genesis /\ Height[t[i].block] >= SyncFrom
          /\ MaturesGroup(t[i].block) => Height[b] >= Height[t[i].block] - Maturity
  BY <1>2, <1>3, <1>4 DEF QueueOK
<1>8. \A i \in 1 .. Len(t) : t[i].kind = "disconnected" => ~ Settled(t[i].block)
  BY <1>2, <1>3, <1>4 DEF QueueOK
<1> QED
  BY <1>3, <1>5, <1>6, <1>7, <1>8 DEF QueueOK, t

\* and that of a block, once the server has moved from b to c.
LEMMA QueueMoved ==
    ASSUME NEW q \in Seq(Notification), NEW l \in {"down", "up", "registered"},
           NEW b, NEW c, NEW g, QueueOK(q, l, b, g),
           NEW e \in Notification, e.kind # "client", Start(e) = b, End(e) = c,
           Height[e.block] <= Height[g],
           e.kind = "connected" =>
               /\ e.block # Genesis /\ Height[e.block] >= SyncFrom
               /\ MaturesGroup(e.block) => Height[c] >= Height[e.block] - Maturity,
           e.kind = "disconnected" => ~ Settled(e.block),
           \A i \in 1 .. Len(q) : q[i].kind = "connected" /\ MaturesGroup(q[i].block) =>
               Height[c] >= Height[q[i].block] - Maturity
    PROVE  QueueOK(IF l = "registered" THEN Append(q, e) ELSE q, l, c, g)
<1>1. CASE l # "registered"
  BY <1>1 DEF QueueOK
<1>2. CASE l = "registered"
  <2> DEFINE t == Append(q, e)
  <2>1. t \in Seq(Notification) /\ Len(t) = Len(q) + 1 /\ Len(q) \in Nat /\ t[Len(q) + 1] = e
    OBVIOUS
  <2>2. \A i \in 1 .. Len(q) : t[i] = q[i]
    OBVIOUS
  <2> HIDE DEF t
  <2>3. t[Len(t)] = e
    BY <2>1
  <2>4. \A i \in 1 .. Len(t) : i = Len(t) \/ i \in 1 .. Len(q)
    BY <2>1
  <2>5. ASSUME NEW i \in 1 .. Len(t), i < Len(t), Moves(t, i), Moves(t, i + 1)
        PROVE  End(t[i]) = Start(t[i + 1])
    <3>1. CASE i = Len(q)
      <4>1. Len(q) > 0 /\ Moves(q, Len(q))
        BY <2>1, <2>2, <2>5, <3>1 DEF Moves
      <4>2. End(q[Len(q)]) = b
        BY <1>2, <4>1 DEF QueueOK
      <4> QED
        BY <2>1, <2>2, <3>1, <4>1, <4>2
    <3>2. CASE i # Len(q)
      <4>1. i \in 1 .. Len(q) /\ i + 1 \in 1 .. Len(q) /\ i < Len(q)
        BY <2>1, <2>5, <3>2
      <4> QED
        BY <2>2, <2>5, <4>1 DEF QueueOK, Moves
    <3> QED
      BY <3>1, <3>2
  <2>6. \A i \in 1 .. Len(t) : Moves(t, i) => Height[t[i].block] <= Height[g]
    BY <2>2, <2>3, <2>4 DEF QueueOK, Moves
  <2>7. \A i \in 1 .. Len(t) : t[i].kind = "connected" =>
            /\ t[i].block # Genesis /\ Height[t[i].block] >= SyncFrom
            /\ MaturesGroup(t[i].block) => Height[c] >= Height[t[i].block] - Maturity
    BY <2>2, <2>3, <2>4 DEF QueueOK
  <2>8. \A i \in 1 .. Len(t) : t[i].kind = "disconnected" => ~ Settled(t[i].block)
    BY <2>2, <2>3, <2>4 DEF QueueOK
  <2>9. QueueOK(t, l, c, g)
    BY <1>2, <2>3, <2>5, <2>6, <2>7, <2>8 DEF QueueOK
  <2> QED
    BY <1>2, <2>9 DEF t
<1> QED
  BY <1>1, <1>2

\* A registered link may follow one that has told of nothing.
LEMMA QueueRegistered ==
    ASSUME NEW q, NEW l \in {"up", "registered"}, NEW b, NEW g, QueueOK(q, l, b, g)
    PROVE  QueueOK(q, "registered", b, g)
  BY DEF QueueOK

\* Where a link is not registered, what the server does makes no difference.
LEMMA LeadsUntold ==
    ASSUME NEW q, NEW l, NEW b, NEW c, NEW x, Leads(q, l, b, x), l # "registered"
    PROVE  Leads(q, l, c, x)
  BY DEF Leads

\* Nor does registering, to a wallet that waits for a connection to be announced.
LEMMA LeadsRegistered ==
    ASSUME NEW q, NEW b, NEW x, Leads(q, "up", b, x)
    PROVE  Leads(q, "registered", b, x)
  BY DEF Leads

\* A queue that begins with the announcement of a connection.
LEMMA LeadsAnnounced ==
    ASSUME NEW q \in Seq(Notification), q # <<>>, ~ Moves(q, 1), NEW l, NEW b, NEW x
    PROVE  Leads(q, l, b, x)
<1>1. 0 \in 0 .. Len(q) /\ 0 < Len(q) /\ ~ Moves(q, 0 + 1) /\ \A i \in 1 .. 0 : FALSE
  OBVIOUS
<1> QED
  BY <1>1 DEF Leads

-----------------------------------------------------------------------------
(* Following a branch: the invariant *)

\* Catching up, the wallet is on the server's branch, and at the end of it will
\* be at the block it asked for, from where it may go through the queue.
CatchingUp ==
    /\ at <= target
    /\ OpenTx.synced = synced /\ DbFollows(OpenTx)
    /\ db.synced \in Branch[synced]
    /\ \E t \in Branch[best] : Height[t] = target /\ Leads(queue, link, best, t)

\* Where the wallet stands between two steps of handleChainNotifications.
HandlerFollows ==
    /\ handler \in {"down", "idle", "compare", "register", "ask", "catchup"}
    /\ handler \notin {"down", "catchup"} => synced = db.synced
    /\ handler = "idle" => Leads(queue, link, best, synced)
    /\ Syncing => Low(queue, best)
    /\ handler \in {"register", "ask", "catchup"} => synced \in Branch[best]
    /\ handler = "ask" => HasClient(queue) \/ link \in {"down", "registered"}
    /\ handler = "catchup" => CatchingUp

\* The invariant.
Following ==
    /\ link \in {"down", "up", "registered"}
    /\ QueueOK(queue, link, best, goal)
    /\ Height[best] >= SyncFrom - 1 /\ Height[best] <= Height[goal]
    /\ Height[goal] >= SyncFrom
    /\ DbFollows(db)
    /\ HandlerFollows

\* It holds of the first state.
LEMMA InitFollows == Init => Following
<1> SUFFICES ASSUME Init PROVE Following
  OBVIOUS
<1>1. /\ best \in Blocks /\ goal = best /\ Height[best] >= SyncFrom /\ link = "up"
      /\ queue = <<ClientConnected>> /\ handler = "idle" /\ synced = Genesis
      /\ Genesis \in Blocks /\ Height[Genesis] = 0 /\ Branch[Genesis] = {Genesis}
      /\ Genesis # None
  BY TreeAssumption, SyncAssumption DEF Init
<1>2. Height[best] \in Nat /\ SyncFrom \in Nat /\ 0 \in Heights
      /\ \A h \in Heights : h \in Nat
  BY <1>1, GenesisFirst, SyncFromMultiple DEF Heights
<1>3. QueueOK(queue, link, best, goal) /\ queue \in Seq(Notification) /\ ~ Moves(queue, 1)
  <2>1. Len(queue) = 1 /\ queue[1].kind = "client" /\ queue \in Seq(Notification)
    BY <1>1 DEF ClientConnected, Notification
  <2>2. 1 .. Len(queue) = {1}
    BY <2>1
  <2> QED
    BY <1>1, <2>1, <2>2 DEF QueueOK, Moves
<1>4. Leads(queue, link, best, synced)
  BY <1>1, <1>3, LeadsAnnounced
<1>5. DbFollows(db) /\ db.synced = Genesis
  <2>1. db = [synced |-> Genesis, stored |-> {Genesis}, matured |-> {},
              hashes |-> [h \in Heights |-> IF h = 0 THEN Genesis ELSE None], birthday |-> None]
    BY DEF Init
  <2>2. /\ db.synced = Genesis /\ db.stored = {Genesis} /\ db.matured = {}
        /\ db.hashes = [h \in Heights |-> IF h = 0 THEN Genesis ELSE None]
    BY <2>1
  <2>3. Follower!Kept(Genesis) = {Genesis}
    BY <1>1 DEF Follower!Kept
  <2>4. \A h \in Heights : h <= 0 => h = 0 /\ db.hashes[h] = Genesis
    BY <1>2, <2>2
  <2> QED
    BY <1>1, <2>2, <2>3, <2>4 DEF DbFollows
<1> QED
  BY <1>1, <1>2, <1>3, <1>4, <1>5 DEF Following, HandlerFollows, Syncing

\* What the server and the connection do leaves the wallet where it stands, if
\* what it may go through it still may, and a branch it synchronizes to goes on.
LEMMA HandlerKept ==
    ASSUME HandlerFollows, UNCHANGED <<loop, synced, db>>,
           \A x : Leads(queue, link, best, x) => Leads(queue', link', best', x),
           Syncing => Low(queue', best') /\ Branch[best] \subseteq Branch[best'],
           handler = "ask" => HasClient(queue') \/ link' \in {"down", "registered"}
    PROVE  HandlerFollows'
<1>1. UNCHANGED <<handler, at, target, tx, batch>> /\ Syncing' = Syncing /\ OpenTx' = OpenTx
  BY DEF loop, Syncing, OpenTx
<1>2. handler = "catchup" => CatchingUp'
  <2> SUFFICES ASSUME handler = "catchup" PROVE CatchingUp'
    OBVIOUS
  <2>1. CatchingUp /\ Branch[best] \subseteq Branch[best']
    BY DEF HandlerFollows, Syncing
  <2>2. \E t \in Branch[best'] : Height[t] = target /\ Leads(queue', link', best', t)
    BY <2>1 DEF CatchingUp
  <2> QED
    BY <1>1, <2>1, <2>2 DEF CatchingUp
<1>3. handler \in {"register", "ask", "catchup"} => synced \in Branch[best']
  BY DEF HandlerFollows, Syncing
<1> QED
  BY <1>1, <1>2, <1>3 DEF HandlerFollows

-----------------------------------------------------------------------------
(* Following a branch: the server *)

\* A block that is not replaced and is as high as the server's is the server's,
\* which then does not leave it.
LEMMA BestStays ==
    ASSUME Inv, Following, NEW x \in Blocks, Settled(x), Height[x] = Height[best]
    PROVE  best \in Branch[goal]
<1>1. best \in Blocks /\ goal \in Blocks /\ Height[best] \in Nat /\ Height[best] <= Height[goal]
  BY GenesisFirst DEF Inv, Following
<1>2. x \in Branch[best]
  BY <1>1 DEF Settled
<1>3. x = best
  BY <1>1, <1>2, BranchBelow
<1> QED
  BY <1>1, <1>3 DEF Settled

\* The server attaches the block after its best one.
LEMMA AttachedIs ==
    ASSUME best \in Blocks, goal \in Blocks, best \in Branch[goal] \ {goal},
           NEW b \in Branch[goal], Height[b] = Height[best] + 1
    PROVE  /\ b \in Blocks \ {Genesis} /\ Parent[b] = best /\ Branch[b] = Branch[best] \cup {b}
           /\ Height[best] \in Nat /\ Height[b] <= Height[goal]
<1>1. b \in Blocks /\ Height[best] \in Nat /\ Height[Genesis] = 0 /\ Height[b] <= Height[goal]
      /\ Branch[b] \subseteq Branch[goal]
  BY BranchBelow, GenesisFirst, TreeAssumption
<1>2. b # Genesis
  BY <1>1
<1>3. Parent[b] \in Blocks /\ Height[Parent[b]] = Height[best] /\ Branch[b] = Branch[Parent[b]] \cup {b}
  BY <1>1, <1>2, ParentBelow
<1>4. Parent[b] \in Branch[goal]
  BY <1>1, <1>3, BranchBelow
<1>5. Parent[b] = best
  BY <1>3, <1>4, BranchHeights
<1> QED
  BY <1>1, <1>2, <1>3, <1>5

\* One notification more makes no announcement of a connection less.
LEMMA ClientStays ==
    ASSUME NEW q \in Seq(Notification), NEW e \in Notification, HasClient(q)
    PROVE  HasClient(Append(q, e))
<1>1. PICK i \in 1 .. Len(q) : ~ Moves(q, i)
  BY DEF HasClient
<1>2. i \in 1 .. Len(Append(q, e)) /\ Append(q, e)[i] = q[i]
  OBVIOUS
<1> QED
  BY <1>1, <1>2 DEF HasClient, Moves

\* One notification more, about a block that is not above c, keeps all low.
LEMMA LowAppend ==
    ASSUME NEW q \in Seq(Notification), NEW e \in Notification, NEW b \in Blocks, NEW c \in Blocks,
           Low(q, b), Height[b] <= Height[c], Height[e.block] <= Height[c]
    PROVE  Low(Append(q, e), c) /\ Low(q, c)
<1> DEFINE t == Append(q, e)
<1>1. t \in Seq(Notification) /\ Len(t) = Len(q) + 1 /\ Len(q) \in Nat /\ t[Len(q) + 1] = e
      /\ \A i \in 1 .. Len(q) : t[i] = q[i]
  OBVIOUS
<1> HIDE DEF t
<1>2. Height[b] \in Nat /\ Height[c] \in Nat
  BY GenesisFirst
<1>3. \A i \in 1 .. Len(q) : Moves(q, i) => Height[q[i].block] \in Nat
  BY MovesBlock, GenesisFirst
<1>4. Low(q, c)
  BY <1>2, <1>3 DEF Low
<1>5. \A i \in 1 .. Len(t) : i = Len(q) + 1 \/ i \in 1 .. Len(q)
  BY <1>1
<1>6. Low(t, c)
  BY <1>1, <1>4, <1>5 DEF Low, Moves
<1> QED
  BY <1>4, <1>6 DEF t

\* A higher chain appears.
LEMMA NewGoalFollows ==
    ASSUME Inv, Following, NewGoal
    PROVE  Following'
<1>1. PICK b \in Blocks : Height[b] > Height[best] /\ goal' = b
  BY DEF NewGoal
<1>2. best = goal /\ UNCHANGED <<best, client, loop, synced, db>>
  BY DEF NewGoal
<1>3. UNCHANGED <<link, queue>> /\ best \in Blocks /\ queue \in Seq(Notification)
  BY <1>2 DEF client, Inv
<1>4. Height[b] \in Nat /\ Height[best] \in Nat /\ SyncFrom \in Nat
  BY <1>3, GenesisFirst, SyncFromMultiple
<1>5. \A i \in 1 .. Len(queue) : Moves(queue, i) => Height[queue[i].block] \in Nat
  BY <1>3, MovesBlock, GenesisFirst
<1>6. QueueOK(queue, link, best, b)
  BY <1>1, <1>2, <1>4, <1>5 DEF Following, QueueOK
<1>7. handler = "ask" => HasClient(queue) \/ link \in {"down", "registered"}
  BY DEF Following, HandlerFollows
<1>8. Syncing => Low(queue, best)
  BY DEF Following, HandlerFollows
<1>9. HandlerFollows'
  BY <1>2, <1>3, <1>7, <1>8, HandlerKept DEF Following
<1> QED
  BY <1>1, <1>2, <1>3, <1>4, <1>6, <1>9 DEF Following

\* The server detaches a block: the wallet does not synchronize, and the block is
\* one that may be replaced.
LEMMA ServerDetachFollows ==
    ASSUME Overlap = "none", ShallowForks, Inv, Following, ServerDetach
    PROVE  Following'
<1> DEFINE p == Parent[best]
           n == Disconnected(best)
<1>1. /\ best \notin Branch[goal] /\ ~ Syncing /\ best' = p
      /\ queue' = IF link = "registered" THEN Append(queue, n) ELSE queue
      /\ UNCHANGED <<goal, link, loop, synced, db>>
  BY DEF ServerDetach, MayDetach, Notify
<1>2. best \in Blocks \ {Genesis} /\ goal \in Blocks /\ queue \in Seq(Notification)
  BY <1>1, GenesisFirst DEF Inv
<1>3. /\ p \in Blocks /\ Height[p] = Height[best] - 1 /\ Height[best] \in Nat \ {0}
      /\ Height[p] \in Nat /\ Height[goal] \in Nat /\ SyncFrom \in Nat /\ p \in Branch[best]
  BY <1>2, ParentBelow, GenesisFirst, SyncFromMultiple, BranchBelow
<1>4. /\ n \in Notification /\ n.kind = "disconnected" /\ n.block = best
      /\ Start(n) = best /\ End(n) = p
  BY <1>2 DEF Notification, Disconnected, Start, End
<1> HIDE DEF n
<1>5. ~ Settled(best)
  BY <1>1, <1>2 DEF Settled, Following
<1>6. ASSUME NEW x \in Blocks, Settled(x), Height[x] = Height[best]
      PROVE  FALSE
  BY <1>1, <1>6, BestStays
<1>7. Height[best] >= SyncFrom
  <2> SUFFICES ASSUME Height[best] = SyncFrom - 1 PROVE FALSE
    BY <1>3 DEF Following
  <2>1. PICK x \in Branch[goal] : Height[x] = Height[best]
    BY <1>2, <1>3, BranchFull DEF Following
  <2>2. x \in Blocks /\ Settled(x)
    BY <1>2, <1>3, <2>1, BranchBelow DEF ShallowForks, Following
  <2> QED
    BY <1>6, <2>1, <2>2
<1>8. ASSUME NEW i \in 1 .. Len(queue), queue[i].kind = "connected", MaturesGroup(queue[i].block)
      PROVE  Height[p] >= Height[queue[i].block] - Maturity
  <2> DEFINE u == queue[i].block
  <2>1. u \in Blocks /\ Height[u] \in Nat /\ Maturity \in Nat
    BY <1>2, <1>8, MovesBlock, GenesisFirst, GroupAssumption
  <2>2. Height[best] >= Height[u] - Maturity /\ MaturesGroup(u)
    BY <1>8 DEF Following, QueueOK
  <2> HIDE DEF u
  <2>3. CASE Height[best] = Height[u] - Maturity
    <3>1. PICK x \in Branch[u] : Height[x] = Height[best]
      BY <1>3, <2>1, <2>3, BranchFull
    <3>2. x \in Blocks /\ Settled(x)
      BY <2>1, <2>2, <2>3, <3>1, BranchBelow DEF ShallowForks
    <3> QED
      BY <1>6, <3>1, <3>2
  <2>4. CASE Height[best] # Height[u] - Maturity
    <3>1. Height[p] >= Height[u] - Maturity
      BY <1>3, <2>1, <2>2, <2>4
    <3> QED
      BY <3>1 DEF u
  <2> QED
    BY <2>3, <2>4
<1>9. QueueOK(queue', link', best', goal')
  <2>1. link \in {"down", "up", "registered"} /\ QueueOK(queue, link, best, goal)
        /\ Height[best] <= Height[goal]
    BY DEF Following
  <2>2. QueueOK(IF link = "registered" THEN Append(queue, n) ELSE queue, link, p, goal)
    BY <1>2, <1>4, <1>5, <1>8, <2>1, QueueMoved
  <2> QED
    BY <1>1, <2>2
<1>10. ASSUME NEW x, Leads(queue, link, best, x)
       PROVE  Leads(queue', link', best', x)
  <2>1. CASE link = "registered"
    BY <1>1, <1>2, <1>4, <1>10, <2>1, LeadsAppend
  <2>2. CASE link # "registered"
    BY <1>1, <1>10, <2>2, LeadsUntold
  <2> QED
    BY <2>1, <2>2
<1>11. HandlerFollows'
  <2>1. handler # "ask" /\ HandlerFollows
    BY <1>1 DEF Syncing, Following
  <2> QED
    BY <1>1, <1>10, <2>1, HandlerKept
<1> QED
  BY <1>1, <1>3, <1>7, <1>9, <1>11 DEF Following

\* The server attaches a block.
LEMMA ServerAttachFollows ==
    ASSUME Inv, Following, ServerAttach
    PROVE  Following'
<1>1. PICK b \in Branch[goal] : Height[b] = Height[best] + 1 /\ best' = b /\ Notify(Connected(b))
  BY DEF ServerAttach
<1> DEFINE n == Connected(b)
<1>2. /\ best \in Branch[goal] \ {goal}
      /\ queue' = IF link = "registered" THEN Append(queue, n) ELSE queue
      /\ UNCHANGED <<goal, link, loop, synced, db>>
  BY <1>1 DEF ServerAttach, Notify
<1>3. best \in Blocks /\ goal \in Blocks /\ queue \in Seq(Notification)
  BY DEF Inv
<1>4. /\ b \in Blocks \ {Genesis} /\ Parent[b] = best /\ Branch[b] = Branch[best] \cup {b}
      /\ Height[best] \in Nat /\ Height[b] <= Height[goal] /\ SyncFrom \in Nat
      /\ Height[b] >= SyncFrom /\ Height[b] \in Nat
  BY <1>1, <1>2, <1>3, AttachedIs, SyncFromMultiple, GenesisFirst DEF Following
<1>5. /\ n \in Notification /\ n.kind = "connected" /\ n.block = b
      /\ Start(n) = best /\ End(n) = b
  BY <1>4 DEF Notification, Connected, Start, End
<1> HIDE DEF n
<1>6. MaturesGroup(b) => Height[b] >= Height[b] - Maturity
  BY <1>4, GroupAssumption
<1>7. ASSUME NEW i \in 1 .. Len(queue), queue[i].kind = "connected", MaturesGroup(queue[i].block)
      PROVE  Height[b] >= Height[queue[i].block] - Maturity
  <2>1. Height[best] >= Height[queue[i].block] - Maturity
    BY <1>7 DEF Following, QueueOK
  <2>2. Height[queue[i].block] \in Nat /\ Maturity \in Nat
    BY <1>3, <1>7, MovesBlock, GenesisFirst, GroupAssumption
  <2> QED
    BY <1>1, <1>4, <2>1, <2>2
<1>8. QueueOK(queue', link', best', goal')
  <2>1. link \in {"down", "up", "registered"} /\ QueueOK(queue, link, best, goal)
    BY DEF Following
  <2>2. QueueOK(IF link = "registered" THEN Append(queue, n) ELSE queue, link, b, goal)
    BY <1>3, <1>4, <1>5, <1>6, <1>7, <2>1, QueueMoved
  <2> QED
    BY <1>1, <1>2, <2>2
<1>9. ASSUME NEW x, Leads(queue, link, best, x)
      PROVE  Leads(queue', link', best', x)
  <2>1. CASE link = "registered"
    BY <1>2, <1>3, <1>5, <1>9, <2>1, LeadsAppend
  <2>2. CASE link # "registered"
    BY <1>2, <1>9, <2>2, LeadsUntold
  <2> QED
    BY <2>1, <2>2
<1>10. Syncing => Low(queue', best') /\ Branch[best] \subseteq Branch[best']
  <2>1. Syncing => Low(queue, best)
    BY DEF Following, HandlerFollows
  <2> QED
    BY <1>1, <1>2, <1>3, <1>4, <1>5, <2>1, LowAppend
<1>11. handler = "ask" => HasClient(queue') \/ link' \in {"down", "registered"}
  <2>1. handler = "ask" => HasClient(queue) \/ link \in {"down", "registered"}
    BY DEF Following, HandlerFollows
  <2> QED
    BY <1>2, <1>3, <1>5, <2>1, ClientStays
<1>12. HandlerFollows'
  BY <1>2, <1>9, <1>10, <1>11, HandlerKept DEF Following
<1> QED
  BY <1>1, <1>2, <1>4, <1>8, <1>12 DEF Following

-----------------------------------------------------------------------------
(* Following a branch: the connection and the process *)

\* The announcement of a connection is about no block.
LEMMA ClientAppended ==
    ASSUME NEW q \in Seq(Notification)
    PROVE  /\ HasClient(Append(q, ClientConnected))
           /\ \A b : Low(q, b) => Low(Append(q, ClientConnected), b)
<1> DEFINE t == Append(q, ClientConnected)
<1>1. t \in Seq(Notification) /\ Len(t) = Len(q) + 1 /\ Len(q) \in Nat
      /\ t[Len(q) + 1] = ClientConnected /\ \A i \in 1 .. Len(q) : t[i] = q[i]
  BY DEF Notification
<1> HIDE DEF t
<1>2. Len(q) + 1 \in 1 .. Len(t) /\ ~ Moves(t, Len(q) + 1)
  BY <1>1 DEF Moves, ClientConnected
<1>3. \A i \in 1 .. Len(t) : i = Len(q) + 1 \/ i \in 1 .. Len(q)
  BY <1>1
<1>4. ASSUME NEW b, Low(q, b)
      PROVE  Low(t, b)
  BY <1>1, <1>2, <1>3, <1>4 DEF Low, Moves
<1>5. HasClient(t)
  BY <1>2 DEF HasClient
<1> QED
  BY <1>4, <1>5 DEF t

\* The connection is lost, comes back, or is registered again.
LEMMA ConnectionFollows ==
    ASSUME Inv, Following, Connection
    PROVE  Following'
<1>1. /\ UNCHANGED <<server, loop, synced, db>> /\ queue \in Seq(Notification)
      /\ QueueOK(queue, link, best, goal) /\ UNCHANGED <<best, goal>>
  BY DEF Connection, ConnectionLost, Reconnect, Reregister, Inv, Following, server
<1>2. Syncing => Low(queue, best)
  BY DEF Following, HandlerFollows
<1>3. /\ link' \in {"down", "up", "registered"} /\ QueueOK(queue', link', best', goal')
      /\ \A x : Leads(queue, link, best, x) => Leads(queue', link', best', x)
      /\ Low(queue, best) => Low(queue', best')
      /\ HasClient(queue') \/ link' \in {"down", "registered"}
  <2>1. CASE ConnectionLost
    <3>1. PICK n \in 0 .. Len(queue) : queue' = SubSeq(queue, 1, n)
      BY <2>1 DEF ConnectionLost
    <3>2. link' = "down"
      BY <2>1 DEF ConnectionLost
    <3>3. QueueOK(queue', "down", best, goal) /\ (Low(queue, best) => Low(queue', best))
      BY <1>1, <3>1, QueueCut
    <3>4. \A x : Leads(queue, link, best, x) => Leads(queue', "down", best, x)
      BY <1>1, <3>1, LeadsCut
    <3> QED
      BY <1>1, <3>2, <3>3, <3>4
  <2>2. CASE Reconnect
    <3>1. link = "down" /\ link' = "up" /\ queue' = Append(queue, ClientConnected)
      BY <2>2 DEF Reconnect
    <3>2. ClientConnected \in Notification /\ ClientConnected.kind = "client"
      BY DEF Notification, ClientConnected
    <3>3. QueueOK(queue', "up", best, goal)
      BY <1>1, <3>1, QueueClient
    <3>4. \A x : Leads(queue, link, best, x) => Leads(queue', "up", best, x)
      BY <1>1, <3>1, <3>2, LeadsAppend
    <3>5. HasClient(queue') /\ (Low(queue, best) => Low(queue', best))
      BY <1>1, <3>1, ClientAppended
    <3> QED
      BY <1>1, <3>1, <3>3, <3>4, <3>5
  <2>3. CASE Reregister
    <3>1. link = "up" /\ link' = "registered" /\ queue' = queue
      BY <2>3 DEF Reregister
    <3> QED
      BY <1>1, <3>1, QueueRegistered, LeadsRegistered
  <2> QED
    BY <2>1, <2>2, <2>3 DEF Connection
<1>4. HandlerFollows'
  BY <1>1, <1>2, <1>3, HandlerKept DEF Following
<1> QED
  BY <1>1, <1>3, <1>4 DEF Following

\* The process ends or starts.
LEMMA ProcessFollows ==
    ASSUME Inv, Following, Die \/ Restart
    PROVE  Following'
<1>1. UNCHANGED <<best, goal, db>>
  BY DEF Die, Restart, server
<1>2. CASE Die
  <2>1. handler' = "down" /\ link' = "down" /\ queue' = <<>>
    BY <1>2 DEF Die
  <2>2. QueueOK(<<>>, "down", best, goal)
    BY DEF QueueOK
  <2> QED
    BY <1>1, <2>1, <2>2 DEF Following, HandlerFollows, Syncing
<1>3. CASE Restart
  <2>1. handler' = "idle" /\ link' = "up" /\ queue' = <<ClientConnected>> /\ synced' = db.synced
    BY <1>3 DEF Restart
  <2>2. /\ Len(queue') = 1 /\ queue'[1].kind = "client" /\ queue' \in Seq(Notification)
        /\ queue' # <<>> /\ 1 .. Len(queue') = {1}
    BY <2>1 DEF ClientConnected, Notification
  <2>3. ~ Moves(queue', 1)
    BY <2>2 DEF Moves
  <2>4. QueueOK(queue', "up", best, goal)
    BY <2>2, <2>3 DEF QueueOK
  <2>5. Leads(queue', link', best', synced')
    BY <2>2, <2>3, LeadsAnnounced
  <2> QED
    BY <1>1, <2>1, <2>4, <2>5 DEF Following, HandlerFollows, Syncing
<1> QED
  BY <1>2, <1>3

-----------------------------------------------------------------------------
(* Following a branch: the handler *)

\* Two databases of which one is on the branch of the other: what a step of the
\* handler makes of the first.
Along(d, e) == d.synced \in Branch[e.synced] \/ e.synced \in Branch[d.synced]

\* connectBlock stores a block that follows the synced one and passes over one
\* that is not above it.
LEMMA TakeConnectedFollows ==
    ASSUME StorageFails = FALSE, ShallowForks, Inv, Following, TakeConnected
    PROVE  Following' /\ Along(db, db')
<1> DEFINE b == Head(queue).block
           d == InsertBlock(PutSyncedTo(db, b), b)
<1>1. handler = "idle" /\ queue' = Tail(queue) /\ queue # <<>> /\ ConnectBlock(b)
      /\ UNCHANGED <<server, link, loop>> /\ Head(queue).kind = "connected"
  BY DEF TakeConnected, Take
<1>2. /\ queue \in Seq(Notification) /\ queue[1] = Head(queue) /\ 1 \in 1 .. Len(queue)
      /\ b \in Blocks /\ Moves(queue, 1) /\ Start(queue[1]) = Parent[b] /\ End(queue[1]) = b
  BY <1>1, Taken DEF Inv, Moves, Start, End
<1>3. /\ b # Genesis /\ Height[b] >= SyncFrom
      /\ MaturesGroup(b) => Height[best] >= Height[b] - Maturity
  BY <1>1, <1>2 DEF Following, QueueOK
<1> HIDE DEF b
<1>4. /\ synced = db.synced /\ Leads(queue, link, best, synced) /\ QueueOK(queue, link, best, goal)
      /\ DbFollows(db) /\ DbOK(db) /\ best \in Blocks /\ link \in {"down", "up", "registered"}
  BY <1>1 DEF Following, HandlerFollows, Inv
<1>5. /\ synced \in Blocks /\ Height[synced] \in Nat /\ Height[b] \in Nat /\ Height[best] \in Nat
      /\ Maturity \in Nat /\ synced # None /\ db.hashes[Height[synced]] = synced
  BY <1>2, <1>4, GenesisFirst, GroupAssumption, SyncAssumption DEF DbOK
<1>6. QueueOK(queue', link', best', goal')
  <2>1. QueueOK(Tail(queue), link, best, goal)
    <3>1. QueueOK(queue, link, best, goal) /\ Low(queue, goal)
      BY <1>4 DEF QueueOK, Low
    <3> QED
      BY <1>1, <1>2, <3>1, QueueTail
  <2> QED
    BY <1>1, <2>1 DEF server
<1>7. /\ DbFollows(db') /\ synced' = db'.synced /\ Along(db, db')
      /\ Leads(queue', link', best', synced')
  <2>1. CASE Parent[b] = synced
    <3>1. Height[b] = Height[synced] + 1
      BY <1>2, <1>3, <1>5, <2>1, ParentBelow
    <3>2. MayPut(db, b) /\ CanAsk(b)
      BY <1>3, <1>5, <3>1 DEF MayPut, CanAsk, HasHeight
    <3>3. synced' = b /\ db' = d
      BY <1>1, <1>5, <3>1, <3>2 DEF ConnectBlock
    <3>4. Asked(b) = MaturedBlocks(b)
      <4>1. ASSUME MaturesGroup(b), NEW a \in Branch[b], Height[a] <= Height[b] - Maturity
            PROVE  a \in Branch[best]
        <5>1. Settled(a) /\ a \in Blocks /\ Height[a] \in Nat
          BY <1>2, <4>1, BranchBelow, GenesisFirst DEF ShallowForks
        <5>2. Height[best] >= Height[a]
          BY <1>3, <1>5, <4>1, <5>1
        <5> QED
          BY <1>4, <5>1, <5>2 DEF Settled
      <4> QED
        BY <1>2, <1>3, <1>4, <4>1, AskedIs
    <3>5. DbFollows(d)
      BY <1>2, <1>3, <1>4, <2>1, <3>4, InsertFollows
    <3>6. d.synced = b
      BY <1>2, <1>4, <1>5, <3>1, InsertOK
    <3> HIDE DEF d
    <3>7. synced \in Branch[b]
      BY <1>2, <1>3, <1>5, <2>1, ParentBelow, BranchBelow
    <3>8. Leads(Tail(queue), link, best, b)
      BY <1>1, <1>2, <1>4, LeadsOn
    <3> QED
      BY <1>1, <1>4, <3>3, <3>5, <3>6, <3>7, <3>8 DEF Along, server
  <2>2. CASE Parent[b] # synced
    <3>1. Height[b] <= Height[synced] /\ Leads(Tail(queue), link, best, synced)
      BY <1>1, <1>2, <1>4, <2>2, LeadsFirst DEF b
    <3>2. UNCHANGED <<synced, db>>
      BY <1>1, <1>5, <3>1 DEF ConnectBlock
    <3>3. synced \in Branch[synced]
      BY <1>5, BranchBelow
    <3> QED
      BY <1>1, <1>4, <3>1, <3>2, <3>3 DEF Along, server
  <2> QED
    BY <2>1, <2>2
<1>8. HandlerFollows'
  BY <1>1, <1>7 DEF HandlerFollows, Syncing, loop
<1> QED
  BY <1>1, <1>4, <1>6, <1>7, <1>8 DEF Following, server

\* A block that may be replaced is detached where it is the synced one: the hashes
\* of the two blocks below it are kept.
LEMMA DetachPossible ==
    ASSUME ShallowForks, NEW d, DbOK(d), DbFollows(d), d.synced # Genesis, ~ Settled(d.synced)
    PROVE  /\ d.hashes[Height[d.synced] - 1] = Parent[d.synced]
           /\ MayPut(d, d.hashes[Height[d.synced] - 1])
<1> DEFINE b == d.synced
           h == Height[b]
<1>1. /\ b \in Blocks \ {Genesis} /\ Parent[b] \in Blocks /\ Height[Parent[b]] = h - 1
      /\ h \in Nat \ {0} /\ b \in Branch[b] /\ Branch[b] = Branch[Parent[b]] \cup {b}
      /\ MaxReorgDepth \in Nat \ {0} /\ ~ Settled(b) /\ d.hashes[0] = Genesis /\ Genesis # None
  BY ParentBelow, BranchBelow, SyncAssumption, TreeAssumption DEF DbOK
<1>2. /\ \A k \in Heights : k <= h => d.hashes[k] = None \/ d.hashes[k] \in Branch[b]
      /\ \A k \in Heights : k > 0 /\ k <= h /\ d.hashes[k] = None =>
            \E z \in Blocks : Height[z] >= k + MaxReorgDepth
      /\ \A k \in Heights : d.hashes[k] # None => Height[d.hashes[k]] = k
  BY DEF DbFollows, DbOK
<1> HIDE DEF b
<1>3. ASSUME NEW k \in {h - 1, h - 2}, k \in Nat, k \in Heights
      PROVE  d.hashes[k] # None
  <2>1. SUFFICES ASSUME d.hashes[k] = None PROVE FALSE
    OBVIOUS
  <2>2. k > 0 /\ k <= h
    BY <1>1, <1>3, <2>1
  <2>3. PICK z \in Blocks : Height[z] >= k + MaxReorgDepth
    BY <1>2, <1>3, <2>1, <2>2
  <2>4. Height[z] \in Nat
    BY GenesisFirst
  <2>5. CASE MaxReorgDepth <= 2
    <3>1. Height[b] <= Height[b] - MaxReorgDepth + 2
      BY <1>1, <2>5
    <3>2. Settled(b)
      BY <1>1, <3>1 DEF ShallowForks
    <3> QED
      BY <1>1, <3>2
  <2>6. CASE MaxReorgDepth > 2
    <3>1. h <= Height[z]
      BY <1>1, <1>3, <2>3, <2>4, <2>6
    <3>2. PICK a \in Branch[z] : Height[a] = h
      BY <1>1, <2>3, <3>1, BranchFull
    <3>3. Height[a] <= Height[z] - MaxReorgDepth + 2
      BY <1>1, <1>3, <2>3, <2>4, <3>2
    <3>4. Settled(a) /\ a \in Blocks
      BY <2>3, <3>2, <3>3, BranchBelow DEF ShallowForks
    <3>5. a \in Branch[b]
      BY <1>1, <3>2, <3>4 DEF Settled
    <3>6. a = b
      BY <1>1, <3>2, <3>5, BranchBelow
    <3> QED
      BY <1>1, <3>4, <3>6
  <2> QED
    BY <1>1, <2>5, <2>6
<1>4. h - 1 \in Nat /\ h - 1 \in Heights
  BY <1>1 DEF Heights
<1>5. d.hashes[h - 1] # None
  BY <1>3, <1>4
<1>6. d.hashes[h - 1] \in Branch[b] /\ Height[d.hashes[h - 1]] = h - 1
  BY <1>1, <1>2, <1>4, <1>5
<1>7. Parent[b] \in Branch[b]
  BY <1>1, BranchBelow
<1>8. d.hashes[h - 1] = Parent[b]
  BY <1>1, <1>6, <1>7, BranchHeights
<1>9. ASSUME h - 1 > 0
      PROVE  d.hashes[h - 2] # None
  <2>1. h - 2 \in Nat /\ h - 2 <= h /\ h - 2 <= Height[b]
    BY <1>1, <1>9
  <2>2. PICK a \in Branch[b] : Height[a] = h - 2
    BY <1>1, <2>1, BranchFull
  <2>3. h - 2 \in Heights
    BY <1>1, <2>2, BranchBelow DEF Heights
  <2> QED
    BY <1>3, <2>1, <2>3
<1>10. MayPut(d, d.hashes[h - 1])
  <2>1. (h - 1) - 1 = h - 2
    BY <1>1
  <2> QED
    BY <1>6, <1>9, <2>1 DEF MayPut
<1> QED
  BY <1>8, <1>10 DEF b

\* disconnectBlock detaches the synced block and passes over one that is not.
LEMMA TakeDisconnectedFollows ==
    ASSUME StorageFails = FALSE, ShallowForks, Inv, Following, TakeDisconnected
    PROVE  Following' /\ Along(db, db')
<1> DEFINE b == Head(queue).block
           p == db.hashes[Height[b] - 1]
           Fails == \/ Height[b] > Height[synced]
                    \/ db.hashes[Height[b]] # b
                    \/ p = None
                    \/ ~ MayPut(db, p)
<1>1. handler = "idle" /\ queue' = Tail(queue) /\ queue # <<>> /\ DisconnectBlock(b)
      /\ UNCHANGED <<server, link, loop>> /\ Head(queue).kind = "disconnected"
  BY DEF TakeDisconnected, Take
<1>2. /\ queue \in Seq(Notification) /\ queue[1] = Head(queue) /\ 1 \in 1 .. Len(queue)
      /\ b \in Blocks \ {Genesis} /\ Moves(queue, 1) /\ Start(queue[1]) = b
      /\ End(queue[1]) = Parent[b] /\ queue[1].block = b
  BY <1>1, Taken DEF Inv, Moves, Start, End
<1>3. ~ Settled(b)
  BY <1>1, <1>2 DEF Following, QueueOK
<1>4. \/ Fails /\ UNCHANGED <<synced, db>>
      \/ ~ Fails /\ synced' = p /\ db' = Rollback(PutSyncedTo(db, p), Height[p])
  BY <1>1 DEF DisconnectBlock
<1> HIDE DEF b
<1>5. /\ synced = db.synced /\ Leads(queue, link, best, synced) /\ QueueOK(queue, link, best, goal)
      /\ DbFollows(db) /\ DbOK(db) /\ best \in Blocks /\ link \in {"down", "up", "registered"}
  BY <1>1 DEF Following, HandlerFollows, Inv
<1>6. /\ synced \in Blocks /\ Height[synced] \in Nat /\ Height[b] \in Nat \ {0}
      /\ synced # None /\ db.hashes[Height[synced]] = synced /\ synced \in Branch[synced]
  BY <1>2, <1>5, GenesisFirst, SyncAssumption, ParentBelow, BranchBelow DEF DbOK
<1>7. QueueOK(queue', link', best', goal')
  <2>1. QueueOK(Tail(queue), link, best, goal)
    <3>1. QueueOK(queue, link, best, goal) /\ Low(queue, goal)
      BY <1>5 DEF QueueOK, Low
    <3> QED
      BY <1>1, <1>2, <3>1, QueueTail
  <2> QED
    BY <1>1, <2>1 DEF server
<1>8. /\ DbFollows(db') /\ synced' = db'.synced /\ Along(db, db')
      /\ Leads(queue', link', best', synced')
  <2>1. CASE ~ Fails
    <3>1. /\ Height[b] <= Height[synced] /\ db.hashes[Height[b]] = b /\ p # None /\ b # None
          /\ synced' = p /\ db' = Rollback(PutSyncedTo(db, p), Height[p])
      BY <1>2, <1>4, <1>6, <2>1, SyncAssumption
    <3>2. /\ Height[b] \in Heights /\ Height[b] - 1 \in Heights /\ Height[b] - 1 <= Height[synced]
          /\ Parent[b] \in Blocks /\ Height[Parent[b]] = Height[b] - 1
          /\ Parent[b] \in Branch[b]
      BY <1>2, <1>6, <3>1, ParentBelow, GenesisFirst, BranchBelow
    <3>3. b \in Branch[synced] /\ p \in Branch[synced] /\ Height[p] = Height[b] - 1
      BY <1>5, <3>1, <3>2 DEF DbFollows, DbOK
    <3>4. Parent[b] \in Branch[synced]
      BY <1>6, <3>2, <3>3, BranchBelow
    <3>5. p = Parent[b]
      BY <1>6, <3>2, <3>3, <3>4, BranchHeights
    <3> HIDE DEF p, Fails
    <3>6. p \in Blocks /\ p \in Branch[db.synced] /\ db.hashes[Height[p]] = p
      BY <1>5, <3>2, <3>3, <3>5 DEF p
    <3>7. DbFollows(db')
      BY <1>5, <3>1, <3>6, RollbackFollows
    <3>8. db'.synced = p
      BY <1>5, <3>1, <3>6, RollbackOK
    <3>9. Leads(Tail(queue), link, best, p)
      BY <1>1, <1>2, <1>5, <3>5, LeadsOn
    <3> QED
      BY <1>1, <3>1, <3>6, <3>7, <3>8, <3>9 DEF Along, server
  <2>2. CASE Fails
    <3>1. b # synced
      <4> SUFFICES ASSUME b = synced PROVE FALSE
        OBVIOUS
      <4>1. p = Parent[b] /\ MayPut(db, p) /\ Parent[b] # None
        BY <1>2, <1>3, <1>5, DetachPossible, ParentBelow, SyncAssumption
      <4> QED
        BY <1>6, <2>2, <4>1
    <3>2. Leads(Tail(queue), link, best, synced)
      BY <1>1, <1>2, <1>5, <3>1, LeadsFirst
    <3>3. UNCHANGED <<synced, db>>
      BY <1>4, <2>2
    <3> QED
      BY <1>1, <1>5, <1>6, <3>2, <3>3 DEF Along, server
  <2> QED
    BY <2>1, <2>2
<1>9. HandlerFollows'
  BY <1>1, <1>8 DEF HandlerFollows, Syncing, loop
<1> QED
  BY <1>1, <1>5, <1>7, <1>8, <1>9 DEF Following, server

\* The start of a synchronization: what is told of is no higher than where the
\* server stands.
LEMMA TakeClientFollows ==
    ASSUME Overlap = "none", Inv, Following, TakeClient
    PROVE  Following' /\ Along(db, db')
<1>1. /\ handler = "idle" /\ handler' = "compare" /\ best = goal
      /\ db' = WithBirthday(db) /\ queue' = Tail(queue) /\ queue # <<>>
      /\ UNCHANGED <<best, goal, link, tx, synced>>
  BY DEF TakeClient, Take, server
<1>2. /\ queue \in Seq(Notification) /\ QueueOK(queue, link, best, goal) /\ DbOK(db)
      /\ DbFollows(db) /\ synced = db.synced
  BY <1>1 DEF Inv, Following, HandlerFollows
<1>3. QueueOK(Tail(queue), link, best, goal) /\ Low(Tail(queue), best)
  <2>1. Low(queue, best)
    BY <1>1, <1>2 DEF QueueOK, Low
  <2> QED
    BY <1>1, <1>2, <2>1, QueueTail
<1>4. /\ db'.synced = db.synced /\ db'.stored = db.stored
      /\ db'.matured = db.matured /\ db'.hashes = db.hashes
  BY <1>1, <1>2, BirthdayFields DEF DbOK
<1>5. DbFollows(db')
  BY <1>2, <1>4 DEF DbFollows
<1>6. db.synced \in Branch[db'.synced]
  BY <1>2, <1>4, BranchBelow DEF DbOK
<1>7. HandlerFollows'
  BY <1>1, <1>2, <1>3, <1>4 DEF HandlerFollows, Syncing
<1> QED
  BY <1>1, <1>3, <1>5, <1>6, <1>7 DEF Following, Along

\* Comparing hashes ends at a block of both branches, to which the wallet rolls
\* back.
LEMMA CompareFollows ==
    ASSUME Inv, Following, CompareDown \/ CompareDone
    PROVE  Following' /\ Along(db, db')
<1>1. /\ handler = "compare" /\ at \in Nat /\ at <= Height[synced] /\ ~ CompareFails
      /\ UNCHANGED <<best, goal, link, queue>> /\ synced = db.synced /\ DbOK(db) /\ DbFollows(db)
      /\ Low(queue, best) /\ best \in Blocks
  BY DEF CompareDown, CompareDone, Inv, Following, HandlerFollows, Syncing, server, client
<1>2. synced \in Blocks /\ Height[synced] \in Nat /\ synced \in Branch[synced]
  BY <1>1, GenesisFirst, BranchBelow DEF DbOK
<1>3. CASE CompareDown
  <2>1. UNCHANGED <<handler, synced, db>>
    BY <1>3 DEF CompareDown
  <2>2. HandlerFollows'
    BY <1>1, <2>1 DEF HandlerFollows, Syncing
  <2> QED
    BY <1>1, <1>2, <2>1, <2>2 DEF Following, Along
<1>4. CASE CompareDone
  <2> DEFINE b == ServerBlock(at)
  <2>1. RollbackTo(b) /\ handler' = "register" /\ db.hashes[at] = b
    BY <1>4 DEF CompareDone
  <2>2. b \in Blocks /\ Height[b] = at /\ b \in Branch[best] /\ b # None
    BY <1>1, ServerBlockIs, SyncAssumption DEF CompareFails
  <2> HIDE DEF b
  <2>3. at \in Heights /\ db.hashes[Height[b]] = b
    BY <2>1, <2>2 DEF Heights
  <2>4. b \in Branch[synced]
    BY <1>1, <2>1, <2>2, <2>3 DEF DbFollows
  <2>5. /\ synced' = b /\ db'.synced = b /\ DbFollows(db')
    <3>1. CASE at < Height[synced]
      <4>1. /\ synced' = b
            /\ db' = Rollback(MoveBirthday(PutSyncedTo(db, b), b), Height[b])
        BY <2>1, <3>1 DEF RollbackTo
      <4> QED
        BY <1>1, <2>2, <2>3, <2>4, <4>1, RollbackFollows, RollbackOK
    <3>2. CASE at = Height[synced]
      <4>1. UNCHANGED <<synced, db>>
        BY <1>1, <1>2, <2>1, <3>2 DEF RollbackTo
      <4>2. b = synced
        BY <1>2, <2>2, <2>4, <3>2, BranchBelow
      <4> QED
        BY <1>1, <4>1, <4>2
    <3> QED
      BY <1>1, <1>2, <3>1, <3>2
  <2>6. HandlerFollows'
    BY <1>1, <2>1, <2>2, <2>5 DEF HandlerFollows, Syncing
  <2> QED
    BY <1>1, <2>4, <2>5, <2>6 DEF Following, Along
<1> QED
  BY <1>3, <1>4

\* Asking for notifications, and then for the best block: what is told of from
\* there on starts no later than at that block.
LEMMA AskFollows ==
    ASSUME Inv, Following, RequestNotifications \/ AskBest
    PROVE  Following' /\ Along(db, db')
<1>1. /\ UNCHANGED <<best, goal, queue, tx, synced, db>> /\ link \in {"up", "registered"}
      /\ handler \in {"register", "ask"} /\ synced = db.synced /\ DbOK(db) /\ DbFollows(db)
      /\ Low(queue, best) /\ best \in Blocks /\ synced \in Branch[best] /\ tx = NoTx
      /\ QueueOK(queue, link, best, goal) /\ queue \in Seq(Notification)
  BY DEF RequestNotifications, AskBest, Answers, Inv, Following, HandlerFollows, Syncing, server, client
<1>2. synced \in Blocks /\ Height[synced] \in Nat /\ synced \in Branch[synced]
      /\ Height[best] \in Nat /\ best \in Branch[best] /\ Height[synced] <= Height[best]
  BY <1>1, GenesisFirst, BranchBelow DEF DbOK
<1>3. CASE RequestNotifications
  <2>1. link' = "registered" /\ handler' = "ask"
    BY <1>3 DEF RequestNotifications
  <2>2. QueueOK(queue, "registered", best, goal)
    BY <1>1, QueueRegistered
  <2>3. HandlerFollows'
    BY <1>1, <2>1 DEF HandlerFollows, Syncing
  <2> QED
    BY <1>1, <1>2, <2>1, <2>2, <2>3 DEF Following, Along
<1>4. CASE AskBest
  <2>1. Leads(queue, link, best, best) /\ link' = link /\ handler = "ask"
    <3>1. HasClient(queue) \/ link \in {"down", "registered"}
      BY <1>4 DEF AskBest, Following, HandlerFollows
    <3> QED
      BY <1>1, <1>4, <3>1, LeadsToBest DEF AskBest, client
  <2>2. CASE Height[best] > Height[synced]
    <3>1. handler' = "catchup" /\ at' = Height[synced] + 1 /\ target' = Height[best]
      BY <1>4, <2>2 DEF AskBest
    <3>2. OpenTx' = db
      BY <1>1 DEF OpenTx
    <3>3. CatchingUp'
      BY <1>1, <1>2, <2>1, <2>2, <3>1, <3>2 DEF CatchingUp
    <3>4. HandlerFollows'
      BY <1>1, <3>1, <3>3 DEF HandlerFollows, Syncing
    <3> QED
      BY <1>1, <1>2, <2>1, <3>4 DEF Following, Along
  <2>3. CASE ~ (Height[best] > Height[synced])
    <3>1. handler' = "idle"
      BY <1>4, <2>3 DEF AskBest
    <3>2. synced = best
      BY <1>1, <1>2, <2>3, BranchBelow
    <3>3. HandlerFollows'
      BY <1>1, <2>1, <3>1, <3>2 DEF HandlerFollows, Syncing
    <3> QED
      BY <1>1, <1>2, <2>1, <3>3 DEF Following, Along
  <2> QED
    BY <2>2, <2>3
<1> QED
  BY <1>3, <1>4

\* A database is not the mark of none being open.
LEMMA NotNoTx == ASSUME NEW d, Shape(d) PROVE d # NoTx
<1>1. d = [synced |-> d.synced, stored |-> d.stored, matured |-> d.matured,
           hashes |-> d.hashes, birthday |-> d.birthday]
  BY DEF Shape
<1>2. "synced" \in DOMAIN d
  BY <1>1
<1>3. "synced" \notin DOMAIN NoTx
  BY DEF NoTx
<1> QED
  BY <1>2, <1>3

\* Catching up stores the block after the synced one.
LEMMA CatchUpFollows ==
    ASSUME Inv, Following, CatchUp
    PROVE  Following' /\ Along(db, db')
<1> DEFINE b == ServerBlock(at)
           d == Store(OpenTx, b)
<1>1. /\ handler = "catchup" /\ HasHeight(at) /\ synced' = b
      /\ UNCHANGED <<best, goal, link, queue>>
      /\ \/ db' = d /\ tx' = NoTx
         \/ db' = db /\ tx' = d /\ at # target
      /\ \/ at = target /\ handler' = "idle"
         \/ at # target /\ at' = at + 1 /\ UNCHANGED <<handler, target>>
  <2>1. /\ handler = "catchup" /\ HasHeight(at) /\ synced' = b
        /\ IF BatchFull
           THEN db' = d /\ tx' = NoTx /\ batch' = 0
           ELSE db' = db /\ tx' = d /\ batch' = batch + 1
        /\ IF at = target
           THEN handler' = "idle" /\ at' = 0 /\ target' = 0
           ELSE at' = at + 1 /\ UNCHANGED <<handler, target>>
        /\ UNCHANGED <<server, client>>
    BY DEF CatchUp
  <2> QED
    BY <2>1 DEF BatchFull, server, client
<1>2. /\ at = Height[synced] + 1 /\ synced \in Blocks /\ best \in Blocks /\ DbOK(db)
      /\ CatchingUp /\ synced \in Branch[best] /\ Low(queue, best)
      /\ (tx # NoTx => DbOK(tx)) /\ DbFollows(db)
  BY <1>1 DEF Inv, Following, HandlerFollows, Syncing
<1>3. PICK t \in Branch[best] : Height[t] = target /\ Leads(queue, link, best, t)
  BY <1>2 DEF CatchingUp
<1>4. /\ at <= target /\ OpenTx.synced = synced /\ DbFollows(OpenTx) /\ db.synced \in Branch[synced]
      /\ DbOK(OpenTx)
  BY <1>2 DEF CatchingUp, OpenTx
<1>5. Height[synced] \in Nat /\ at \in Nat \ {0} /\ t \in Blocks /\ target \in Nat
      /\ Height[Genesis] = 0
  BY <1>2, <1>3, GenesisFirst, BranchBelow, TreeAssumption
<1>6. b \in Blocks /\ Height[b] = at /\ b \in Branch[best]
  BY <1>1, <1>2, <1>5, ServerBlockIs
<1> HIDE DEF b
<1>7. /\ b \in Blocks \ {Genesis} /\ Parent[b] \in Blocks /\ Height[Parent[b]] = Height[synced]
      /\ Branch[b] = Branch[Parent[b]] \cup {b} /\ Parent[b] \in Branch[b]
  BY <1>2, <1>5, <1>6, ParentBelow, BranchBelow
<1>8. Parent[b] = synced
  BY <1>2, <1>6, <1>7, BranchBelow, BranchHeights
<1>9. Asked(b) = MaturedBlocks(b)
  <2>1. Branch[b] \subseteq Branch[best] /\ Height[b] <= Height[best]
    BY <1>2, <1>6, BranchBelow
  <2>2. Height[best] \in Nat /\ Maturity \in Nat
    BY <1>2, GenesisFirst, GroupAssumption
  <2>3. Height[best] >= Height[b] - Maturity
    BY <1>5, <1>6, <2>1, <2>2
  <2> QED
    BY <1>2, <1>6, <2>1, <2>3, AskedIs
<1>10. DbFollows(d) /\ DbOK(d) /\ d.synced = b
  <2>1. DbFollows(d)
    BY <1>4, <1>7, <1>8, <1>9, InsertFollows
  <2>2. Height[b] > Height[OpenTx.synced]
    BY <1>2, <1>4, <1>5, <1>6
  <2> QED
    BY <1>4, <1>6, <2>1, <2>2, InsertOK
<1> HIDE DEF d
<1>11. d # NoTx
  BY <1>10, NotNoTx DEF DbOK
<1>12. synced \in Branch[b] /\ db.synced \in Branch[b] /\ b \in Branch[b]
  BY <1>4, <1>6, <1>7, <1>8, BranchBelow
<1>13. /\ DbFollows(db') /\ db'.synced \in Branch[b] /\ Along(db, db')
       /\ OpenTx' = d
  <2>1. CASE db' = d /\ tx' = NoTx
    BY <1>10, <1>12, <2>1 DEF Along, OpenTx
  <2>2. CASE db' = db /\ tx' = d
    <3>1. db.synced \in Branch[db.synced]
      BY <1>2, BranchBelow DEF DbOK
    <3> QED
      BY <1>2, <1>11, <1>12, <2>2, <3>1 DEF Along, OpenTx
  <2> QED
    BY <1>1, <2>1, <2>2
<1>14. HandlerFollows'
  <2>1. CASE at = target
    <3>1. handler' = "idle" /\ db' = d /\ t = b
      BY <1>1, <1>2, <1>3, <1>6, <2>1, BranchHeights
    <3> QED
      BY <1>1, <1>3, <1>10, <3>1 DEF HandlerFollows, Syncing
  <2>2. CASE at # target
    <3>1. handler' = "catchup" /\ at' = at + 1 /\ target' = target
      BY <1>1, <2>2
    <3>2. CatchingUp'
      BY <1>1, <1>3, <1>4, <1>5, <1>10, <1>13, <2>2, <3>1 DEF CatchingUp
    <3> QED
      BY <1>1, <1>2, <1>6, <3>1, <3>2 DEF HandlerFollows, Syncing
  <2> QED
    BY <2>1, <2>2
<1> QED
  BY <1>1, <1>13, <1>14 DEF Following

\* Every step keeps it, and moves the database along a branch.
LEMMA NextFollows ==
    ASSUME Overlap = "none", StorageFails = FALSE, ShallowForks, Inv, Following, [Next]_vars
    PROVE  Following' /\ Along(db, db')
<1>1. CASE Handler
  <2>1. Die => UNCHANGED db
    BY DEF Die
  <2>2. db.synced \in Branch[db.synced]
    BY BranchBelow DEF Inv, DbOK
  <2>3. SyncPanics => Following' /\ Along(db, db')
    BY <2>1, <2>2, ProcessFollows DEF SyncPanics, Along
  <2> QED
    BY <1>1, <2>3, TakeConnectedFollows, TakeDisconnectedFollows, TakeClientFollows,
       CompareFollows, AskFollows, CatchUpFollows DEF Handler
<1>2. CASE Server \/ Connection \/ Crash \/ Restart \/ UNCHANGED vars
  <2>1. Following'
    <3>1. CASE UNCHANGED vars
      BY <3>1 DEF Following, HandlerFollows, CatchingUp, OpenTx, Syncing, vars, server, client, loop
    <3> QED
      BY <1>2, <3>1, NewGoalFollows, ServerDetachFollows, ServerAttachFollows, ConnectionFollows,
         ProcessFollows DEF Server, Crash
  <2>2. UNCHANGED db
    BY <1>2 DEF Server, NewGoal, ServerDetach, ServerAttach, Connection, ConnectionLost,
       Reconnect, Reregister, Crash, Die, Restart, vars
  <2>3. db.synced \in Branch[db.synced]
    BY BranchBelow DEF Inv, DbOK
  <2> QED
    BY <2>1, <2>2, <2>3 DEF Along
<1> QED
  BY <1>1, <1>2 DEF Next

\* Going along a branch is a step of ChainFollower.
LEMMA AlongIsStep ==
    ASSUME NEW d, DbOK(d), DbFollows(d), NEW e, DbOK(e), DbFollows(e), Along(d, e)
    PROVE  \/ /\ d.synced \in Branch[e.synced]
              /\ e.stored = d.stored \cup (Follower!Kept(e.synced) \ Branch[d.synced])
           \/ /\ e.synced \in Branch[d.synced]
              /\ e.stored = {a \in d.stored : Height[a] <= Height[e.synced]}
  BY KeptBelow DEF Along, DbOK, DbFollows

\* Both invariants.
THEOREM FollowingInvariance ==
    ASSUME Overlap = "none", StorageFails = FALSE, ShallowForks
    PROVE  Spec => [](Inv /\ Following)
<1>1. Init => Inv /\ Following
  BY InitInv, InitFollows
<1>2. Inv /\ Following /\ [Next]_vars => Inv' /\ Following'
  BY NextInv, NextFollows
<1> QED
  BY <1>1, <1>2, PTL DEF Spec

\* InsertBlock finds by height what is of its block's branch: the group of a block
\* that completes one is stored, and the blocks the server gives for the
\* coinbases that mature are those of the branch, though the server may be on
\* another one by then.
THEOREM BlocksFoundByHeight ==
    ASSUME Overlap = "none", StorageFails = FALSE, ShallowForks
    PROVE  Spec => []FoundByHeight
<1>1. Inv /\ Following => FoundByHeight
  BY GroupKept DEF Inv, DbOK, Following, DbFollows, FoundByHeight
<1> QED
  BY <1>1, FollowingInvariance, PTL

\* The database follows a branch block by block, whatever connectBlock,
\* disconnectBlock, syncWithChain and rescan are told, late or twice, and
\* wherever the process stops: ChainSync implements ChainFollower.
THEOREM FollowsOneBranch ==
    ASSUME Overlap = "none", StorageFails = FALSE, ShallowForks
    PROVE  Spec => FollowsABranch
<1>1. Init => Follower!Init
  BY DEF Init, Follower!Init
<1>2. ASSUME Inv, Following, [Next]_vars
      PROVE  [Follower!Next]_<<db.synced, db.stored>>
  <2>1. DbOK(db) /\ DbFollows(db) /\ DbOK(db') /\ DbFollows(db') /\ Along(db, db')
    BY <1>2, NextInv, NextFollows DEF Inv, Following
  <2>2. db'.synced \in Blocks
    BY <2>1 DEF DbOK
  <2> DEFINE e == db'
  <2>3. \/ /\ db.synced \in Branch[e.synced]
           /\ e.stored = db.stored \cup (Follower!Kept(e.synced) \ Branch[db.synced])
        \/ /\ e.synced \in Branch[db.synced]
           /\ e.stored = {a \in db.stored : Height[a] <= Height[e.synced]}
    BY <2>1, AlongIsStep
  <2>4. Follower!Forward(db'.synced) \/ Follower!Back(db'.synced)
    BY <2>3 DEF Follower!Forward, Follower!Back
  <2> QED
    BY <2>2, <2>4 DEF Follower!Next
<1> QED
  BY <1>1, <1>2, FollowingInvariance, PTL DEF Spec, FollowsABranch, Follower!Spec
=============================================================================
