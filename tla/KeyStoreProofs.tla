--------------------------- MODULE KeyStoreProofs ---------------------------
(***************************************************************************)
(* What is stored stays readable and what is secret follows the lock, for  *)
(* any passphrases, any number of their changes, and every interleaving of *)
(* the two readers of the root seeds with locks, unlocks, failed commits   *)
(* and restarts.                                                           *)
(***************************************************************************)
EXTENDS KeyStore, TLAPS

Masters == [pass : Passphrases, salt : Nat]
Ciphers(key, what) == [under : key, of : what] \cup {Gone}

\* A database as the methods write it.
DbType ==
    [masterPub  : Masters,
     masterPriv : Masters \cup {Gone},
     keyPub     : Ciphers(Masters, {"pub"}),
     keys       : [Private -> Ciphers(Masters, Private)],
     spendSeed  : Ciphers({"seed"}, {"spend"}),
     autSeed    : Ciphers({"seed"}, {"aut"}),
     watching   : BOOLEAN,
     addresses  : SUBSET [level : Levels \cup {Gone},
                          key   : Ciphers(Private \cup {Gone}, {"spend", Gone})]]

\* A manager in memory: derived is a master key, clear the crypto keys.
MemType ==
    [masterPub  : Masters,
     keyPub     : {"pub"},
     masterPriv : Masters \cup {Gone},
     derived    : Masters \cup {Gone},
     sealed     : [Private -> Ciphers(Masters, Private)],
     clear      : [Private -> Private \cup {Gone}],
     hashed     : Passphrases \cup {Gone},
     locked     : BOOLEAN,
     watching   : BOOLEAN]

TypeOK ==
    /\ db \in DbType
    /\ Running => mem \in MemType
    /\ changes \in Nat
    /\ pc \in [Users -> {"idle", "look", "decrypt", "public", "encrypt", "put",
                         "read", "failed"}]
    /\ seedRead \in [Users -> {"spend", Gone}]
    /\ asked \in [level : Levels \cup {Gone},
                  key   : Ciphers(Private \cup {Gone}, {"spend", Gone})]

\* Memory may be under another passphrase than the database, after a commit that
\* failed, but it has the same keys, sealed by its own master key.  A manager
\* that is not watching-only has a database that is not, and a root seed.
MemReadable ==
    Running =>
        /\ mem.watching => mem.locked
        /\ ~mem.watching =>
              /\ ~db.watching
              /\ mem.masterPriv \in Masters
              /\ \A k \in Private : mem.sealed[k] = Sealed(mem.masterPriv, k)

\* Between looking at the lock and storing, a secret that has been read is the
\* spend root seed, and what was made of it opens under the private key.
ReadSoFar ==
    /\ ~db.watching =>
          db.masterPriv \in Masters /\ db.spendSeed = Sealed("seed", "spend")
    /\ pc["generate"] \in {"encrypt", "put"} => seedRead["generate"] = "spend"
    /\ pc["generate"] = "put" => asked.key = Sealed("priv", "spend")

Inv == TypeOK /\ StoredReadable /\ SecretsFollowLock /\ MemReadable /\ ReadSoFar

-----------------------------------------------------------------------------
\* A wallet just created can be read, and nothing of it is in memory.
LEMMA InitInv == Init => Inv
<1> SUFFICES ASSUME Init PROVE Inv
  OBVIOUS
<1> USE SeedsAssumption, GoneAssumption DEF Init
<1>1. PICK s \in MasterSeeds, public \in Passphrases, private \in Passphrases :
          db = Created(s, public, private)
  OBVIOUS
<1> DEFINE pub  == Params(public, 0)
           priv == IF s = "none" THEN Gone ELSE Params(private, 0)
<1>2. pub \in Masters /\ (s # "none" => priv \in Masters /\ priv # Gone)
  BY DEF Params, Masters
<1>3. db = [masterPub |-> pub, masterPriv |-> priv, keyPub |-> Sealed(pub, "pub"),
            keys |-> CryptoKeys(priv),
            spendSeed |-> SeedEnc(IF s = "none" THEN {} ELSE RootSeeds(s), "spend"),
            autSeed |-> SeedEnc(IF s = "none" THEN {} ELSE RootSeeds(s), "aut"),
            watching |-> s = "none", addresses |-> {}]
  <2>1. MasterKeyParams(IF s # "none" THEN private ELSE Gone) = priv
    BY DEF MasterKeyParams
  <2> QED
    BY <1>1, <2>1 DEF Created
<1>4. /\ CryptoKeys(priv) \in [Private -> Ciphers(Masters, Private)]
      /\ s # "none" => CryptoKeys(priv) = [k \in Private |-> Sealed(priv, k)]
  BY <1>2 DEF CryptoKeys, Ciphers, Sealed
<1>5. /\ db.spendSeed = IF s = "none" THEN Gone ELSE Sealed("seed", "spend")
      /\ db.spendSeed \in Ciphers({"seed"}, {"spend"})
      /\ db.autSeed \in Ciphers({"seed"}, {"aut"})
  BY <1>3 DEF SeedEnc, RootSeeds, Ciphers, Sealed
<1>6. db \in DbType
  BY <1>2, <1>3, <1>4, <1>5 DEF DbType, Ciphers, Sealed
<1>7. asked \in [level : Levels \cup {Gone}, key : Ciphers(Private \cup {Gone}, {"spend", Gone})]
  BY DEF Ciphers
<1>8. TypeOK
  BY <1>6, <1>7 DEF TypeOK, Running
<1>9. StoredReadable
  BY <1>2, <1>3, <1>4 DEF StoredReadable
<1>10. SecretsFollowLock /\ MemReadable
  BY DEF SecretsFollowLock, MemReadable, Running
<1>11. ReadSoFar
  BY <1>2, <1>3, <1>5 DEF ReadSoFar, Users
<1> QED
  BY <1>8, <1>9, <1>10, <1>11 DEF Inv

-----------------------------------------------------------------------------
(* Every action preserves the invariant *)

\* A restart: memory has what the database holds, and is locked.
LEMMA OpenInv ==
    ASSUME Inv, NEW p \in Passphrases, Open(p) PROVE Inv'
<1> USE GoneAssumption DEF Inv, Open, users
<1>1. db \in DbType /\ db.keyPub = Sealed(db.masterPub, "pub")
  BY DEF TypeOK, StoredReadable
<1>2. Loaded \in MemType
  BY <1>1 DEF Loaded, DbType, MemType, Sealed
<1>3. TypeOK'
  BY <1>2 DEF TypeOK
<1>4. StoredReadable' /\ ReadSoFar'
  BY DEF StoredReadable, ReadSoFar
<1>5. SecretsFollowLock'
  BY DEF SecretsFollowLock, Loaded, Private
<1>6. MemReadable'
  BY DEF MemReadable, Loaded, ReadSoFar, StoredReadable
<1> QED
  BY <1>3, <1>4, <1>5, <1>6

\* After Close or a crash only the database is left.
LEMMA EndInv ==
    ASSUME Inv, End PROVE Inv'
<1> USE DEF Inv, End
<1>1. asked' \in [level : Levels \cup {Gone}, key : Ciphers(Private \cup {Gone}, {"spend", Gone})]
  BY DEF Ciphers
<1>2. TypeOK'
  BY <1>1 DEF TypeOK, Running
<1>3. StoredReadable' /\ SecretsFollowLock' /\ MemReadable'
  BY DEF StoredReadable, SecretsFollowLock, MemReadable, Running
<1>4. ReadSoFar'
  BY DEF ReadSoFar, Users
<1> QED
  BY <1>2, <1>3, <1>4

\* Locking keeps everything but the secrets.
LEMMA LockedFormKeeps ==
    ASSUME NEW m \in MemType
    PROVE  /\ LockedForm(m) \in MemType
           /\ LockedForm(m).locked = TRUE
           /\ LockedForm(m).derived = Gone /\ LockedForm(m).hashed = Gone
           /\ \A k \in Private : LockedForm(m).clear[k] = Gone
           /\ LockedForm(m).watching = m.watching
           /\ LockedForm(m).masterPriv = m.masterPriv
           /\ LockedForm(m).sealed = m.sealed
BY DEF LockedForm, MemType

\* A memory that was locked holds no secret.
LEMMA LockedSecrets ==
    ASSUME NEW m \in MemType, mem' = LockedForm(m) PROVE SecretsFollowLock'
BY LockedFormKeeps DEF SecretsFollowLock

\* What Lock and Unlock keep: the database and what readers have read.
LEMMA MemStep ==
    ASSUME Inv, UNCHANGED <<db, changes, users>>, Running,
           mem' \in MemType, mem'.watching = mem.watching,
           mem'.masterPriv = mem.masterPriv, mem'.sealed = mem.sealed,
           SecretsFollowLock', mem.watching => mem'.locked
    PROVE  Inv'
<1> USE DEF Inv, users
<1>1. TypeOK'
  BY DEF TypeOK
<1>2. StoredReadable' /\ ReadSoFar'
  BY DEF StoredReadable, ReadSoFar
<1>3. MemReadable'
  BY DEF MemReadable
<1> QED
  BY <1>1, <1>2, <1>3

\* Lock wipes the secrets and touches nothing that is stored.
LEMMA LockInv ==
    ASSUME Inv, Lock PROVE Inv'
<1>1. mem \in MemType
  BY DEF Inv, TypeOK, Lock
<1>2. SecretsFollowLock'
  BY <1>1, LockedSecrets DEF Lock
<1> QED
  BY <1>1, <1>2, LockedFormKeeps, MemStep DEF Lock

\* Unlock derives the master key memory is sealed by, and opens only what it seals.
LEMMA UnlockInv ==
    ASSUME Inv, NEW p \in Passphrases, Unlock(p) PROVE Inv'
<1> USE DEF Inv, Unlock
<1>1. mem \in MemType /\ Running /\ ~mem.watching
  BY DEF TypeOK
<1>2. mem.masterPriv \in Masters /\ \A k \in Private : mem.sealed[k] = Sealed(mem.masterPriv, k)
  BY <1>1 DEF MemReadable
<1>3. CASE ~mem.locked /\ p = mem.hashed
  <2>1. mem' = mem
    BY <1>3 DEF Unlocked
  <2> QED
    BY <1>1, <2>1, MemStep DEF SecretsFollowLock, Running
<1>4. CASE mem' = LockedForm(mem)
  <2>1. SecretsFollowLock'
    BY <1>1, <1>4, LockedSecrets
  <2> QED
    BY <1>1, <1>4, <2>1, LockedFormKeeps, MemStep
<1>5. CASE mem.locked /\ Opens(mem, p)
  <2> DEFINE open == [k \in Private |-> IF k = "script" THEN Gone ELSE mem.sealed[k].of]
  <2>1. mem' = [mem EXCEPT !.clear = open, !.derived = mem.masterPriv,
                           !.hashed = p, !.locked = FALSE]
    BY <1>5 DEF Unlocked
  <2>2. open \in [Private -> Private \cup {Gone}]
        /\ \A k \in {"priv", "seed"} : open[k] = k
    BY <1>2 DEF Sealed, Private
  <2> HIDE DEF open
  <2>3. mem' \in MemType
    BY <1>1, <1>2, <2>1, <2>2 DEF MemType
  <2>4. SecretsFollowLock'
    <3>1. mem'.clear = open /\ mem'.derived = mem.masterPriv /\ mem'.hashed = p /\ ~mem'.locked
      BY <1>1, <2>1 DEF MemType
    <3>2. mem'.masterPriv = mem.masterPriv /\ p = mem.masterPriv.pass
      BY <1>1, <1>5, <2>1 DEF MemType, Opens
    <3> QED
      BY <2>2, <3>1, <3>2 DEF SecretsFollowLock
  <2>5. mem'.watching = mem.watching /\ mem'.masterPriv = mem.masterPriv /\ mem'.sealed = mem.sealed
    BY <1>1, <2>1 DEF MemType
  <2> QED
    BY <1>1, <2>3, <2>4, <2>5, MemStep
<1> QED
  BY <1>3, <1>4, <1>5 DEF Unlocked

-----------------------------------------------------------------------------
(* Passphrases *)

\* What memory and the database hold of the private keys after a step that
\* leaves the readers alone.
LEMMA ChangeStep ==
    ASSUME Inv, UNCHANGED users, changes' \in Nat, Running,
           mem' \in MemType, db' \in DbType,
           db'.spendSeed = db.spendSeed, db.watching => db'.watching,
           ~db'.watching => db'.masterPriv \in Masters,
           StoredReadable', SecretsFollowLock', MemReadable'
    PROVE  Inv'
<1> USE DEF Inv, users
<1>1. TypeOK'
  BY DEF TypeOK
<1>2. ReadSoFar'
  BY DEF ReadSoFar
<1> QED
  BY <1>1, <1>2

\* Changing the public passphrase leaves the private side alone.
LEMMA PublicMem ==
    ASSUME NEW m \in MemType, NEW key \in Masters, NEW m2, m2 = MemChanged(m, "public", key)
    PROVE  /\ m2 \in MemType /\ m2.masterPub = key
           /\ m2.masterPriv = m.masterPriv /\ m2.sealed = m.sealed
           /\ m2.derived = m.derived /\ m2.hashed = m.hashed /\ m2.clear = m.clear
           /\ m2.locked = m.locked /\ m2.watching = m.watching
BY DEF MemChanged, MemType

\* What ChangePassphrase stores for the public passphrase: the public key under
\* the new master key, the private keys as they were.
LEMMA PublicDb ==
    ASSUME NEW m \in MemType, NEW d \in DbType, NEW key \in Masters,
           NEW d2, d2 = DbChanged(d, m, "public", key)
    PROVE  /\ d2 \in DbType /\ d2.masterPub = key /\ d2.keyPub = Sealed(key, "pub")
           /\ d2.masterPriv = d.masterPriv /\ d2.keys = d.keys
           /\ d2.spendSeed = d.spendSeed /\ d2.watching = d.watching
           /\ d2.addresses = d.addresses
BY DEF DbChanged, MemType, DbType, Ciphers, Sealed

AllSealed(key) == [k \in Private |-> Sealed(key, k)]

\* The fields of a ciphertext.
LEMMA SealedFields ==
    ASSUME NEW key, NEW what PROVE Sealed(key, what).under = key /\ Sealed(key, what).of = what
BY DEF Sealed

\* Changing the private one seals the keys anew, as long as they were sealed.
LEMMA KeysResealed ==
    ASSUME NEW m \in MemType, NEW key \in Masters,
           \A k \in Private : m.sealed[k] = Sealed(m.masterPriv, k)
    PROVE  /\ Resealed(m, key) = AllSealed(key)
           /\ AllSealed(key) \in [Private -> Ciphers(Masters, Private)]
<1>1. \A k \in Private : m.sealed[k].of = k
  BY SealedFields
<1>2. Resealed(m, key) = AllSealed(key)
  BY <1>1 DEF Resealed, AllSealed
<1>3. AllSealed(key) \in [Private -> Ciphers(Masters, Private)]
  BY DEF Sealed, Ciphers, AllSealed
<1> QED
  BY <1>2, <1>3

\* What ChangePassphrase leaves in memory for the private passphrase: every
\* private key under the new master key.
LEMMA PrivateMem ==
    ASSUME NEW m \in MemType, NEW key \in Masters,
           \A k \in Private : m.sealed[k] = Sealed(m.masterPriv, k),
           NEW m2, m2 = MemChanged(m, "private", key)
    PROVE  /\ m2 \in MemType /\ m2.masterPub = m.masterPub
           /\ m2.masterPriv = key /\ m2.sealed = AllSealed(key)
           /\ m2.derived = IF m.locked THEN Gone ELSE key
           /\ m2.hashed = IF m.locked THEN Gone ELSE key.pass
           /\ m2.clear = m.clear /\ m2.locked = m.locked /\ m2.watching = m.watching
<1>1. PICK derived, hashed :
         /\ derived = IF m.locked THEN Gone ELSE key
         /\ hashed = IF m.locked THEN Gone ELSE key.pass
  OBVIOUS
<1>2. derived \in Masters \cup {Gone} /\ hashed \in Passphrases \cup {Gone}
  BY <1>1 DEF Masters
<1>3. m2 = [m EXCEPT !.sealed = AllSealed(key), !.masterPriv = key,
                     !.derived = derived, !.hashed = hashed]
  BY <1>1, KeysResealed DEF MemChanged
<1>4. m2 \in MemType
  <2>1. AllSealed(key) \in [Private -> Ciphers(Masters, Private)]
    BY KeysResealed
  <2> QED
    BY <1>2, <1>3, <2>1 DEF MemType
<1>5. /\ m2.masterPub = m.masterPub /\ m2.masterPriv = key /\ m2.sealed = AllSealed(key)
      /\ m2.derived = derived /\ m2.hashed = hashed
  BY <1>3 DEF MemType
<1>6. m2.clear = m.clear /\ m2.locked = m.locked /\ m2.watching = m.watching
  BY <1>3 DEF MemType
<1> QED
  BY <1>1, <1>4, <1>5, <1>6

\* What it stores: the same keys under the same new master key.
LEMMA PrivateDb ==
    ASSUME NEW m \in MemType, NEW d \in DbType, NEW key \in Masters,
           \A k \in Private : m.sealed[k] = Sealed(m.masterPriv, k),
           NEW d2, d2 = DbChanged(d, m, "private", key)
    PROVE  /\ d2 \in DbType /\ d2.masterPub = d.masterPub /\ d2.keyPub = d.keyPub
           /\ d2.masterPriv = key /\ d2.keys = AllSealed(key)
           /\ d2.spendSeed = d.spendSeed /\ d2.watching = d.watching
           /\ d2.addresses = d.addresses
<1>1. d2 = [d EXCEPT !.keys = AllSealed(key), !.masterPriv = key]
  BY KeysResealed DEF DbChanged
<1> QED
  BY <1>1, KeysResealed DEF DbType

\* The parameters of a new master key.
LEMMA NewMaster ==
    ASSUME TypeOK, NEW p \in Passphrases
    PROVE  Params(p, changes + 1) \in Masters /\ Params(p, changes + 1).pass = p
BY DEF TypeOK, Params, Masters

\* ChangePassphrase keeps stored and cached keys under their master keys, also
\* when the commit fails after memory has changed.
LEMMA ChangePassphraseInv ==
    ASSUME Inv, NEW which \in {"public", "private"},
           NEW old \in Passphrases, NEW new \in Passphrases,
           ChangePassphrase(which, old, new)
    PROVE  Inv'
<1> DEFINE key == Params(new, changes + 1)
<1>1. /\ mem \in MemType /\ db \in DbType /\ key \in Masters /\ Running
      /\ changes' \in Nat /\ UNCHANGED users
      /\ mem' = MemChanged(mem, which, key)
      /\ db' \in {db, DbChanged(db, mem, which, key)}
      /\ which = "private" => ~mem.watching
  BY NewMaster, ChangesAssumption DEF Inv, TypeOK, ChangePassphrase, MayChange, Commits
<1> HIDE DEF key
<1>2. /\ mem.watching => mem.locked
      /\ ~mem.watching => /\ ~db.watching /\ mem.masterPriv \in Masters
                          /\ \A k \in Private : mem.sealed[k] = Sealed(mem.masterPriv, k)
      /\ ~db.watching => db.masterPriv \in Masters
      /\ StoredReadable /\ SecretsFollowLock
  BY <1>1 DEF Inv, MemReadable, ReadSoFar
<1>3. CASE which = "public"
  <2>1. /\ mem' \in MemType /\ mem'.masterPriv = mem.masterPriv /\ mem'.sealed = mem.sealed
        /\ mem'.derived = mem.derived /\ mem'.hashed = mem.hashed /\ mem'.clear = mem.clear
        /\ mem'.locked = mem.locked /\ mem'.watching = mem.watching
    BY <1>1, <1>3, PublicMem
  <2>2. /\ db' \in DbType /\ db'.keyPub = Sealed(db'.masterPub, "pub")
        /\ db'.masterPriv = db.masterPriv /\ db'.keys = db.keys
        /\ db'.spendSeed = db.spendSeed /\ db'.watching = db.watching
        /\ db'.addresses = db.addresses
    BY <1>1, <1>2, <1>3, PublicDb DEF StoredReadable
  <2>3. StoredReadable'
    BY <1>2, <2>2 DEF StoredReadable
  <2>4. SecretsFollowLock' /\ MemReadable'
    BY <1>1, <1>2, <2>1, <2>2 DEF SecretsFollowLock, MemReadable
  <2> QED
    BY <1>1, <1>2, <2>1, <2>2, <2>3, <2>4, ChangeStep
<1>4. CASE which = "private"
  <2>1. /\ mem' \in MemType /\ mem'.masterPriv = key /\ mem'.sealed = AllSealed(key)
        /\ mem'.derived = IF mem.locked THEN Gone ELSE key
        /\ mem'.hashed = IF mem.locked THEN Gone ELSE key.pass
        /\ mem'.clear = mem.clear /\ mem'.locked = mem.locked /\ mem'.watching = mem.watching
    BY <1>1, <1>2, <1>4, PrivateMem
  <2>2. /\ db' \in DbType /\ db'.keyPub = db.keyPub /\ db'.masterPub = db.masterPub
        /\ db'.spendSeed = db.spendSeed /\ db'.watching = db.watching
        /\ db'.addresses = db.addresses
        /\ \/ db'.masterPriv = db.masterPriv /\ db'.keys = db.keys
           \/ db'.masterPriv = key /\ db'.keys = AllSealed(key)
    BY <1>1, <1>2, <1>4, PrivateDb
  <2>3. \A k \in Private : AllSealed(key)[k] = Sealed(key, k)
    BY DEF AllSealed
  <2>4. StoredReadable'
    BY <1>1, <1>2, <1>4, <2>2, <2>3 DEF StoredReadable
  <2>5. SecretsFollowLock'
    BY <1>1, <1>2, <2>1 DEF SecretsFollowLock
  <2>6. MemReadable'
    BY <1>1, <1>2, <1>4, <2>1, <2>2, <2>3 DEF MemReadable
  <2> QED
    BY <1>1, <1>2, <1>4, <2>1, <2>2, <2>4, <2>5, <2>6, ChangeStep
<1> QED
  BY <1>3, <1>4

\* Both in one transaction: memory has a new public passphrase even if the
\* database has not.
LEMMA ChangePassphrasesInv ==
    ASSUME Inv, NEW publicNew \in Passphrases, NEW privateOld \in Passphrases,
           NEW privateNew \in Passphrases,
           ChangePassphrases(publicNew, privateOld, privateNew)
    PROVE  Inv'
<1> DEFINE pub  == Params(publicNew, changes + 1)
           priv == Params(privateNew, changes + 1)
           m    == MemChanged(mem, "public", pub)
           d    == DbChanged(db, mem, "public", pub)
<1>1. /\ mem \in MemType /\ db \in DbType /\ pub \in Masters /\ priv \in Masters
      /\ Running /\ changes' \in Nat /\ UNCHANGED users
      /\ \/ ~mem.watching /\ mem' = MemChanged(m, "private", priv)
                          /\ db' \in {db, DbChanged(d, m, "private", priv)}
         \/ mem' = m /\ UNCHANGED db
  <2>1. /\ mem \in MemType /\ db \in DbType /\ pub \in Masters /\ priv \in Masters
        /\ Running /\ changes' \in Nat /\ UNCHANGED users
    BY NewMaster, ChangesAssumption DEF Inv, TypeOK, ChangePassphrases, MayChange
  <2>2. CASE ~mem.watching /\ privateOld = Known(mem, "private")
    BY <2>1, <2>2 DEF ChangePassphrases, Commits
  <2>3. CASE ~(~mem.watching /\ privateOld = Known(mem, "private"))
    BY <2>1, <2>3 DEF ChangePassphrases
  <2> QED
    BY <2>2, <2>3
<1> HIDE DEF pub, priv
<1>2. /\ mem.watching => mem.locked
      /\ ~mem.watching => /\ ~db.watching /\ mem.masterPriv \in Masters
                          /\ \A k \in Private : mem.sealed[k] = Sealed(mem.masterPriv, k)
      /\ ~db.watching => db.masterPriv \in Masters
      /\ StoredReadable /\ SecretsFollowLock
  BY <1>1 DEF Inv, MemReadable, ReadSoFar
<1>3. /\ m \in MemType /\ m.masterPriv = mem.masterPriv /\ m.sealed = mem.sealed
      /\ m.derived = mem.derived /\ m.hashed = mem.hashed /\ m.clear = mem.clear
      /\ m.locked = mem.locked /\ m.watching = mem.watching
  BY <1>1, PublicMem
<1>4. /\ d \in DbType /\ d.keyPub = Sealed(d.masterPub, "pub")
      /\ d.spendSeed = db.spendSeed /\ d.watching = db.watching /\ d.addresses = db.addresses
  BY <1>1, PublicDb
<1> HIDE DEF m, d
<1>5. CASE mem' = m /\ UNCHANGED db
  <2>1. StoredReadable'
    BY <1>2, <1>5 DEF StoredReadable
  <2>2. SecretsFollowLock' /\ MemReadable'
    BY <1>1, <1>2, <1>3, <1>5 DEF SecretsFollowLock, MemReadable
  <2> QED
    BY <1>1, <1>2, <1>3, <1>5, <2>1, <2>2, ChangeStep
<1>6. CASE /\ ~mem.watching
           /\ mem' = MemChanged(m, "private", priv)
           /\ db' \in {db, DbChanged(d, m, "private", priv)}
  <2>1. \A k \in Private : m.sealed[k] = Sealed(m.masterPriv, k)
    BY <1>2, <1>3, <1>6
  <2>2. /\ mem' \in MemType /\ mem'.masterPriv = priv /\ mem'.sealed = AllSealed(priv)
        /\ mem'.derived = IF m.locked THEN Gone ELSE priv
        /\ mem'.hashed = IF m.locked THEN Gone ELSE priv.pass
        /\ mem'.clear = m.clear /\ mem'.locked = m.locked /\ mem'.watching = m.watching
    BY <1>1, <1>3, <1>6, <2>1, PrivateMem
  <2>3. /\ db' \in DbType /\ db'.keyPub = Sealed(db'.masterPub, "pub")
        /\ db'.spendSeed = db.spendSeed /\ db'.watching = db.watching
        /\ db'.addresses = db.addresses
        /\ \/ db'.masterPriv = db.masterPriv /\ db'.keys = db.keys
           \/ db'.masterPriv = priv /\ db'.keys = AllSealed(priv)
    <3>1. CASE db' = db
      BY <1>1, <1>2, <3>1 DEF StoredReadable
    <3>2. CASE db' = DbChanged(d, m, "private", priv)
      <4>1. /\ db' \in DbType /\ db'.masterPub = d.masterPub /\ db'.keyPub = d.keyPub
            /\ db'.masterPriv = priv /\ db'.keys = AllSealed(priv)
            /\ db'.spendSeed = d.spendSeed /\ db'.watching = d.watching
            /\ db'.addresses = d.addresses
        <5>1. d \in DbType /\ m \in MemType /\ priv \in Masters
          BY <1>1, <1>3, <1>4
        <5> QED
          BY <2>1, <3>2, <5>1, PrivateDb
      <4> QED
        BY <1>4, <4>1
    <3> QED
      BY <1>6, <3>1, <3>2
  <2>4. \A k \in Private : AllSealed(priv)[k] = Sealed(priv, k)
    BY DEF AllSealed
  <2>5. StoredReadable'
    BY <1>1, <1>2, <1>6, <2>3, <2>4 DEF StoredReadable
  <2>6. SecretsFollowLock'
    BY <1>1, <1>2, <1>3, <2>2 DEF SecretsFollowLock
  <2>7. MemReadable'
    BY <1>1, <1>2, <1>3, <1>6, <2>2, <2>3, <2>4 DEF MemReadable
  <2> QED
    BY <1>1, <1>2, <1>6, <2>2, <2>3, <2>5, <2>6, <2>7, ChangeStep
<1> QED
  BY <1>1, <1>5, <1>6

\* Nothing is left to read, in memory at once, in the database once it commits.
LEMMA ConvertInv ==
    ASSUME Inv, ConvertToWatchingOnly PROVE Inv'
<1>1. /\ mem \in MemType /\ db \in DbType /\ Running
      /\ changes' \in Nat /\ UNCHANGED users
      /\ mem' = [LockedForm(mem) EXCEPT !.sealed = [k \in Private |-> Gone],
                                        !.masterPriv = Gone, !.watching = TRUE]
      /\ db' \in {db, WithoutPrivateKeys(db)}
  BY DEF Inv, TypeOK, ConvertToWatchingOnly, Commits
<1>2. /\ mem' \in MemType /\ mem'.watching /\ mem'.locked
      /\ mem'.derived = Gone /\ mem'.hashed = Gone
      /\ \A k \in Private : mem'.clear[k] = Gone
  <2> DEFINE none == [k \in Private |-> Gone]
             locked == LockedForm(mem)
  <2>1. none \in [Private -> Ciphers(Masters, Private)]
    BY DEF Ciphers
  <2>2. /\ locked \in MemType /\ locked.locked
        /\ locked.derived = Gone /\ locked.hashed = Gone
        /\ \A k \in Private : locked.clear[k] = Gone
    BY <1>1, LockedFormKeeps
  <2>3. mem' = [locked EXCEPT !.sealed = none, !.masterPriv = Gone, !.watching = TRUE]
    BY <1>1
  <2> HIDE DEF none, locked
  <2>4. mem' \in MemType
    BY <2>1, <2>2, <2>3 DEF MemType
  <2>5. /\ mem'.watching /\ mem'.locked = locked.locked /\ mem'.derived = locked.derived
        /\ mem'.hashed = locked.hashed /\ mem'.clear = locked.clear
    BY <2>2, <2>3 DEF MemType
  <2> QED
    BY <2>2, <2>4, <2>5
<1>3. WithoutPrivateKeys(db) \in DbType
      /\ WithoutPrivateKeys(db).watching /\ WithoutPrivateKeys(db).masterPriv = Gone
      /\ WithoutPrivateKeys(db).keyPub = db.keyPub
      /\ WithoutPrivateKeys(db).masterPub = db.masterPub
      /\ WithoutPrivateKeys(db).spendSeed = db.spendSeed
      /\ WithoutPrivateKeys(db).addresses = db.addresses
  BY <1>1 DEF WithoutPrivateKeys, DbType, Ciphers
<1>4. StoredReadable'
  BY <1>1, <1>3 DEF Inv, StoredReadable
<1>5. SecretsFollowLock' /\ MemReadable'
  BY <1>2 DEF SecretsFollowLock, MemReadable
<1>6. ~db'.watching => db'.masterPriv \in Masters
  BY <1>1, <1>3 DEF Inv, ReadSoFar
<1> QED
  BY <1>1, <1>2, <1>3, <1>4, <1>5, <1>6, ChangeStep

-----------------------------------------------------------------------------
(* The readers of the root seeds *)

\* A reader changes neither memory nor what it does not put there itself.
LEMMA ReaderStep ==
    ASSUME Inv, UNCHANGED <<mem, changes>>, TypeOK', ReadSoFar',
           db' = db \/ \E a \in {asked} :
              /\ a.key = Sealed("priv", "spend")
              /\ db' = [db EXCEPT !.addresses = @ \cup {a}]
    PROVE  Inv'
<1>1. /\ db'.masterPub = db.masterPub /\ db'.masterPriv = db.masterPriv
      /\ db'.keyPub = db.keyPub /\ db'.keys = db.keys /\ db'.watching = db.watching
      /\ \A a \in db'.addresses : a \in db.addresses \/ a.key = Sealed("priv", "spend")
  BY DEF Inv, TypeOK, DbType
<1>2. StoredReadable'
  BY <1>1 DEF Inv, StoredReadable
<1>3. SecretsFollowLock' /\ MemReadable'
  BY <1>1 DEF Inv, SecretsFollowLock, MemReadable, Running
<1> QED
  BY <1>2, <1>3 DEF Inv

\* NewAddressKey opens its transaction; a locked wallet refuses.
LEMMA GenerateInv ==
    ASSUME Inv, NEW level \in Levels, Generate(level) PROVE Inv'
<1> USE DEF Inv, Generate, At
<1>1. asked' \in [level : Levels \cup {Gone}, key : Ciphers(Private \cup {Gone}, {"spend", Gone})]
  BY DEF Ciphers
<1>2. TypeOK'
  BY <1>1 DEF TypeOK, Users, Running
<1>3. ReadSoFar'
  BY DEF ReadSoFar, TypeOK, Users
<1> QED
  BY <1>2, <1>3, ReaderStep

\* A block is attached in one database transaction.
LEMMA ReceiveTxoInv ==
    ASSUME Inv, ReceiveTxo PROVE Inv'
<1> USE DEF Inv, ReceiveTxo, At
<1>1. TypeOK'
  BY DEF TypeOK, Users, Running
<1>2. ReadSoFar'
  BY DEF ReadSoFar, TypeOK, Users
<1> QED
  BY <1>1, <1>2, ReaderStep

\* A user looks whether the manager is locked, and holds nothing yet.
LEMMA LookInv ==
    ASSUME Inv, NEW u \in Users, Look(u) PROVE Inv'
<1> USE DEF Inv, Look, At
<1>1. TypeOK'
  BY DEF TypeOK, Running
<1>2. ReadSoFar'
  BY DEF ReadSoFar, TypeOK
<1> QED
  BY <1>1, <1>2, ReaderStep

\* While the lock is open memory has the key the seed is sealed under.
LEMMA DecryptSeedInv ==
    ASSUME Inv, NEW u \in Users, DecryptSeed(u) PROVE Inv'
<1>1. /\ Running /\ UNCHANGED <<db, mem, changes, asked>>
      /\ \/ /\ Selects("seed") /\ pc' = [pc EXCEPT ![u] = "public"]
            /\ seedRead' = [seedRead EXCEPT ![u] = db.spendSeed.of]
         \/ pc' = [pc EXCEPT ![u] = "failed"] /\ seedRead' = seedRead
  BY DEF DecryptSeed, Fails
<1>2. Selects("seed") => db.spendSeed.of = "spend"
  BY <1>1, SealedFields DEF Inv, Selects, MemReadable, ReadSoFar
<1>3. /\ pc' \in [Users -> {"idle", "look", "decrypt", "public", "encrypt", "put",
                          "read", "failed"}]
      /\ seedRead' \in [Users -> {"spend", Gone}]
  BY <1>1, <1>2 DEF Inv, TypeOK
<1>4. TypeOK'
  BY <1>1, <1>3 DEF Inv, TypeOK, Running
<1>5. pc'["generate"] \in {"encrypt", "put"}
          => pc'["generate"] = pc["generate"] /\ seedRead'["generate"] = seedRead["generate"]
  BY <1>1 DEF Inv, TypeOK, Users
<1>6. ReadSoFar'
  BY <1>1, <1>5 DEF Inv, ReadSoFar
<1> QED
  BY <1>1, <1>4, <1>6, ReaderStep

\* An address is made of the spend root seed only: without it there is none.
LEMMA ReadPublicInv ==
    ASSUME Inv, NEW u \in Users, ReadPublic(u) PROVE Inv'
<1> USE DEF Inv, Fails
<1>1. /\ Running /\ pc[u] = "public" /\ UNCHANGED <<db, mem, changes, seedRead, asked>>
      /\ \/ pc' = [pc EXCEPT ![u] = "read"] /\ u = "insert"
         \/ pc' = [pc EXCEPT ![u] = "encrypt"] /\ Generates(asked.level, seedRead[u])
         \/ pc' = [pc EXCEPT ![u] = "failed"]
  BY DEF ReadPublic
<1>2. TypeOK'
  BY <1>1 DEF TypeOK, Running
<1>3. ReadSoFar'
  BY <1>1 DEF ReadSoFar, TypeOK, Generates, Users
<1> QED
  BY <1>1, <1>2, <1>3, ReaderStep

\* A secret that has been read is sealed by the private key the database holds.
LEMMA EncryptSpendInv ==
    ASSUME Inv, EncryptSpend PROVE Inv'
<1> USE DEF Inv, EncryptSpend, Fails
<1>1. CASE Selects("priv")
  <2>1. mem.clear["priv"] = "priv" /\ seedRead["generate"] = "spend"
    BY <1>1 DEF Selects, SecretsFollowLock, ReadSoFar
  <2>2. asked' = [asked EXCEPT !.key = Sealed("priv", "spend")]
    BY <1>1, <2>1
  <2>3. Sealed("priv", "spend") \in Ciphers(Private \cup {Gone}, {"spend", Gone})
    BY DEF Sealed, Ciphers, Private
  <2>4. TypeOK' /\ asked'.key = Sealed("priv", "spend")
    BY <1>1, <2>2, <2>3 DEF TypeOK, Running, Users
  <2>5. ReadSoFar'
    BY <1>1, <2>1, <2>4 DEF ReadSoFar, TypeOK, Users
  <2> QED
    BY <1>1, <2>4, <2>5, ReaderStep
<1>2. CASE ~Selects("priv")
  <2>1. TypeOK'
    BY <1>2 DEF TypeOK, Running, Users
  <2>2. ReadSoFar'
    BY <1>2 DEF ReadSoFar, TypeOK, Users
  <2> QED
    BY <1>2, <2>1, <2>2, ReaderStep
<1> QED
  BY <1>1, <1>2

\* What is stored of a new address opens under a key that is stored.
LEMMA PutAddressInv ==
    ASSUME Inv, PutAddress PROVE Inv'
<1> USE DEF Inv, PutAddress, At
<1>1. asked.key = Sealed("priv", "spend")
      /\ db' \in {db, [db EXCEPT !.addresses = @ \cup {asked}]}
  BY DEF ReadSoFar, Commits
<1>0. db \in DbType
      /\ asked \in [level : Levels \cup {Gone},
                    key   : Ciphers(Private \cup {Gone}, {"spend", Gone})]
  BY DEF TypeOK
<1> HIDE DEF Inv, PutAddress, At
<1>2. db' \in DbType
  <2>1. CASE db' = db
    BY <1>0, <2>1
  <2>2. CASE db' = [db EXCEPT !.addresses = @ \cup {asked}]
    <3>1. db.addresses \cup {asked}
              \in SUBSET [level : Levels \cup {Gone},
                          key : Ciphers(Private \cup {Gone}, {"spend", Gone})]
      BY <1>0 DEF DbType
    <3> QED
      BY <1>0, <2>2, <3>1 DEF DbType
  <2> QED
    BY <1>1, <2>1, <2>2
<1>3. db'.watching = db.watching /\ db'.masterPriv = db.masterPriv /\ db'.spendSeed = db.spendSeed
  BY <1>1, <1>0 DEF DbType
<1> USE DEF Inv, PutAddress, At
<1>4. asked' \in [level : Levels \cup {Gone}, key : Ciphers(Private \cup {Gone}, {"spend", Gone})]
  BY DEF Ciphers
<1>5. TypeOK'
  BY <1>2, <1>4 DEF TypeOK, Running, Users
<1>6. ReadSoFar'
  BY <1>3 DEF ReadSoFar, TypeOK, Users
<1> QED
  BY <1>1, <1>5, <1>6, ReaderStep

\* A user that is done lets go of what was read.
LEMMA FinishInv ==
    ASSUME Inv, NEW u \in Users, Finish(u) PROVE Inv'
<1> USE DEF Inv, Finish
<1>1. asked' \in [level : Levels \cup {Gone}, key : Ciphers(Private \cup {Gone}, {"spend", Gone})]
  BY DEF Ciphers, TypeOK
<1>2. TypeOK'
  BY <1>1 DEF TypeOK, Running
<1>3. ReadSoFar'
  BY DEF ReadSoFar, TypeOK, Users
<1> QED
  BY <1>2, <1>3, ReaderStep

-----------------------------------------------------------------------------
\* Every step preserves the invariant.
LEMMA StepInv == Inv /\ [Next]_vars => Inv'
<1> SUFFICES ASSUME Inv, [Next]_vars PROVE Inv'
  OBVIOUS
<1>1. CASE UNCHANGED vars
  <2>1. TypeOK' /\ ReadSoFar' /\ UNCHANGED <<db, mem, changes>>
    BY <1>1 DEF vars, Inv, TypeOK, ReadSoFar, Running
  <2> QED
    BY <2>1, ReaderStep
<1>2. CASE Next
  BY <1>2, OpenInv, UnlockInv, EndInv, LockInv, ConvertInv, ChangePassphraseInv,
     ChangePassphrasesInv, GenerateInv, ReceiveTxoInv, LookInv, DecryptSeedInv,
     ReadPublicInv, FinishInv, EncryptSpendInv, PutAddressInv DEF Next
<1> QED
  BY <1>1, <1>2

\* In every reachable state, whatever the order of locks, restarts, passphrase
\* changes and users, what is stored can be read with its passphrase and memory
\* holds a secret only while the manager is unlocked.
THEOREM Invariance == Spec => []Inv
BY InitInv, StepInv, PTL DEF Spec

\* What the database holds opens with the passphrases its master keys were made
\* from, whatever was changed, failed to commit or stopped half-way.
THEOREM AlwaysReadable == Spec => []StoredReadable
<1>1. Inv => StoredReadable
  BY DEF Inv
<1> QED
  BY <1>1, Invariance, PTL

\* A locked manager has no secret in memory, an unlocked one has its keys.
THEOREM SecretsLocked == Spec => []SecretsFollowLock
<1>1. Inv => SecretsFollowLock
  BY DEF Inv
<1> QED
  BY <1>1, Invariance, PTL
=============================================================================
