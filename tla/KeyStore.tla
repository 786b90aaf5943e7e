------------------------------ MODULE KeyStore ------------------------------
(***************************************************************************)
(* The keys of the address manager: a master key derived from each         *)
(* passphrase protects crypto keys, which protect the root seeds and the   *)
(* keys of every address.  Only ciphertexts and the parameters of the      *)
(* master keys are in the database; the keys in the clear are in memory,   *)
(* those under the private passphrase while the manager is unlocked.       *)
(*                                                                         *)
(* A method that holds the manager's mutex from beginning to end is one    *)
(* step.  Reading the root seeds and making an address take the mutex      *)
(* several times, and the wallet may be locked or unlocked in between.     *)
(***************************************************************************)
EXTENDS Integers, FiniteSets

CONSTANTS
    Passphrases,
    MasterSeeds,    \* what the wallet may be created from
    MaxChanges,     \* bound on the passphrase changes
    MayConvert,     \* may the manager be converted to watching-only?
    CommitMayFail   \* may a database transaction fail to commit?

Private == {"priv", "seed", "script"}
Levels  == {"pseudonym", "pseudonymct"}

\* Goroutines that read the root seeds within a database transaction: the RPC
\* handler that makes an address, and the handler of attached blocks.
Users   == {"generate", "insert"}

CONSTANT Gone       \* an entry that is not there; a key zeroed or nil
ASSUME SeedsAssumption == MasterSeeds \subseteq {"aip", "cli", "none"}
ASSUME ChangesAssumption ==
    MaxChanges \in Nat /\ MayConvert \in BOOLEAN /\ CommitMayFail \in BOOLEAN
ASSUME GoneAssumption ==
    /\ Gone \notin Passphrases \cup Private \cup Levels
                       \cup {"pub", "spend", "serial", "value", "detector", "aut"}
    /\ Gone \notin [pass : Passphrases, salt : Nat]

\* A master key is given by its parameters, the passphrase and salt it is derived
\* from, the salts numbered: the digest they are stored with tells a passphrase
\* apart from any other.  What a key encrypts opens under that key only.
Params(p, salt) == [pass |-> p, salt |-> salt]
Sealed(key, what) == [under |-> key, of |-> what]

VARIABLES
    db,         \* the database: master key parameters, ciphertexts, addresses
    mem,        \* the manager in memory, or Gone
    changes,    \* passphrase changes so far
    writer,     \* the goroutine whose write transaction is open, or Gone
    pc,         \* where each user is
    seedRead,   \* the spend root seed a user has read
    asked       \* the privacy level of the address asked for, with its key

vars == <<db, mem, changes, writer, pc, seedRead, asked>>
users == <<writer, pc, seedRead, asked>>

-----------------------------------------------------------------------------
(* Create, open and close *)

\* The root seeds derived from a master seed: that of an old command line wallet
\* gives none for the values of tokens.
RootSeeds(seed) ==
    {"spend", "serial", "value", "detector"}
        \cup (IF seed = "cli" THEN {} ELSE {"aut"})

\* An entry that there is nothing to put in is not written.
MasterKeyParams(private) == IF private = Gone THEN Gone ELSE Params(private, 0)
CryptoKeys(key) == [k \in Private |-> IF key = Gone THEN Gone ELSE Sealed(key, k)]
SeedEnc(roots, seed) == IF seed \in roots THEN Sealed("seed", seed) ELSE Gone

\* The database waddrmgr.Create leaves: without a seed it is watching-only.
Created(seed, public, private) ==
    LET open  == seed # "none"
        roots == IF open THEN RootSeeds(seed) ELSE {}
        priv  == MasterKeyParams(IF open THEN private ELSE Gone)
    IN
    [masterPub  |-> Params(public, 0),
     masterPriv |-> priv,
     keyPub     |-> Sealed(Params(public, 0), "pub"),
     keys       |-> CryptoKeys(priv),
     spendSeed  |-> SeedEnc(roots, "spend"),
     autSeed    |-> SeedEnc(roots, "aut"),
     watching   |-> ~open,
     addresses  |-> {}]

Init ==
    /\ \E s \in MasterSeeds, public, private \in Passphrases :
          db = Created(s, public, private)
    /\ mem = Gone
    /\ changes = 0
    /\ writer = Gone
    /\ pc = [u \in Users |-> "idle"]
    /\ seedRead = [u \in Users |-> Gone]
    /\ asked = [level |-> Gone, key |-> Gone]

Running == mem # Gone

\* loadManager: locked, with the crypto keys as the database has them.
Loaded ==
    [masterPub  |-> db.masterPub,
     keyPub     |-> db.keyPub.of,
     masterPriv |-> db.masterPriv,
     derived    |-> Gone,
     sealed     |-> db.keys,
     clear      |-> [k \in Private |-> Gone],
     hashed     |-> Gone,
     locked     |-> TRUE,
     watching   |-> db.watching]

Open(public) ==
    /\ ~Running
    /\ public = db.masterPub.pass
    /\ db.keyPub.under = db.masterPub
    /\ mem' = Loaded
    /\ UNCHANGED <<db, changes, users>>

\* The end of the process, with Close or without: open transactions are undone.
End ==
    /\ Running
    /\ mem' = Gone
    /\ writer' = Gone
    /\ pc' = [u \in Users |-> "idle"]
    /\ seedRead' = [u \in Users |-> Gone]
    /\ asked' = [level |-> Gone, key |-> Gone]
    /\ UNCHANGED <<db, changes>>

-----------------------------------------------------------------------------
(* Lock and unlock *)

LockedForm(m) ==
    [m EXCEPT !.clear = [k \in Private |-> Gone], !.derived = Gone,
              !.hashed = Gone, !.locked = TRUE]

Lock ==
    /\ Running /\ ~mem.watching /\ ~mem.locked
    /\ mem' = LockedForm(mem)
    /\ UNCHANGED <<db, changes, users>>

\* The keys of memory open under the passphrase: the script key is not tried,
\* and stays zero.
Opens(m, p) ==
    /\ p = m.masterPriv.pass
    /\ \A k \in {"priv", "seed"} : m.sealed[k].under = m.masterPriv

\* An unlocked manager compares hashes; any failure locks it.
Unlocked(m, p) ==
    IF ~m.locked THEN IF p = m.hashed THEN m ELSE LockedForm(m)
    ELSE IF ~Opens(m, p) THEN LockedForm(m)
    ELSE [m EXCEPT !.clear = [k \in Private |->
                        IF k = "script" THEN Gone ELSE m.sealed[k].of],
                   !.derived = m.masterPriv,
                   !.hashed = p,
                   !.locked = FALSE]

Unlock(p) ==
    /\ Running /\ ~mem.watching
    /\ mem' = Unlocked(mem, p)
    /\ UNCHANGED <<db, changes, users>>

-----------------------------------------------------------------------------
(* Passphrases: the database is written and memory follows within the       *)
(* transaction, before it commits.                                          *)

Known(m, which) == IF which = "private" THEN m.masterPriv.pass ELSE m.masterPub.pass

Resealed(m, new) == [k \in Private |-> Sealed(new, m.sealed[k].of)]

\* A mutated form of MemChanged: a locked manager keeps the derived key.
MemChangedKeeps(m, which, new) ==
    IF which = "private"
    THEN [m EXCEPT !.sealed = Resealed(m, new), !.masterPriv = new, !.derived = new,
                   !.hashed = IF m.locked THEN Gone ELSE new.pass]
    ELSE [m EXCEPT !.masterPub = new]

MemChanged(m, which, new) ==
    IF which = "private"
    THEN [m EXCEPT !.sealed = Resealed(m, new),
                   !.masterPriv = new,
                   !.derived = IF m.locked THEN Gone ELSE new,
                   !.hashed = IF m.locked THEN Gone ELSE new.pass]
    ELSE [m EXCEPT !.masterPub = new]

DbChanged(d, m, which, new) ==
    IF which = "private"
    THEN [d EXCEPT !.keys = Resealed(m, new), !.masterPriv = new]
    ELSE [d EXCEPT !.keyPub = Sealed(new, m.keyPub), !.masterPub = new]

Commits == IF CommitMayFail THEN BOOLEAN ELSE {TRUE}

MayChange(which) ==
    /\ Running /\ writer = Gone
    /\ changes < MaxChanges
    /\ which = "private" => ~mem.watching

ChangePassphrase(which, old, new) ==
    LET key == Params(new, changes + 1) IN
    /\ MayChange(which)
    /\ old = Known(mem, which)
    /\ mem' = MemChanged(mem, which, key)
    /\ \E done \in Commits : db' = IF done THEN DbChanged(db, mem, which, key) ELSE db
    /\ changes' = changes + 1
    /\ UNCHANGED users

\* Both in one transaction: when the private passphrase given is wrong, the
\* public one has changed in memory only.
ChangePassphrases(publicNew, privateOld, privateNew) ==
    LET pub  == Params(publicNew, changes + 1)
        priv == Params(privateNew, changes + 1)
        m    == MemChanged(mem, "public", pub)
        d    == DbChanged(db, mem, "public", pub)
    IN
    /\ MayChange("public")
    /\ IF ~mem.watching /\ privateOld = Known(mem, "private")
       THEN /\ mem' = MemChanged(m, "private", priv)
            /\ \E done \in Commits :
                  db' = IF done THEN DbChanged(d, m, "private", priv) ELSE db
       ELSE mem' = m /\ UNCHANGED db
    /\ changes' = changes + 1
    /\ UNCHANGED users

\* deletePrivateKeys, and the mark that goes with it.
WithoutPrivateKeys(d) ==
    [d EXCEPT !.masterPriv = Gone, !.keys = [k \in Private |-> Gone],
              !.watching = TRUE]

\* The private keys are deleted for good.
ConvertToWatchingOnly ==
    /\ MayConvert
    /\ Running /\ writer = Gone /\ ~mem.watching
    /\ mem' = [LockedForm(mem) EXCEPT !.sealed = [k \in Private |-> Gone],
                                      !.masterPriv = Gone,
                                      !.watching = TRUE]
    /\ \E done \in Commits : db' = IF done THEN WithoutPrivateKeys(db) ELSE db
    /\ UNCHANGED <<changes, users>>

-----------------------------------------------------------------------------
(* Reading the root seeds: the lock is looked at, then the spend seed is     *)
(* decrypted under the mutex taken again, then the others.                   *)

At(u, from, to) == Running /\ pc[u] = from /\ pc' = [pc EXCEPT ![u] = to]
Fails(u) ==
    /\ pc' = [pc EXCEPT ![u] = "failed"]
    /\ writer' = Gone

\* NewAddressKey: the transaction is opened, and a locked wallet refused.
Generate(level) ==
    /\ At("generate", "idle", "look")
    /\ writer = Gone /\ ~mem.locked
    /\ writer' = "generate"
    /\ asked' = [level |-> level, key |-> Gone]
    /\ UNCHANGED <<db, mem, changes, seedRead>>

\* A block is attached in one transaction; its outputs are tried one by one.
ReceiveTxo ==
    /\ At("insert", "idle", "look")
    /\ writer = Gone
    /\ writer' = "insert"
    /\ UNCHANGED <<db, mem, changes, seedRead, asked>>

Look(u) ==
    /\ At(u, "look", IF mem.locked THEN "public" ELSE "decrypt")
    /\ seedRead' = [seedRead EXCEPT ![u] = Gone]
    /\ UNCHANGED <<db, mem, changes, writer, asked>>

\* A mutated form of Selects: a key is given out whatever the lock says.
SelectsAny(k) == ~mem.watching

\* selectCryptoKey: a private key is refused while the manager is locked.
Selects(k) == ~mem.locked /\ ~mem.watching

DecryptSeed(u) ==
    /\ Running /\ pc[u] = "decrypt"
    /\ IF Selects("seed") /\ db.spendSeed.under = mem.clear["seed"]
       THEN /\ pc' = [pc EXCEPT ![u] = "public"]
            /\ seedRead' = [seedRead EXCEPT ![u] = db.spendSeed.of]
            /\ UNCHANGED writer
       ELSE Fails(u) /\ UNCHANGED seedRead
    /\ UNCHANGED <<db, mem, changes, asked>>

\* The key generation of the crypto library needs every root seed it is given.
Generates(level, spend) ==
    /\ spend # Gone
    /\ level = "pseudonymct" => db.autSeed # Gone

\* The rest of FetchProtectedRootSeeds and, for an address, its keys.
ReadPublic(u) ==
    /\ Running /\ pc[u] = "public"
    /\ CASE u = "insert" ->
              pc' = [pc EXCEPT ![u] = "read"] /\ UNCHANGED writer
         [] u = "generate" /\ Generates(asked.level, seedRead[u]) ->
              pc' = [pc EXCEPT ![u] = "encrypt"] /\ UNCHANGED writer
         [] OTHER -> Fails(u)
    /\ UNCHANGED <<db, mem, changes, seedRead, asked>>

EncryptSpend ==
    /\ Running /\ pc["generate"] = "encrypt"
    /\ IF Selects("priv")
       THEN /\ pc' = [pc EXCEPT !["generate"] = "put"]
            /\ asked' = [asked EXCEPT !.key = Sealed(mem.clear["priv"], seedRead["generate"])]
            /\ UNCHANGED writer
       ELSE Fails("generate") /\ UNCHANGED asked
    /\ UNCHANGED <<db, mem, changes, seedRead>>

\* putAddressKeysEnc and the commit.
PutAddress ==
    /\ At("generate", "put", "idle")
    /\ \E done \in Commits :
          db' = IF done THEN [db EXCEPT !.addresses = @ \cup {asked}] ELSE db
    /\ writer' = Gone
    /\ seedRead' = [seedRead EXCEPT !["generate"] = Gone]
    /\ asked' = [level |-> Gone, key |-> Gone]
    /\ UNCHANGED <<mem, changes>>

\* The transaction of a block ends; an address that failed is reported.
Finish(u) ==
    /\ Running
    /\ pc[u] = "failed" \/ (u = "insert" /\ pc[u] = "read")
    /\ pc' = [pc EXCEPT ![u] = "idle"]
    /\ writer' = IF writer = u THEN Gone ELSE writer
    /\ seedRead' = [seedRead EXCEPT ![u] = Gone]
    /\ asked' = IF u = "generate" THEN [level |-> Gone, key |-> Gone] ELSE asked
    /\ UNCHANGED <<db, mem, changes>>

Next ==
    \/ \E p \in Passphrases : Open(p) \/ Unlock(p)
    \/ End \/ Lock \/ ConvertToWatchingOnly
    \/ \E w \in {"public", "private"}, old, new \in Passphrases :
          ChangePassphrase(w, old, new)
    \/ \E a, b, c \in Passphrases : ChangePassphrases(a, b, c)
    \/ \E l \in Levels : Generate(l)
    \/ ReceiveTxo
    \/ \E u \in Users : Look(u) \/ DecryptSeed(u) \/ ReadPublic(u) \/ Finish(u)
    \/ EncryptSpend \/ PutAddress

Spec == Init /\ [][Next]_vars

-----------------------------------------------------------------------------
(* Properties *)

\* What the database holds can always be read again with the passphrases its
\* own master keys were made from, whatever was changed, failed to commit or
\* stopped half-way: each crypto key, and through them the spend key of each
\* address, which was made from the spend root seed.
StoredReadable ==
    /\ db.keyPub = Sealed(db.masterPub, "pub")
    /\ IF db.watching THEN db.masterPriv = Gone
       ELSE \A k \in Private : db.keys[k] = Sealed(db.masterPriv, k)
    /\ \A a \in db.addresses : a.key = Sealed("priv", "spend")

\* Nothing derived from the private passphrase is in memory while the manager
\* is locked, and while it is not, memory has the keys the database would give
\* after a restart, although the two may be under different passphrases.
SecretsFollowLock ==
    Running =>
        IF mem.locked
        THEN mem.derived = Gone /\ mem.hashed = Gone
             /\ \A k \in Private : mem.clear[k] = Gone
        ELSE /\ mem.derived = mem.masterPriv
             /\ mem.hashed = mem.masterPriv.pass
             /\ \A k \in {"priv", "seed"} : mem.clear[k] = k

=============================================================================
