----------------------------- MODULE KeyManager -----------------------------
(***************************************************************************)
(* The key manager (modules/keys.go, crypto/key_manager.go) over a key     *)
(* store, and its use by a sender: prepare asks QueryAddress, which caches *)
(* the address of a name, then the account cache, and the factory reads    *)
(* the key store twice to sign.  Names and addresses are keys of one       *)
(* cache.  A step ends at each access to the store or to the cache.        *)
(***************************************************************************)
EXTENDS KeyDAO

CONSTANTS Callers,
          Ops,        \* operations callers use
          Persisted,  \* the database may hold keys of an earlier process
          MaxCalls    \* bound: calls of one caller

AllOps == {"insert", "recover", "import", "delete", "show", "export", "send"}

ASSUME ManagerAssumption == /\ Ops \subseteq AllOps
                            /\ Persisted \in BOOLEAN
                            /\ MaxCalls \in Nat
                            /\ Ops # {} /\ Names # {} /\ Passwords # {}

VARIABLES cache,    \* cache[x]: entry of "account:x", x a name or an address
          pc,       \* where each caller is
          req,      \* its operation, name and password
          key,      \* the key it inserts
          tx,       \* the transaction it builds
          ret,      \* how its last call ended
          calls,    \* calls it has begun
          had,      \* history: the keys each name has had
          raced,    \* history: names with two insertions at the same time
          vouched,  \* history: first key reported for a name since it was absent
          overtaken,\* history: callers whose Delete has read a name written since
          misled,   \* history: callers told by Has that a stored name does not exist
          unseen    \* history: names that both Has of one insertion did not see

history == <<had, raced, vouched, overtaken, misled, unseen>>
vars == <<dao, store, cache, pc, req, key, tx, ret, calls, history>>

\* An entry is an address, written by QueryAddress, or a sequence and account
\* number, written by saveAccount.
NoEntry == [kind |-> "none"]
AddrEntry(k) == [kind |-> "address", addr |-> k]
InfoEntry == [kind |-> "info"]
Entries == {NoEntry, InfoEntry} \cup {AddrEntry(k) : k \in Keys}

Requests == [op: Ops, name: Names, pw: Passwords]
Insertions == {"insert", "recover", "import"}

\* The account, public key and signature of a transaction.
Txs == [acct: Keys \cup {Absent}, pub: Keys \cup {Absent}, sig: Keys \cup {Absent}]
NoTx == [acct |-> Absent, pub |-> Absent, sig |-> Absent]

Steps == {"idle", "has", "derive", "write", "set", "read", "drop",
          "address", "find", "fill", "account", "pubkey", "sign"}

TypeOK ==
    /\ StoreTypeOK
    /\ cache \in [Names \cup Keys -> Entries]
    /\ pc \in [Callers -> Steps]
    /\ req \in [Callers -> Requests]
    /\ key \in [Callers -> Keys \cup {Absent}]
    /\ tx \in [Callers -> Txs]
    /\ ret \in [Callers -> {"none", "ok", "err", "panic"}]
    /\ calls \in [Callers -> 0 .. MaxCalls]
    /\ had \in [Names -> SUBSET Keys]
    /\ raced \subseteq Names
    /\ vouched \in [Names -> Keys \cup {Absent}]
    /\ overtaken \subseteq Callers
    /\ misled \subseteq Callers
    /\ unseen \subseteq Names

Init == /\ dao \in {"memory", "level"}
        /\ store \in [Names -> {Absent} \cup
                IF Persisted /\ dao = "level"
                THEN [pub: Keys, text: {Encrypt}, pw: Passwords] ELSE {}]
        /\ cache = [x \in Names \cup Keys |-> NoEntry]
        /\ pc = [c \in Callers |-> "idle"]
        /\ req = [c \in Callers |-> CHOOSE r \in Requests : TRUE]
        /\ key = [c \in Callers |-> Absent]
        /\ tx = [c \in Callers |-> NoTx]
        /\ ret = [c \in Callers |-> "none"]
        /\ calls = [c \in Callers |-> 0]
        /\ had = [n \in Names |-> IF Stored(n) THEN {store[n].pub} ELSE {}]
        /\ raced = {}
        /\ vouched = [n \in Names |-> IF Stored(n) THEN store[n].pub ELSE Absent]
        /\ overtaken = {}
        /\ misled = {}
        /\ unseen = {}

Goto(c, l) == pc' = [pc EXCEPT ![c] = l]

Exit(c, r) == Goto(c, "idle") /\ ret' = [ret EXCEPT ![c] = r]

Inserting(c, n) == /\ pc[c] \in {"has", "derive", "write", "set"}
                   /\ req[c].name = n

-----------------------------------------------------------------------------
\* The first step of an operation; Delete of MemoryDAO does not read.
First(op) == IF op \in Insertions THEN "has"
             ELSE IF op = "send" THEN "address"
             ELSE IF op = "delete" /\ dao = "memory" THEN "drop"
             ELSE "read"

\* A call begins.  An insertion that meets another one of the same name is
\* recorded.
BeginWith(c, r) ==
    /\ pc[c] = "idle" /\ calls[c] < MaxCalls
    /\ req' = [req EXCEPT ![c] = r]
    /\ Goto(c, First(r.op))
    /\ raced' = IF r.op \in Insertions /\ \E d \in Callers : Inserting(d, r.name)
                THEN raced \cup {r.name} ELSE raced
    /\ calls' = [calls EXCEPT ![c] = @ + 1]
    /\ key' = [key EXCEPT ![c] = Absent]
    /\ tx' = [tx EXCEPT ![c] = NoTx]
    /\ ret' = [ret EXCEPT ![c] = "none"]
    /\ overtaken' = overtaken \ {c}
    /\ misled' = misled \ {c}
    /\ UNCHANGED <<store, cache, had, vouched, unseen>>

Begin(c) == \E r \in Requests : BeginWith(c, r)

\* Mutant: the check is left to the store.
HasUnchecked(c) ==
    /\ pc[c] = "has"
    /\ Goto(c, "derive")
    /\ UNCHANGED <<store, cache, req, key, tx, ret, calls, history>>

\* Insert, Recover and Import first ask whether the name exists.
CheckHas(c) ==
    /\ pc[c] = "has"
    /\ \E found \in Has(req[c].name) :
        /\ IF found THEN Exit(c, "err") ELSE Goto(c, "derive") /\ UNCHANGED ret
        /\ misled' = IF found = Stored(req[c].name) THEN misled ELSE misled \cup {c}
    /\ UNCHANGED <<store, cache, req, key, tx, calls, had, raced, vouched, overtaken, unseen>>

Derived(c, k) ==
    /\ pc[c] = "derive"
    /\ key' = [key EXCEPT ![c] = k]
    /\ Goto(c, "write")
    /\ UNCHANGED <<store, cache, req, tx, ret, calls, history>>

\* NewAlgoKeyManager: a random mnemonic, hence a key nobody has.
Insert(c) ==
    /\ req[c].op = "insert"
    /\ \E k \in Keys \ Names :
        /\ \A n \in Names : k \notin had[n]
        /\ \A d \in Callers : key[d] # k
        /\ Derived(c, k)

\* The key of the given mnemonic and path.
Recover(c) == req[c].op = "recover" /\ \E k \in Keys : Derived(c, k)

\* The key in the given armor.
Import(c) == req[c].op = "import" /\ \E k \in Keys : Derived(c, k)

\* A mnemonic of the wrong length, an unknown algorithm, a bad path or an
\* armor that does not open.
DeriveFails(c) ==
    /\ pc[c] = "derive" /\ req[c].op # "insert"
    /\ Exit(c, "err")
    /\ UNCHANGED <<store, cache, req, key, tx, calls, history>>

\* The name gets the key and the call ends.
Written(c) ==
    LET n == req[c].name IN
    /\ Put(n, req[c].pw, key[c])
    /\ had' = [had EXCEPT ![n] = @ \cup {key[c]}]
    /\ vouched' = [vouched EXCEPT ![n] = IF @ = Absent THEN key[c] ELSE @]
    /\ overtaken' = overtaken \cup {d \in Callers : pc[d] = "drop" /\ req[d].name = n}
    /\ Exit(c, "ok")
    /\ UNCHANGED <<cache, req, key, tx, calls, raced, misled, unseen>>

\* MemoryDAO writes; LevelDBDAO asks again whether the name exists, encrypts
\* and then writes.
Write(c) ==
    /\ pc[c] = "write"
    /\ \/ dao = "memory" /\ Written(c)
       \/ /\ dao = "level"
          /\ \E found \in Has(req[c].name) :
              /\ IF found THEN Exit(c, "err") ELSE Goto(c, "set") /\ UNCHANGED ret
              /\ unseen' = IF found # Stored(req[c].name) /\ c \in misled
                           THEN unseen \cup {req[c].name} ELSE unseen
          /\ UNCHANGED <<store, cache, req, key, tx, calls, had, raced, vouched, overtaken, misled>>

SetSync(c) == pc[c] = "set" /\ Written(c)

\* Mutant: a failed write leaves the key behind.
SetFailsStored(c) ==
    /\ pc[c] = "set"
    /\ Put(req[c].name, req[c].pw, key[c])
    /\ Exit(c, "err")
    /\ UNCHANGED <<cache, req, key, tx, calls, history>>

\* Get, SetSync or DeleteSync of the database fails: the call ends with the error and
\* the store is as it was.
DatabaseFails(c) ==
    /\ dao = "level" /\ pc[c] \in {"set", "read", "drop", "find", "pubkey", "sign"}
    /\ Exit(c, "err")
    /\ UNCHANGED <<store, cache, req, key, tx, calls, history>>

\* The Read of Show, Export and LevelDBDAO.Delete.  Deleting a name that is
\* absent is not an error.
Read(c) ==
    LET n == req[c].name
        pw == req[c].pw IN
    /\ pc[c] = "read"
    /\ \/ /\ req[c].op = "show"
          /\ Exit(c, IF FindKey(n, pw) = Absent THEN "err" ELSE "ok")
       \/ /\ req[c].op = "export"
          /\ Exit(c, IF ReadPrivKey(n, pw) = Absent THEN "err" ELSE "ok")
       \/ /\ req[c].op = "delete"
          /\ IF ReadFails(n, pw) THEN Exit(c, "err") ELSE Goto(c, "drop") /\ UNCHANGED ret
    /\ UNCHANGED <<store, cache, req, key, tx, calls, history>>

\* MemoryDAO.Delete, and the DeleteSync of LevelDBDAO.Delete.
Delete(c) ==
    /\ pc[c] = "drop"
    /\ Drop(req[c].name)
    /\ vouched' = [vouched EXCEPT ![req[c].name] = Absent]
    /\ Exit(c, "ok")
    /\ UNCHANGED <<cache, req, key, tx, calls, had, raced, overtaken, misled, unseen>>

-----------------------------------------------------------------------------
\* QueryAddress looks the name up in the cache and asserts that the entry is
\* a string.  (What is cached is always a valid address.)
LookUpAddress(c) ==
    LET e == cache[req[c].name] IN
    /\ pc[c] = "address"
    /\ \/ /\ e.kind = "address"
          /\ tx' = [tx EXCEPT ![c] = [acct |-> e.addr, pub |-> Absent, sig |-> Absent]]
          /\ Goto(c, "account") /\ UNCHANGED ret
       \/ /\ e.kind = "info"
          /\ Exit(c, "panic") /\ UNCHANGED tx
       \/ /\ e.kind = "none"
          /\ Goto(c, "find") /\ UNCHANGED <<tx, ret>>
    /\ UNCHANGED <<store, cache, req, key, calls, history>>

FindAddress(c) ==
    LET k == FindKey(req[c].name, req[c].pw) IN
    /\ pc[c] = "find"
    /\ IF k = Absent THEN Exit(c, "err") /\ UNCHANGED tx
       ELSE /\ tx' = [tx EXCEPT ![c] = [acct |-> k, pub |-> Absent, sig |-> Absent]]
            /\ Goto(c, "fill") /\ UNCHANGED ret
    /\ UNCHANGED <<store, cache, req, key, calls, history>>

\* Mutant: the address is cached under the address.
FillOther(c) ==
    /\ pc[c] = "fill"
    /\ cache' = [cache EXCEPT ![tx[c].acct] = AddrEntry(tx[c].acct)]
    /\ Goto(c, "account")
    /\ UNCHANGED <<store, req, key, tx, ret, calls, history>>

\* Mutant: one entry serves every name.
FillAll(c) ==
    /\ pc[c] = "fill"
    /\ cache' = [x \in DOMAIN cache |-> IF x \in Names THEN AddrEntry(tx[c].acct)
                                                       ELSE cache[x]]
    /\ Goto(c, "account")
    /\ UNCHANGED <<store, req, key, tx, ret, calls, history>>

FillAddress(c) ==
    /\ pc[c] = "fill"
    /\ cache' = [cache EXCEPT ![req[c].name] = AddrEntry(tx[c].acct)]
    /\ Goto(c, "account")
    /\ UNCHANGED <<store, req, key, tx, ret, calls, history>>

\* QueryAndRefreshAccount asserts that the entry is an account; without one
\* it asks the node, which may fail.  (The sequences are in TxSender.)
Account(c) ==
    LET a == tx[c].acct IN
    /\ pc[c] = "account"
    /\ \/ /\ cache[a].kind = "address"
          /\ Exit(c, "panic") /\ UNCHANGED cache
       \/ /\ cache[a].kind # "address"
          /\ cache' = [cache EXCEPT ![a] = InfoEntry]
          /\ Goto(c, "pubkey") /\ UNCHANGED ret
       \/ /\ cache[a].kind = "none"
          /\ Exit(c, "err") /\ UNCHANGED cache
    /\ UNCHANGED <<store, req, key, tx, calls, history>>

\* Factory.Sign: Find for the public key, then Sign, which reads again.
PubKey(c) ==
    LET k == FindKey(req[c].name, req[c].pw) IN
    /\ pc[c] = "pubkey"
    /\ IF k = Absent THEN Exit(c, "err") /\ UNCHANGED tx
       ELSE /\ tx' = [tx EXCEPT ![c] = [acct |-> tx[c].acct, pub |-> k, sig |-> Absent]]
            /\ Goto(c, "sign") /\ UNCHANGED ret
    /\ UNCHANGED <<store, cache, req, key, calls, history>>

Sign(c) ==
    LET k == ReadPrivKey(req[c].name, req[c].pw) IN
    /\ pc[c] = "sign"
    /\ tx' = [tx EXCEPT ![c] = [acct |-> tx[c].acct, pub |-> tx[c].pub, sig |-> k]]
    /\ Exit(c, IF k = Absent THEN "err" ELSE "ok")
    /\ UNCHANGED <<store, cache, req, key, calls, history>>

-----------------------------------------------------------------------------
\* Expiry or eviction; removeCache after a failed broadcast.
EntryDropped(x) ==
    /\ cache[x] # NoEntry
    /\ cache' = [cache EXCEPT ![x] = NoEntry]
    /\ UNCHANGED <<store, pc, req, key, tx, ret, calls, history>>

\* The process ends (the Go runtime ends it when goroutines use the map of
\* MemoryDAO at the same time) and starts again: the database is what remains.
Restart ==
    /\ \E c \in Callers : pc[c] # "idle"
    /\ pc' = [c \in Callers |-> "idle"]
    /\ ret' = [c \in Callers |-> "none"]
    /\ cache' = [x \in DOMAIN cache |-> NoEntry]
    /\ store' = IF dao = "level" THEN store ELSE [n \in Names |-> Absent]
    /\ vouched' = IF dao = "level" THEN vouched ELSE [n \in Names |-> Absent]
    /\ UNCHANGED <<req, key, tx, calls, had, raced, overtaken, misled, unseen>>

\* The steps of a call that has begun.
Step(c) == \/ CheckHas(c) \/ Insert(c) \/ Recover(c) \/ Import(c)
           \/ DeriveFails(c) \/ Write(c) \/ SetSync(c) \/ DatabaseFails(c)
           \/ Read(c) \/ Delete(c) \/ LookUpAddress(c)
           \/ FindAddress(c) \/ FillAddress(c) \/ Account(c) \/ PubKey(c)
           \/ Sign(c)

Progress == \/ \E c \in Callers : Step(c)
            \/ \E x \in DOMAIN cache : EntryDropped(x)
            \/ Restart

Next == /\ Progress \/ \E c \in Callers : Begin(c)
        /\ UNCHANGED dao

Spec == Init /\ [][Next]_vars

-----------------------------------------------------------------------------
(* Properties *)

\* A key whose insertion was reported stays under its name until it is
\* deleted, restarts included, unless two insertions of that name ran at the
\* same time (Insert, Recover and Import check and write in separate steps)
\* or both Has of one insertion, its own and the one of LevelDBDAO.Write, met
\* an error of the database, which Has reports as an absent name.
KeyKept ==
    \A n \in Names \ (raced \cup unseen) :
        IF Stored(n) THEN store[n].pub = vouched[n] ELSE vouched[n] = Absent

\* The account, the public key and the signature of a transaction belong to
\* one key, unless its name has had several: QueryAddress may answer from the
\* cache, and Factory.Sign reads the store twice.
OneKeyUnlessRekeyed ==
    \A c \in Callers : req[c].op = "send" /\ ret[c] = "ok" =>
        \/ tx[c].acct = tx[c].pub /\ tx[c].pub = tx[c].sig
        \/ \E k, l \in had[req[c].name] : k # l

\* The type assertions on cache entries fail only when a key is named like
\* the address of a key: names and addresses share the prefix "account:".
PanicOnlyIfNamedLikeAddress ==
    \A c \in Callers : ret[c] = "panic" => req[c].name \in Keys \/ tx[c].acct \in Names

\* LevelDBDAO deletes a key only for a caller with the password it was written
\* with (KeyDAO: "use user password to verify permissions"), unless that
\* caller's password is empty, which Read does not verify, or the key was
\* written after the Read of this Delete: it reads and deletes in two steps.
DeleteChecked ==
    \A c \in Callers : LET n == req[c].name IN
        dao = "level" /\ pc[c] = "drop" /\ Stored(n) /\ ret'[c] = "ok" =>
            req[c].pw \in {store[n].pw, NoPassword} \/ c \in overtaken

DeleteVerifiesPassword == [][DeleteChecked]_vars

\* What Write encrypted, Read decrypts with the same password (KeyDAO: "decrypt
\* with user password"); LevelDBDAO does not decrypt for an empty one.
ReadReturnsWritten ==
    \A n \in Names : Stored(n) /\ (dao = "level" => store[n].pw # NoPassword) =>
        ReadPrivKey(n, store[n].pw) = store[n].pub

\* A key that Insert, Recover or Import reported stays under its name unless two of
\* them overlapped or one of them was misled twice by Has, and what Write of either
\* store kept, Read returns to the same password; the stores and the cache keep their
\* types.
KeyKeptAndRead == TypeOK /\ KeyKept /\ ReadReturnsWritten
=============================================================================
