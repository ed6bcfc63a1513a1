------------------------------ MODULE KeyProofs ------------------------------
(***************************************************************************)
(* Proofs about the key manager, for any callers, names, keys, passwords   *)
(* and number of calls, and for both key stores.  Each conjunct of KeyInv  *)
(* has a lemma that the steps keep it; the theorems are at the end.        *)
(***************************************************************************)
EXTENDS KeyManager, TLAPS

\* Where a caller is tells its operation and what it holds.
PhaseOf(c) ==
    /\ pc[c] \in {"has", "derive", "write", "set"} =>
           req[c].op \in Insertions
    /\ pc[c] = "read" => req[c].op \in {"show", "export", "delete"}
    /\ pc[c] = "drop" => req[c].op = "delete"
    /\ pc[c] \in {"write", "set"} => key[c] \in Keys
    /\ pc[c] # "idle" => ret[c] = "none"

PhaseInv == \A c \in Callers : PhaseOf(c)

\* A caller that Has told the truth: the first time, or one of two times.
Sure(c) == \/ pc[c] \in {"derive", "write"} /\ c \notin misled
           \/ pc[c] = "set" /\ req[c].name \notin unseen

\* A name that is not raced is being inserted by one caller at most, and is
\* absent once that caller knows; MemoryDAO misleads nobody.
InsertInv ==
    /\ \A c, d \in Callers : c # d /\ Inserting(c, req[d].name) /\ Inserting(d, req[d].name)
           => req[d].name \in raced
    /\ \A c \in Callers : Sure(c) /\ req[c].name \notin raced => ~ Stored(req[c].name)
    /\ dao = "memory" => misled = {}
    /\ KeyKept

\* Entries of the cache say what QueryAddress and saveAccount write, and the
\* keys in the store and in cached addresses are keys the name has had.
CacheInv ==
    /\ \A x \in Names \cup Keys :
           /\ cache[x].kind = "info" => x \in Keys
           /\ cache[x].kind = "address" => x \in Names /\ cache[x].addr \in had[x]
    /\ \A n \in Names : Stored(n) => store[n].pub \in had[n]

\* The keys of a transaction are keys its name has had.
TxOf(c) == LET Had == had[req[c].name] IN
    /\ pc[c] \in {"fill", "account", "pubkey", "sign"} => tx[c].acct \in Had
    /\ pc[c] = "sign" => tx[c].pub \in Had
    /\ req[c].op = "send" /\ ret[c] = "ok" =>
           tx[c].acct \in Had /\ tx[c].pub \in Had /\ tx[c].sig \in Had

TxInv == \A c \in Callers : TxOf(c)

\* The private keys are as the store writes them.
TextInv == \A n \in Names :
    Stored(n) => store[n].text = IF dao = "level" THEN Encrypt ELSE "plain"

\* A Delete that goes on has verified the password of the key it read.
DropOf(c) == LET n == req[c].name IN
    pc[c] = "drop" /\ Stored(n) /\ c \notin overtaken => req[c].pw \in {store[n].pw, NoPassword}

DropInv == dao = "level" /\ Crypto = "user" => \A c \in Callers : DropOf(c)

\* The inductive invariant.
KeyInv == TypeOK /\ PhaseInv /\ InsertInv /\ CacheInv /\ TxInv /\ TextInv /\ DropInv
             /\ PanicOnlyIfNamedLikeAddress

\* What Find and Sign get from the store is the key of the name.
LEMMA KeyRead ==
    ASSUME TypeOK, NEW n \in Names, NEW pw
    PROVE  /\ FindKey(n, pw) # Absent => /\ Stored(n) /\ FindKey(n, pw) = store[n].pub
                                         /\ FindKey(n, pw) \in Keys
           /\ ReadPrivKey(n, pw) # Absent => /\ Stored(n) /\ ReadPrivKey(n, pw) = store[n].pub
                                             /\ ReadPrivKey(n, pw) \in Keys
<1>1. Stored(n) => store[n].pub \in Keys
    BY AbsentAssumption, Zenon DEF TypeOK, StoreTypeOK, KeyInfo, Stored
<1>2. ~ Stored(n) => ReadText(n, pw) # "plain"
    BY Zenon DEF ReadText
<1> QED
    BY <1>1, <1>2, Zenon DEF FindKey, ReadPrivKey

\* What an entry of the cache can be.
LEMMA EntryKinds ==
    ASSUME NEW e \in Entries
    PROVE  /\ e.kind \in {"none", "info", "address"}
           /\ e.kind = "none" => e = NoEntry
           /\ e.kind = "address" => e.addr \in Keys
    BY DEF Entries, NoEntry, InfoEntry, AddrEntry

\* What QueryAddress and saveAccount write are entries of the cache.
LEMMA EntriesOf == /\ NoEntry \in Entries /\ InfoEntry \in Entries
                   /\ \A k \in Keys : AddrEntry(k) \in Entries
    BY Zenon DEF Entries

\* The fields of those entries.
LEMMA EntryFields ==
    /\ NoEntry.kind = "none" /\ InfoEntry.kind = "info"
    /\ \A k \in Keys : AddrEntry(k).kind = "address" /\ AddrEntry(k).addr = k
    BY Zenon DEF NoEntry, InfoEntry, AddrEntry

\* The types that the lemmas on one call need.
LEMMA CallTypes ==
    ASSUME TypeOK
    PROVE  /\ pc \in [Callers -> Steps] /\ ret \in [Callers -> {"none", "ok", "err", "panic"}]
           /\ tx \in [Callers -> Txs] /\ key \in [Callers -> Keys \cup {Absent}]
           /\ req \in [Callers -> Requests]
           /\ \A c \in Callers : req[c].name \in Names
    BY Zenon DEF TypeOK, Requests

\* Every step of a call keeps the types.
LEMMA TypeStep == TypeOK /\ PhaseInv /\ TxInv /\ [Next]_vars => TypeOK'
<1> SUFFICES ASSUME TypeOK, PhaseInv, TxInv, [Next]_vars PROVE TypeOK'
    OBVIOUS
<1>0. UNCHANGED dao
    BY Zenon DEF Next, vars
<1>1. ASSUME NEW c \in Callers, NEW r \in Requests, BeginWith(c, r) PROVE TypeOK'
  <2>1. First(r.op) \in Steps
    BY Zenon DEF First, Steps
  <2>2. NoTx \in Txs
    BY Zenon DEF NoTx, Txs
  <2>3. calls' \in [Callers -> 0 .. MaxCalls]
    BY <1>1, ManagerAssumption DEF BeginWith, TypeOK
  <2>4. raced' \subseteq Names
    BY <1>1, Zenon DEF BeginWith, TypeOK, Requests
  <2> QED
    BY <1>0, <1>1, <2>1, <2>2, <2>3, <2>4, Zenon DEF BeginWith, Goto, TypeOK, StoreTypeOK
<1>2. ASSUME NEW c \in Callers, CheckHas(c) PROVE TypeOK'
    BY <1>0, <1>2, Zenon DEF CheckHas, Goto, Exit, TypeOK, StoreTypeOK, history, Steps
<1>3. ASSUME NEW c \in Callers, Insert(c) PROVE TypeOK'
    BY <1>0, <1>3 DEF Insert, Derived, Goto, TypeOK, StoreTypeOK, history, Steps
<1>4. ASSUME NEW c \in Callers, Recover(c) PROVE TypeOK'
    BY <1>0, <1>4 DEF Recover, Derived, Goto, TypeOK, StoreTypeOK, history, Steps
<1>5. ASSUME NEW c \in Callers, Import(c) PROVE TypeOK'
    BY <1>0, <1>5 DEF Import, Derived, Goto, TypeOK, StoreTypeOK, history, Steps
<1>6. ASSUME NEW c \in Callers, DeriveFails(c) PROVE TypeOK'
    BY <1>0, <1>6, Zenon DEF DeriveFails, Goto, Exit, TypeOK, StoreTypeOK, history, Steps
<1>7. ASSUME NEW c \in Callers, Write(c) PROVE TypeOK'
  <2>1. CASE dao = "memory" /\ Written(c)
    BY <1>0, <1>7, <2>1
    DEF Write, Written, Put, Goto, Exit, TypeOK, StoreTypeOK, Requests, PhaseInv, PhaseOf, Steps,
        KeyInfo, Texts
  <2>2. CASE dao = "level"
    <3>1. /\ UNCHANGED <<store, cache, req, key, tx, calls, had, raced, vouched, overtaken, misled>>
          /\ \/ Exit(c, "err")
             \/ Goto(c, "set") /\ UNCHANGED ret
      BY <1>7, <2>2, Zenon DEF Write
    <3>2. unseen' \subseteq Names
      <4>1. unseen' \in {unseen, unseen \cup {req[c].name}}
        BY <1>7, <2>2, Zenon DEF Write
      <4>2. unseen \subseteq Names /\ req[c].name \in Names
        BY CallTypes, Zenon DEF TypeOK
      <4> QED
        BY <4>1, <4>2
    <3>3. pc' \in [Callers -> Steps] /\ ret' \in [Callers -> {"none", "ok", "err", "panic"}]
      BY <3>1, CallTypes, Zenon DEF Goto, Exit, Steps
    <3> QED
      BY <1>0, <3>1, <3>2, <3>3, Zenon DEF TypeOK, StoreTypeOK
  <2> QED
    BY <1>7, <2>1, <2>2, Zenon DEF Write
<1>8. ASSUME NEW c \in Callers, SetSync(c) PROVE TypeOK'
    BY <1>0, <1>8
    DEF SetSync, Written, Put, Goto, Exit, TypeOK, StoreTypeOK, Requests, PhaseInv, PhaseOf, Steps,
        KeyInfo, Texts, Encrypt
<1>9. ASSUME NEW c \in Callers, DatabaseFails(c) PROVE TypeOK'
    BY <1>0, <1>9, Zenon DEF DatabaseFails, Goto, Exit, TypeOK, StoreTypeOK, history, Steps
<1>10. ASSUME NEW c \in Callers, Read(c) PROVE TypeOK'
  <2>1. ret' \in [Callers -> {"none", "ok", "err", "panic"}]
    BY <1>10, Zenon DEF Read, Exit, TypeOK
  <2> QED
    BY <1>0, <1>10, Zenon DEF Read, Goto, Exit, TypeOK, StoreTypeOK, history, Steps
<1>11. ASSUME NEW c \in Callers, Delete(c) PROVE TypeOK'
    BY <1>0, <1>11, Zenon DEF Delete, Drop, Goto, Exit, TypeOK, StoreTypeOK, Requests, Steps
<1>12. ASSUME NEW c \in Callers, LookUpAddress(c) PROVE TypeOK'
  <2>1. cache[req[c].name] \in Entries
    BY Zenon DEF TypeOK, Requests
  <2>2. tx' \in [Callers -> Txs]
    BY <1>12, <2>1, EntryKinds DEF LookUpAddress, TypeOK, Txs
  <2> QED
    BY <1>0, <1>12, <2>2, Zenon
    DEF LookUpAddress, Goto, Exit, TypeOK, StoreTypeOK, history, Steps
<1>13. ASSUME NEW c \in Callers, FindAddress(c) PROVE TypeOK'
  <2> DEFINE k == FindKey(req[c].name, req[c].pw)
  <2>1. req[c].name \in Names
    BY Zenon DEF TypeOK, Requests
  <2>2. k \in Keys \cup {Absent}
    BY <2>1, KeyRead, Zenon
  <2> HIDE DEF k
  <2>3. tx' \in [Callers -> Txs]
    BY <1>13, <2>2 DEF FindAddress, TypeOK, Txs, k
  <2> QED
    BY <1>0, <1>13, <2>3, Zenon DEF FindAddress, Goto, Exit, TypeOK, StoreTypeOK, history, Steps
<1>14. ASSUME NEW c \in Callers, FillAddress(c) PROVE TypeOK'
    BY <1>0, <1>14, EntriesOf, Zenon
    DEF FillAddress, Goto, TypeOK, StoreTypeOK, Requests, history, TxInv, TxOf, Steps
<1>15. ASSUME NEW c \in Callers, Account(c) PROVE TypeOK'
  <2>1. cache' \in [Names \cup Keys -> Entries]
    BY <1>15, EntriesOf, Zenon DEF Account, TypeOK
  <2> QED
    BY <1>0, <1>15, <2>1, Zenon DEF Account, Goto, Exit, TypeOK, StoreTypeOK, history, Steps
<1>16. ASSUME NEW c \in Callers, PubKey(c) PROVE TypeOK'
  <2> DEFINE k == FindKey(req[c].name, req[c].pw)
  <2>1. req[c].name \in Names
    BY Zenon DEF TypeOK, Requests
  <2>2. k \in Keys \cup {Absent}
    BY <2>1, KeyRead, Zenon
  <2> HIDE DEF k
  <2>3. tx' \in [Callers -> Txs]
    BY <1>16, <2>2 DEF PubKey, TypeOK, Txs, k
  <2> QED
    BY <1>0, <1>16, <2>3, Zenon DEF PubKey, Goto, Exit, TypeOK, StoreTypeOK, history, Steps
<1>17. ASSUME NEW c \in Callers, Sign(c) PROVE TypeOK'
  <2> DEFINE k == ReadPrivKey(req[c].name, req[c].pw)
  <2>1. k \in Keys \cup {Absent}
    BY KeyRead, Zenon DEF TypeOK, Requests
  <2> HIDE DEF k
  <2>2. tx' \in [Callers -> Txs]
    BY <1>17, <2>1 DEF Sign, TypeOK, Txs, k
  <2> QED
    BY <1>0, <1>17, <2>2, Zenon DEF Sign, Goto, Exit, TypeOK, StoreTypeOK, history, Steps
<1>18. ASSUME NEW x \in DOMAIN cache, EntryDropped(x) PROVE TypeOK'
    BY <1>0, <1>18, EntriesOf, Zenon DEF EntryDropped, TypeOK, StoreTypeOK, history
<1>19. CASE Restart
    BY <1>0, <1>19, EntriesOf, Zenon DEF Restart, TypeOK, StoreTypeOK, Steps
<1>20. CASE UNCHANGED vars
    BY <1>20, ZenonT(30) DEF vars, TypeOK, StoreTypeOK, history
<1> QED
    BY <1>1, <1>2, <1>3, <1>4, <1>5, <1>6, <1>7, <1>8, <1>9, <1>10,
       <1>11, <1>12, <1>13, <1>14, <1>15, <1>16, <1>17, <1>18, <1>19, <1>20
    DEF Next, Progress, Step, Begin

\* A step of one call changes neither the requests of the others nor where they are, how
\* they ended, what they derived and what they build.
LEMMA OthersStay ==
    ASSUME TypeOK, NEW c \in Callers, Step(c) \/ Begin(c)
    PROVE  /\ Step(c) => UNCHANGED req
           /\ \A d \in Callers \ {c} : /\ req'[d] = req[d] /\ pc'[d] = pc[d]
                                       /\ ret'[d] = ret[d] /\ tx'[d] = tx[d]
                                       /\ key'[d] = key[d]
<1> USE DEF Step, CheckHas, Insert, Recover, Import, Derived, DeriveFails, Write, SetSync,
            Written, DatabaseFails, Read, Delete, LookUpAddress, FindAddress, FillAddress, Account,
            PubKey, Sign, Begin, BeginWith, Goto, Exit
<1>1. /\ UNCHANGED req \/ \E r : req' = [req EXCEPT ![c] = r]
      /\ Step(c) => UNCHANGED req
    BY Zenon
<1>2. UNCHANGED pc \/ \E l : pc' = [pc EXCEPT ![c] = l]
    BY Zenon
<1>3. UNCHANGED ret \/ \E r : ret' = [ret EXCEPT ![c] = r]
    BY Zenon
<1>4. UNCHANGED tx \/ \E t : tx' = [tx EXCEPT ![c] = t]
    BY Zenon
<1>5. UNCHANGED key \/ \E k : key' = [key EXCEPT ![c] = k]
    BY Zenon
<1> HIDE DEF Step, Begin
<1> QED
    BY <1>1, <1>2, <1>3, <1>4, <1>5, CallTypes, Zenon

\* Which steps of a call change the key store, the cache and the keys of names.
LEMMA WhoWrites ==
    ASSUME NEW c \in Callers, Step(c) \/ Begin(c)
    PROVE  \/ UNCHANGED <<store, cache, had>>
           \/ pc[c] \in {"write", "set"} /\ Written(c)
           \/ Delete(c) \/ FillAddress(c) \/ Account(c)
    BY Zenon DEF Step, CheckHas, Insert, Recover, Import, Derived, DeriveFails, Write, SetSync,
        DatabaseFails, Read, LookUpAddress, FindAddress, PubKey, Sign, Begin, BeginWith, history

\* Keys are never taken from those that a name has had.
LEMMA HadGrows ==
    ASSUME TypeOK, [Next]_vars
    PROVE  \A n \in Names : had[n] \subseteq had'[n]
<1>1. had \in [Names -> SUBSET Keys]
    BY Zenon DEF TypeOK
<1>2. ASSUME NEW c \in Callers, Step(c) \/ Begin(c)
      PROVE  \/ UNCHANGED had
             \/ had' = [had EXCEPT ![req[c].name] = @ \cup {key[c]}]
    BY <1>2, WhoWrites, Zenon DEF Written, Delete, FillAddress, Account, history
<1>3. UNCHANGED had \/ \E c \in Callers : had' = [had EXCEPT ![req[c].name] = @ \cup {key[c]}]
    BY <1>2, Zenon DEF Next, Progress, EntryDropped, Restart, vars, history
<1> QED
    BY <1>1, <1>3, CallTypes, Zenon

\* Which steps of which calls change the key store, and how.
LEMMA StoreStep == [Next]_vars =>
    /\ UNCHANGED dao
    /\ \/ UNCHANGED store
       \/ \E c \in Callers : Put(req[c].name, req[c].pw, key[c])
       \/ \E c \in Callers : Drop(req[c].name)
       \/ store' = [n \in Names |-> Absent]
<1>1. ASSUME NEW c \in Callers, Step(c) \/ Begin(c)
      PROVE  \/ UNCHANGED store
             \/ Put(req[c].name, req[c].pw, key[c])
             \/ Drop(req[c].name)
    BY <1>1, WhoWrites, Zenon DEF Written, Delete, FillAddress, Account
<1> QED
    BY <1>1, Zenon DEF Next, Progress, EntryDropped, Restart, vars

\* Every write of either store leaves the private key as that store writes it.
LEMMA TextStep == TypeOK /\ TextInv /\ [Next]_vars => TextInv'
<1> SUFFICES ASSUME TypeOK, TextInv, [Next]_vars, NEW n \in Names, Stored(n)'
             PROVE  (store[n].text = IF dao = "level" THEN Encrypt ELSE "plain")'
    BY Zenon DEF TextInv
<1>1. UNCHANGED dao
    BY StoreStep, Zenon
<1>2. CASE UNCHANGED store
    BY <1>1, <1>2, Zenon DEF TextInv, Stored, Encrypt
<1>3. ASSUME NEW c \in Callers, Put(req[c].name, req[c].pw, key[c])
      PROVE  (store[n].text = IF dao = "level" THEN Encrypt ELSE "plain")'
    BY <1>1, <1>3, Zenon DEF Put, TextInv, Stored, Encrypt, TypeOK, StoreTypeOK
<1>4. ASSUME NEW c \in Callers, Drop(req[c].name)
      PROVE  (store[n].text = IF dao = "level" THEN Encrypt ELSE "plain")'
    BY <1>1, <1>4, Zenon DEF Drop, TextInv, Stored, Encrypt, TypeOK, StoreTypeOK
<1>5. CASE store' = [m \in Names |-> Absent]
    BY <1>5, Zenon DEF Stored
<1> QED
    BY <1>2, <1>3, <1>4, <1>5, StoreStep, Zenon

\* Every step of a call keeps the phases.
LEMMA PhaseStep == TypeOK /\ PhaseInv /\ [Next]_vars => PhaseInv'
<1> SUFFICES ASSUME TypeOK, PhaseInv, [Next]_vars, NEW d \in Callers PROVE PhaseOf(d)'
    BY Zenon DEF PhaseInv
<1>1. PhaseOf(d)
    BY Zenon DEF PhaseInv
<1>2. ASSUME NEW c \in Callers, Step(c) \/ Begin(c), c # d PROVE PhaseOf(d)'
    BY <1>1, <1>2, OthersStay, Zenon DEF PhaseOf
<1>3. ASSUME NEW r \in Requests, BeginWith(d, r) PROVE PhaseOf(d)'
  <2>1. r.op \in AllOps
    BY ManagerAssumption, Zenon DEF Requests
  <2> QED
    BY <1>3, <2>1, CallTypes, Zenon DEF BeginWith, Goto, PhaseOf, First, Insertions, AllOps
<1>4. ASSUME Step(d) PROVE PhaseOf(d)'
    BY <1>1, <1>4, CallTypes, Zenon
    DEF PhaseOf, Step, CheckHas, Insert, Recover, Import, Derived, DeriveFails, Write, SetSync,
        Written, DatabaseFails, Read, Delete, LookUpAddress, FindAddress, FillAddress, Account,
        PubKey, Sign, Goto, Exit
<1>5. ASSUME NEW x \in DOMAIN cache, EntryDropped(x) PROVE PhaseOf(d)'
    BY <1>1, <1>5, Zenon DEF EntryDropped, PhaseOf
<1>6. CASE Restart
    BY <1>6, Zenon DEF Restart, PhaseOf
<1>7. CASE UNCHANGED vars
    BY <1>1, <1>7, Zenon DEF vars, PhaseOf
<1> QED
    BY <1>2, <1>3, <1>4, <1>5, <1>6, <1>7, Zenon DEF Next, Progress, Begin

\* A step that writes no key, begins no insertion and makes a caller sure only of an
\* absent name keeps InsertInv.
LEMMA InsertQuiet ==
    ASSUME InsertInv, UNCHANGED <<dao, store, req, raced, vouched>>, unseen \subseteq unseen',
           dao = "memory" => misled' = {},
           \A c \in Callers :
               /\ pc'[c] \in {"has", "derive", "write", "set"} =>
                      pc[c] \in {"has", "derive", "write", "set"}
               /\ Sure(c)' => Sure(c) \/ ~ Stored(req[c].name)
    PROVE  InsertInv'
<1>1. \A c, d \in Callers : c # d /\ Inserting(c, req[d].name)' /\ Inserting(d, req[d].name)'
           => req[d].name \in raced
    BY Zenon DEF InsertInv, Inserting
<1>2. \A c \in Callers : Sure(c)' /\ req[c].name \notin raced => ~ Stored(req[c].name)'
    BY Zenon DEF InsertInv, Stored
<1>3. KeyKept'
    BY Zenon DEF InsertInv, Stored, KeyKept
<1> QED
    BY <1>1, <1>2, <1>3, Zenon DEF InsertInv

\* Insert, Recover and Import write a name that was absent, or that is raced or unseen.
LEMMA InsertWritten ==
    ASSUME TypeOK, PhaseInv, InsertInv, UNCHANGED dao,
           NEW c \in Callers, Written(c), pc[c] = "set" \/ (pc[c] = "write" /\ dao = "memory")
    PROVE  InsertInv'
<1> DEFINE n == req[c].name
<1>1. n \in Names /\ key[c] \in Keys /\ key[c] # Absent
    BY AbsentAssumption, CallTypes, Zenon DEF PhaseInv, PhaseOf
<1>2. \A d \in Callers : pc'[d] = IF d = c THEN "idle" ELSE pc[d]
    BY Zenon DEF Written, Exit, Goto, TypeOK
<1>3. \A m \in Names : m # n => store'[m] = store[m] /\ vouched'[m] = vouched[m]
    BY Zenon DEF Written, Put, TypeOK, StoreTypeOK
<1>4. store'[n].pub = key[c] /\ vouched'[n] = IF vouched[n] = Absent THEN key[c] ELSE vouched[n]
    BY <1>1, Zenon DEF Written, Put, TypeOK, StoreTypeOK
<1>5. n \notin raced \cup unseen => ~ Stored(n) /\ vouched[n] = Absent
    BY <1>1, Zenon DEF InsertInv, KeyKept, Sure
<1>6. UNCHANGED <<req, raced, misled, unseen>>
    BY Zenon DEF Written
<1>7. \A d, e \in Callers : d # e /\ Inserting(d, req[e].name)' /\ Inserting(e, req[e].name)'
           => req[e].name \in raced
    BY <1>2, <1>6, Zenon DEF InsertInv, Inserting
<1>8. ASSUME NEW d \in Callers, Sure(d)', req[d].name \notin raced
      PROVE  ~ Stored(req[d].name)'
  <2>1. d # c /\ Sure(d)
    BY <1>2, <1>6, <1>8, Zenon DEF Sure
  <2>2. req[d].name # n
    BY <1>8, <2>1, Zenon DEF InsertInv, Inserting, Sure
  <2>3. req[d].name \in Names
    BY Zenon DEF TypeOK, Requests
  <2> QED
    BY <1>3, <1>6, <1>8, <2>1, <2>2, <2>3, Zenon DEF InsertInv, Stored
<1>9. KeyKept'
  <2> SUFFICES ASSUME NEW m \in Names \ (raced \cup unseen)
               PROVE  IF Stored(m)' THEN store'[m].pub = vouched'[m] ELSE vouched'[m] = Absent
    BY <1>6, Zenon DEF KeyKept, Stored
  <2>1. CASE m = n
    <3>1. store'[n] \in KeyInfo
      BY <1>1, Zenon DEF Written, Put, TypeOK, StoreTypeOK, Requests, KeyInfo, Texts, Encrypt
    <3> QED
      BY <1>1, <1>4, <1>5, <2>1, <3>1, AbsentAssumption, Zenon DEF Stored
  <2>2. CASE m # n
    BY <1>3, <2>2, Zenon DEF InsertInv, KeyKept, Stored
  <2> QED
    BY <2>1, <2>2, Zenon
<1> QED
    BY <1>6, <1>7, <1>8, <1>9, Zenon DEF InsertInv

\* A call that begins keeps InsertInv: an insertion that meets another one of its name
\* marks the name raced.
LEMMA InsertBegins ==
    ASSUME TypeOK, InsertInv, UNCHANGED dao, NEW c \in Callers, NEW r \in Requests,
           BeginWith(c, r)
    PROVE  InsertInv'
<1>1. /\ req'[c] = r /\ pc'[c] = First(r.op)
      /\ \A d \in Callers \ {c} : req'[d] = req[d] /\ pc'[d] = pc[d]
    BY CallTypes, OthersStay, Zenon DEF BeginWith, Begin, Goto
<1>2. /\ UNCHANGED <<store, vouched, unseen>> /\ raced \subseteq raced' /\ misled' = misled \ {c}
      /\ r.op \in Insertions /\ (\E d \in Callers : Inserting(d, r.name)) => r.name \in raced'
    BY Zenon DEF BeginWith
<1>3. /\ First(r.op) \notin {"derive", "write", "set"}
      /\ First(r.op) = "has" => r.op \in Insertions
    BY Zenon DEF First
<1>4. ASSUME NEW d \in Callers, NEW e \in Callers, d # e,
             Inserting(d, req[e].name)', Inserting(e, req[e].name)'
      PROVE  req'[e].name \in raced'
  <2>1. CASE d # c /\ e # c
    BY <1>1, <1>2, <1>4, <2>1, Zenon DEF InsertInv, Inserting
  <2>2. CASE d = c
    BY <1>1, <1>2, <1>3, <1>4, <2>2, Zenon DEF Inserting
  <2>3. CASE e = c
    BY <1>1, <1>2, <1>3, <1>4, <2>3, Zenon DEF Inserting
  <2> QED
    BY <2>1, <2>2, <2>3, Zenon
<1>5. ASSUME NEW d \in Callers, Sure(d)', req'[d].name \notin raced'
      PROVE  ~ Stored(req[d].name)'
  <2>1. d # c /\ Sure(d)
    BY <1>1, <1>2, <1>3, <1>5, Zenon DEF Sure
  <2> QED
    BY <1>1, <1>2, <1>5, <2>1, Zenon DEF InsertInv, Stored
<1>6. KeyKept'
    BY <1>2, Zenon DEF InsertInv, KeyKept, Stored
<1>7. dao = "memory" => misled' = {}
    BY <1>2, Zenon DEF InsertInv
<1> QED
    BY <1>4, <1>5, <1>6, <1>7, Zenon DEF InsertInv

\* Delete keeps InsertInv: it takes a key away and what was vouched for it.
LEMMA InsertDeleted ==
    ASSUME TypeOK, InsertInv, UNCHANGED dao, NEW c \in Callers, Delete(c)
    PROVE  InsertInv'
<1> DEFINE n == req[c].name
<1>1. /\ UNCHANGED <<req, raced, misled, unseen>> /\ pc'[c] = "idle"
      /\ \A d \in Callers \ {c} : pc'[d] = pc[d]
    BY CallTypes, Zenon DEF Delete, Exit, Goto
<1>2. /\ store'[n] = Absent /\ vouched'[n] = Absent
      /\ \A m \in Names \ {n} : store'[m] = store[m] /\ vouched'[m] = vouched[m]
    BY CallTypes, Zenon DEF Delete, Drop, TypeOK, StoreTypeOK
<1>3. KeyKept'
  <2> SUFFICES ASSUME NEW m \in Names \ (raced \cup unseen)
               PROVE  IF Stored(m)' THEN store'[m].pub = vouched'[m] ELSE vouched'[m] = Absent
    BY <1>1, Zenon DEF KeyKept, Stored
  <2>1. CASE m = n
    BY <1>2, <2>1, Zenon DEF Stored
  <2>2. CASE m # n
    BY <1>2, <2>2, Zenon DEF InsertInv, KeyKept, Stored
  <2> QED
    BY <2>1, <2>2, Zenon
<1>4. \A d \in Callers : Sure(d)' => Sure(d)
    BY <1>1, Zenon DEF Sure
<1>5. \A m \in Names : ~ Stored(m) => ~ Stored(m)'
    BY <1>2, Zenon DEF Stored
<1>6. ASSUME NEW d \in Callers, Sure(d)', req[d].name \notin raced
      PROVE  ~ Stored(req[d].name)'
  <2>1. req[d].name \in Names /\ ~ Stored(req[d].name)
    BY <1>4, <1>6, CallTypes, Zenon DEF InsertInv
  <2> QED
    BY <1>1, <1>5, <2>1, Zenon DEF Stored
<1> QED
    BY <1>1, <1>3, <1>6, Zenon DEF InsertInv, Inserting

\* Every step of a call keeps InsertInv: only an insertion that begins during another one
\* of the name, which marks it raced, or one that Has misled twice, can overwrite a key.
LEMMA InsertStep == TypeOK /\ PhaseInv /\ InsertInv /\ [Next]_vars => InsertInv'
<1> SUFFICES ASSUME TypeOK, PhaseInv, InsertInv, [Next]_vars PROVE InsertInv'
    OBVIOUS
<1>0. UNCHANGED dao
    BY StoreStep, Zenon
<1>1. ASSUME NEW c \in Callers, NEW r \in Requests, BeginWith(c, r) PROVE InsertInv'
    BY <1>0, <1>1, InsertBegins, Zenon
<1>2. ASSUME NEW c \in Callers, Step(c) PROVE InsertInv'
  <2> DEFINE Puts == Written(c) /\ (pc[c] = "set" \/ (pc[c] = "write" /\ dao = "memory"))
  <2>1. CASE Puts
    BY <1>0, <2>1, InsertWritten, Zenon
  <2>2. CASE Delete(c)
    BY <1>0, <2>2, InsertDeleted, Zenon
  <2>3. CASE ~ Puts /\ ~ Delete(c)
    <3>1. UNCHANGED <<store, raced, vouched>>
      BY <1>2, <2>3, Zenon
      DEF Step, CheckHas, Insert, Recover, Import, Derived, DeriveFails, Write, SetSync,
          DatabaseFails, Read, LookUpAddress, FindAddress, FillAddress, Account, PubKey, Sign, history
    <3>2. CASE CheckHas(c)
      <4>1. PICK found \in Has(req[c].name) :
                /\ IF found THEN Exit(c, "err") ELSE Goto(c, "derive") /\ UNCHANGED ret
                /\ misled' = IF found = Stored(req[c].name) THEN misled ELSE misled \cup {c}
        BY <3>2, Zenon DEF CheckHas
      <4>2. UNCHANGED unseen /\ pc[c] = "has"
        BY <3>2, Zenon DEF CheckHas
      <4>3. dao = "memory" => misled' = {}
        BY <4>1, Zenon DEF InsertInv, Has
      <4>4. pc'[c] = "idle" \/ (pc'[c] = "derive" /\ ~ found)
        BY <4>1, CallTypes, Zenon DEF Exit, Goto
      <4>5. Sure(c)' => ~ Stored(req[c].name)
        BY <4>1, <4>4, Zenon DEF Sure
      <4>6. \A d \in Callers \ {c} : Sure(d)' => Sure(d)
        BY <1>2, <4>1, <4>2, OthersStay, Zenon DEF Sure
      <4> QED
        BY <1>0, <1>2, <3>1, <4>2, <4>3, <4>4, <4>5, <4>6, OthersStay, InsertQuiet, Zenon
    <3>3. CASE Write(c) /\ ~ Puts
      <4>1. PICK found \in Has(req[c].name) :
                /\ IF found THEN Exit(c, "err") ELSE Goto(c, "set") /\ UNCHANGED ret
                /\ unseen' = IF found # Stored(req[c].name) /\ c \in misled
                             THEN unseen \cup {req[c].name} ELSE unseen
        BY <3>3, Zenon DEF Write
      <4>2. UNCHANGED misled /\ pc[c] = "write"
        BY <3>3, Zenon DEF Write
      <4>3. pc'[c] = "idle" \/ (pc'[c] = "set" /\ ~ found)
        BY <4>1, CallTypes, Zenon DEF Exit, Goto
      <4>4. Sure(c)' => Sure(c) \/ ~ Stored(req[c].name)
        BY <1>2, <4>1, <4>2, <4>3, OthersStay, Zenon DEF Sure
      <4>5. \A d \in Callers \ {c} : Sure(d)' => Sure(d)
        BY <1>2, <4>1, <4>2, OthersStay, Zenon DEF Sure
      <4>6. unseen \subseteq unseen' /\ (dao = "memory" => misled' = {})
        BY <4>1, <4>2, Zenon DEF InsertInv
      <4> QED
        BY <1>0, <1>2, <3>1, <4>2, <4>3, <4>4, <4>5, <4>6, OthersStay, InsertQuiet, Zenon
    <3>4. CASE ~ CheckHas(c) /\ ~ Write(c)
      <4>1. UNCHANGED <<misled, unseen>>
        BY <1>2, <2>3, <3>4, Zenon
        DEF Step, CheckHas, Insert, Recover, Import, Derived, DeriveFails, Write, SetSync,
            DatabaseFails, Read, LookUpAddress, FindAddress, FillAddress, Account, PubKey, Sign, history
      <4>2. \/ pc'[c] \notin {"has", "derive", "write", "set"}
            \/ pc'[c] = "write" /\ pc[c] = "derive"
        BY <1>2, <2>3, <3>4, CallTypes, Zenon
        DEF Step, CheckHas, Insert, Recover, Import, Derived, DeriveFails, Write, SetSync,
            DatabaseFails, Read, LookUpAddress, FindAddress, FillAddress, Account, PubKey, Sign, Goto, Exit
      <4>3. \A d \in Callers : Sure(d)' => Sure(d)
        BY <1>2, <4>1, <4>2, OthersStay, Zenon DEF Sure
      <4> QED
        BY <1>0, <1>2, <3>1, <4>1, <4>2, <4>3, OthersStay, InsertQuiet, Zenon DEF InsertInv
    <3> QED
      BY <2>3, <3>2, <3>3, <3>4, Zenon
  <2> QED
    BY <2>1, <2>2, <2>3, Zenon
<1>3. ASSUME NEW x \in DOMAIN cache, EntryDropped(x) PROVE InsertInv'
    BY <1>0, <1>3, InsertQuiet, Zenon DEF EntryDropped, history, InsertInv, Sure
<1>4. CASE Restart
  <2>1. \A c \in Callers : ~ Sure(c)'
    BY <1>4, Zenon DEF Restart, Sure
  <2> QED
    BY <1>0, <1>4, <2>1, Zenon DEF Restart, InsertInv, KeyKept, Stored, Inserting
<1>5. CASE UNCHANGED vars
    BY <1>0, <1>5, InsertQuiet, Zenon DEF vars, history, InsertInv, Sure
<1> QED
    BY <1>1, <1>2, <1>3, <1>4, <1>5, Zenon DEF Next, Progress, Begin

\* Every step of a call keeps CacheInv: an address that is cached was in the store.
LEMMA CacheStep == TypeOK /\ PhaseInv /\ TxInv /\ CacheInv /\ [Next]_vars => CacheInv'
<1> SUFFICES ASSUME TypeOK, PhaseInv, TxInv, CacheInv, [Next]_vars PROVE CacheInv'
    OBVIOUS
<1>1. /\ cache \in [Names \cup Keys -> Entries] /\ had \in [Names -> SUBSET Keys]
      /\ store \in [Names -> KeyInfo \cup {Absent}]
    BY Zenon DEF TypeOK, StoreTypeOK
<1>2. CASE UNCHANGED <<store, cache, had>>
    BY <1>2, Zenon DEF CacheInv, Stored
<1>3. ASSUME NEW c \in Callers, Written(c) PROVE CacheInv'
  <2> DEFINE n == req[c].name
  <2>1. n \in Names /\ UNCHANGED cache
    BY <1>3, CallTypes, Zenon DEF Written
  <2>2. store'[n].pub = key[c] /\ \A m \in Names \ {n} : store'[m] = store[m]
    BY <1>1, <1>3, <2>1, Zenon DEF Written, Put
  <2>3. had'[n] = had[n] \cup {key[c]} /\ \A m \in Names \ {n} : had'[m] = had[m]
    BY <1>1, <1>3, <2>1, Zenon DEF Written
  <2> QED
    BY <2>1, <2>2, <2>3, Zenon DEF CacheInv, Stored
<1>4. ASSUME NEW c \in Callers, Delete(c) PROVE CacheInv'
  <2>1. /\ UNCHANGED <<cache, had>> /\ store'[req[c].name] = Absent
        /\ \A m \in Names \ {req[c].name} : store'[m] = store[m]
    BY <1>1, <1>4, CallTypes, Zenon DEF Delete, Drop
  <2> QED
    BY <2>1, Zenon DEF CacheInv, Stored
<1>5. ASSUME NEW c \in Callers, FillAddress(c) PROVE CacheInv'
  <2> DEFINE n == req[c].name
  <2>1. n \in Names /\ tx[c].acct \in had[n] /\ tx[c].acct \in Keys
    BY <1>1, <1>5, CallTypes, Zenon DEF FillAddress, TxInv, TxOf
  <2>2. /\ UNCHANGED <<store, had>> /\ cache'[n] = AddrEntry(tx[c].acct)
        /\ \A x \in (Names \cup Keys) \ {n} : cache'[x] = cache[x]
    BY <1>1, <1>5, <2>1, Zenon DEF FillAddress, history
  <2>3. cache'[n].kind = "address" /\ cache'[n].addr = tx[c].acct
    BY <2>1, <2>2, EntryFields, Zenon
  <2> QED
    BY <2>1, <2>2, <2>3, Zenon DEF CacheInv, Stored
<1>6. ASSUME NEW c \in Callers, Account(c), ~ UNCHANGED cache PROVE CacheInv'
  <2> DEFINE a == tx[c].acct
  <2>1. a \in Keys
    BY <1>1, <1>6, CallTypes, Zenon DEF Account, TxInv, TxOf
  <2>2. /\ UNCHANGED <<store, had>> /\ cache'[a] = InfoEntry
        /\ \A x \in (Names \cup Keys) \ {a} : cache'[x] = cache[x]
    BY <1>1, <1>6, <2>1, Zenon DEF Account, history
  <2> QED
    BY <2>1, <2>2, EntryFields, Zenon DEF CacheInv, Stored
<1>7. ASSUME NEW x \in DOMAIN cache, EntryDropped(x) PROVE CacheInv'
  <2>1. /\ UNCHANGED <<store, had>> /\ cache'[x] = NoEntry
        /\ \A y \in (Names \cup Keys) \ {x} : cache'[y] = cache[y]
    BY <1>1, <1>7, Zenon DEF EntryDropped, history
  <2> QED
    BY <2>1, EntryFields, Zenon DEF CacheInv, Stored
<1>8. CASE Restart
    BY <1>1, <1>8, EntryFields, Zenon DEF Restart, CacheInv, Stored
<1>9. ASSUME NEW c \in Callers, Step(c) \/ Begin(c) PROVE CacheInv'
    BY <1>2, <1>3, <1>4, <1>5, <1>6, <1>9, WhoWrites, Zenon DEF Account, history
<1> QED
    BY <1>2, <1>7, <1>8, <1>9, Zenon DEF Next, Progress, vars, history

\* Every step of a call keeps TxInv: factory, account, public key and signature are
\* each of a key that the name has had when they were read.
LEMMA TxStep == TypeOK /\ PhaseInv /\ CacheInv /\ TxInv /\ [Next]_vars => TxInv'
<1> SUFFICES ASSUME TypeOK, PhaseInv, CacheInv, TxInv, [Next]_vars, NEW d \in Callers
             PROVE  TxOf(d)'
    BY Zenon DEF TxInv
<1> DEFINE n == req[d].name
           find == FindKey(n, req[d].pw)
           sign == ReadPrivKey(n, req[d].pw)
<1>1. TxOf(d) /\ PhaseOf(d) /\ n \in Names
    BY CallTypes, Zenon DEF TxInv, PhaseInv
<1>2. had[n] \subseteq had'[n]
    BY <1>1, HadGrows, Zenon
<1>3. /\ find # Absent => find \in had[n]
      /\ sign # Absent => sign \in had[n]
    BY <1>1, KeyRead, Zenon DEF CacheInv
<1>4. ASSUME NEW c \in Callers, Step(c) \/ Begin(c), c # d PROVE TxOf(d)'
  <2>1. req'[d] = req[d] /\ pc'[d] = pc[d] /\ ret'[d] = ret[d] /\ tx'[d] = tx[d]
    BY <1>4, OthersStay, Zenon
  <2> QED
    BY <1>1, <1>2, <2>1 DEF TxOf
<1>5. ASSUME NEW r \in Requests, BeginWith(d, r) PROVE TxOf(d)'
    BY <1>5, CallTypes, Zenon DEF BeginWith, Goto, TxOf, First
<1>6. ASSUME Step(d) PROVE TxOf(d)'
  <2> HIDE DEF n, find, sign
  <2>0. UNCHANGED req
    BY <1>6, OthersStay, Zenon
  <2>1. CASE /\ pc'[d] \notin {"fill", "account", "pubkey", "sign"}
             /\ (req[d].op # "send" \/ ret'[d] # "ok")
    BY <2>0, <2>1, Zenon DEF TxOf
  <2>2. CASE LookUpAddress(d) /\ pc'[d] = "account"
    <3>0. ~ Exit(d, "panic") /\ ~ Goto(d, "find")
      BY <2>2, CallTypes, Zenon DEF Goto, Exit
    <3>1. /\ cache[n].kind = "address" /\ pc[d] = "address" /\ UNCHANGED ret
          /\ tx' = [tx EXCEPT ![d] = [acct |-> cache[n].addr, pub |-> Absent, sig |-> Absent]]
      BY <2>2, <3>0, Zenon DEF LookUpAddress, n
    <3>2. tx'[d].acct \in had[n] /\ ret'[d] = "none"
      BY <1>1, <3>1, CallTypes, Zenon DEF CacheInv, PhaseOf
    <3> QED
      BY <1>2, <2>0, <2>2, <3>2 DEF TxOf, n
  <2>3. CASE FindAddress(d) /\ find # Absent
    <3>1. /\ tx' = [tx EXCEPT ![d] = [acct |-> find, pub |-> Absent, sig |-> Absent]]
          /\ Goto(d, "fill") /\ UNCHANGED ret /\ pc[d] = "find"
      BY <2>3, Zenon DEF FindAddress, n, find
    <3>2. tx'[d].acct = find /\ pc'[d] = "fill" /\ ret'[d] = "none"
      BY <1>1, <3>1, CallTypes, Zenon DEF Goto, PhaseOf
    <3> QED
      BY <1>2, <1>3, <2>0, <2>3, <3>2 DEF TxOf, n
  <2>4. CASE FillAddress(d) \/ (Account(d) /\ pc'[d] = "pubkey")
    <3>1. /\ tx'[d] = tx[d] /\ ret'[d] = "none" /\ pc[d] \in {"fill", "account"}
          /\ pc'[d] \in {"account", "pubkey"}
      BY <1>1, <2>4, CallTypes, Zenon DEF FillAddress, Account, Goto, Exit, PhaseOf
    <3> QED
      BY <1>1, <1>2, <2>0, <3>1 DEF TxOf, n
  <2>5. CASE PubKey(d) /\ find # Absent
    <3>1. /\ tx' = [tx EXCEPT ![d] = [acct |-> tx[d].acct, pub |-> find, sig |-> Absent]]
          /\ Goto(d, "sign") /\ UNCHANGED ret /\ pc[d] = "pubkey"
      BY <2>5, Zenon DEF PubKey, n, find
    <3>2. /\ tx'[d].acct = tx[d].acct /\ tx'[d].pub = find /\ pc'[d] = "sign"
          /\ ret'[d] = "none"
      BY <1>1, <3>1, CallTypes, Zenon DEF Goto, PhaseOf
    <3> QED
      BY <1>1, <1>2, <1>3, <2>0, <2>5, <3>1, <3>2 DEF TxOf, n
  <2>6. CASE Sign(d)
    <3>1. /\ tx'[d].acct = tx[d].acct /\ tx'[d].pub = tx[d].pub /\ tx'[d].sig = sign
          /\ pc'[d] = "idle" /\ pc[d] = "sign" /\ (ret'[d] = "ok" => sign # Absent)
      BY <2>6, CallTypes, Zenon DEF Sign, Goto, Exit, n, sign
    <3> QED
      BY <1>1, <1>2, <1>3, <2>0, <3>1 DEF TxOf, n
  <2>7. CASE \/ CheckHas(d) \/ Insert(d) \/ Recover(d) \/ Import(d) \/ DeriveFails(d)
             \/ Write(d) \/ SetSync(d) \/ Read(d) \/ Delete(d)
    <3>1. req[d].op # "send"
      BY <1>1, <2>7, Zenon
      DEF CheckHas, Insert, Recover, Import, Derived, DeriveFails, Write, SetSync,
          Read, Delete, PhaseOf, Insertions
    <3>2. pc'[d] \notin {"fill", "account", "pubkey", "sign"}
      BY <2>7, CallTypes, Zenon
      DEF CheckHas, Insert, Recover, Import, Derived, DeriveFails, Write, SetSync, Written,
          Read, Delete, Goto, Exit
    <3> QED
      BY <2>1, <3>1, <3>2, Zenon
  <2>8. CASE LookUpAddress(d) \/ Account(d)
    BY <1>1, <2>1, <2>2, <2>4, <2>8, CallTypes, Zenon
    DEF LookUpAddress, Account, Goto, Exit, PhaseOf
  <2>9. CASE (FindAddress(d) \/ PubKey(d)) /\ find = Absent
    BY <2>1, <2>9, CallTypes, Zenon DEF FindAddress, PubKey, Goto, Exit, n, find
  <2>10. CASE DatabaseFails(d)
    BY <2>1, <2>10, CallTypes, Zenon DEF DatabaseFails, Goto, Exit
  <2> QED
    BY <1>6, <2>3, <2>4, <2>5, <2>6, <2>7, <2>8, <2>9, <2>10, Zenon DEF Step
<1>7. ASSUME NEW x \in DOMAIN cache, EntryDropped(x) PROVE TxOf(d)'
    BY <1>1, <1>7, Zenon DEF EntryDropped, history, TxOf
<1>8. CASE Restart
    BY <1>8, Zenon DEF Restart, TxOf
<1>9. CASE UNCHANGED vars
    BY <1>1, <1>9, Zenon DEF vars, history, TxOf
<1> QED
    BY <1>4, <1>5, <1>6, <1>7, <1>8, <1>9, Zenon DEF Next, Progress, Begin

\* Every step of a call keeps DropInv: between the Read of a Delete and its
\* DeleteSync, only a write that makes it overtaken changes the key.
LEMMA DropStep == TypeOK /\ PhaseInv /\ DropInv /\ [Next]_vars => DropInv'
<1> SUFFICES ASSUME TypeOK, PhaseInv, DropInv, [Next]_vars, NEW d \in Callers,
                    dao = "level", Crypto = "user"
             PROVE  DropOf(d)'
    BY StoreStep, Zenon DEF DropInv, DropOf
<1> DEFINE n == req[d].name
<1>1. DropOf(d) /\ PhaseOf(d) /\ n \in Names /\ UNCHANGED dao
    BY CallTypes, StoreStep, Zenon DEF DropInv, PhaseInv
<1>2. ASSUME NEW c \in Callers, Step(c) \/ Begin(c), c # d PROVE DropOf(d)'
  <2>1. req'[d] = req[d] /\ pc'[d] = pc[d]
    BY <1>2, OthersStay, Zenon
  <2>2. CASE Written(c)
    <3>1. req[c].name = n /\ pc[d] = "drop" => d \in overtaken'
      BY <2>2, Zenon DEF Written
    <3>2. req[c].name # n => store'[n] = store[n]
      BY <1>1, <2>2, CallTypes, Zenon DEF Written, Put, TypeOK, StoreTypeOK
    <3>3. overtaken \subseteq overtaken'
      BY <2>2, Zenon DEF Written
    <3> QED
      BY <1>1, <2>1, <3>1, <3>2, <3>3, Zenon DEF DropOf, Stored
  <2>3. CASE Delete(c)
    <3>1. store'[n] \in {Absent, store[n]} /\ UNCHANGED overtaken
      BY <1>1, <2>3, CallTypes, Zenon DEF Delete, Drop, TypeOK, StoreTypeOK
    <3> QED
      BY <1>1, <2>1, <3>1, Zenon DEF DropOf, Stored
  <2>4. CASE ~ Written(c) /\ ~ Delete(c)
    <3>1. UNCHANGED store /\ (d \in overtaken => d \in overtaken')
      BY <1>2, <2>4, Zenon
      DEF Step, CheckHas, Insert, Recover, Import, Derived, DeriveFails, Write, SetSync,
          DatabaseFails, Read, LookUpAddress, FindAddress, FillAddress, Account, PubKey, Sign,
          Begin, BeginWith, history
    <3> QED
      BY <1>1, <2>1, <3>1, Zenon DEF DropOf, Stored
  <2> QED
    BY <2>2, <2>3, <2>4, Zenon
<1>3. ASSUME NEW r \in Requests, BeginWith(d, r) PROVE DropOf(d)'
    BY <1>1, <1>3, CallTypes, Zenon DEF BeginWith, Goto, DropOf, First
<1>4. ASSUME Step(d) PROVE DropOf(d)'
  <2>1. CASE pc'[d] # "drop"
    BY <2>1, Zenon DEF DropOf
  <2>2. CASE Read(d) /\ pc'[d] = "drop"
    <3>1. UNCHANGED <<req, store>> /\ ~ ReadFails(n, req[d].pw)
      BY <2>2, CallTypes, Zenon DEF Read, Goto, Exit
    <3>2. Stored(n) => req[d].pw \in {store[n].pw, NoPassword}
      BY <3>1, Zenon DEF ReadFails, ReadText, Decrypt
    <3> QED
      BY <3>1, <3>2, Zenon DEF DropOf, Stored
  <2> QED
    BY <1>4, <2>1, <2>2, CallTypes, Zenon
    DEF Step, CheckHas, Insert, Recover, Import, Derived, DeriveFails, Write, SetSync, Written,
        DatabaseFails, Delete, LookUpAddress, FindAddress, FillAddress, Account, PubKey, Sign,
        Goto, Exit
<1>5. ASSUME NEW x \in DOMAIN cache, EntryDropped(x) PROVE DropOf(d)'
    BY <1>1, <1>5, Zenon DEF EntryDropped, history, DropOf, Stored
<1>6. CASE Restart
    BY <1>6, Zenon DEF Restart, DropOf
<1>7. CASE UNCHANGED vars
    BY <1>1, <1>7, Zenon DEF vars, history, DropOf, Stored
<1> QED
    BY <1>2, <1>3, <1>4, <1>5, <1>6, <1>7, Zenon DEF Next, Progress, Begin

\* The type assertions of QueryAddress and of queryAccount meet an entry of the other
\* kind only when a name is an address.
LEMMA PanicStep ==
    TypeOK /\ PhaseInv /\ CacheInv /\ TxInv /\ PanicOnlyIfNamedLikeAddress /\ [Next]_vars
    => PanicOnlyIfNamedLikeAddress'
<1> SUFFICES ASSUME TypeOK, PhaseInv, CacheInv, TxInv, PanicOnlyIfNamedLikeAddress,
                    [Next]_vars, NEW d \in Callers, ret'[d] = "panic"
             PROVE  req'[d].name \in Keys \/ tx'[d].acct \in Names
    BY Zenon DEF PanicOnlyIfNamedLikeAddress
<1> DEFINE Named == req'[d].name \in Keys \/ tx'[d].acct \in Names
<1>1. /\ TxOf(d) /\ PhaseOf(d) /\ req[d].name \in Names
      /\ ret[d] = "panic" => req[d].name \in Keys \/ tx[d].acct \in Names
    BY CallTypes, Zenon DEF TxInv, PhaseInv, PanicOnlyIfNamedLikeAddress
<1>2. ASSUME NEW c \in Callers, Step(c) \/ Begin(c), c # d PROVE Named
    BY <1>1, <1>2, OthersStay, Zenon
<1>3. ASSUME NEW r \in Requests, BeginWith(d, r) PROVE FALSE
    BY <1>3, CallTypes, Zenon DEF BeginWith
<1>4. ASSUME Step(d) PROVE Named
  <2>0. UNCHANGED req /\ ret[d] # "panic"
    BY <1>1, <1>4, OthersStay, Zenon
    DEF PhaseOf, Step, CheckHas, Insert, Recover, Import, Derived, DeriveFails, Write, SetSync,
        DatabaseFails, Read, Delete, LookUpAddress, FindAddress, FillAddress, Account, PubKey, Sign
  <2>1. CASE LookUpAddress(d)
    <3>1. cache[req[d].name].kind = "info"
      BY <2>0, <2>1, CallTypes, Zenon DEF LookUpAddress
    <3> QED
      BY <1>1, <2>0, <3>1, Zenon DEF CacheInv
  <2>2. CASE Account(d)
    <3>1. cache[tx[d].acct].kind = "address" /\ UNCHANGED tx
      BY <2>0, <2>2, CallTypes, Zenon DEF Account, Exit
    <3>2. tx[d].acct \in Names \cup Keys
      BY <1>1, <2>2, Zenon DEF Account, TxOf, TypeOK
    <3> QED
      BY <3>1, <3>2, Zenon DEF CacheInv
  <2> QED
    BY <1>4, <2>0, <2>1, <2>2, CallTypes, Zenon
    DEF Step, CheckHas, Insert, Recover, Import, Derived, DeriveFails, Write, SetSync, Written,
        DatabaseFails, Read, Delete, FindAddress, FillAddress, PubKey, Sign, Exit
<1>5. ASSUME NEW x \in DOMAIN cache, EntryDropped(x) PROVE Named
    BY <1>1, <1>5, Zenon DEF EntryDropped
<1>6. ASSUME Restart PROVE FALSE
    BY <1>6, Zenon DEF Restart
<1>7. ASSUME UNCHANGED vars PROVE Named
    BY <1>1, <1>7, Zenon DEF vars
<1> QED
    BY <1>2, <1>3, <1>4, <1>5, <1>6, <1>7, Zenon DEF Next, Progress, Begin

-----------------------------------------------------------------------------
\* The key manager starts with an empty store, an empty cache and no call.
LEMMA KeyInitial == Init => KeyInv
<1> SUFFICES ASSUME Init PROVE KeyInv
    OBVIOUS
<1>1. TypeOK
  <2>1. StoreTypeOK
    BY Zenon DEF Init, StoreTypeOK, KeyInfo, Texts, Encrypt
  <2>2. cache \in [Names \cup Keys -> Entries]
    BY EntriesOf, Zenon DEF Init
  <2>3. req \in [Callers -> Requests]
    <3>1. Requests # {}
      <4>1. PICK op \in Ops, n \in Names, pw \in Passwords : TRUE
        BY ManagerAssumption, Zenon
      <4>2. [op |-> op, name |-> n, pw |-> pw] \in Requests
        BY Zenon DEF Requests
      <4> QED
        BY <4>2, Zenon
    <3>2. (CHOOSE r \in Requests : TRUE) \in Requests
      BY <3>1, Zenon
    <3> QED
      BY <3>2, Zenon DEF Init
  <2>4. tx \in [Callers -> Txs]
    BY Zenon DEF Init, Txs, NoTx
  <2>5. \A n \in Names : Stored(n) => store[n].pub \in Keys
    BY <2>1, Zenon DEF StoreTypeOK, KeyInfo, Stored
  <2>6. had \in [Names -> SUBSET Keys] /\ vouched \in [Names -> Keys \cup {Absent}]
    BY <2>5, Zenon DEF Init
  <2> QED
    BY <2>1, <2>2, <2>3, <2>4, <2>6, ManagerAssumption DEF TypeOK, Init, Steps
<1>2. PhaseInv /\ TxInv /\ DropInv /\ PanicOnlyIfNamedLikeAddress
    BY Zenon DEF Init, PhaseInv, PhaseOf, TxInv, TxOf, DropInv, DropOf,
       PanicOnlyIfNamedLikeAddress
<1>3. InsertInv
    BY Zenon DEF Init, InsertInv, KeyKept, Inserting, Sure
<1>4. CacheInv
    BY EntryFields, Zenon DEF Init, CacheInv
<1>5. TextInv
    BY Zenon DEF Init, TextInv, Stored
<1> QED
    BY <1>1, <1>2, <1>3, <1>4, <1>5, Zenon DEF KeyInv

\* KeyInv holds in every state of the key manager.
THEOREM KeysInvariant == Spec => []KeyInv
<1>1. KeyInv /\ [Next]_vars => KeyInv'
    BY TypeStep, PhaseStep, InsertStep, CacheStep, TxStep, TextStep, DropStep, PanicStep, Zenon
    DEF KeyInv
<1> QED
    BY KeyInitial, <1>1, PTL DEF Spec

\* A key is overwritten only when two insertions of its name ran at the same time, Has and
\* Write of Insert, Recover and Import not being one step, or when an error of the
\* database made both Has of one insertion take the name for absent.
THEOREM KeysKept == Spec => [](TypeOK /\ KeyKept)
<1>1. KeyInv => TypeOK /\ KeyKept
    BY Zenon DEF KeyInv, InsertInv
<1> QED
    BY <1>1, KeysInvariant, PTL

\* With the crypto that the user supplies, keys are kept unless raced or unseen, and the
\* password that a key was written with reads it again.  With the default one it does not.
THEOREM KeysRead == ASSUME Crypto = "user" PROVE Spec => []KeyKeptAndRead
<1>1. KeyInv => ReadReturnsWritten
  <2> SUFFICES ASSUME KeyInv, NEW n \in Names, Stored(n),
                      dao = "level" => store[n].pw # NoPassword
               PROVE  ReadPrivKey(n, store[n].pw) = store[n].pub
    BY Zenon DEF ReadReturnsWritten
  <2> QED
    BY Zenon DEF KeyInv, TypeOK, StoreTypeOK, TextInv, Encrypt, ReadPrivKey, ReadText, Decrypt
<1> QED
    BY <1>1, KeysKept, KeysInvariant, PTL DEF KeyKeptAndRead

\* queryAccount and QueryAddress share one cache: the type assertion of QueryAddress
\* panics only for a key whose name is the address of a key.
THEOREM PanicsExplained == Spec => []PanicOnlyIfNamedLikeAddress
<1>1. KeyInv => PanicOnlyIfNamedLikeAddress
    BY Zenon DEF KeyInv
<1> QED
    BY <1>1, KeysInvariant, PTL

\* Factory, public key and signature of a transaction are of one key, unless the name
\* has had several.
THEOREM OneKey == Spec => []OneKeyUnlessRekeyed
<1>1. KeyInv => OneKeyUnlessRekeyed
    BY Zenon DEF KeyInv, TxInv, TxOf, OneKeyUnlessRekeyed
<1> QED
    BY <1>1, KeysInvariant, PTL

\* With the crypto that the user supplies, Delete of the level store removes a key only
\* with its password or the empty one, unless the key changed after Delete read it.
THEOREM DeleteVerified == ASSUME Crypto = "user" PROVE Spec => DeleteVerifiesPassword
<1>1. KeyInv => DeleteChecked
    BY Zenon DEF KeyInv, DropInv, DropOf, DeleteChecked
<1> QED
    BY <1>1, KeysInvariant, PTL DEF DeleteVerifiesPassword
=============================================================================
