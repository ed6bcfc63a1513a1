# TLA+ specifications of plugchain-sdk-go

This directory models the PlugChain client SDK (Go, `src/`), checks the models
with TLC on small instances and proves theorems about them with TLAPS. The code
is the reference: each definition that models code is mapped to its lines in
`PROJECT.json`.

## The system

The SDK is a client library for a Cosmos/Tendermint chain. An application makes
one client, and its goroutines call it concurrently.

| Part | Source | State it keeps | Module |
|---|---|---|---|
| Sharded locker | `modules/base_client.go` | 16 channels of capacity one | `Locker`, `FairLock` |
| Account cache | `modules/account.go`, `utils/cache` | last sequence per address | `AccountCache` |
| Sending transactions | `modules/base_client.go`, `modules/tx.go`, `client/tx/factory.go` | per call: results, retry counter, factory | `TxSender` |
| The node (external) | not in the repository | sequences, mempool, blocks | `Node` |
| Multi-send and splitting | `modules/bank/bank.go`, `utils/commom.go` | per call: segments, results | `MultiSend` |
| Key management | `modules/keys.go`, `crypto/key_manager.go`, `types/store` | key store, name-to-address cache | `KeyDAO`, `KeyManager` |
| Event subscription | `modules/rpc_client.go`, `types/event.go` | builders, channels, goroutines | `Subscription` |
| Token cache, conversion | `modules/token.go`, `types/coin_type.go` | token cache | `Tokens` |
| Coins and decimals | `types/coin.go`, `dec_coin.go`, `dec.go` | arrays shared by slices | `Decimals`, `DecArith`, `ApproxRoot`, `CoinSets`, `Coins`, `DecCoins` |
| Transaction builder, decoder | `types/tx`, `codec/unknownproto` | cached bytes | `TxBuilder`, `TxDecoder` |
| Multisignatures, bit array | `crypto/keys/multisig`, `crypto/types` | bit array, signatures | `Multisig` |
| Interface registry, client types | `codec/types`, `client.go`, `modules/*/codec.go` | maps of types | `Registry`, `RegistryUse`, `ClientTypes` |
| Generated messages | `*.pb.go` | none (pure) | `Wire`, `CoreMessages`, `StakingMessages`, `Messages`, `WireChannel` |
| UUID generator | `utils/uuid` | last time, clock sequence | `UuidGenerator` |
| Paged queries | `utils/commom.go`, `modules/staking` | none | `Pages` |
| Governance client | `modules/gov`, `types/events.go` | none | `Gov` |
| HD paths, armor, elliptic curves, logging | `crypto`, `utils/log` | | not modelled |

How the core parts interact: a module client (bank, staking, ...) builds messages
and calls `BuildAndSend` or `SendBatch`. `prepare` finds the address behind
`baseTx.From`, takes the next sequence from the account cache (or asks the node
and fills the cache), converts the fee; the factory signs; `broadcastTx` sends in
the chosen mode. An error makes the sender drop the cache entry; `SendBatch`, and
only `SendBatch`, runs under the locker and retries.

## Modules

### Locker, FairLock

`Locker` is the channel semantics of `Lock` and `Unlock`: `buf[s]` is the number of
tokens in the channel of shard `s`, `sendq[s]` the queue of blocked senders. A
receive from a full channel with blocked senders hands the slot to the first of
them (Go's channels, external). The hash is a constant function, so that results
hold for every `indexFor`. `FairLock` is the abstract specification: one line of
callers per shard, the first owns, the owner leaves and everyone moves up.

### Node

What the client can observe of a node, modelled from how the code uses it:
`chainSeq` (what an account query answers), `checkSeq` (what CheckTx expects),
`mempool`, `delivered`, `failed`, and `inbox`, the requests that were sent but not
answered. A request in the inbox may reach CheckTx at any later time or never.

### AccountCache

The field `S` of the cached account of each address. `Hit`, `NextCached`,
`saveAccount` and `removeCache` are the halves of the cache operations that are
atomic in the cache library; `CacheDrops` is expiry or eviction.

### TxSender

Each caller is a goroutine with a program counter. A step ends where the code
touches something shared:

| `pc` | Code | Actions leaving it |
|---|---|---|
| idle | between calls | `Begin`, `RejectBatch` |
| lock | `base.l.Lock` | `Lock` (to prepare, or blocked) |
| blocked | blocked in the channel send | another call's `Return` |
| prepare | `prepare` up to `a.Get` | `Prepare`, `BuildFails` |
| query | `QueryAccount` | `Query`, `BuildFails`, `BuildPanics` |
| save | `saveAccount` | `Save` |
| sign | fee conversion, `BuildAndSign` | `Sign`, `BuildFails`, `BuildPanics` |
| broadcast | `broadcastTx` | `Simulate`, `Unsupported`, `BroadcastAsync`, `BroadcastAccepted`, `BroadcastRejected`, `BroadcastLost` |
| await | `BroadcastTxCommit` waiting for the block | `Await` |
| failed | the error branch after the broadcast | `SendFailed`, `BatchFailed` |
| return | leaving, deferred `Unlock` | `Return` |

A request carries what the control flow depends on: operation, key name, mode,
explicit sequence, number of segments. A transaction is its account and sequence
and the caller, call and segment it belongs to. `ambiguous` is a history variable:
the transactions whose broadcast ended without an answer. `disturbances` counts
what goes wrong outside the callers (failures, lost answers, another wallet with
the same key, dropped cache entries); it bounds them and lets properties say
"nothing happened outside".

`ValidateTxSize` always returns nil, so the resize branch of `SendBatch` cannot be
reached and is not modelled.

### MultiSend

`MultiSend` and `SendBatch` of the bank module: conversion of all receipts, the two
levels of `SubArray`, validation of all messages, the segment loop with its retries.
`Requests` is the set of requests, each a sequence of receipts that are good, malformed or
empty. A broadcast that ends with an error (`BroadcastFails`) may have reached the node all
the same: `sent` is the history of what the node said it took, `lost` of what it took
without its answer arriving, and with the cache the same transaction goes out again, three
failures at most in a call. A panic in the loop is recovered (`Panics`): the call ends as
`caught`, a nil error with the results so far. Which sequences are used, and other
callers, are in `TxSender`.

### KeyDAO, KeyManager

`KeyDAO` is the two key stores, the map and LevelDB with its encryption; `dao`, chosen
in `Init`, says which one the client was made with. `Crypto` is the AES of the
repository or one of the application; the empty password, which `Read` does not
decrypt with, is a password among the others.
`KeyManager` adds Insert, Recover, Import, Export, Show and Delete, each cut where it
accesses the store, and a sender that finds the address of a name (cached), the
account (cached under the same prefix) and reads the store twice to sign. A restart
keeps only the database. Keys are model values and stand for their addresses. Any
access to the database may fail: `DatabaseFails` for those that report the error, while
`Has` takes it for an absent name. Six history variables carry what the properties have
to know of the past: the keys a name has had (`had`), names with overlapping insertions
(`raced`), the key that was reported (`vouched`), callers whose Delete has read a name
that was written since (`overtaken`), callers that were told a stored name does not exist
(`misled`), and names for which that happened to both `Has` of one insertion, the one of
the key manager and the one of `LevelDBDAO.Write` (`unseen`).

### Subscription

The query builder, where the text of a query is a sequence of conditions, and the
Subscribe calls, which add conditions to the caller's
builder, the receive loop, one goroutine per event, the parsers and handlers, and the
recover function whose own panic ends the process. An event has `decodes`: of a
transaction, whether `parseTx` can decode it; of blocks, headers and validator updates,
whether the keys of the validators in it can be read, which the parsers take for granted.
A subscription made by `Resubscribe` (state `lost`) has the application's handler as it
is, without the type assertion of the one it repeats.

### UuidGenerator

`UuidGenerator` draws version 1 UUIDs under the storage mutex with a clock that stalls
or goes back; `SeqRange` and `Visible` stand for 2^16 and 2^14. `NewV2` draws from the
same storage, but writes an ID over the low time and a domain over the low byte of the
sequence: its UUIDs do repeat, and uniqueness is stated for version 1 alone.

### Wire, CoreMessages, StakingMessages, Messages, WireChannel

The generated `Marshal` and `Unmarshal` differ between messages only in their fields.
`Wire` is the code around the fields (varints, bound checks, skipping, groups), and
`CoreMessages`, `StakingMessages` and `Messages`, which extends both, hold two tables
per message: the cases of `Unmarshal` (number, name, kind) and the writes of
`MarshalToSizedBuffer` (tag bytes, condition), each taken from that function. The two
are separate so that a disagreement between writer and reader would show.
`WireChannel` sends messages, joins two, adds unknown fields and cuts the bytes.
`Int` and `Dec` are told apart in the tables: `Unmarshal` of both reads 255 bits
(`maxBitLen`), the arithmetic of `Int` makes no more, but that of `Dec` makes 315
(`dec.go:224`). `Marshal` writes such a `Dec` and `Unmarshal` refuses it, with the message
that holds it.

### TxDecoder, TxBuilder

`TxDecoder` is `RejectUnknownFields` over the same tables, through Anys, and
`DefaultTxDecoder` on transactions of a newer peer. `RejectUnknownFields` finds types in
the global table of protobuf; `UnmarshalBinaryBare` then unpacks the messages through the
registry of the client, which knows fewer. So `MsgBurnToken`, which its module does not
register, a type that is no message, and `MsgSubmitProposal`, for whose content nothing is
registered, pass the first and are refused by the second. `TxBuilder` is the
wrapper with its kept bytes: several wrappers may share one `Tx` (`WrapTx`, or a
decoded one), and `Sign` is both `SetSignatures` calls with the signing in between.

### Registry, RegistryUse, ClientTypes

`Registry` is the maps of `interfaceRegistry`, with `RegisterImplementations`, `UnpackAny`
and `UnpackInterfaces`; a registration that panics keeps what came before.
`RegistryUse` mixes registration and use; `ClientTypes` registers what the modules of
the client register and reads transactions and accounts with it.

### Multisig

The bit array in bytes and bits, as the code has it, and the collection, transport (data,
JSON, proto) and verification of signatures of nested k-of-n keys. `VerifyMultisignature`
compares the number of bits and the number of signatures each with the threshold and the
size, not with each other: `AddSignature` keeps them equal, but for the signature of a key
inside the key, which a client offers as a whole, nothing does. With fewer signatures than
bits the loop reads past the list and panics; with more, the rest is not looked at.

### Decimals, DecArith, ApproxRoot, CoinSets, Coins, DecCoins, Tokens

A `Dec` is its integer; `One` and `Limit` stand for 10^18 and 2^315. `CoinSets` is what
`coin.go` and `dec_coin.go` have in common; `Coins` adds the arrays that slices share,
`DecCoins` the operations with rounding. `Tokens` is the token query with its cache and
the conversions between units by concurrent callers.

### Pages, Gov

`Pages` walks the pages of a query while entries come and go; `Width` stands for 64
bits. `Gov` has `SubmitProposal`, which reads the number of its proposal from the flattened
events of its transaction, and the lists that are cut at 100.

## Runs

A passing run has a module `MC...` that puts together components with no state in
common, or several settings of one component. Its variable `part` (or `scenario`) is
chosen in `Init` and never changes: in a behaviour one component moves, or one
setting holds, and the variables of the others keep their initial values. The
states of a run are therefore the disjoint union of those of its parts. A component
whose properties are proved too is extended rather than instantiated, so that the run checks
the very definition that the theorem states; `MultiSend`, `UuidGenerator` and `DecArith` have names
of their own for the initial states, the steps and the specification (`SendSpec`,
`UuidSpec`, `ArithSpec`), because each shares an `MC` module with another one. Properties
of an instance are named again in the `MC` module, where those that make up one
promise of a component are one conjunction; the clauses are stated one by one, each
with its comment, in the component's module.

| Run | Part | Shows |
|---|---|---|
| `senders` | undisturbed | With locked senders, one name per account and nothing going wrong outside, no broadcast is ever rejected (`LockedSendsOnce`) |
| | mixed | All operations together: types, a segment is repeated only when an answer was lost, a nil error means accepted |
| | arguments | All modes, simulation, explicit sequences: one retry budget per call (`RetryBound`); one accepted transaction per explicit sequence |
| | uncached | With the cache disabled nothing is sent twice (`LockedSendsOnce`) |
| | sequential | A failed send repairs a stale cache entry (`FailureHeals`) |
| `liveness` | queue, retry, apart | Mutual exclusion per shard and no lost wakeup on every exit path; every started call returns, unless the node never answers a query of it or of the call that holds its shard; the locker implements `FairLock`, safety and, with the same exception, liveness |
| | subscriptions | Every event of a subscription that lasts is handled unless a handler's panic ends the process |
| `keys` | concurrent, memory | A reported key stays under its name unless two insertions of it overlapped or both `Has` of one insertion met an error, restarts included; a cache entry is misread only for a key named like an address |
| | send | Account, public key and signature agree unless the name has had several keys |
| | passwords, delete | With a real encryption Read returns what was written; Delete removes a key only with its password or the empty one, unless the key was written after Delete read it |
| `clients` | uuid | Two version 1 UUIDs are equal only after the clock sequence wrapped, with calls of `NewV2` in between |
| | mixed, each | An event is handled once, by a handler of its type; while the application's handlers do not panic, only a transaction that cannot be decoded (in `SubscribeSendTx`) or a validator's key that cannot be read ends the process; a query contradicts itself only if its builder was reused |
| | pages | An entry is missed only if one went, read twice only if one came, or if the offset wrapped |
| | gov | SubmitProposal returns the caller's own number; it fails for a submitted proposal only without events; lists are cut only at 100 |
| `wire` | channel | All 254 messages are read as they were written, unless a `Dec` in them is longer than is read: these are refused; joined ones are merged, unknown fields skipped; cut ones refused |
| | decoder | Unknown fields are refused if critical, and otherwise reported, at every level; a message that is not registered, or a proposal, is refused |
| `transactions` | multisend | What the node said it took is a prefix of the request, and the results tell its length; what it took without an answer is a whole transaction next to that prefix, at most once per failed broadcast; a nil error that is not that of a recovered panic means that all was sent; one bad receipt and nothing is sent |
| | builder | Kept bytes are those of the Tx unless two builders share it; what was signed is what is sent |
| | small, wide | Signatures stand in the order of their keys; accepted exactly if enough keys signed; a panic only inside a nested signature that is plain or has fewer signatures than bits |
| | registry, client | Registered types never change; what was received is unpacked to the last level; the client reads all it sends but proposals |
| `money` | arith, root | Rounding to the nearest, towards zero and up; the limit on bits; convergence of ApproxRoot |
| | coins, deccoins | Results are not changed through shared arrays; sums, look-ups, truncation and intersection against reference definitions |
| | tokens | The way to the main unit and back keeps the value unless a query fails on the way back |
| `tx_unlocked` (violation) | | `BuildAndSend` uses the account cache without the locker |
| `tx_alias` (violation) | | The lock is on the name: two names of one key are not excluded |
| `tx_panic` (violation) | | After a recovered panic `SendBatch` returns a nil error with results missing |
| `keys_default` (violation) | | The AES used by default cannot give a key back |
| `gov_filter` (violation) | | The status filter of QueryProposals has no effect |

The violations are disagreements between comments or documents and code, quoted in
`PROJECT.json` under `findings`. Other disagreements that the models follow, and that
the passing properties allow for, are: MemoryDAO.Delete ignores the password; `chopPrecisionAndTruncate` rounds negative numbers up;
`QuoRoundUp` may return zero; `NewCoins` panics on duplicates; `MulDecTruncate` by zero
does not panic; `ToMainCoin` of a coin in the main unit is empty; `AddSignature` adds a
signature twice when the bit array is too short; `MarshalSignatureJSON` loses the
sequence; `UnpackAny` trusts the cached value; `registerImpl` looks for a conflict within
one interface only; `QueryTx` cannot read a proposal; `QueryDeposits` returns at most 100.

Deadlock checking is off where a run ends because the calls, events or operations
that its bounds allow are used up. For the senders, that nobody stays blocked is
`NoLostWakeup` and `EveryCallReturnsInTurn`; for subscriptions it is `EveryEventHandled`.

### Bounds

* Two callers (three where queue order matters): a conflict over a sequence or a
  shard involves two, order in a queue three (an owner and two who wait).
* `MaxSegs` 2: a success followed by a failure, or the reverse, within a batch.
* `tryThreshold` 3, as in the code.
* `MaxCalls` 1 or 2 per caller: a second call meets the cache the first one left.
* `MaxDisturb` 0 or 1: one lost answer, failure or foreign transaction at any
  point. Rejections that follow from it are not counted.
* `liveness`: three callers in the queue of one shard, two callers with a retry in commit
  mode, two names on different shards; the lines of the abstract lock need no more.
* `MultiSend`: messages of 2, transactions of 3, up to 15 receipts: several
  transactions, exact multiples and a rest on both levels. With 3 retries for up to three
  transactions, the limit is met in one of them and across them.

* Keys: two callers with two calls each over one or two names and two keys (a race,
  a deletion and a second key of a name need no more), any two of three passwords where
  one caller deletes what another writes; four calls of one caller for passwords.
* Subscriptions: two, with one shared builder and an event of each kind.
* `Wire`: each field alone with its edge values (one, two digits, all 64 bits) and all
  fields filled; two joined messages, one unknown field of each wire type; every cut.
  A limit of 6 bits stands for 255, with the largest number within it and the first beyond.
* Numbers stand in for the code's: few units to one and a small limit for `Dec`, 4-bit
  words for page offsets, a short clock sequence. Each is small enough that
  rounding, overflow and wrap-around happen within a few steps, and the definitions
  do not depend on its value. In `ApproxRoot`, 6 rounds and 100 units to one stand for 100
  rounds and 10^18: the number of rounds that a root may need is stated from `d` and `One`
  (halvings to come near the root, doublings of the exact digits), with no constant that
  fits these values alone.
* Part wide of `transactions` has seven to nine keys because the bits of a key set are packed by
  eight; `Gov` starts with 99 deposits because the limit is 100.
* `TxBuilder`: six operations on at most two wrappers: sharing, a setter, two
  signatures and an encoding fit.

### Fairness

`MCLiveness` assumes weak fairness of block production and of `CallStep(c)` for every
caller (every step of a call but beginning it), except while the call is `Asking`. A
goroutine that can run is run by the Go scheduler; a sender blocked in a channel becomes
runnable when the slot is handed over; the HTTP client of the broadcasts has a timeout
(`rpchttp.NewWithTimeout`), so that a broadcast ends, in commit mode too. The account and
token queries have none: they use `context.Background()` over a gRPC connection dialled
without timeout or keepalive, so a node that hangs blocks the call, and with it the shard,
for ever. They are therefore not fair, and `EveryCallReturnsInTurn` says of every call that
it returns unless a query of it, or of the call that holds its shard, is never answered.
Beginning a call, failures, late requests and the other wallet are not fair. In the
part subscriptions it assumes weak fairness of each receive loop and of each goroutine
that handles an event: both are runnable goroutines. Emitting events, subscribing and
unsubscribing are not fair.

## Theorems

All are for arbitrary constants under the named assumptions of the modules
(`LockerAssumption`, `CacheAssumption`, `SenderAssumption`; `CryptoAssumption`,
`AbsentAssumption`, `ManagerAssumption`; `GeneratorAssumption`; `MultiSendAssumption`;
`SubscriptionAssumption`; `DecimalsAssumption`, `ArithAssumption`),
which say little more than what kind of value each constant is: any number of callers,
names, accounts, shards, keys and passwords, any hash, clock, request and bound. `One` is
even and below `Limit`, as 10^18 and 2^315 are, and a chain of operations starts below `Limit`.

| Theorem | Module | States |
|---|---|---|
| `TypeCorrect` | `TxSenderProofs` | `Spec => []TypeOK` |
| `Exclusion` | `TxSenderProofs` | `Spec => []MutualExclusion` |
| `WakeupPending` | `TxSenderProofs` | `Spec => []NoLostWakeup` |
| `BoundedRetries` | `TxSenderProofs` | `Spec => []RetryBound` |
| `NilErrors` | `TxSenderProofs` | `Spec => []OkMeansAccepted` |
| `NoRepetition` | `TxOnceProofs` | `Spec => []DuplicateOnlyIfAmbiguous` |
| `GivenSequenceOnce` | `TxOnceProofs` | `Spec => []ExplicitSequenceOnce` |
| `UncachedOnce` | `TxOnceProofs` | `Spec => []UncachedNeverRepeats` |
| `FirstComeFirstServed` | `TxLockProofs` | `Spec => ImplementsFairLock` |
| `UndisturbedSends` | `TxLockProofs` | `Spec => [](LockedOnly => UndisturbedNeverFails)` |
| `KeysKept` | `KeyProofs` | `Spec => [](TypeOK /\ KeyKept)` |
| `KeysRead` | `KeyProofs` | `Spec => []KeyKeptAndRead`, if `Crypto = "user"` |
| `PanicsExplained` | `KeyProofs` | `Spec => []PanicOnlyIfNamedLikeAddress` |
| `OneKey` | `KeyProofs` | `Spec => []OneKeyUnlessRekeyed` |
| `DeleteVerified` | `KeyProofs` | `Spec => DeleteVerifiesPassword`, if `Crypto = "user"` |
| `UuidsUnique` | `ArithmeticProofs` | `UuidSpec => []UniqueUnlessWrapped` |
| `DecRounded` | `ArithmeticProofs` | `ArithSpec => []DecExact` |
| `NoEventTwice` | `SubscriptionProofs` | `Spec => []HandledOnce` |
| `HandlersFit` | `SubscriptionProofs` | `Spec => []HandledOnceByKind` |
| `CrashExplained` | `SubscriptionProofs` | `Spec => []CrashOnlyByUndecoded` |
| `QueriesFit` | `SubscriptionProofs` | `Spec => []QueryWrongOnlyIfMisused` |
| `BytesFollowTx` | `TxBuilderProofs` | `Spec => []StaleOnlyIfShared`, if `0 \notin Values` |
| `SentVerifies` | `TxBuilderProofs` | `Spec => []SignedIsSent`, if `0 \notin Values` |
| `PrefixSent` | `TransactionProofs` | `SendSpec => []SentIsPrefix` |
| `AnswerTrue` | `TransactionProofs` | `SendSpec => []AnswerTellsProgress` |

`TxSenderProofs` begins with the lemmas on types and on which step touches which variables;
`TxOnceProofs` and `TxLockProofs` extend it.

The arguments:

* `TypeInv` is `TypeOK`, `Progress` and `LockInv`. `Progress` (a call under way has
  segments and retries left) keeps the counters in range. `LockInv` strengthens
  mutual exclusion: the channel of a shard is full exactly when a call owns the
  shard (`FullMeansOwned`), and its queue holds exactly the callers blocked on it,
  each once (`QueueInv`). Without the queue part, `Return` could wake a caller that
  is not blocked, or two.
* `NoRepetition` needs the node's replay protection (`NodeInv`: every sequence of
  an account passes CheckTx and a block once, so an executed transaction is not
  pending, and a failed one neither) and `DeliveryInv`: a transaction that was
  answered belongs to an earlier call or to a segment that has its result, or is
  the one its caller waits for. A caller about to broadcast is in none of these
  cases, hence its segment is new (`FreshSegment`).
* `GivenSequenceOnce` joins two facts: CheckTx lets each sequence of an account pass once
  (`PassedOnce`), and every transaction of a call that was given a sequence carries that
  sequence and the account of the call (`OriginInv`), however many segments and retries.
* `UncachedOnce`: without the cache a failed broadcast ends the call, so that the segment
  of a transaction that was sent is over (`Over`) and its caller broadcasts it no more.
* `UndisturbedSends` is about clients whose callers use `SendBatch` only, wait for CheckTx,
  give no sequence and have one shard for the names of an account (`LockedOnly`); each
  clause is needed, as the violations `tx_unlocked` and `tx_alias` show for two of them. By
  `QuietInv` the cache of an account has the last sequence that CheckTx let pass, except
  while one caller holds a sequence that it has not used, and that caller has the lock.
* `NilErrors` rests on `ResultInv`: what a caller learns of a segment when it
  appends the result stays true because accepted and executed transactions only
  grow.
* `FirstComeFirstServed` maps the owner and the channel's queue to one line. `Lock`
  is `Join`, `Return` of a batch is `Leave`, every other step leaves the lines alone.
* The theorems of `KeyProofs` share `KeyInv`, with one conjunct for each thing that can
  go wrong. `InsertInv`: a name that is not raced has one insertion at most, and is
  absent once that insertion knows (`Sure`: its first `Has` did not fail, or its second
  did not), so its write overwrites nothing; the map store misleads nobody. `CacheInv` and
  `TxInv`: addresses in the cache, in the store and in a transaction are keys that the
  name has had, so that two different ones are two keys of the name; entries written
  by `saveAccount` stand under addresses, those of QueryAddress under names. `TextInv`: a
  private key is as its store writes it. `DropInv`: a Delete past its read has a password
  of the key, unless it was overtaken. The two theorems that speak of decryption assume
  an encryption that can decrypt; the one of the repository cannot, which is the
  violation `keys_default`.
* `UuidsUnique` rests on `UuidInv`: the present clock sequence is the one of any UUID moved
  on by the increments since (`SinceDrawn`, `SinceIssued`), modulo its width, and between
  increments times grow (`TimesDiffer`). Two equal UUIDs then have numbers of increments
  that agree modulo `Visible` without being equal. The bits that the variant overwrites
  may be dropped early because `Visible` divides `SeqRange`. Callers between drawing
  and issuing are part of the invariant, as others may draw and issue in between.
* `DecRounded` writes every result as a magnitude with a sign. `QuoIs`, `TruncateIs` and `RoundIs`
  say what big.Int's division and the two chops do to a magnitude, with the remainder they
  leave; `QuoNearIs` and `QuoTruncateIs` add up the remainders of the two divisions. What
  holds along a chain is `Bounded`: below `Limit`, or whole and below `Limit + One`. Being
  whole is what the invariant needs besides the bound, as Ceil checks no limit: only a number
  that is not whole grows by Ceil, and none that passed the limit is such.
* `NoEventTwice` needs `OnceInv`: an event that waits for a subscription is not in a
  goroutine of it, one in a goroutine is not handled, and no event waits twice. `HandlersFit` and
  `CrashExplained` need `KindInv`: the query of every subscription has the condition on its
  handler's event type at an odd place, where the node reads a condition, so that all
  that waits for it or runs for it is of that type; the bound on the conditions in a builder
  counts the subscriptions made (`CountInv`). `QueriesFit` needs `QueryInv`, that the
  texts in a builder come from the functions it was given to. All rest on what `Build`
  makes of a list of texts (`BuildIs`): its buffers, one for each text, exist and are
  unique because there is no least number of texts for which they would not be.
* `TxBuilderProofs` goes wrapper by wrapper. `Good`: the bytes that a wrapper keeps are those of
  its Tx unless another wrapper shares it, and as long as it is intact the bytes that the encoder
  would write now are the signed ones. The second half says more than the
  property: it has to hold before anything is sent, through `Sign`, which makes bytes
  twice, and through `Decode`, which starts from what was sent (`SentOK`: a transaction on its
  way verifies if it is intact, and JSON has no unknown fields). `GoodChanged` is the common
  step of all calls that change a wrapper. `0 \notin Values` says that 0 stands for an
  unset field.
* `SendInv` of `TransactionProofs` says that the transactions are those that `SubArray`
  cuts and that `sent` is the request up to `SentBy(rs)`, the end of the last transaction
  sent. `LostInv` adds that every entry of `lost` is the transaction after `SentBy(k)` for
  some `k` up to `rs`, and that the failed broadcasts bound their number. The lemmas behind it are about `SubArray`: the pieces are consecutive, none is
  empty unless the request is, and together they are the array (`SubArrayCuts`,
  `PiecesJoin`, `FlattenPieces`). `ReceiptsOf` is a recursive function; what it computes is proved without an
  induction theorem, from a least counterexample (`FlattenIs`).

Only model-checked:

* the liveness properties (`EveryCallReturnsInTurn`, `EveryEventHandled`), since liveness under
  fairness and ENABLED are out of the prover's reach;
* the modules over `Wire`, `Registry` and `Multisig`, which recurse over bytes, nested Anys and
  nested keys, and the sets of coins, which recurse over lists: recursive operators are
  out of reach;
* `FailureHeals`, an action property of one caller alone, which is a matter of the run's
  setting;
* the properties of `Pages` and `Gov` (`IdIsOwn` is about the result of a fold over events),
  `ApproxRoot` and `Tokens`.

`LockedSendsOnce` of the run `senders` is, setting by setting, what `UndisturbedSends` and
`UncachedOnce` state for all constants.

## Not modelled, and why

* Payloads, memo, gas and fee amounts, signatures: no control flow depends on them
  beyond "conversion or signing failed" (`BuildFails`, `BuildPanics`).
* The keys behind the names do not change in `TxSender`; `KeyManager` has the changes,
  without the sequences.
* Text forms of `Dec`, `Int`, coins and HD paths: formatting. `Int` itself is a wrapper of
  `math/big` with the limit checks that `Decimals` shows for `Dec`.
* Overflow inside the operations on `DecCoins`, which panic there with `Add`, `Mul` and
  `Quo` of `Dec` (in `DecArith`), and the panic of `RoundInt` and `TruncateInt` for a `Dec`
  whose integer part exceeds 255 bits: the properties of the two modules are about results.
* The amino codec and its JSON, armor, mnemonics, encryption, elliptic curves.
* Getters, descriptors, `String`, `Equal` and gRPC stubs of generated code. `Size` is taken
  to be the length of what `Marshal` writes.
* Text forms of a UUID and the table that maps error codes (`types/errors.go`).
* The goroutine that a receive loop leaves behind after Unsubscribe: a leak, without
  effect on the state that the properties are about.
* The remaining calls of the staking, NFT, token and coinswap clients convert arguments
  and call `BuildAndSend`; most of coinswap is commented out.

## Plan

Proofs: `EarlyPageOnlyIfWrapped` of `Pages` and `IdIsOwn` of `Gov`.
