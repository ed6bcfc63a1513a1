------------------------------ MODULE TxSender ------------------------------
(***************************************************************************)
(* Building, signing and broadcasting transactions: BuildAndSend,          *)
(* BuildAndSendWithAccount, BuildTxHash / BuildAndSign and SendBatch of    *)
(* modules/base_client.go with the helpers of modules/tx.go, run by        *)
(* concurrent callers that share one account cache, one locker and one     *)
(* node.  A step ends wherever the code touches something shared: the      *)
(* lock, the cache, the chain query, the broadcast.                        *)
(*                                                                         *)
(* A request holds what the control flow depends on: the operation, the    *)
(* name in baseTx.From, the mode (simulate included), an explicit sequence *)
(* (0: none) and the number of segments SubArray cuts the messages into    *)
(* (module MultiSend).  The keys behind the names do not change here.      *)
(***************************************************************************)
EXTENDS AccountCache, Locker

CONSTANTS Ops,           \* operations callers use
          Modes,         \* broadcast modes callers use
          SeqArgs,       \* explicit sequences callers pass, 0 for none
          AddrOf,        \* the address behind each key name
          Other,         \* a wallet outside this client with the same keys
          MaxSegs,       \* bound: segments of one SendBatch
          MaxCalls,      \* bound: calls of one caller
          MaxDisturb,    \* bound: disturbances from outside
          tryThreshold   \* failed broadcasts after which SendBatch gives up

AllOps == {"batch", "send", "withAccount", "hash"}
AllModes == {"commit", "sync", "async", "simulate", "unsupported"}

ASSUME SenderAssumption ==
    /\ Ops \subseteq AllOps /\ Ops # {}
    /\ Modes \subseteq AllModes /\ Modes # {}
    /\ SeqArgs \subseteq Nat /\ SeqArgs # {}
    /\ Names # {}
    /\ AddrOf \in [Names -> Accounts]
    /\ Other \notin Callers
    /\ MaxSegs \in Nat \ {0}
    /\ MaxCalls \in Nat
    /\ MaxDisturb \in Nat
    /\ tryThreshold \in Nat \ {0}

VARIABLES pc,        \* where each caller is
          req,       \* its request
          calls,     \* number of calls it has begun
          nres,      \* len(rs): segments broadcast with success
          tryCnt,    \* failed broadcasts of this SendBatch
          seq,       \* the sequence of the factory
          ret,       \* how its last call ended
          ambiguous, \* history: transactions whose broadcast got no answer
          disturbances \* number of disturbances so far

callerVars == <<req, calls, nres, tryCnt, seq, ret>>
vars == <<pc, callerVars, cache, lockVars, nodeVars, ambiguous, disturbances>>

Requests == [op: Ops, name: Names, mode: Modes, seqArg: SeqArgs,
             segs: 1 .. MaxSegs]

\* Only SendBatch splits its messages.
ValidRequest(r) == r.op # "batch" => r.segs = 1

acct(c) == AddrOf[req[c].name]

\* The transaction a caller has built: the segment after the last success.
Tx(c) == [acct |-> acct(c), seq |-> seq[c],
          c |-> c, k |-> calls[c], i |-> nres[c] + 1]

Txs == [acct: Accounts, seq: Nat, c: Callers \cup {Other}, k: Nat, i: Nat]

Goto(c, l) == pc' = [pc EXCEPT ![c] = l]

Exit(c, r) == /\ Goto(c, "return")
              /\ ret' = [ret EXCEPT ![c] = r]

\* Something outside the callers' control goes wrong.
Disturb == /\ disturbances < MaxDisturb
           /\ disturbances' = disturbances + 1

NodeTypeOK == /\ chainSeq \in [Accounts -> Nat]
              /\ checkSeq \in [Accounts -> Nat]
              /\ inbox \cup accepted \cup ambiguous \subseteq Txs

PCs == {"idle", "lock", "blocked", "prepare", "query", "save", "sign",
        "broadcast", "await", "failed", "return"}

CallerTypeOK ==
    /\ pc \in [Callers -> PCs]
    /\ req \in [Callers -> Requests]
    /\ calls \in [Callers -> 0 .. MaxCalls]
    /\ nres \in [Callers -> 0 .. MaxSegs]
    /\ tryCnt \in [Callers -> 0 .. tryThreshold]
    /\ seq \in [Callers -> Nat]
    /\ ret \in [Callers -> {"none", "ok", "err", "rejected", "recovered",
                            "panic"}]

TypeOK == /\ LockerTypeOK
          /\ CacheTypeOK
          /\ NodeTypeOK
          /\ CallerTypeOK
          /\ disturbances \in 0 .. MaxDisturb

Init == /\ NewLocker
        /\ NewCache
        /\ NodeInit
        /\ pc = [c \in Callers |-> "idle"]
        /\ req = [c \in Callers |-> CHOOSE r \in Requests : TRUE]
        /\ calls = [c \in Callers |-> 0]
        /\ nres = [c \in Callers |-> 0]
        /\ tryCnt = [c \in Callers |-> 0]
        /\ seq = [c \in Callers |-> 0]
        /\ ret = [c \in Callers |-> "none"]
        /\ ambiguous = {}
        /\ disturbances = 0

-----------------------------------------------------------------------------
\* A call begins.  BuildAndSendWithAccount gets its sequence from the caller.
Begin(c) ==
    /\ pc[c] = "idle"
    /\ calls[c] < MaxCalls
    /\ \E r \in Requests :
        /\ ValidRequest(r)
        /\ req' = [req EXCEPT ![c] = r]
        /\ \/ r.op = "batch" /\ Goto(c, "lock")
           \/ r.op = "withAccount" /\ Goto(c, "sign")
           \/ r.op \in {"send", "hash"} /\ Goto(c, "prepare")
        /\ seq' = [seq EXCEPT ![c] = r.seqArg]
    /\ calls' = [calls EXCEPT ![c] = @ + 1]
    /\ nres' = [nres EXCEPT ![c] = 0]
    /\ tryCnt' = [tryCnt EXCEPT ![c] = 0]
    /\ UNCHANGED <<ret, cache, lockVars, nodeVars, ambiguous, disturbances>>

\* SendBatch with no message, or with one whose ValidateBasic fails.
RejectBatch(c) ==
    /\ pc[c] = "idle"
    /\ calls[c] < MaxCalls
    /\ "batch" \in Ops
    /\ calls' = [calls EXCEPT ![c] = @ + 1]
    /\ nres' = [nres EXCEPT ![c] = 0]
    /\ tryCnt' = [tryCnt EXCEPT ![c] = 0]
    /\ ret' = [ret EXCEPT ![c] = "rejected"]
    /\ UNCHANGED <<pc, req, seq, cache, lockVars, nodeVars, ambiguous,
                   disturbances>>

\* base.l.Lock(baseTx.From)
Lock(c) ==
    /\ pc[c] = "lock"
    /\ \/ LockFree(req[c].name) /\ Goto(c, "prepare")
       \/ LockBlocks(c, req[c].name) /\ Goto(c, "blocked")
    /\ UNCHANGED <<callerVars, cache, nodeVars, ambiguous, disturbances>>

\* Mutant: an explicit sequence is advanced from segment to segment.
PrepareAdvances(c) ==
    /\ pc[c] = "prepare"
    /\ req[c].seqArg # 0
    /\ seq' = [seq EXCEPT ![c] = req[c].seqArg + nres[c]]
    /\ Goto(c, "sign")
    /\ UNCHANGED <<req, calls, nres, tryCnt, ret, cache, lockVars, nodeVars,
                   ambiguous, disturbances>>

\* prepare up to the cache lookup of QueryAndRefreshAccount.
Prepare(c) ==
    /\ pc[c] = "prepare"
    /\ \/ /\ req[c].seqArg # 0
          /\ seq' = [seq EXCEPT ![c] = req[c].seqArg]
          /\ Goto(c, "sign")
       \/ /\ req[c].seqArg = 0
          /\ Hit(acct(c))
          /\ seq' = [seq EXCEPT ![c] = NextCached(acct(c))]
          /\ Goto(c, "save")
       \/ /\ req[c].seqArg = 0
          /\ ~Hit(acct(c))
          /\ Goto(c, "query")
          /\ UNCHANGED seq
    /\ UNCHANGED <<req, calls, nres, tryCnt, ret, cache, lockVars, nodeVars,
                   ambiguous, disturbances>>

\* refresh: the account query reads the committed sequence.
Query(c) ==
    /\ pc[c] = "query"
    /\ seq' = [seq EXCEPT ![c] = chainSeq[acct(c)]]
    /\ Goto(c, "save")
    /\ UNCHANGED <<req, calls, nres, tryCnt, ret, cache, lockVars, nodeVars,
                   ambiguous, disturbances>>

\* saveAccount, on a hit and on a refresh.
Save(c) ==
    /\ pc[c] = "save"
    /\ saveAccount(acct(c), seq[c])
    /\ Goto(c, "sign")
    /\ UNCHANGED <<callerVars, lockVars, nodeVars, ambiguous, disturbances>>

\* The rest of prepare, and Factory.BuildAndSign.
Sign(c) ==
    /\ pc[c] = "sign"
    /\ IF req[c].op = "hash"
       THEN Exit(c, "ok")
       ELSE Goto(c, "broadcast") /\ UNCHANGED ret
    /\ UNCHANGED <<req, calls, nres, tryCnt, seq, cache, lockVars, nodeVars,
                   ambiguous, disturbances>>

\* A key is not found (before the cache lookup), the account query fails, or
\* the fee conversion or the signature fails (after the cache was updated).
\* None of these paths calls removeCache.
BuildFails(c) ==
    /\ pc[c] \in {"prepare", "query", "sign"}
    /\ Disturb
    /\ Exit(c, "err")
    /\ UNCHANGED <<req, calls, nres, tryCnt, seq, cache, lockVars, nodeVars,
                   ambiguous>>

\* A panic while building: the account query has no connection to close or
\* an account of an unexpected type, or the configured default fee cannot be
\* converted.  Only SendBatch recovers, and then returns a nil error.
BuildPanics(c) ==
    /\ pc[c] \in {"query", "sign"}
    /\ Disturb
    /\ Exit(c, IF req[c].op = "batch" THEN "recovered" ELSE "panic")
    /\ UNCHANGED <<req, calls, nres, tryCnt, seq, cache, lockVars, nodeVars,
                   ambiguous>>

\* A broadcast succeeded: its result is appended, the next segment follows.
Succeed(c) ==
    /\ nres' = [nres EXCEPT ![c] = @ + 1]
    /\ IF nres[c] + 1 < req[c].segs
       THEN Goto(c, "prepare") /\ UNCHANGED ret
       ELSE Exit(c, "ok")

\* broadcastTx with simulate set: no transaction reaches the mempool.
Simulate(c) ==
    /\ pc[c] = "broadcast"
    /\ req[c].mode = "simulate"
    /\ \/ Succeed(c)
       \/ Goto(c, "failed") /\ UNCHANGED <<nres, ret>>
    /\ UNCHANGED <<req, calls, tryCnt, seq, cache, lockVars, nodeVars,
                   ambiguous, disturbances>>

\* broadcastTx with a mode it does not know.
Unsupported(c) ==
    /\ pc[c] = "broadcast"
    /\ req[c].mode = "unsupported"
    /\ Goto(c, "failed")
    /\ UNCHANGED <<callerVars, cache, lockVars, nodeVars, ambiguous,
                   disturbances>>

\* broadcastTxAsync: the answer comes before CheckTx.
BroadcastAsync(c) ==
    /\ pc[c] = "broadcast"
    /\ req[c].mode = "async"
    /\ inbox' = inbox \cup {Tx(c)}
    /\ Succeed(c)
    /\ UNCHANGED <<req, calls, tryCnt, seq, cache, lockVars, chainSeq,
                   checkSeq, mempool, delivered, failed, ambiguous,
                   disturbances>>

\* broadcastTxSync and broadcastTxCommit: CheckTx accepts.  Sync has its
\* answer; Commit waits for the block.
BroadcastAccepted(c) ==
    /\ pc[c] = "broadcast"
    /\ req[c].mode \in {"sync", "commit"}
    /\ CheckTx(Tx(c))
    /\ Admit(Tx(c))
    /\ IF req[c].mode = "sync"
       THEN Succeed(c)
       ELSE Goto(c, "await") /\ UNCHANGED <<nres, ret>>
    /\ UNCHANGED <<req, calls, tryCnt, seq, cache, lockVars, chainSeq, inbox,
                   delivered, failed, ambiguous, disturbances>>

\* Mutant: the code of the answer is not looked at.
RejectionIgnored(c) ==
    /\ pc[c] = "broadcast"
    /\ req[c].mode \in {"sync", "commit"}
    /\ ~CheckTx(Tx(c))
    /\ Succeed(c)
    /\ UNCHANGED <<req, calls, tryCnt, seq, cache, lockVars, nodeVars,
                   ambiguous, disturbances>>

\* CheckTx rejects, for the sequence or for another reason.
BroadcastRejected(c) ==
    /\ pc[c] = "broadcast"
    /\ req[c].mode \in {"sync", "commit"}
    /\ \/ ~CheckTx(Tx(c)) /\ UNCHANGED disturbances
       \/ CheckTx(Tx(c)) /\ Disturb
    /\ Goto(c, "failed")
    /\ UNCHANGED <<callerVars, cache, lockVars, nodeVars, ambiguous>>

\* The RPC fails or times out: the node may still get the transaction.
BroadcastLost(c) ==
    /\ pc[c] = "broadcast"
    /\ req[c].mode \in {"sync", "commit", "async"}
    /\ Disturb
    /\ inbox' = inbox \cup {Tx(c)}
    /\ ambiguous' = ambiguous \cup {Tx(c)}
    /\ Goto(c, "failed")
    /\ UNCHANGED <<callerVars, cache, lockVars, chainSeq, checkSeq, mempool,
                   delivered, failed>>

\* broadcastTxCommit gets its answer from the block, or none in time.
Await(c) ==
    /\ pc[c] = "await"
    /\ \/ /\ Tx(c) \in delivered
          /\ Succeed(c)
          /\ UNCHANGED <<ambiguous, disturbances>>
       \/ /\ Tx(c) \in failed
          /\ Goto(c, "failed")
          /\ UNCHANGED <<nres, ret, ambiguous, disturbances>>
       \/ /\ Disturb
          /\ ambiguous' = ambiguous \cup {Tx(c)}
          /\ Goto(c, "failed")
          /\ UNCHANGED <<nres, ret>>
    /\ UNCHANGED <<req, calls, tryCnt, seq, cache, lockVars, nodeVars>>

\* Mutant: the stale entry stays in the cache.
SendFailedKeeps(c) ==
    /\ pc[c] = "failed"
    /\ req[c].op # "batch"
    /\ Exit(c, "err")
    /\ UNCHANGED <<req, calls, nres, tryCnt, seq, cache, lockVars, nodeVars,
                   ambiguous, disturbances>>

\* The broadcast returned an error to BuildAndSend or to
\* BuildAndSendWithAccount, which never uses the cache.
SendFailed(c) ==
    /\ pc[c] = "failed"
    /\ req[c].op # "batch"
    /\ IF req[c].op = "send" THEN removeCache(acct(c)) ELSE UNCHANGED cache
    /\ Exit(c, "err")
    /\ UNCHANGED <<req, calls, nres, tryCnt, seq, lockVars, nodeVars,
                   ambiguous, disturbances>>

\* Mutant: the counter is compared before it is incremented.
BatchFailedLate(c) ==
    /\ pc[c] = "failed"
    /\ req[c].op = "batch"
    /\ removeCache(acct(c))
    /\ tryCnt' = [tryCnt EXCEPT ![c] = @ + 1]
    /\ IF tryCnt[c] >= tryThreshold
       THEN Exit(c, "err")
       ELSE Goto(c, "prepare") /\ UNCHANGED ret
    /\ UNCHANGED <<req, calls, nres, seq, lockVars, nodeVars, ambiguous,
                   disturbances>>

\* Mutant: the batch starts again from its first segment.
BatchFailedRestarts(c) ==
    /\ pc[c] = "failed"
    /\ req[c].op = "batch"
    /\ removeCache(acct(c))
    /\ tryCnt' = [tryCnt EXCEPT ![c] = @ + 1]
    /\ nres' = [nres EXCEPT ![c] = 0]
    /\ IF tryCnt[c] + 1 >= tryThreshold
       THEN Exit(c, "err")
       ELSE Goto(c, "prepare") /\ UNCHANGED ret
    /\ UNCHANGED <<req, calls, seq, lockVars, nodeVars, ambiguous,
                   disturbances>>

\* The broadcast returned an error to SendBatch: with the cache enabled it
\* drops the entry and builds the same segment again.  tryCnt is not reset
\* between segments.
BatchFailed(c) ==
    /\ pc[c] = "failed"
    /\ req[c].op = "batch"
    /\ IF Cached
       THEN /\ removeCache(acct(c))
            /\ tryCnt' = [tryCnt EXCEPT ![c] = @ + 1]
            /\ IF tryCnt[c] + 1 >= tryThreshold
               THEN Exit(c, "err")
               ELSE Goto(c, "prepare") /\ UNCHANGED ret
       ELSE Exit(c, "err") /\ UNCHANGED <<cache, tryCnt>>
    /\ UNCHANGED <<req, calls, nres, seq, lockVars, nodeVars, ambiguous,
                   disturbances>>

\* Mutant: Unlock is not deferred, and reached on success only.
ReturnLocked(c) ==
    /\ pc[c] = "return"
    /\ IF req[c].op = "batch" /\ ret[c] = "ok"
       THEN /\ Unlock(req[c].name)
            /\ pc' = [d \in Callers |->
                        IF d = c THEN "idle"
                        ELSE IF d \in Woken(req[c].name) THEN "prepare"
                        ELSE pc[d]]
       ELSE Goto(c, "idle") /\ UNCHANGED lockVars
    /\ UNCHANGED <<callerVars, cache, nodeVars, ambiguous, disturbances>>

\* The call returns; SendBatch runs its deferred Unlock first.
Return(c) ==
    /\ pc[c] = "return"
    /\ IF req[c].op = "batch"
       THEN /\ Unlock(req[c].name)
            /\ pc' = [d \in Callers |->
                        IF d = c THEN "idle"
                        ELSE IF d \in Woken(req[c].name) THEN "prepare"
                        ELSE pc[d]]
       ELSE Goto(c, "idle") /\ UNCHANGED lockVars
    /\ UNCHANGED <<callerVars, cache, nodeVars, ambiguous, disturbances>>

-----------------------------------------------------------------------------
\* The environment: the node, another wallet with the same key, the cache.
BlockDelivers ==
    /\ \E tx \in mempool : DeliverTx(tx, TRUE)
    /\ UNCHANGED <<pc, callerVars, cache, lockVars, ambiguous, disturbances>>

BlockFails ==
    /\ Disturb
    /\ \E tx \in mempool : DeliverTx(tx, FALSE)
    /\ UNCHANGED <<pc, callerVars, cache, lockVars, ambiguous>>

LateRequest ==
    /\ \E tx \in inbox : LateCheckTx(tx)
    /\ UNCHANGED <<pc, callerVars, cache, lockVars, ambiguous, disturbances>>

OtherWallet ==
    /\ Disturb
    /\ \E a \in Accounts :
          Admit([acct |-> a, seq |-> checkSeq[a], c |-> Other,
                 k |-> disturbances, i |-> 1])
    /\ UNCHANGED <<pc, callerVars, cache, lockVars, chainSeq, inbox,
                   delivered, failed, ambiguous>>

EntryDropped ==
    /\ Disturb
    /\ \E a \in Accounts : CacheDrops(a)
    /\ UNCHANGED <<pc, callerVars, lockVars, nodeVars, ambiguous>>

Broadcast(c) == \/ Simulate(c) \/ Unsupported(c) \/ BroadcastAsync(c)
                \/ BroadcastAccepted(c) \/ BroadcastRejected(c)
                \/ BroadcastLost(c) \/ Await(c)

\* What a caller does once its call has begun.
Step(c) == \/ Lock(c) \/ Prepare(c) \/ Query(c) \/ Save(c) \/ Sign(c)
           \/ BuildFails(c) \/ BuildPanics(c) \/ Broadcast(c)
           \/ SendFailed(c) \/ BatchFailed(c) \/ Return(c)

Environment == \/ BlockDelivers \/ BlockFails \/ LateRequest
               \/ OtherWallet \/ EntryDropped

Next == \/ \E c \in Callers : Begin(c) \/ RejectBatch(c) \/ Step(c)
        \/ Environment

Spec == Init /\ [][Next]_vars

\* The call waits for the account, or for the token its fee is converted
\* with: gRPC queries without a deadline (context.Background, a connection
\* without timeout), which a node that hangs never ends.
Asking(c) == pc[c] \in {"query", "sign"}

\* Weak fairness of block production and of every started call but while it
\* asks.  The Go scheduler runs every runnable goroutine, the HTTP client of
\* the broadcasts has a timeout, and a blocked sender is woken by the channel.
FairSpec == /\ Spec
            /\ \A c \in Callers : WF_vars(~ Asking(c) /\ Step(c))
            /\ WF_vars(BlockDelivers)

-----------------------------------------------------------------------------
(* Properties *)

\* A caller between Lock and its deferred Unlock.
Locked(c) == /\ req[c].op = "batch"
             /\ pc[c] \notin {"idle", "lock", "blocked"}

\* The locker does its work in SendBatch: no two calls whose names fall on
\* the same shard are between Lock and Unlock at once, on any exit path.
MutualExclusion ==
    \A c, d \in Callers :
        /\ Locked(c) /\ Locked(d)
        /\ getShard(req[c].name) = getShard(req[d].name)
        => c = d

\* The line of FairLock: the call that holds the shard, then the blocked ones.
LineOf == [s \in Shards |->
             LET owners == {c \in Callers : /\ Locked(c)
                                            /\ getShard(req[c].name) = s}
             IN  IF owners = {} THEN sendq[s]
                 ELSE <<CHOOSE c \in owners : TRUE>> \o sendq[s]]

Lines == INSTANCE FairLock WITH line <- LineOf

\* Lock and Unlock of SendBatch implement the fair lock: first come, first
\* served on every shard, no call overtaken, none dropped from the line.
ImplementsFairLock == Lines!Spec

\* A call that holds the shard asks the node and gets no answer any more.
Hangs(s) == \E d \in Callers :
               <>[](Asking(d) /\ Locked(d) /\ getShard(req[d].name) = s)

\* Its liveness: whoever owns a shard leaves it, unless the node hangs.
FairLockLive == \A s \in Shards : Hangs(s) \/ Lines!OwnerLeaves(s)

\* A blocked SendBatch is never forgotten: as long as a caller is queued on
\* a shard some other call holds that shard and will hand it on.
NoLostWakeup ==
    \A c \in Callers : pc[c] = "blocked" =>
        \E d \in Callers : /\ Locked(d)
                            /\ getShard(req[d].name) = getShard(req[c].name)

\* Retrying never repeats a segment the client knows to be on its way: if two
\* transactions for one segment of one call are both pending or executed,
\* the broadcast of at least one of them ended without an answer.
DuplicateOnlyIfAmbiguous ==
    \A t, u \in mempool \cup delivered :
        /\ t.c = u.c /\ t.k = u.k /\ t.i = u.i
        /\ t.c # Other
        /\ t # u
        => t \in ambiguous \/ u \in ambiguous

\* The transactions of segment i of the current call of c.
SegmentTxs(c, i) == {t \in accepted : t.c = c /\ t.k = calls[c] /\ t.i = i}

\* What a nil error of BuildAndSend, BuildAndSendWithAccount or SendBatch
\* says, when no panic was recovered: every segment has a result and passed
\* CheckTx (Sync), and has been executed in a block (Commit).
OkMeansAccepted ==
    \A c \in Callers :
        /\ pc[c] = "idle" /\ ret[c] = "ok"
        /\ req[c].op # "hash"
        => /\ nres[c] = req[c].segs
           /\ \A i \in 1 .. req[c].segs :
                /\ req[c].mode = "sync" => SegmentTxs(c, i) # {}
                /\ req[c].mode = "commit" =>
                      SegmentTxs(c, i) \cap delivered # {}

\* With locked senders only, one name per account, and nothing going wrong
\* outside, no broadcast is rejected: the sequence handed out by the cache
\* is the one CheckTx expects.
UndisturbedNeverFails ==
    disturbances = 0 =>
        \A c \in Callers : /\ pc[c] # "failed"
                            /\ ret[c] \in {"none", "ok", "rejected"}

\* SendBatch makes at most tryThreshold failed broadcasts over all its
\* segments together, and none is retried when the cache is disabled.
RetryBound ==
    \A c \in Callers :
        req[c].op = "batch" =>
            /\ tryCnt[c] >= tryThreshold => ret[c] = "err"
            /\ pc[c] \notin {"return", "idle"} => tryCnt[c] < tryThreshold
            /\ ~Cached => tryCnt[c] = 0

\* Every started call returns, whatever fails, unless the node never answers
\* a query of this call or of one that holds its shard.
EveryCallReturns ==
    \A c \in Callers :
        \/ []<>(pc[c] = "idle")
        \/ <>[]Asking(c)
        \/ \E s \in Shards : <>[](pc[c] = "blocked" /\ getShard(req[c].name) = s) /\ Hangs(s)

\* Without the cache nothing is sent again: at most one transaction exists
\* for each segment of a call, wherever it is.
UncachedNeverRepeats ==
    ~Cached =>
        \A t, u \in inbox \cup accepted :
            t.c = u.c /\ t.k = u.k /\ t.i = u.i => t = u

\* A SendBatch given an explicit sequence uses it for every segment, so that
\* of its transactions the node accepts at most one.
ExplicitSequenceOnce ==
    \A t, u \in accepted :
        /\ t.c = u.c /\ t.k = u.k /\ t.c # Other
        /\ t.k = calls[t.c] /\ req[t.c].seqArg # 0
        => t = u

\* A failed send repairs the cache: a sequential caller that waits for its
\* blocks does not get two errors in a row unless something happened outside
\* in between (BuildTxHash and BuildAndSign, which advance the cached
\* sequence without sending, included).
HealStep ==
    \A c \in Callers :
        ret[c] = "err" /\ disturbances = 0 /\ pc[c] # "return"
            => pc'[c] # "return" \/ ret'[c] # "err"

\* account.go on accountQuery: "Must be used with locker".  No two callers
\* are between the cache lookup and saveAccount for the same address.
CacheUpdateExclusive ==
    \A c, d \in Callers :
        /\ pc[c] \in {"query", "save"} /\ pc[d] \in {"query", "save"}
        /\ acct(c) = acct(d)
        => c = d

\* base_client.go in SendBatch: "lock the account".  No two calls between
\* Lock and Unlock send for the same account.
LocksTheAccount ==
    \A c, d \in Callers :
        Locked(c) /\ Locked(d) /\ acct(c) = acct(d) => c = d

\* stdtx.go on ResultTx: when the transaction fails "The specific error
\* information can be obtained through the Error interface".  A SendBatch
\* that returned a nil error has a result for every segment.
NilErrorMeansSent ==
    \A c \in Callers :
        /\ pc[c] = "idle"
        /\ ret[c] \in {"ok", "recovered"}
        /\ req[c].op = "batch"
        => nres[c] = req[c].segs
=============================================================================
