--------------------------- MODULE TxSenderProofs ---------------------------
(***************************************************************************)
(* Proofs about TxSender, for every number of callers, names, shards and   *)
(* accounts, every hash, every set of operations and modes, and all        *)
(* bounds: lemmas about its types, the inductive invariant of the core,    *)
(* and that every step keeps it; hence types, mutual exclusion and         *)
(* wakeups.  Then what a caller may conclude when its call returns.        *)
(***************************************************************************)
EXTENDS TxSender, TLAPS

USE DEF AllOps, AllModes, PCs

\* The shard of a name exists.
LEMMA ShardType == \A n \in Names : getShard(n) \in Shards
  BY LockerAssumption DEF getShard, Shards

\* There is a request, so that Init's choice is one.
LEMMA SomeRequest == (CHOOSE r \in Requests : TRUE) \in Requests
  <1>1. PICK o \in Ops, n \in Names, m \in Modes, q \in SeqArgs : TRUE
    BY SenderAssumption, Zenon
  <1>2. [op |-> o, name |-> n, mode |-> m, seqArg |-> q, segs |-> 1] \in Requests
    BY SenderAssumption DEF Requests
  <1> QED
    BY <1>2, Zenon

\* What the type invariant says of one caller.
LEMMA CallerType ==
  ASSUME TypeOK, NEW c \in Callers
  PROVE  /\ req[c] \in Requests
         /\ req[c].name \in Names
         /\ acct(c) \in Accounts
         /\ getShard(req[c].name) \in Shards
         /\ Tx(c) \in Txs
  BY SenderAssumption, ShardType DEF TypeOK, CallerTypeOK, Requests, acct, Tx, Txs

\* NewBaseClient builds a state of the right type.
LEMMA InitType == Init => TypeOK
  BY SenderAssumption, SomeRequest
     DEF Init, TypeOK, NodeTypeOK, CallerTypeOK, NewLocker, NewCache, NodeInit, LockerTypeOK, CacheTypeOK,
         accepted

-----------------------------------------------------------------------------
(* Types.  That nres and tryCnt stay in range needs to know that a call in  *)
(* progress has a segment left to send and a failure left to make.          *)

\* A call that has not reached its exit is short of both limits.
Progress == \A c \in Callers : pc[c] \notin {"idle", "return"} =>
                /\ nres[c] < req[c].segs
                /\ tryCnt[c] < tryThreshold

(* The lock.  Mutual exclusion alone is not inductive: Return hands the     *)
(* shard to the first blocked sender, so that the queue has to hold exactly *)
(* the callers blocked on that shard, each once, and a queue that is not    *)
(* empty needs an owner to hand over.                                       *)

ShardOf(c) == getShard(req[c].name)

\* A caller at or behind the lock is in SendBatch.
LockersAreBatches ==
    \A c \in Callers : pc[c] \in {"lock", "blocked"} => req[c].op = "batch"

\* The channel of a shard is full exactly when a call owns it.
FullMeansOwned ==
    /\ \A c \in Callers : Locked(c) => buf[ShardOf(c)] = 1
    /\ \A s \in Shards : buf[s] = 1 =>
          \E c \in Callers : Locked(c) /\ ShardOf(c) = s

\* The queue of a shard: the callers blocked on it, without repetition.
QueueInv ==
    /\ \A s \in Shards : sendq[s] # << >> => buf[s] = 1
    /\ \A s \in Shards : \A i \in 1 .. Len(sendq[s]) :
          /\ pc[sendq[s][i]] = "blocked"
          /\ ShardOf(sendq[s][i]) = s
    /\ \A s \in Shards : \A i, j \in 1 .. Len(sendq[s]) :
          sendq[s][i] = sendq[s][j] => i = j
    /\ \A c \in Callers : pc[c] = "blocked" =>
          \E i \in 1 .. Len(sendq[ShardOf(c)]) : sendq[ShardOf(c)][i] = c

LockInv == /\ LockersAreBatches
           /\ FullMeansOwned
           /\ QueueInv
           /\ MutualExclusion

TypeInv == TypeOK /\ Progress /\ LockInv

USE DEF callerVars, lockVars, nodeVars

\* The inductive invariant holds in a new client.
LEMMA InitTypeInv == Init => TypeInv
  <1> SUFFICES ASSUME Init PROVE TypeInv OBVIOUS
  <1>1. TypeOK
    BY InitType, Zenon
  <1>2. Progress
    BY Zenon DEF Init, Progress
  <1>3. LockersAreBatches /\ MutualExclusion
    BY Zenon DEF Init, LockersAreBatches, MutualExclusion, Locked
  <1>4. FullMeansOwned
    BY DEF Init, NewLocker, FullMeansOwned, Locked
  <1>5. QueueInv
    BY DEF Init, NewLocker, QueueInv
  <1> QED
    BY <1>1, <1>2, <1>3, <1>4, <1>5, Zenon DEF TypeInv, LockInv

\* Whom a receive wakes is blocked on that shard.
LEMMA WokenBlocked ==
  ASSUME TypeInv, NEW n \in Names, NEW d \in Woken(n)
  PROVE  /\ d \in Callers
         /\ pc[d] = "blocked"
         /\ ShardOf(d) = getShard(n)
         /\ req[d].op = "batch"
  <1> DEFINE s == getShard(n)
  <1>1. s \in Shards
    BY ShardType, Zenon
  <1>2. sendq[s] \in Seq(Callers)
    BY <1>1, Zenon DEF TypeInv, TypeOK, LockerTypeOK
  <1>3. sendq[s] # << >> /\ d = sendq[s][1] /\ 1 \in 1 .. Len(sendq[s])
    BY <1>2 DEF Woken
  <1> QED
    BY <1>1, <1>2, <1>3 DEF TypeInv, LockInv, QueueInv, LockersAreBatches

\* A return takes its caller to idle and wakes blocked callers only.
LEMMA ReturnMoves ==
  ASSUME TypeInv, NEW c \in Callers, Return(c)
  PROVE  /\ UNCHANGED callerVars
         /\ pc[c] = "return" /\ pc'[c] = "idle"
         /\ pc' \in [Callers -> PCs]
         /\ \A d \in Callers : d # c => \/ pc'[d] = pc[d]
                                        \/ pc[d] = "blocked" /\ pc'[d] = "prepare"
  <1>1. pc \in [Callers -> PCs]
    BY Zenon DEF TypeInv, TypeOK, CallerTypeOK
  <1>2. req[c].name \in Names
    BY CallerType, Zenon DEF TypeInv
  <1>3. UNCHANGED callerVars /\ pc[c] = "return"
    BY Zenon DEF Return
  <1>4. CASE req[c].op = "batch"
    <2>1. pc' = [d \in Callers |-> IF d = c THEN "idle"
                                   ELSE IF d \in Woken(req[c].name) THEN "prepare"
                                   ELSE pc[d]]
      BY <1>4, Zenon DEF Return
    <2>2. \A d \in Woken(req[c].name) : pc[d] = "blocked"
      BY <1>2, WokenBlocked, Zenon
    <2>3. pc' \in [Callers -> PCs] /\ pc'[c] = "idle"
      BY <1>1, <2>1, Zenon
    <2>4. \A d \in Callers : d # c => \/ pc'[d] = pc[d]
                                      \/ d \in Woken(req[c].name) /\ pc'[d] = "prepare"
      BY <2>1, Zenon
    <2> QED
      BY <1>3, <2>2, <2>3, <2>4, Zenon
  <1>5. CASE req[c].op # "batch"
    <2>1. pc' = [pc EXCEPT ![c] = "idle"]
      BY <1>5, Zenon DEF Return, Goto
    <2>2. /\ pc' \in [Callers -> PCs] /\ pc'[c] = "idle"
          /\ \A d \in Callers : d # c => pc'[d] = pc[d]
      BY <1>1, <2>1, Zenon
    <2> QED
      BY <1>3, <2>2, Zenon
  <1> QED
    BY <1>4, <1>5, Zenon

\* Who touches the lock.
LEMMA LockFrame ==
  ASSUME Next
  PROVE  \/ UNCHANGED lockVars
         \/ \E c \in Callers : Lock(c) \/ Return(c)
  <1>1. ASSUME NEW c \in Callers,
               \/ Begin(c) \/ RejectBatch(c) \/ Prepare(c) \/ Query(c) \/ Save(c)
               \/ Sign(c) \/ BuildFails(c) \/ BuildPanics(c)
               \/ SendFailed(c) \/ BatchFailed(c)
        PROVE  UNCHANGED lockVars
    BY <1>1, Zenon DEF Begin, RejectBatch, Prepare, Query, Save, Sign, BuildFails,
                       BuildPanics, SendFailed, BatchFailed
  <1>2. ASSUME NEW c \in Callers, Broadcast(c) PROVE UNCHANGED lockVars
    BY <1>2, Zenon
       DEF Broadcast, Simulate, Unsupported, BroadcastAsync, BroadcastAccepted,
           BroadcastRejected, BroadcastLost, Await
  <1>3. ASSUME Environment PROVE UNCHANGED lockVars
    BY <1>3, Zenon DEF Environment, BlockDelivers, BlockFails, LateRequest,
                       OtherWallet, EntryDropped
  <1> QED
    BY <1>1, <1>2, <1>3, Zenon DEF Next, Step

\* Who touches the cache.
LEMMA CacheFrame ==
  ASSUME Next
  PROVE  \/ UNCHANGED cache
         \/ \E c \in Callers : Save(c) \/ SendFailed(c) \/ BatchFailed(c)
         \/ EntryDropped
  <1>1. ASSUME NEW c \in Callers,
               \/ Begin(c) \/ RejectBatch(c) \/ Lock(c) \/ Prepare(c) \/ Query(c)
               \/ Sign(c) \/ BuildFails(c) \/ BuildPanics(c) \/ Return(c)
        PROVE  UNCHANGED cache
    BY <1>1, Zenon DEF Begin, RejectBatch, Lock, Prepare, Query, Sign, BuildFails,
                       BuildPanics, Return
  <1>2. ASSUME NEW c \in Callers, Broadcast(c) PROVE UNCHANGED cache
    BY <1>2, Zenon
       DEF Broadcast, Simulate, Unsupported, BroadcastAsync, BroadcastAccepted,
           BroadcastRejected, BroadcastLost, Await
  <1>3. ASSUME Environment PROVE UNCHANGED cache \/ EntryDropped
    BY <1>3, Zenon DEF Environment, BlockDelivers, BlockFails, LateRequest, OtherWallet
  <1> QED
    BY <1>1, <1>2, <1>3, Zenon DEF Next, Step

\* Who touches the node, and the history of lost answers.
LEMMA NodeFrame ==
  ASSUME Next
  PROVE  \/ UNCHANGED <<nodeVars, ambiguous>>
         \/ \E c \in Callers : \/ BroadcastAsync(c) \/ BroadcastAccepted(c)
                                \/ BroadcastLost(c) \/ Await(c)
         \/ BlockDelivers \/ BlockFails \/ LateRequest \/ OtherWallet
  <1>1. ASSUME NEW c \in Callers, Begin(c) \/ RejectBatch(c)
        PROVE UNCHANGED <<nodeVars, ambiguous>>
    BY <1>1, Zenon DEF Begin, RejectBatch
  <1>2. ASSUME NEW c \in Callers,
               \/ Lock(c) \/ Prepare(c) \/ Query(c) \/ Save(c) \/ Sign(c)
               \/ BuildFails(c) \/ BuildPanics(c)
        PROVE UNCHANGED <<nodeVars, ambiguous>>
    BY <1>2, Zenon DEF Lock, Prepare, Query, Save, Sign, BuildFails, BuildPanics
  <1>3. ASSUME NEW c \in Callers,
               \/ Simulate(c) \/ Unsupported(c) \/ BroadcastRejected(c)
               \/ SendFailed(c) \/ BatchFailed(c) \/ Return(c)
        PROVE UNCHANGED <<nodeVars, ambiguous>>
    BY <1>3, Zenon DEF Simulate, Unsupported, BroadcastRejected, SendFailed,
                       BatchFailed, Return
  <1>4. CASE EntryDropped
    BY <1>4, Zenon DEF EntryDropped
  <1> HIDE DEF nodeVars
  <1> QED
    BY <1>1, <1>2, <1>3, <1>4, Zenon DEF Next, Environment, Step, Broadcast

\* Lock and Unlock keep the type of the channels.
LEMMA LockerTypeStep ==
  ASSUME TypeOK, Next
  PROVE  LockerTypeOK'
  <1>1. CASE UNCHANGED lockVars
    BY <1>1, Zenon DEF TypeOK, LockerTypeOK
  <1>2. ASSUME NEW c \in Callers, Lock(c) PROVE LockerTypeOK'
    <2> DEFINE s == getShard(req[c].name)
    <2>1. s \in Shards
      BY CallerType, Zenon
    <2> HIDE DEF s
    <2>2. CASE buf' = [buf EXCEPT ![s] = 1] /\ UNCHANGED sendq
      BY <2>1, <2>2 DEF TypeOK, LockerTypeOK
    <2>3. CASE sendq' = [sendq EXCEPT ![s] = Append(@, c)] /\ UNCHANGED buf
      BY <2>1, <2>3 DEF TypeOK, LockerTypeOK
    <2> QED
      BY <1>2, <2>2, <2>3, Zenon DEF Lock, LockFree, LockBlocks, s
  <1>3. ASSUME NEW c \in Callers, Return(c) PROVE LockerTypeOK'
    <2> DEFINE s == getShard(req[c].name)
    <2>1. s \in Shards
      BY CallerType, Zenon
    <2> HIDE DEF s
    <2>2. CASE buf' = [buf EXCEPT ![s] = 0] /\ UNCHANGED sendq
      BY <2>1, <2>2 DEF TypeOK, LockerTypeOK
    <2>3. CASE sendq[s] # << >> /\ sendq' = [sendq EXCEPT ![s] = Tail(@)] /\ UNCHANGED buf
      BY <2>1, <2>3 DEF TypeOK, LockerTypeOK
    <2> QED
      BY <1>3, <1>1, <2>2, <2>3, Zenon DEF Return, Unlock, s
  <1> QED
    BY <1>1, <1>2, <1>3, LockFrame, Zenon

\* Saving, removing and dropping entries keep the type of the cache.
LEMMA CacheTypeStep ==
  ASSUME TypeOK, Next
  PROVE  CacheTypeOK'
  <1>1. CASE UNCHANGED cache
    BY <1>1, Zenon DEF TypeOK, CacheTypeOK
  <1>2. ASSUME NEW c \in Callers, Save(c) PROVE CacheTypeOK'
    BY <1>2, CallerType, Zenon DEF TypeOK, CallerTypeOK, CacheTypeOK, Save, saveAccount
  <1>3. ASSUME NEW c \in Callers, SendFailed(c) \/ BatchFailed(c) PROVE CacheTypeOK'
    BY <1>3, CallerType, Zenon DEF TypeOK, CacheTypeOK, SendFailed, BatchFailed, removeCache
  <1>4. CASE EntryDropped
    BY <1>4, Zenon DEF TypeOK, CacheTypeOK, EntryDropped, CacheDrops
  <1> QED
    BY <1>1, <1>2, <1>3, <1>4, CacheFrame, Zenon

\* Broadcasts and blocks keep the type of the node.
LEMMA NodeTypeStep ==
  ASSUME TypeOK, Next
  PROVE  NodeTypeOK'
  <1> USE DEF NodeTypeOK, accepted
  <1>1. CASE UNCHANGED <<nodeVars, ambiguous>>
    BY <1>1, Zenon DEF TypeOK
  <1>2. ASSUME NEW c \in Callers, BroadcastAsync(c) \/ BroadcastLost(c)
        PROVE  NodeTypeOK'
    <2>1. /\ inbox' = inbox \cup {Tx(c)}
          /\ ambiguous' \subseteq ambiguous \cup {Tx(c)}
          /\ UNCHANGED <<chainSeq, checkSeq, mempool, delivered, failed>>
      BY <1>2, Zenon DEF BroadcastAsync, BroadcastLost
    <2> QED
      BY <2>1, CallerType, Zenon DEF TypeOK
  <1>3. ASSUME NEW c \in Callers, BroadcastAccepted(c)
        PROVE  NodeTypeOK'
    <2>1. /\ mempool' = mempool \cup {Tx(c)}
          /\ checkSeq' = [checkSeq EXCEPT ![Tx(c).acct] = @ + 1]
          /\ UNCHANGED <<chainSeq, inbox, ambiguous, delivered, failed>>
      BY <1>3, Zenon DEF BroadcastAccepted, Admit
    <2>2. Tx(c) \in Txs /\ Tx(c).acct \in Accounts
      BY CallerType, Zenon DEF Txs
    <2> QED
      BY <2>1, <2>2 DEF TypeOK
  <1>4. ASSUME NEW c \in Callers, Await(c)
        PROVE  NodeTypeOK'
    <2>1. ambiguous' \subseteq ambiguous \cup {Tx(c)} /\ UNCHANGED nodeVars
      BY <1>4, Zenon DEF Await
    <2> QED
      BY <2>1, CallerType, Zenon DEF TypeOK
  <1>5. CASE BlockDelivers \/ BlockFails
    <2>1. PICK tx \in mempool :
            /\ mempool' = mempool \ {tx}
            /\ chainSeq' = [chainSeq EXCEPT ![tx.acct] = @ + 1]
            /\ delivered' \cup failed' \subseteq delivered \cup failed \cup {tx}
            /\ UNCHANGED <<checkSeq, inbox, ambiguous>>
      BY <1>5, Zenon DEF BlockDelivers, BlockFails, DeliverTx
    <2>2. tx \in Txs
      BY Zenon DEF TypeOK
    <2> QED
      BY <2>1, <2>2 DEF TypeOK, Txs
  <1>6. CASE LateRequest
    <2>1. PICK tx \in inbox : LateCheckTx(tx)
      BY <1>6, Zenon DEF LateRequest
    <2>2. tx \in Txs
      BY Zenon DEF TypeOK
    <2>3. UNCHANGED ambiguous
      BY <1>6, Zenon DEF LateRequest
    <2> QED
      BY <2>1, <2>2, <2>3 DEF TypeOK, Txs, LateCheckTx, Admit
  <1>7. CASE OtherWallet
    <2>1. PICK a \in Accounts :
            Admit([acct |-> a, seq |-> checkSeq[a], c |-> Other,
                   k |-> disturbances, i |-> 1])
      BY <1>7, Zenon DEF OtherWallet
    <2>2. [acct |-> a, seq |-> checkSeq[a], c |-> Other,
           k |-> disturbances, i |-> 1] \in Txs
      BY SenderAssumption DEF TypeOK, Txs
    <2>3. UNCHANGED <<chainSeq, inbox, delivered, failed, ambiguous>>
      BY <1>7, Zenon DEF OtherWallet
    <2> QED
      BY <2>1, <2>2, <2>3 DEF TypeOK, Admit
  <1> HIDE DEF NodeTypeOK, accepted, nodeVars
  <1> QED
    BY <1>1, <1>2, <1>3, <1>4, <1>5, <1>6, <1>7, NodeFrame, Zenon

\* The two sources of a sequence are numbers.
LEMMA SequenceType ==
  ASSUME TypeOK, NEW c \in Callers
  PROVE  /\ chainSeq[acct(c)] \in Nat
         /\ Hit(acct(c)) => NextCached(acct(c)) \in Nat
  <1>1. acct(c) \in Accounts
    BY CallerType, Zenon
  <1> QED
    BY <1>1 DEF TypeOK, NodeTypeOK, CacheTypeOK, Hit, NextCached

\* A caller step keeps the type of the callers, and calls under way
\* have segments and retries left.
LEMMA CallerTypeStep ==
  ASSUME TypeInv, NEW c \in Callers, Begin(c) \/ RejectBatch(c) \/ Step(c)
  PROVE  CallerTypeOK' /\ Progress'
  <1> USE SenderAssumption DEF Goto, Exit
  <1>0. CallerTypeOK /\ Progress
    BY Zenon DEF TypeInv, TypeOK
  <1>1. CASE Begin(c)
    <2>1. PICK r \in Requests, l \in {"lock", "sign", "prepare"} :
            /\ req' = [req EXCEPT ![c] = r]
            /\ pc' = [pc EXCEPT ![c] = l]
            /\ seq' = [seq EXCEPT ![c] = r.seqArg]
      BY <1>1, Zenon DEF Begin
    <2>2. r.seqArg \in Nat /\ r.segs \in 1 .. MaxSegs
      BY Zenon DEF Requests
    <2>3. /\ calls[c] < MaxCalls
          /\ calls' = [calls EXCEPT ![c] = @ + 1]
          /\ nres' = [nres EXCEPT ![c] = 0]
          /\ tryCnt' = [tryCnt EXCEPT ![c] = 0]
          /\ UNCHANGED ret
      BY <1>1, Zenon DEF Begin
    <2>4. CallerTypeOK'
      BY <1>0, <2>1, <2>2, <2>3 DEF CallerTypeOK
    <2>5. Progress'
      BY <1>0, <2>1, <2>2, <2>3 DEF CallerTypeOK, Progress
    <2> QED
      BY <2>4, <2>5, Zenon
  <1>2. CASE RejectBatch(c)
    BY <1>0, <1>2 DEF CallerTypeOK, Progress, RejectBatch
  <1>3. CASE Lock(c)
    BY <1>0, <1>3, Zenon DEF CallerTypeOK, Progress, Lock
  <1>4. CASE Prepare(c)
    <2>1. PICK n \in Nat, l \in {"sign", "save", "query"} :
            seq' = [seq EXCEPT ![c] = n] /\ pc' = [pc EXCEPT ![c] = l]
      <3>1. TypeOK /\ req[c].seqArg \in Nat /\ seq[c] \in Nat
            /\ seq = [seq EXCEPT ![c] = seq[c]]
        BY <1>0, Zenon DEF TypeInv, CallerTypeOK, Requests
      <3> QED
        BY <1>4, <3>1, SequenceType, Zenon DEF Prepare
    <2>2. pc[c] = "prepare" /\ UNCHANGED <<req, calls, nres, tryCnt, ret>>
      BY <1>4, Zenon DEF Prepare
    <2> QED
      BY <1>0, <2>1, <2>2, Zenon DEF CallerTypeOK, Progress
  <1>5. CASE Query(c)
    <2>1. chainSeq[acct(c)] \in Nat
      BY SequenceType, Zenon DEF TypeInv
    <2> QED
      BY <1>0, <1>5, <2>1, Zenon DEF CallerTypeOK, Progress, Query
  <1>6. CASE Save(c)
    BY <1>0, <1>6, Zenon DEF CallerTypeOK, Progress, Save
  <1>7. CASE Sign(c)
    BY <1>0, <1>7, ZenonT(30) DEF CallerTypeOK, Progress, Sign
  <1>8. CASE BuildFails(c) \/ BuildPanics(c)
    BY <1>0, <1>8, Zenon DEF CallerTypeOK, Progress, BuildFails, BuildPanics
  <1>9. ASSUME pc[c] \in {"broadcast", "await"}, Succeed(c),
               UNCHANGED <<req, calls, tryCnt, seq>>
        PROVE  CallerTypeOK' /\ Progress'
    <2>1. nres[c] < req[c].segs /\ req[c].segs \in 1 .. MaxSegs /\ nres[c] \in Nat
      BY <1>0, <1>9 DEF CallerTypeOK, Progress, Requests
    <2> QED
      BY <1>0, <1>9, <2>1 DEF CallerTypeOK, Progress, Succeed
  <1>10. ASSUME pc[c] \in {"broadcast", "await"},
                pc' = [pc EXCEPT ![c] = "failed"] \/ pc' = [pc EXCEPT ![c] = "await"],
                UNCHANGED <<req, calls, nres, tryCnt, seq, ret>>
         PROVE  CallerTypeOK' /\ Progress'
    BY <1>0, <1>10, Zenon DEF CallerTypeOK, Progress
  <1>11. CASE Broadcast(c)
    BY <1>9, <1>10, <1>11, Zenon
       DEF Broadcast, Simulate, Unsupported, BroadcastAsync, BroadcastAccepted,
           BroadcastRejected, BroadcastLost, Await
  <1>12. CASE SendFailed(c)
    BY <1>0, <1>12, Zenon DEF CallerTypeOK, Progress, SendFailed
  <1>13. CASE BatchFailed(c)
    <2>1. tryCnt[c] \in Nat /\ tryCnt[c] < tryThreshold
      BY <1>0, <1>13 DEF CallerTypeOK, Progress, BatchFailed
    <2>2. UNCHANGED <<req, calls, nres, seq>> /\ pc[c] = "failed"
      BY <1>13, Zenon DEF BatchFailed
    <2>3. CASE Exit(c, "err") /\ UNCHANGED tryCnt
      BY <1>0, <2>2, <2>3, Zenon DEF CallerTypeOK, Progress
    <2>4. CASE Exit(c, "err") /\ tryCnt' = [tryCnt EXCEPT ![c] = @ + 1]
      BY <1>0, <2>1, <2>2, <2>4 DEF CallerTypeOK, Progress
    <2>5. CASE /\ Goto(c, "prepare") /\ UNCHANGED ret
               /\ tryCnt' = [tryCnt EXCEPT ![c] = @ + 1]
               /\ tryCnt[c] + 1 < tryThreshold
      <3>1. tryCnt[c] + 1 \in 0 .. tryThreshold
        BY <2>1
      <3>2. CallerTypeOK'
        BY <1>0, <2>2, <2>5, <3>1, Zenon DEF CallerTypeOK
      <3>3. Progress'
        BY <1>0, <2>2, <2>5, Zenon DEF CallerTypeOK, Progress
      <3> QED
        BY <3>2, <3>3, Zenon
    <2>6. \/ Exit(c, "err") /\ UNCHANGED tryCnt
          \/ Exit(c, "err") /\ tryCnt' = [tryCnt EXCEPT ![c] = @ + 1]
          \/ /\ Goto(c, "prepare") /\ UNCHANGED ret
             /\ tryCnt' = [tryCnt EXCEPT ![c] = @ + 1]
             /\ ~(tryCnt[c] + 1 >= tryThreshold)
      <3> HIDE DEF Goto, Exit
      <3> QED
        BY <1>13, Zenon DEF BatchFailed
    <2>7. ~(tryCnt[c] + 1 >= tryThreshold) => tryCnt[c] + 1 < tryThreshold
      BY <2>1
    <2> QED
      <3> HIDE DEF Goto, Exit
      <3> QED
        BY <2>3, <2>4, <2>5, <2>6, <2>7, Zenon
  <1>14. CASE Return(c)
    <2>1. CallerTypeOK'
      BY <1>0, <1>14, ReturnMoves, Zenon DEF CallerTypeOK
    <2>2. \A d \in Callers : pc'[d] \notin {"idle", "return"}
                             => pc[d] \notin {"idle", "return"}
      BY <1>14, ReturnMoves, Zenon
    <2> QED
      BY <1>0, <1>14, <2>1, <2>2, ReturnMoves, Zenon DEF Progress
  <1> HIDE DEF Goto, Exit
  <1> QED
    BY <1>1, <1>2, <1>3, <1>4, <1>5, <1>6, <1>7, <1>8, <1>11, <1>12, <1>13, <1>14, Zenon
    DEF Step

-----------------------------------------------------------------------------
(* The lock invariant is kept by every step. *)

\* Steps that neither pass nor release the lock.
LEMMA LockInvFrame ==
  ASSUME TypeInv, UNCHANGED <<req, buf, sendq>>,
         \A d \in Callers :
            \/ pc[d] \in {"idle", "lock", "blocked"}
            \/ pc'[d] \in {"idle", "lock", "blocked"}
            => pc'[d] = pc[d]
  PROVE  LockInv'
  <1>1. \A d \in Callers : /\ Locked(d)' <=> Locked(d)
                           /\ ShardOf(d)' = ShardOf(d)
                           /\ pc'[d] = "blocked" <=> pc[d] = "blocked"
                           /\ pc'[d] = "lock" <=> pc[d] = "lock"
    BY Zenon DEF Locked, ShardOf, getShard
  <1>2. LockersAreBatches'
    BY <1>1, Zenon DEF TypeInv, LockInv, LockersAreBatches
  <1>3. FullMeansOwned'
    BY <1>1, Zenon DEF TypeInv, LockInv, FullMeansOwned
  <1>4. QueueInv'
    <2>1. \A s \in Shards : \A i \in 1 .. Len(sendq[s]) : sendq[s][i] \in Callers
      BY DEF TypeInv, TypeOK, LockerTypeOK
    <2> QED
      BY <1>1, <2>1 DEF TypeInv, LockInv, QueueInv
  <1>5. MutualExclusion'
    BY <1>1, Zenon DEF TypeInv, LockInv, MutualExclusion, ShardOf
  <1> QED
    BY <1>2, <1>3, <1>4, <1>5, Zenon DEF LockInv

\* A call that begins holds nothing yet.
LEMMA LockInvBegin ==
  ASSUME TypeInv, NEW c \in Callers, Begin(c)
  PROVE  LockInv'
  <1>0. pc \in [Callers -> PCs] /\ req \in [Callers -> Requests]
    BY Zenon DEF TypeInv, TypeOK, CallerTypeOK
  <1>1. \A d \in Callers : d # c => pc'[d] = pc[d] /\ req'[d] = req[d]
    BY <1>0, Zenon DEF Begin, Goto
  <1>2. /\ pc[c] = "idle"
        /\ \/ pc'[c] = "lock" /\ req'[c].op = "batch"
           \/ pc'[c] \in {"sign", "prepare"} /\ req'[c].op # "batch"
        /\ UNCHANGED lockVars
    <2>1. PICK r \in Requests :
            /\ req' = [req EXCEPT ![c] = r]
            /\ \/ r.op = "batch" /\ pc' = [pc EXCEPT ![c] = "lock"]
               \/ r.op = "withAccount" /\ pc' = [pc EXCEPT ![c] = "sign"]
               \/ r.op \in {"send", "hash"} /\ pc' = [pc EXCEPT ![c] = "prepare"]
      BY Zenon DEF Begin, Goto
    <2>2. req'[c] = r
      BY <1>0, <2>1, Zenon
    <2>3. pc[c] = "idle" /\ UNCHANGED lockVars
      BY Zenon DEF Begin
    <2> QED
      BY <1>0, <2>1, <2>2, <2>3, Zenon
  <1>3. \A d \in Callers : /\ Locked(d)' <=> Locked(d)
                           /\ d # c => ShardOf(d)' = ShardOf(d)
                           /\ pc'[d] = "blocked" <=> pc[d] = "blocked"
    BY <1>1, <1>2, Zenon DEF Locked, ShardOf, getShard
  <1>4. ~Locked(c)
    BY <1>2, Zenon DEF Locked
  <1>5. LockersAreBatches'
    BY <1>1, <1>2, Zenon DEF TypeInv, LockInv, LockersAreBatches
  <1>6. FullMeansOwned'
    BY <1>2, <1>3, <1>4, Zenon DEF TypeInv, LockInv, FullMeansOwned
  <1>7. QueueInv'
    <2>1. \A s \in Shards : \A i \in 1 .. Len(sendq[s]) :
            sendq[s][i] \in Callers /\ sendq[s][i] # c
      <3>1. sendq \in [Shards -> Seq(Callers)] /\ QueueInv
        BY Zenon DEF TypeInv, TypeOK, LockerTypeOK, LockInv
      <3> QED
        BY <1>2, <3>1 DEF QueueInv
    <2> QED
      BY <1>2, <1>3, <2>1 DEF TypeInv, LockInv, QueueInv
  <1>8. MutualExclusion'
    BY <1>3, <1>4, Zenon DEF TypeInv, LockInv, MutualExclusion, ShardOf
  <1> QED
    BY <1>5, <1>6, <1>7, <1>8, Zenon DEF LockInv

\* Lock takes a free shard or joins the queue of an owned one.
LEMMA LockInvLock ==
  ASSUME TypeInv, NEW c \in Callers, Lock(c)
  PROVE  LockInv'
  <1> DEFINE s == ShardOf(c)
  <1>0. /\ s \in Shards
        /\ pc \in [Callers -> PCs]
        /\ buf \in [Shards -> 0 .. 1]
        /\ sendq \in [Shards -> Seq(Callers)]
    BY CallerType, Zenon DEF TypeInv, TypeOK, CallerTypeOK, LockerTypeOK, ShardOf
  <1>1. /\ pc[c] = "lock"
        /\ req[c].op = "batch"
        /\ UNCHANGED req
        /\ ~Locked(c)
        /\ \A d \in Callers : d # c => pc'[d] = pc[d]
        /\ \A d \in Callers : ShardOf(d)' = ShardOf(d)
    BY <1>0, Zenon
    DEF TypeInv, LockInv, LockersAreBatches, Lock, Goto, ShardOf, Locked, getShard
  <1>2. \A d \in Callers : d # c => (Locked(d)' <=> Locked(d))
    BY <1>1, Zenon DEF Locked
  <1>3. LockersAreBatches'
    BY <1>1, Zenon DEF TypeInv, LockInv, LockersAreBatches
  <1>4. CASE LockFree(req[c].name) /\ Goto(c, "prepare")
    <2>1. /\ buf[s] = 0 /\ buf' = [buf EXCEPT ![s] = 1]
          /\ UNCHANGED sendq
          /\ pc'[c] = "prepare"
      BY <1>0, <1>4, Zenon DEF LockFree, Goto, ShardOf
    <2>2. Locked(c)'
      BY <1>1, <2>1, Zenon DEF Locked
    <2>3. \A d \in Callers : Locked(d) => ShardOf(d) # s /\ ShardOf(d) \in Shards
      BY <2>1, CallerType DEF TypeInv, LockInv, FullMeansOwned, ShardOf
    <2>4. FullMeansOwned'
      BY <1>0, <1>1, <1>2, <2>1, <2>2, <2>3 DEF TypeInv, LockInv, FullMeansOwned
    <2>5. QueueInv'
      <3>1. \A z \in Shards : \A i \in 1 .. Len(sendq[z]) :
              sendq[z][i] \in Callers /\ sendq[z][i] # c
        BY <1>0, <1>1 DEF TypeInv, LockInv, QueueInv
      <3>2. \A d \in Callers : pc'[d] = "blocked" <=> pc[d] = "blocked"
        BY <1>1, <2>1, Zenon
      <3>3. \A z \in Shards : sendq'[z] # << >> => buf'[z] = 1
        BY <1>0, <2>1, ZenonT(30) DEF TypeInv, LockInv, QueueInv
      <3>4. \A z \in Shards : \A i \in 1 .. Len(sendq[z]) :
              pc'[sendq[z][i]] = "blocked" /\ ShardOf(sendq[z][i]) = z
        BY <1>1, <3>1 DEF TypeInv, LockInv, QueueInv
      <3> QED
        BY <1>1, <2>1, <3>2, <3>3, <3>4 DEF TypeInv, LockInv, QueueInv, ShardOf
    <2>6. MutualExclusion'
      BY <1>1, <1>2, <2>3, Zenon DEF TypeInv, LockInv, MutualExclusion, ShardOf
    <2> QED
      BY <1>3, <2>4, <2>5, <2>6, Zenon DEF LockInv
  <1>5. CASE LockBlocks(c, req[c].name) /\ Goto(c, "blocked")
    <2>1. /\ buf[s] = 1 /\ UNCHANGED buf
          /\ sendq' = [sendq EXCEPT ![s] = Append(@, c)]
          /\ pc'[c] = "blocked"
      BY <1>0, <1>5, Zenon DEF LockBlocks, Goto, ShardOf
    <2>2. \A d \in Callers : Locked(d)' <=> Locked(d)
      BY <1>1, <1>2, <2>1, Zenon DEF Locked
    <2>3. FullMeansOwned'
      BY <1>1, <2>1, <2>2, Zenon DEF TypeInv, LockInv, FullMeansOwned
    <2>4. MutualExclusion'
      BY <1>1, <2>2, Zenon DEF TypeInv, LockInv, MutualExclusion, ShardOf
    <2>5. QueueInv'
      <3> DEFINE q == sendq[s]
      <3>0. q \in Seq(Callers) /\ Len(q) \in Nat
        BY <1>0
      <3>1. /\ Len(sendq'[s]) = Len(q) + 1
            /\ \A i \in 1 .. Len(q) : sendq'[s][i] = q[i]
            /\ sendq'[s][Len(q) + 1] = c
            /\ \A z \in Shards : z # s => sendq'[z] = sendq[z]
        BY <1>0, <2>1, <3>0
      <3>2. \A z \in Shards : \A i \in 1 .. Len(sendq[z]) :
              sendq[z][i] \in Callers /\ sendq[z][i] # c
        BY <1>0, <1>1 DEF TypeInv, LockInv, QueueInv
      <3>3. \A i \in 1 .. (Len(q) + 1) : i = Len(q) + 1 \/ i \in 1 .. Len(q)
        BY <3>0
      <3> HIDE DEF q
      <3>4. \A z \in Shards : sendq'[z] # << >> => buf'[z] = 1
        BY <1>0, <2>1, <3>1, Zenon DEF TypeInv, LockInv, QueueInv
      <3>5. \A z \in Shards : \A i \in 1 .. Len(sendq'[z]) :
              pc'[sendq'[z][i]] = "blocked" /\ ShardOf(sendq'[z][i]) = z
        <4>1. \A z \in Shards : \A i \in 1 .. Len(sendq[z]) :
                pc'[sendq[z][i]] = "blocked" /\ ShardOf(sendq[z][i]) = z
          BY <1>1, <3>2 DEF TypeInv, LockInv, QueueInv
        <4> QED
          BY <1>0, <2>1, <3>0, <3>1, <3>3, <4>1 DEF q
      <3>6. \A z \in Shards : \A i, j \in 1 .. Len(sendq'[z]) :
              sendq'[z][i] = sendq'[z][j] => i = j
        <4>1. \A z \in Shards : \A i, j \in 1 .. Len(sendq[z]) :
                sendq[z][i] = sendq[z][j] => i = j
          BY Zenon DEF TypeInv, LockInv, QueueInv
        <4>2. \A i \in 1 .. Len(q) : q[i] # c
          BY <1>0, <3>2, Zenon DEF q
        <4>3. \A i, j \in 1 .. (Len(q) + 1) : sendq'[s][i] = sendq'[s][j] => i = j
          BY <1>0, <3>0, <3>1, <3>3, <4>1, <4>2 DEF q
        <4> TAKE z \in Shards
        <4>4. CASE z = s
          BY <3>1, <4>3, <4>4, Zenon
        <4>5. CASE z # s
          BY <3>1, <4>1, <4>5, Zenon
        <4> QED
          BY <4>4, <4>5, Zenon
      <3>7. \A d \in Callers : pc'[d] = "blocked" =>
              \E i \in 1 .. Len(sendq'[ShardOf(d)]) : sendq'[ShardOf(d)][i] = d
        <4> SUFFICES ASSUME NEW d \in Callers, pc'[d] = "blocked"
                     PROVE  \E i \in 1 .. Len(sendq'[ShardOf(d)]) : sendq'[ShardOf(d)][i] = d
          OBVIOUS
        <4>1. CASE d = c
          BY <3>0, <3>1, <4>1
        <4>2. CASE d # c
          <5>1. PICK i \in 1 .. Len(sendq[ShardOf(d)]) : sendq[ShardOf(d)][i] = d
            BY <1>1, <4>2, Zenon DEF TypeInv, LockInv, QueueInv
          <5>2. ShardOf(d) \in Shards
            BY CallerType, Zenon DEF TypeInv, ShardOf
          <5> QED
            BY <3>0, <3>1, <5>1, <5>2 DEF q
        <4> QED
          BY <4>1, <4>2, Zenon
      <3> QED
        BY <1>1, <3>4, <3>5, <3>6, <3>7 DEF QueueInv, ShardOf
    <2> QED
      BY <1>3, <2>3, <2>4, <2>5, Zenon DEF LockInv
  <1> QED
    BY <1>4, <1>5, Zenon DEF Lock

\* The deferred Unlock frees the shard or hands it to the head of the queue.
LEMMA LockInvReturn ==
  ASSUME TypeInv, NEW c \in Callers, Return(c)
  PROVE  LockInv'
  <1> DEFINE s == ShardOf(c)
  <1>0. /\ s \in Shards
        /\ req[c].name \in Names
        /\ pc \in [Callers -> PCs]
        /\ buf \in [Shards -> 0 .. 1]
        /\ sendq \in [Shards -> Seq(Callers)]
    BY CallerType, Zenon DEF TypeInv, TypeOK, CallerTypeOK, LockerTypeOK, ShardOf
  <1>1. /\ pc[c] = "return"
        /\ UNCHANGED req
        /\ \A d \in Callers : ShardOf(d)' = ShardOf(d)
    BY Zenon DEF Return, ShardOf, getShard
  <1>2. /\ \A z \in Shards : \A i \in 1 .. Len(sendq[z]) :
             /\ sendq[z][i] \in Callers
             /\ pc[sendq[z][i]] = "blocked"
             /\ ShardOf(sendq[z][i]) = z
        /\ \A z \in Shards : \A i, j \in 1 .. Len(sendq[z]) :
             sendq[z][i] = sendq[z][j] => i = j
        /\ \A z \in Shards : sendq[z] # << >> => buf[z] = 1
        /\ \A d \in Callers : pc[d] = "blocked" =>
             \E i \in 1 .. Len(sendq[ShardOf(d)]) : sendq[ShardOf(d)][i] = d
    BY <1>0 DEF TypeInv, LockInv, QueueInv
  <1>3. \A d \in Callers : pc[d] \in {"lock", "blocked"} => req[d].op = "batch"
    BY Zenon DEF TypeInv, LockInv, LockersAreBatches
  <1>4. CASE req[c].op # "batch"
    <2>1. pc' = [pc EXCEPT ![c] = "idle"] /\ UNCHANGED lockVars
      BY <1>4, Zenon DEF Return, Goto
    <2>2. \A d \in Callers : /\ Locked(d)' <=> Locked(d)
                             /\ pc'[d] = "blocked" <=> pc[d] = "blocked"
                             /\ pc'[d] = "lock" <=> pc[d] = "lock"
      BY <1>0, <1>1, <1>4, <2>1, Zenon DEF Locked
    <2>3. LockersAreBatches'
      BY <1>1, <1>3, <2>2, Zenon DEF LockersAreBatches
    <2>4. FullMeansOwned'
      <3>1. buf' = buf /\ FullMeansOwned
        BY <2>1, Zenon DEF TypeInv, LockInv
      <3>2. \A d \in Callers : Locked(d)' => buf'[ShardOf(d)] = 1
        BY <2>2, <3>1, Zenon DEF FullMeansOwned
      <3>3. \A z \in Shards : buf'[z] = 1 => \E d \in Callers : Locked(d)' /\ ShardOf(d) = z
        BY <2>2, <3>1, Zenon DEF FullMeansOwned
      <3> QED
        BY <1>1, <3>2, <3>3, Zenon DEF FullMeansOwned
    <2>5. QueueInv'
      <3>1. sendq' = sendq /\ buf' = buf
        BY <2>1, Zenon
      <3>2. \A z \in Shards : \A i \in 1 .. Len(sendq[z]) :
              sendq[z][i] \in Callers /\ pc'[sendq[z][i]] = "blocked" /\ ShardOf(sendq[z][i]) = z
        BY <1>2, <2>2, Zenon
      <3>3. \A d \in Callers : pc'[d] = "blocked" =>
              \E i \in 1 .. Len(sendq[ShardOf(d)]) : sendq[ShardOf(d)][i] = d
        BY <1>2, <2>2, Zenon
      <3>4. \A d \in Callers : pc'[d] = "blocked" =>
              \E i \in 1 .. Len(sendq'[ShardOf(d)']) : sendq'[ShardOf(d)'][i] = d
        BY <1>1, <3>1, <3>3, Zenon
      <3>5. \A z \in Shards : \A i \in 1 .. Len(sendq'[z]) :
              pc'[sendq'[z][i]] = "blocked" /\ ShardOf(sendq[z][i])' = z
        <4> SUFFICES ASSUME NEW z \in Shards, NEW i \in 1 .. Len(sendq'[z])
                     PROVE  pc'[sendq'[z][i]] = "blocked" /\ ShardOf(sendq[z][i])' = z
          OBVIOUS
        <4>1. PICK d \in Callers : d = sendq[z][i] /\ d = sendq'[z][i]
          BY <3>1, <3>2, Zenon
        <4>2. pc'[d] = "blocked" /\ ShardOf(d)' = z
          BY <1>1, <3>1, <3>2, <4>1, Zenon
        <4> QED
          BY <4>1, <4>2, Zenon DEF ShardOf
      <3> QED
        BY <1>2, <3>1, <3>4, <3>5, Zenon DEF QueueInv
    <2>6. MutualExclusion'
      BY <1>1, <2>2, Zenon DEF TypeInv, LockInv, MutualExclusion, ShardOf
    <2> QED
      BY <2>3, <2>4, <2>5, <2>6, Zenon DEF LockInv
  <1>5. CASE req[c].op = "batch"
    <2>1. /\ Unlock(req[c].name)
          /\ pc' = [d \in Callers |->
                      IF d = c THEN "idle"
                      ELSE IF d \in Woken(req[c].name) THEN "prepare"
                      ELSE pc[d]]
      BY <1>5, Zenon DEF Return
    <2>2. Locked(c)
      BY <1>1, <1>5, Zenon DEF Locked
    <2>3. \A d \in Callers : Locked(d) /\ ShardOf(d) = s => d = c
      BY <2>2, Zenon DEF TypeInv, LockInv, MutualExclusion, ShardOf
    <2>4. CASE sendq[s] = << >>
      <3>1. /\ buf' = [buf EXCEPT ![s] = 0] /\ UNCHANGED sendq
            /\ pc' = [pc EXCEPT ![c] = "idle"]
        BY <1>0, <2>1, <2>4, Zenon DEF Unlock, Woken, ShardOf
      <3>2. /\ ~Locked(c)'
            /\ \A d \in Callers : d # c => (Locked(d)' <=> Locked(d))
            /\ \A d \in Callers : pc'[d] = "blocked" <=> pc[d] = "blocked"
            /\ \A d \in Callers : pc'[d] = "lock" <=> pc[d] = "lock"
        BY <1>0, <1>1, <3>1, Zenon DEF Locked
      <3>3. LockersAreBatches'
        BY <1>1, <1>3, <3>2, Zenon DEF LockersAreBatches
      <3>4. FullMeansOwned'
        <4>1. \A d \in Callers : Locked(d)' =>
                Locked(d) /\ ShardOf(d) # s /\ ShardOf(d) \in Shards
          BY <2>3, <3>2, CallerType, Zenon DEF TypeInv, ShardOf
        <4>2. \A d \in Callers : Locked(d)' => buf'[ShardOf(d)] = 1
          BY <1>0, <3>1, <4>1, Zenon DEF TypeInv, LockInv, FullMeansOwned
        <4>3. \A z \in Shards : buf'[z] = 1 =>
                \E d \in Callers : Locked(d)' /\ ShardOf(d) = z
          BY <1>0, <3>1, <3>2 DEF TypeInv, LockInv, FullMeansOwned
        <4> QED
          BY <1>1, <4>2, <4>3, Zenon DEF FullMeansOwned
      <3>5. QueueInv'
        <4>1. \A z \in Shards : \A i \in 1 .. Len(sendq[z]) : pc'[sendq[z][i]] = "blocked"
          <5> SUFFICES ASSUME NEW z \in Shards, NEW i \in 1 .. Len(sendq[z])
                       PROVE  pc'[sendq[z][i]] = "blocked"
            OBVIOUS
          <5>1. sendq[z][i] \in Callers /\ pc[sendq[z][i]] = "blocked"
            BY <1>2, Zenon
          <5> QED
            BY <3>2, <5>1, Zenon
        <4>2. \A z \in Shards : sendq'[z] # << >> => buf'[z] = 1
          BY <1>0, <1>2, <2>4, <3>1
        <4>3. \A d \in Callers : pc'[d] = "blocked" =>
                \E i \in 1 .. Len(sendq'[ShardOf(d)]) : sendq'[ShardOf(d)][i] = d
          BY <1>2, <3>1, <3>2
        <4>4. \A z \in Shards : /\ sendq'[z] = sendq[z]
                                /\ \A i, j \in 1 .. Len(sendq[z]) :
                                     sendq[z][i] = sendq[z][j] => i = j
          BY <1>2, <3>1, Zenon
        <4>5. \A z \in Shards : \A i \in 1 .. Len(sendq[z]) : ShardOf(sendq[z][i]) = z
          BY <1>2, Zenon
        <4> QED
          BY <1>1, <4>1, <4>2, <4>3, <4>4, <4>5 DEF QueueInv, ShardOf
      <3>6. MutualExclusion'
        BY <1>1, <3>2, Zenon DEF TypeInv, LockInv, MutualExclusion, ShardOf
      <3> QED
        BY <3>3, <3>4, <3>5, <3>6, Zenon DEF LockInv
    <2>5. CASE sendq[s] # << >>
      <3> DEFINE q == sendq[s]
      <3>h. PICK h \in Callers : h = Head(q)
        BY <1>0, <2>5
      <3>0. /\ q \in Seq(Callers) /\ Len(q) \in Nat /\ Len(q) > 0
            /\ h = q[1]
            /\ Len(Tail(q)) = Len(q) - 1
            /\ \A i \in 1 .. Len(Tail(q)) : Tail(q)[i] = q[i + 1] /\ i + 1 \in 1 .. Len(q)
        BY <1>0, <2>5, <3>h
      <3>1. /\ sendq' = [sendq EXCEPT ![s] = Tail(@)] /\ UNCHANGED buf
            /\ pc' = [d \in Callers |->
                        IF d = c THEN "idle" ELSE IF d = h THEN "prepare" ELSE pc[d]]
        BY <2>1, <2>5, <3>h, Zenon DEF Unlock, Woken, ShardOf
      <3>2. /\ h \in Callers /\ pc[h] = "blocked" /\ ShardOf(h) = s
            /\ h # c /\ req[h].op = "batch"
        BY <1>0, <1>1, <1>2, <1>3, <3>0
      <3> HIDE DEF q
      <3>3. /\ ~Locked(c)' /\ Locked(h)' /\ ~Locked(h)
            /\ \A d \in Callers : d # c /\ d # h => (Locked(d)' <=> Locked(d))
            /\ \A d \in Callers : pc'[d] = "blocked" <=> pc[d] = "blocked" /\ d # h
            /\ \A d \in Callers : pc'[d] = "lock" <=> pc[d] = "lock"
        <4>1. pc'[c] = "idle" /\ pc'[h] = "prepare"
          BY <3>1, <3>2, Zenon
        <4>2. \A d \in Callers : d # c /\ d # h => pc'[d] = pc[d]
          BY <3>1, Zenon
        <4>3. ~Locked(c)' /\ Locked(h)' /\ ~Locked(h)
          BY <1>1, <3>2, <4>1, Zenon DEF Locked
        <4>4. \A d \in Callers : d # c /\ d # h => (Locked(d)' <=> Locked(d))
          BY <1>1, <4>2, Zenon DEF Locked
        <4>5. \A d \in Callers : /\ pc'[d] = "blocked" <=> pc[d] = "blocked" /\ d # h
                                 /\ pc'[d] = "lock" <=> pc[d] = "lock"
          BY <1>1, <3>2, <4>1, <4>2, Zenon
        <4> QED
          BY <4>3, <4>4, <4>5, Zenon
      <3>4. LockersAreBatches'
        BY <1>1, <1>3, <3>3, Zenon DEF LockersAreBatches
      <3>5. FullMeansOwned'
        <4>1. \A d \in Callers : Locked(d)' => buf'[ShardOf(d)] = 1
          BY <2>2, <3>1, <3>2, <3>3 DEF TypeInv, LockInv, FullMeansOwned
        <4>2. \A z \in Shards : buf'[z] = 1 =>
                \E d \in Callers : Locked(d)' /\ ShardOf(d) = z
          <5> SUFFICES ASSUME NEW z \in Shards, buf'[z] = 1
                       PROVE  \E d \in Callers : Locked(d)' /\ ShardOf(d) = z
            OBVIOUS
          <5>1. PICK d \in Callers : Locked(d) /\ ShardOf(d) = z
            BY <3>1, Zenon DEF TypeInv, LockInv, FullMeansOwned
          <5> QED
            BY <3>2, <3>3, <5>1, Zenon
        <4> QED
          BY <1>1, <4>1, <4>2, Zenon DEF FullMeansOwned
      <3>6. MutualExclusion'
        BY <1>1, <2>3, <3>2, <3>3, Zenon DEF TypeInv, LockInv, MutualExclusion, ShardOf
      <3>7. QueueInv'
        <4>1. /\ sendq'[s] = Tail(q)
              /\ \A z \in Shards : z # s => sendq'[z] = sendq[z]
          BY <1>0, <3>1, Zenon DEF q
        <4>2. \A z \in Shards : sendq'[z] # << >> => buf'[z] = 1
          BY <1>0, <1>2, <2>5, <3>1, <4>1, Zenon
        <4>3. \A i \in 1 .. Len(Tail(q)) : /\ Tail(q)[i] # h
                                           /\ Tail(q)[i] \in Callers
                                           /\ pc[Tail(q)[i]] = "blocked"
                                           /\ ShardOf(Tail(q)[i]) = s
          BY <1>0, <1>2, <3>0 DEF q
        <4>4. \A z \in Shards : \A i \in 1 .. Len(sendq'[z]) :
                pc'[sendq'[z][i]] = "blocked" /\ ShardOf(sendq'[z][i]) = z
          <5> TAKE z \in Shards
          <5>1. CASE z = s
            <6>1. sendq'[z] = Tail(q)
              BY <4>1, <5>1, Zenon
            <6> QED
              BY <3>3, <4>3, <5>1, <6>1, Zenon
          <5>2. CASE z # s
            BY <1>2, <3>2, <3>3, <4>1, <5>2
          <5> QED
            BY <5>1, <5>2, Zenon
        <4>5. \A z \in Shards : \A i, j \in 1 .. Len(sendq'[z]) :
                sendq'[z][i] = sendq'[z][j] => i = j
          <5>1. \A i, j \in 1 .. Len(Tail(q)) : Tail(q)[i] = Tail(q)[j] => i = j
            BY <1>0, <1>2, <3>0 DEF q
          <5> TAKE z \in Shards
          <5>2. CASE z = s
            <6>1. sendq'[z] = Tail(q)
              BY <4>1, <5>2, Zenon
            <6> QED
              BY <5>1, <6>1, Zenon
          <5>3. CASE z # s
            BY <1>2, <4>1, <5>3
          <5> QED
            BY <5>2, <5>3, Zenon
        <4>6. \A d \in Callers : pc'[d] = "blocked" =>
                \E i \in 1 .. Len(sendq'[ShardOf(d)]) : sendq'[ShardOf(d)][i] = d
          <5> SUFFICES ASSUME NEW d \in Callers, pc'[d] = "blocked"
                       PROVE  \E i \in 1 .. Len(sendq'[ShardOf(d)]) : sendq'[ShardOf(d)][i] = d
            OBVIOUS
          <5>1. PICK i \in 1 .. Len(sendq[ShardOf(d)]) : sendq[ShardOf(d)][i] = d
            BY <1>2, <3>3, Zenon
          <5>2. CASE ShardOf(d) = s
            <6>1. i # 1
              BY <3>0, <3>3, <5>1, <5>2, ZenonT(30) DEF q
            <6>2. i - 1 \in 1 .. Len(Tail(q)) /\ Tail(q)[i - 1] = d
              BY <3>0, <5>1, <5>2, <6>1 DEF q
            <6> QED
              BY <4>1, <5>2, <6>2, Zenon
          <5>3. CASE ShardOf(d) # s
            <6>1. ShardOf(d) \in Shards
              BY CallerType, Zenon DEF TypeInv, ShardOf
            <6> QED
              BY <4>1, <5>1, <5>3, <6>1, Zenon
          <5> QED
            BY <5>2, <5>3, Zenon
        <4>7. \A d : ShardOf(d)' = ShardOf(d)
          BY <1>1, Zenon DEF ShardOf
        <4> QED
          BY <4>2, <4>4, <4>5, <4>6, <4>7 DEF QueueInv
      <3> QED
        BY <3>4, <3>5, <3>6, <3>7, Zenon DEF LockInv
    <2> QED
      BY <2>4, <2>5, Zenon
  <1> QED
    BY <1>4, <1>5, Zenon

\* Every caller step keeps the lock invariant.
LEMMA LockInvStep ==
  ASSUME TypeInv, NEW c \in Callers, Begin(c) \/ RejectBatch(c) \/ Step(c)
  PROVE  LockInv'
  <1>1. ASSUME RejectBatch(c) PROVE LockInv'
    BY <1>1, LockInvFrame, Zenon DEF RejectBatch
  <1>2. ASSUME NEW l \in PCs \ {"idle", "lock", "blocked"},
               pc[c] \in PCs \ {"idle", "lock", "blocked"},
               pc' = [pc EXCEPT ![c] = l], UNCHANGED <<req, buf, sendq>>
        PROVE  LockInv'
    <2>1. pc \in [Callers -> PCs]
      BY Zenon DEF TypeInv, TypeOK, CallerTypeOK
    <2>2. \A d \in Callers : d # c => pc'[d] = pc[d]
      BY <1>2, <2>1, Zenon
    <2>3. pc'[c] = l
      BY <1>2, <2>1, Zenon
    <2> QED
      BY <1>2, <2>2, <2>3, LockInvFrame, Zenon
  <1>3. ASSUME \/ Prepare(c) \/ Query(c) \/ Save(c) \/ Sign(c)
               \/ BuildFails(c) \/ BuildPanics(c)
        PROVE  LockInv'
    BY <1>2, <1>3, Zenon DEF Prepare, Query, Save, Sign, BuildFails, BuildPanics, Exit, Goto
  <1>4. ASSUME Broadcast(c) PROVE LockInv'
    BY <1>2, <1>4, Zenon DEF Broadcast, Simulate, Unsupported, BroadcastAsync,
          BroadcastAccepted, BroadcastRejected, BroadcastLost, Await, Succeed, Exit, Goto
  <1>5. ASSUME SendFailed(c) \/ BatchFailed(c) PROVE LockInv'
    BY <1>2, <1>5, Zenon DEF SendFailed, BatchFailed, Exit, Goto
  <1> QED
    BY <1>1, <1>3, <1>4, <1>5, LockInvBegin, LockInvLock, LockInvReturn, Zenon DEF Step

\* Disturbances stay below their bound.
LEMMA DisturbType ==
  ASSUME TypeOK, Next
  PROVE  disturbances' \in 0 .. MaxDisturb
  <1>1. UNCHANGED disturbances \/ Disturb
    <2>1. ASSUME NEW c \in Callers,
                 \/ Begin(c) \/ RejectBatch(c) \/ Lock(c) \/ Prepare(c) \/ Query(c)
                 \/ Save(c) \/ Sign(c) \/ BuildFails(c) \/ BuildPanics(c)
                 \/ SendFailed(c) \/ BatchFailed(c) \/ Return(c)
          PROVE  UNCHANGED disturbances \/ Disturb
      BY <2>1, Zenon DEF Begin, RejectBatch, Lock, Prepare, Query, Save, Sign,
                         BuildFails, BuildPanics, SendFailed, BatchFailed, Return
    <2>2. ASSUME NEW c \in Callers, Broadcast(c)
          PROVE  UNCHANGED disturbances \/ Disturb
      BY <2>2, Zenon
         DEF Broadcast, Simulate, Unsupported, BroadcastAsync, BroadcastAccepted,
             BroadcastRejected, BroadcastLost, Await
    <2>3. ASSUME Environment PROVE UNCHANGED disturbances \/ Disturb
      BY <2>3, Zenon DEF Environment, BlockDelivers, BlockFails, LateRequest,
                         OtherWallet, EntryDropped
    <2> QED
      BY <2>1, <2>2, <2>3, Zenon DEF Next, Step
  <1> QED
    BY <1>1, SenderAssumption DEF TypeOK, Disturb

\* The inductive invariant is inductive.
LEMMA NextTypeInv == TypeInv /\ [Next]_vars => TypeInv'
  <1> SUFFICES ASSUME TypeInv, [Next]_vars PROVE TypeInv'
    OBVIOUS
  <1>1. CASE UNCHANGED vars
    <2>1. UNCHANGED <<req, buf, sendq, pc>>
      BY <1>1, Zenon DEF vars
    <2>2. LockInv'
      BY <2>1, LockInvFrame, Zenon
    <2>3. TypeOK'
      BY <1>1, Zenon
      DEF vars, TypeInv, TypeOK, LockerTypeOK, CacheTypeOK, NodeTypeOK, CallerTypeOK, accepted
    <2>4. Progress'
      BY <1>1, Zenon DEF vars, TypeInv, Progress
    <2> QED
      BY <2>2, <2>3, <2>4, Zenon DEF TypeInv
  <1>2. CASE Next
    <2>1. TypeOK
      BY Zenon DEF TypeInv
    <2>2. /\ LockerTypeOK' /\ CacheTypeOK' /\ NodeTypeOK'
          /\ disturbances' \in 0 .. MaxDisturb
      BY <1>2, <2>1, LockerTypeStep, CacheTypeStep, NodeTypeStep, DisturbType, Zenon
    <2>3. CASE Environment
      <3>1. UNCHANGED <<pc, callerVars, lockVars>>
        BY <2>3, Zenon DEF Environment, BlockDelivers, BlockFails, LateRequest,
                    OtherWallet, EntryDropped
      <3>2. CallerTypeOK'
        BY <2>1, <3>1, Zenon DEF TypeOK, CallerTypeOK
      <3>3. Progress'
        BY <3>1, Zenon DEF TypeInv, Progress
      <3>4. LockInv'
        BY <3>1, LockInvFrame, Zenon
      <3> QED
        BY <2>2, <3>2, <3>3, <3>4, Zenon DEF TypeInv, TypeOK
    <2>4. ASSUME NEW c \in Callers, Begin(c) \/ RejectBatch(c) \/ Step(c)
          PROVE  TypeInv'
      BY <2>2, <2>4, CallerTypeStep, LockInvStep, Zenon DEF TypeInv, TypeOK
    <2> QED
      BY <1>2, <2>3, <2>4, Zenon DEF Next
  <1> QED
    BY <1>1, <1>2, Zenon

\* The callers other than the one that moves: SendBatch wakes at most one.
LEMMA OthersStay ==
  ASSUME TypeInv, NEW c \in Callers, Begin(c) \/ RejectBatch(c) \/ Step(c),
         NEW d \in Callers, d # c
  PROVE  /\ req'[d] = req[d] /\ calls'[d] = calls[d] /\ nres'[d] = nres[d]
         /\ seq'[d] = seq[d] /\ ret'[d] = ret[d]
         /\ pc'[d] = pc[d] \/ (pc[d] = "blocked" /\ pc'[d] = "prepare")
  <1>0. CallerTypeOK
    BY Zenon DEF TypeInv, TypeOK
  <1>1. CASE Begin(c)
    <2>1. /\ \E r : req' = [req EXCEPT ![c] = r] /\ seq' = [seq EXCEPT ![c] = r.seqArg]
          /\ \E l : pc' = [pc EXCEPT ![c] = l]
      BY <1>1, Zenon DEF Begin, Goto
    <2>2. req'[d] = req[d] /\ seq'[d] = seq[d] /\ pc'[d] = pc[d]
      BY <1>0, <2>1, Zenon DEF CallerTypeOK
    <2>3. calls'[d] = calls[d] /\ nres'[d] = nres[d] /\ ret' = ret
      BY <1>0, <1>1, Zenon DEF CallerTypeOK, Begin
    <2> QED
      BY <2>2, <2>3, Zenon
  <1>2. CASE RejectBatch(c)
    BY <1>0, <1>2, Zenon DEF CallerTypeOK, RejectBatch
  <1>3. CASE Return(c)
    BY <1>3, ReturnMoves, Zenon
  <1>4. CASE Lock(c) \/ Prepare(c) \/ Query(c) \/ Save(c) \/ Sign(c) \/ BuildFails(c) \/ BuildPanics(c)
    BY <1>0, <1>4, Zenon
       DEF CallerTypeOK, Lock, Prepare, Query, Save, Sign, BuildFails, BuildPanics, Exit, Goto
  <1>5. CASE Broadcast(c) \/ SendFailed(c) \/ BatchFailed(c)
    BY <1>0, <1>5, Zenon
       DEF CallerTypeOK, Broadcast, Simulate, Unsupported, BroadcastAsync, BroadcastAccepted,
           BroadcastRejected, BroadcastLost, Await, SendFailed, BatchFailed, Succeed, Exit, Goto
  <1> QED
    BY <1>1, <1>2, <1>3, <1>4, <1>5, Zenon DEF Step

\* Every variable keeps its type, the counters their bounds.
THEOREM TypeCorrect == Spec => []TypeOK
  <1>1. TypeInv => TypeOK
    BY Zenon DEF TypeInv
  <1> QED
    BY <1>1, InitTypeInv, NextTypeInv, PTL DEF Spec

\* base_client.go, SendBatch: the sharded channels exclude two calls whose
\* names hash to one shard, whatever the hash, the size, the number of
\* goroutines and the path by which a call leaves.
THEOREM Exclusion == Spec => []MutualExclusion
  <1>1. TypeInv => MutualExclusion
    BY Zenon DEF TypeInv, LockInv
  <1> QED
    BY <1>1, InitTypeInv, NextTypeInv, PTL DEF Spec

\* A caller blocked in Lock always waits for a call that will Unlock.
THEOREM WakeupPending == Spec => []NoLostWakeup
  <1>1. TypeInv => NoLostWakeup
    <2> SUFFICES ASSUME TypeInv, NEW c \in Callers, pc[c] = "blocked"
                 PROVE  \E d \in Callers : /\ Locked(d)
                                           /\ getShard(req[d].name) = getShard(req[c].name)
      BY Zenon DEF NoLostWakeup
    <2>1. ShardOf(c) \in Shards
      BY CallerType, Zenon DEF TypeInv, ShardOf
    <2>2. PICK i \in 1 .. Len(sendq[ShardOf(c)]) : sendq[ShardOf(c)][i] = c
      BY Zenon DEF TypeInv, LockInv, QueueInv
    <2>3. sendq[ShardOf(c)] # << >>
      BY <2>1, <2>2 DEF TypeInv, TypeOK, LockerTypeOK
    <2>4. buf[ShardOf(c)] = 1
      BY <2>1, <2>3, Zenon DEF TypeInv, LockInv, QueueInv
    <2> QED
      BY <2>1, <2>4, Zenon DEF TypeInv, LockInv, FullMeansOwned, ShardOf
  <1> QED
    BY <1>1, InitTypeInv, NextTypeInv, PTL DEF Spec

-----------------------------------------------------------------------------
(* Results: the retries, the node's replay protection, and nil errors.      *)

USE DEF callerVars, lockVars, nodeVars

\* The retry counter, relative to the type invariant.
LEMMA RetryStep ==
  ASSUME TypeInv, RetryBound, [Next]_vars
  PROVE  RetryBound'
  <1> USE SenderAssumption DEF Goto, Exit
  <1>0. CallerTypeOK /\ Progress
    BY Zenon DEF TypeInv, TypeOK
  <1>1. CASE UNCHANGED <<pc, callerVars>>
    BY <1>1, Zenon DEF RetryBound
  <1>2. ASSUME NEW c \in Callers, Begin(c) \/ RejectBatch(c)
        PROVE  RetryBound'
    <2>1. /\ tryCnt' = [tryCnt EXCEPT ![c] = 0]
          /\ \A d \in Callers : d # c => /\ req'[d] = req[d]
                                         /\ pc'[d] = pc[d]
                                         /\ ret'[d] = ret[d]
      BY <1>0, <1>2, ZenonT(30) DEF Begin, RejectBatch, CallerTypeOK
    <2> QED
      BY <1>0, <2>1 DEF RetryBound, CallerTypeOK
  <1>3. ASSUME NEW c \in Callers, pc[c] \notin {"idle", "return"},
               UNCHANGED <<req, tryCnt>>,
               NEW l \in PCs, pc' = [pc EXCEPT ![c] = l],
               \A d \in Callers : d # c => ret'[d] = ret[d]
        PROVE  RetryBound'
    <2>1. \A d \in Callers : d # c => pc'[d] = pc[d]
      BY <1>0, <1>3, Zenon DEF CallerTypeOK
    <2>2. tryCnt[c] < tryThreshold
      BY <1>0, <1>3, Zenon DEF Progress
    <2>3. ~(tryCnt[c] >= tryThreshold)
      BY <1>0, <2>2 DEF CallerTypeOK
    <2> QED
      BY <1>3, <2>1, <2>2, <2>3, Zenon DEF RetryBound
  <1>4. ASSUME NEW c \in Callers,
               \/ Lock(c) \/ Prepare(c) \/ Query(c) \/ Save(c) \/ Sign(c)
               \/ BuildFails(c) \/ BuildPanics(c) \/ SendFailed(c)
        PROVE  RetryBound'
    BY <1>0, <1>3, <1>4, Zenon
       DEF CallerTypeOK, Lock, Prepare, Query, Save, Sign, BuildFails, BuildPanics, SendFailed
  <1>5. ASSUME NEW c \in Callers, Broadcast(c)
        PROVE  RetryBound'
    BY <1>0, <1>3, <1>5, Zenon
       DEF CallerTypeOK, Broadcast, Simulate, Unsupported, BroadcastAsync,
           BroadcastAccepted, BroadcastRejected, BroadcastLost, Await, Succeed
  <1>6. ASSUME NEW c \in Callers, BatchFailed(c)
        PROVE  RetryBound'
    <2>1. CASE ~Cached
      BY <1>0, <1>3, <1>6, <2>1, Zenon DEF BatchFailed, CallerTypeOK
    <2>2. CASE Cached
      <3>1. /\ req' = req /\ pc[c] = "failed"
            /\ tryCnt' = [tryCnt EXCEPT ![c] = @ + 1]
            /\ \/ tryCnt[c] + 1 >= tryThreshold /\ Exit(c, "err")
               \/ tryCnt[c] + 1 < tryThreshold /\ Goto(c, "prepare") /\ UNCHANGED ret
        BY <1>0, <1>6, <2>2 DEF BatchFailed, CallerTypeOK
      <3> QED
        BY <1>0, <2>2, <3>1 DEF RetryBound, CallerTypeOK
    <2> QED
      BY <2>1, <2>2, Zenon
  <1>7. ASSUME NEW c \in Callers, Return(c)
        PROVE  RetryBound'
    BY <1>7, ReturnMoves DEF RetryBound
  <1>8. CASE Environment
    BY <1>1, <1>8, Zenon DEF Environment, BlockDelivers, BlockFails, LateRequest,
                      OtherWallet, EntryDropped
  <1> HIDE DEF Goto, Exit
  <1> QED
    BY <1>1, <1>2, <1>4, <1>5, <1>6, <1>7, <1>8, Zenon DEF Next, Step, vars

\* SendBatch: tryCnt counts the failed broadcasts of the whole call, so that
\* no call makes more than tryThreshold of them, and without the cache none
\* is retried.
THEOREM BoundedRetries == Spec => []RetryBound
  <1>1. Init => RetryBound
    BY SenderAssumption DEF Init, RetryBound
  <1>2. (TypeInv /\ RetryBound) /\ [Next]_vars => (TypeInv /\ RetryBound)'
    BY RetryStep, NextTypeInv, Zenon
  <1> QED
    BY <1>1, <1>2, InitTypeInv, PTL DEF Spec

-----------------------------------------------------------------------------
(* The node's replay protection: CheckTx and DeliverTx let every sequence   *)
(* of an account pass once, so that a transaction is in one place only.     *)

NodeInv ==
    /\ \A a \in Accounts : chainSeq[a] <= checkSeq[a]
    /\ \A t \in mempool : /\ chainSeq[t.acct] <= t.seq
                          /\ t.seq < checkSeq[t.acct]
    /\ \A t, u \in mempool : t.acct = u.acct /\ t.seq = u.seq => t = u
    /\ \A t \in delivered \cup failed : t.seq < chainSeq[t.acct]
    /\ delivered \cap failed = {}

\* The node starts with nothing accepted.
LEMMA NodeInvInit == Init => NodeInv
  BY DEF Init, NodeInit, NodeInv

\* CheckTx and the mempool let a sequence pass once.
LEMMA AdmitNodeInv ==
  ASSUME TypeOK, NodeInv, NEW tx \in Txs, CheckTx(tx), Admit(tx),
         UNCHANGED <<chainSeq, delivered, failed>>
  PROVE  NodeInv'
  <1>1. /\ chainSeq \in [Accounts -> Nat] /\ checkSeq \in [Accounts -> Nat]
        /\ mempool \subseteq Txs
        /\ tx.acct \in Accounts /\ tx.seq = checkSeq[tx.acct]
        /\ \A t \in Txs : t.acct \in Accounts /\ t.seq \in Nat
    BY Zenon DEF TypeOK, NodeTypeOK, accepted, Txs, CheckTx
  <1>2. /\ mempool' = mempool \cup {tx}
        /\ checkSeq' = [checkSeq EXCEPT ![tx.acct] = @ + 1]
    BY Zenon DEF Admit
  <1>3. \A a \in Accounts : chainSeq'[a] <= checkSeq'[a]
    BY <1>1, <1>2 DEF NodeInv
  <1>4. \A t \in mempool' : chainSeq'[t.acct] <= t.seq /\ t.seq < checkSeq'[t.acct]
    BY <1>1, <1>2 DEF NodeInv
  <1>5. \A t, u \in mempool' : t.acct = u.acct /\ t.seq = u.seq => t = u
    BY <1>1, <1>2 DEF NodeInv
  <1> QED
    BY <1>3, <1>4, <1>5, Zenon DEF NodeInv

\* A block moves one transaction out of the mempool and the sequence on.
LEMMA DeliverNodeInv ==
  ASSUME TypeOK, NodeInv, NEW tx \in mempool, NEW ok \in BOOLEAN, DeliverTx(tx, ok)
  PROVE  NodeInv'
  <1>1. /\ chainSeq \in [Accounts -> Nat] /\ checkSeq \in [Accounts -> Nat]
        /\ mempool \subseteq Txs /\ delivered \subseteq Txs /\ failed \subseteq Txs
        /\ tx.acct \in Accounts /\ tx.seq = chainSeq[tx.acct]
        /\ \A t \in Txs : t.acct \in Accounts /\ t.seq \in Nat
    BY Zenon DEF TypeOK, NodeTypeOK, accepted, Txs, DeliverTx
  <1>2. /\ mempool' = mempool \ {tx} /\ UNCHANGED checkSeq
        /\ chainSeq' = [chainSeq EXCEPT ![tx.acct] = @ + 1]
        /\ delivered' \cup failed' \subseteq delivered \cup failed \cup {tx}
        /\ \/ delivered' = delivered \cup {tx} /\ failed' = failed
           \/ failed' = failed \cup {tx} /\ delivered' = delivered
    BY Zenon DEF DeliverTx
  <1>3. \A a \in Accounts : chainSeq'[a] <= checkSeq'[a]
    BY <1>1, <1>2 DEF NodeInv
  <1>4. \A t \in mempool' : chainSeq'[t.acct] <= t.seq /\ t.seq < checkSeq'[t.acct]
    BY <1>1, <1>2 DEF NodeInv
  <1>5. \A t \in delivered' \cup failed' : t.seq < chainSeq'[t.acct]
    BY <1>1, <1>2 DEF NodeInv
  <1>6. tx \notin delivered \cup failed
    BY <1>1 DEF NodeInv
  <1>7. delivered' \cap failed' = {}
    BY <1>2, <1>6 DEF NodeInv
  <1> QED
    BY <1>2, <1>3, <1>4, <1>5, <1>7, Zenon DEF NodeInv

\* Every step of the client and of the node keeps the replay protection.
LEMMA NodeInvStep ==
  ASSUME TypeOK, NodeInv, Next
  PROVE  NodeInv'
  <1>1. CASE UNCHANGED nodeVars
    BY <1>1, Zenon DEF NodeInv
  <1>2. ASSUME NEW c \in Callers, BroadcastAccepted(c) PROVE NodeInv'
    <2>1. Tx(c) \in Txs
      BY CallerType, Zenon
    <2> QED
      BY <1>2, <2>1, AdmitNodeInv, Zenon DEF BroadcastAccepted
  <1>3. ASSUME NEW c \in Callers, BroadcastAsync(c) \/ BroadcastLost(c) PROVE NodeInv'
    BY <1>3, Zenon DEF BroadcastAsync, BroadcastLost, NodeInv
  <1>4. ASSUME NEW c \in Callers, Await(c) PROVE NodeInv'
    BY <1>1, <1>4, Zenon DEF Await
  <1>5. CASE BlockDelivers \/ BlockFails
    BY <1>5, DeliverNodeInv, Zenon DEF BlockDelivers, BlockFails
  <1>6. CASE LateRequest
    <2>1. PICK tx \in inbox : LateCheckTx(tx)
      BY <1>6, Zenon DEF LateRequest
    <2>2. tx \in Txs
      BY Zenon DEF TypeOK, NodeTypeOK
    <2>3. CASE CheckTx(tx)
      BY <2>1, <2>2, <2>3, AdmitNodeInv, Zenon DEF LateCheckTx
    <2>4. CASE ~CheckTx(tx)
      BY <2>1, <2>4, Zenon DEF LateCheckTx, NodeInv
    <2> QED
      BY <2>3, <2>4, Zenon
  <1>7. CASE OtherWallet
    <2>1. PICK a \in Accounts :
            Admit([acct |-> a, seq |-> checkSeq[a], c |-> Other,
                   k |-> disturbances, i |-> 1])
      BY <1>7, Zenon DEF OtherWallet
    <2>2. /\ [acct |-> a, seq |-> checkSeq[a], c |-> Other,
              k |-> disturbances, i |-> 1] \in Txs
          /\ CheckTx([acct |-> a, seq |-> checkSeq[a], c |-> Other,
                      k |-> disturbances, i |-> 1])
      BY SenderAssumption DEF TypeOK, NodeTypeOK, Txs, CheckTx
    <2> QED
      BY <1>7, <2>1, <2>2, AdmitNodeInv, Zenon DEF OtherWallet
  <1> HIDE DEF nodeVars
  <1>8. UNCHANGED <<nodeVars, ambiguous>> => UNCHANGED nodeVars
    OBVIOUS
  <1> QED
    BY <1>1, <1>2, <1>3, <1>4, <1>5, <1>6, <1>7, <1>8, NodeFrame, Zenon

-----------------------------------------------------------------------------
(* Nil errors.  What a caller knows of a segment is recorded when its       *)
(* result is appended; it stays true because accepted and delivered grow.   *)

ResultOf(c, i) ==
    /\ req[c].mode = "sync" => SegmentTxs(c, i) # {}
    /\ req[c].mode = "commit" => SegmentTxs(c, i) \cap delivered # {}

AllSent(c) == /\ pc[c] \in {"return", "idle"} /\ ret[c] = "ok"
              /\ req[c].op # "hash"
              => nres[c] = req[c].segs

ResultInv == \A c \in Callers : /\ \A i \in 1 .. nres[c] : ResultOf(c, i)
                                /\ AllSent(c)

\* What the node has accepted or executed stays so.
LEMMA NodeGrows ==
  ASSUME Next
  PROVE  accepted \subseteq accepted' /\ delivered \subseteq delivered'
  <1>1. CASE UNCHANGED <<nodeVars, ambiguous>>
    BY <1>1, Zenon DEF accepted
  <1>2. ASSUME NEW c \in Callers, \/ BroadcastAsync(c) \/ BroadcastAccepted(c)
                                  \/ BroadcastLost(c) \/ Await(c)
        PROVE  accepted \subseteq accepted' /\ delivered \subseteq delivered'
    BY <1>2, Zenon DEF BroadcastAsync, BroadcastAccepted, BroadcastLost, Await, Admit, accepted
  <1>3. CASE BlockDelivers \/ BlockFails
    BY <1>3, Zenon DEF BlockDelivers, BlockFails, DeliverTx, accepted
  <1>4. CASE LateRequest
    BY <1>4, Zenon DEF LateRequest, LateCheckTx, Admit, accepted
  <1>5. CASE OtherWallet
    BY <1>5, Zenon DEF OtherWallet, Admit, accepted
  <1> HIDE DEF nodeVars
  <1> QED
    BY <1>1, <1>2, <1>3, <1>4, <1>5, NodeFrame, Zenon

\* A caller that stays in its call keeps the results it has.
LEMMA ResultKept ==
  ASSUME accepted \subseteq accepted', delivered \subseteq delivered',
         NEW c \in Callers, NEW i,
         calls'[c] = calls[c], req'[c] = req[c], ResultOf(c, i)
  PROVE  ResultOf(c, i)'
  <1>1. SegmentTxs(c, i) \subseteq SegmentTxs(c, i)'
    BY Zenon DEF SegmentTxs
  <1> QED
    BY <1>1, Zenon DEF ResultOf

\* Steps after which the callers other than c are where they were, and c has
\* appended one result or none.
LEMMA ResultCaller ==
  ASSUME TypeInv, ResultInv, Next, NEW c \in Callers,
         UNCHANGED <<calls, req>>,
         \A d \in Callers : d # c => /\ nres'[d] = nres[d]
                                     /\ AllSent(d)',
         \/ nres'[c] = nres[c]
         \/ nres'[c] = nres[c] + 1 /\ \A i : i = nres'[c] => ResultOf(c, i)',
         AllSent(c)'
  PROVE  ResultInv'
  <1>0. \A d \in Callers : nres[d] \in Nat
    BY SenderAssumption DEF TypeInv, TypeOK, CallerTypeOK
  <1>1. ASSUME NEW d \in Callers, NEW i \in 1 .. nres[d] PROVE ResultOf(d, i)'
    BY <1>1, NodeGrows, ResultKept, Zenon DEF ResultInv
  <1>2. ASSUME NEW d \in Callers, NEW i \in 1 .. nres'[d] PROVE ResultOf(d, i)'
    <2>1. CASE i \in 1 .. nres[d]
      BY <1>1, <2>1, Zenon
    <2>2. CASE i \notin 1 .. nres[d]
      <3>1. d = c /\ i = nres[c] + 1
        BY <1>0, <2>2
      <3> QED
        BY <1>0, <2>2, <3>1, Zenon
    <2> QED
      BY <2>1, <2>2, Zenon
  <1> QED
    BY <1>2, Zenon DEF ResultInv

\* The transaction of a caller is one of its segment.
LEMMA SegmentResult ==
  ASSUME NEW c \in Callers, NEW n, n = nres[c] + 1, UNCHANGED <<calls, req>>,
         \/ req[c].mode = "sync" /\ Tx(c) \in accepted'
         \/ req[c].mode \notin {"sync", "commit"}
         \/ Tx(c) \in delivered'
  PROVE  ResultOf(c, n)'
  <1>1. Tx(c) \in accepted' => Tx(c) \in SegmentTxs(c, n)'
    BY Zenon DEF SegmentTxs, Tx
  <1>2. delivered' \subseteq accepted'
    BY Zenon DEF accepted
  <1> QED
    BY <1>1, <1>2, Zenon DEF ResultOf

\* Every step keeps the results true.
LEMMA ResultStep ==
  ASSUME TypeInv, ResultInv, [Next]_vars
  PROVE  ResultInv'
  <1>0. CallerTypeOK /\ Progress /\ TypeOK
    BY Zenon DEF TypeInv, TypeOK
  <1>n. \A d \in Callers : nres[d] \in Nat /\ req[d].segs \in Nat
    BY <1>0, SenderAssumption DEF CallerTypeOK, Requests
  <1>1. CASE UNCHANGED <<pc, callerVars>> /\ Next
    <2>1. ASSUME NEW d \in Callers, NEW i \in 1 .. nres[d] PROVE ResultOf(d, i)'
      BY <1>1, <2>1, NodeGrows, ResultKept, Zenon DEF ResultInv
    <2> QED
      BY <1>1, <2>1, Zenon DEF ResultInv, AllSent
  <1>2. CASE UNCHANGED vars
    <2>1. UNCHANGED <<pc, callerVars>> /\ accepted' = accepted /\ delivered' = delivered
      BY <1>2, Zenon DEF vars, accepted
    <2>2. \A d, i : ResultOf(d, i)' <=> ResultOf(d, i)
      BY <2>1, Zenon DEF ResultOf, SegmentTxs
    <2>3. \A d : AllSent(d)' <=> AllSent(d)
      BY <2>1, Zenon DEF AllSent
    <2> QED
      BY <2>1, <2>2, <2>3, Zenon DEF ResultInv
  <1>3. ASSUME NEW c \in Callers, Begin(c) \/ RejectBatch(c), Next
        PROVE  ResultInv'
    <2>1. /\ nres' = [nres EXCEPT ![c] = 0]
          /\ \A d \in Callers : d # c =>
                /\ pc'[d] = pc[d] /\ req'[d] = req[d] /\ ret'[d] = ret[d]
                /\ calls'[d] = calls[d] /\ nres'[d] = nres[d]
          /\ pc'[c] # "return" /\ (pc'[c] = "idle" => ret'[c] = "rejected")
      BY <1>0, <1>3, ZenonT(30) DEF Begin, RejectBatch, Goto, CallerTypeOK
    <2>2. ASSUME NEW d \in Callers, NEW i \in 1 .. nres'[d] PROVE ResultOf(d, i)'
      <3>1. d # c
        BY <1>0, <2>1, <2>2 DEF CallerTypeOK
      <3> QED
        BY <1>3, <2>1, <2>2, <3>1, NodeGrows, ResultKept, Zenon DEF ResultInv
    <2>3. \A d \in Callers : AllSent(d)'
      BY <2>1, Zenon DEF ResultInv, AllSent
    <2> QED
      BY <2>2, <2>3, Zenon DEF ResultInv
  \* Steps that append no result.
  <1>4. ASSUME NEW c \in Callers, Next, UNCHANGED <<calls, req, nres>>,
               NEW l \in PCs, pc' = [pc EXCEPT ![c] = l],
               \A d \in Callers : d # c => ret'[d] = ret[d],
               l \in {"return", "idle"} => ret'[c] # "ok" \/ req[c].op = "hash"
        PROVE  ResultInv'
    <2>1. \A d \in Callers : AllSent(d)'
      BY <1>0, <1>4, Zenon DEF ResultInv, AllSent, CallerTypeOK
    <2> QED
      BY <1>4, <2>1, ResultCaller, Zenon
  <1>5. ASSUME NEW c \in Callers, Next,
               \/ Lock(c) \/ Prepare(c) \/ Query(c) \/ Save(c) \/ Sign(c)
               \/ BuildFails(c) \/ BuildPanics(c) \/ Unsupported(c)
               \/ BroadcastRejected(c) \/ BroadcastLost(c)
               \/ SendFailed(c) \/ BatchFailed(c)
        PROVE  ResultInv'
    BY <1>0, <1>4, <1>5, Zenon
       DEF CallerTypeOK, Lock, Prepare, Query, Save, Sign, BuildFails, BuildPanics,
           Unsupported, BroadcastRejected, BroadcastLost, SendFailed, BatchFailed, Exit, Goto
  <1>6. ASSUME NEW c \in Callers, Next, Return(c)
        PROVE  ResultInv'
    <2>1. UNCHANGED callerVars
      BY <1>6, ReturnMoves, Zenon
    <2>2. \A d \in Callers : AllSent(d)'
      <3>1. \A d \in Callers : pc'[d] \in {"idle", "return"} => pc[d] \in {"idle", "return"}
        BY <1>6, ReturnMoves, Zenon
      <3> QED
        BY <2>1, <3>1, Zenon DEF ResultInv, AllSent
    <2> QED
      BY <1>6, <2>1, <2>2, ResultCaller, Zenon
  \* Steps that append a result.
  <1>7. ASSUME NEW c \in Callers, Next, UNCHANGED <<calls, req>>, Succeed(c),
               pc[c] \notin {"idle", "return"},
               \/ req[c].mode = "sync" /\ Tx(c) \in accepted'
               \/ req[c].mode \notin {"sync", "commit"}
               \/ Tx(c) \in delivered'
        PROVE  ResultInv'
    <2>1. /\ nres'[c] = nres[c] + 1
          /\ nres[c] < req[c].segs
          /\ \A d \in Callers : d # c => /\ nres'[d] = nres[d] /\ pc'[d] = pc[d]
                                         /\ ret'[d] = ret[d]
          /\ pc'[c] \in {"idle", "return"} => nres[c] + 1 >= req[c].segs
      BY <1>0, <1>n, <1>7 DEF Succeed, Exit, Goto, CallerTypeOK, Progress
    <2>2. \A d \in Callers : AllSent(d)'
      <3>1. ASSUME NEW d \in Callers, d # c PROVE AllSent(d)'
        BY <1>7, <2>1, <3>1, ZenonT(30) DEF ResultInv, AllSent
      <3>2. pc'[c] \in {"idle", "return"} => nres[c] + 1 = req[c].segs
        BY <1>n, <2>1
      <3>3. AllSent(c)'
        BY <1>7, <2>1, <3>2, Zenon DEF AllSent
      <3> QED
        BY <3>1, <3>3, Zenon
    <2>3. \A i : i = nres'[c] => ResultOf(c, i)'
      BY <1>7, <2>1, SegmentResult, Zenon
    <2> QED
      BY <1>7, <2>1, <2>2, <2>3, ResultCaller, Zenon
  <1>8. ASSUME NEW c \in Callers, Next, Simulate(c) \/ BroadcastAsync(c)
        PROVE  ResultInv'
    <2>1. CASE Succeed(c)
      BY <1>7, <1>8, <2>1, Zenon DEF Simulate, BroadcastAsync
    <2>2. CASE ~Succeed(c)
      BY <1>4, <1>8, <2>2, Zenon DEF Simulate, BroadcastAsync, Goto
    <2> QED
      BY <2>1, <2>2, Zenon
  <1>9. ASSUME NEW c \in Callers, Next, BroadcastAccepted(c)
        PROVE  ResultInv'
    <2>1. CASE req[c].mode = "sync"
      <3>1. Tx(c) \in accepted'
        BY <1>9, Zenon DEF BroadcastAccepted, Admit, accepted
      <3> QED
        BY <1>7, <1>9, <2>1, <3>1, ZenonT(40) DEF BroadcastAccepted
    <2>2. CASE req[c].mode # "sync"
      BY <1>4, <1>9, <2>2, Zenon DEF BroadcastAccepted, Goto
    <2> QED
      BY <2>1, <2>2, Zenon
  <1>10. ASSUME NEW c \in Callers, Next, Await(c)
         PROVE  ResultInv'
    <2>1. CASE Tx(c) \in delivered /\ Succeed(c)
      BY <1>7, <1>10, <2>1, Zenon DEF Await
    <2>2. CASE ~(Tx(c) \in delivered /\ Succeed(c))
      BY <1>4, <1>10, <2>2, Zenon DEF Await, Goto
    <2> QED
      BY <2>1, <2>2, Zenon
  <1>11. CASE Environment
    <2>1. UNCHANGED <<pc, callerVars>>
      BY <1>11, Zenon DEF Environment, BlockDelivers, BlockFails, LateRequest,
                   OtherWallet, EntryDropped
    <2> QED
      BY <1>1, <1>11, <2>1, Zenon DEF Next
  <1> QED
    BY <1>2, <1>3, <1>5, <1>6, <1>8, <1>9, <1>10, <1>11, Zenon DEF Next, Step, Broadcast

\* BuildAndSend, BuildAndSendWithAccount and SendBatch: a nil error that no
\* recovered panic produced means that every segment has passed CheckTx
\* (Sync) or has been executed (Commit).
THEOREM NilErrors == Spec => []OkMeansAccepted
  <1>1. Init => ResultInv
    BY DEF Init, ResultInv, AllSent
  <1>2. TypeInv /\ ResultInv /\ [Next]_vars => ResultInv'
    BY ResultStep, Zenon
  <1>3. TypeInv /\ ResultInv => OkMeansAccepted
    BY Zenon DEF ResultInv, ResultOf, AllSent, OkMeansAccepted
  <1> QED
    BY <1>1, <1>2, <1>3, InitTypeInv, NextTypeInv, PTL DEF Spec
=============================================================================
