-------------------------- MODULE TxLockProofs ------------------------------
(***************************************************************************)
(* TxSender implements FairLock: the line of a shard is the call between   *)
(* Lock and Unlock followed by the senders blocked on the channel.  And    *)
(* what the lock is for: where it covers the account, the sequences that   *)
(* SendBatch takes from the cache are the ones the node expects.           *)
(***************************************************************************)
EXTENDS TxSenderProofs

USE DEF AllOps, AllModes, PCs, callerVars, lockVars, nodeVars

Owns(c, s) == Locked(c) /\ ShardOf(c) = s

\* The line of a shard that c owns, in this state and in the next.
LEMMA LineOwned ==
  ASSUME MutualExclusion, NEW c \in Callers, NEW s \in Shards, Owns(c, s)
  PROVE  LineOf[s] = <<c>> \o sendq[s]
  <1> DEFINE owners == {d \in Callers : Locked(d) /\ getShard(req[d].name) = s}
  <1>1. owners = {c} BY DEF MutualExclusion, Owns, ShardOf
  <1>2. (CHOOSE d \in owners : TRUE) = c BY <1>1
  <1> QED BY <1>1, <1>2 DEF LineOf

\* The same in the next state.
LEMMA LineOwnedNext ==
  ASSUME MutualExclusion', NEW c \in Callers, NEW s \in Shards, Owns(c, s)'
  PROVE  LineOf'[s] = <<c>> \o sendq'[s]
  <1> DEFINE owners == {d \in Callers : Locked(d)' /\ (getShard(req[d].name))' = s}
  <1>1. owners = {c} BY DEF MutualExclusion, Owns, ShardOf
  <1>2. (CHOOSE d \in owners : TRUE) = c BY <1>1
  <1> QED BY <1>1, <1>2 DEF LineOf

\* A shard nobody owns has an empty line.
LEMMA LineFree ==
  ASSUME TypeInv, NEW s \in Shards, \A c \in Callers : ~Owns(c, s)
  PROVE  LineOf[s] = << >> /\ sendq[s] = << >> /\ buf[s] = 0
  <1>1. {d \in Callers : Locked(d) /\ getShard(req[d].name) = s} = {}
    BY Zenon DEF Owns, ShardOf
  <1>2. LineOf[s] = sendq[s] BY <1>1 DEF LineOf
  <1>3. buf[s] \in 0 .. 1 /\ buf[s] # 1
    BY Zenon DEF TypeInv, TypeOK, LockerTypeOK, LockInv, FullMeansOwned, Owns
  <1> QED BY <1>2, <1>3 DEF TypeInv, LockInv, QueueInv

\* Steps that neither take nor release a shard leave the lines alone.
LEMMA LineFrame ==
  ASSUME NEW T \in SUBSET Shards, \A s \in T : sendq'[s] = sendq[s],
         \A d \in Callers, s \in T : Owns(d, s)' <=> Owns(d, s)
  PROVE  \A s \in T : LineOf'[s] = LineOf[s]
  <1> SUFFICES ASSUME NEW s \in T PROVE LineOf'[s] = LineOf[s]
    OBVIOUS
  <1>1. {d \in Callers : Locked(d) /\ getShard(req[d].name) = s}
          = {d \in Callers : Locked(d)' /\ (getShard(req[d].name))' = s}
    BY Zenon DEF Owns, ShardOf
  <1> QED BY <1>1 DEF LineOf

\* A caller about to lock stands in no line.
LEMMA NotInLine ==
  ASSUME TypeInv, NEW c \in Callers, pc[c] = "lock"
  PROVE  ~Lines!InLine(c)
  <1> SUFFICES ASSUME NEW s \in Shards, NEW i \in 1 .. Len(LineOf[s]), LineOf[s][i] = c
               PROVE  FALSE
    BY Zenon DEF Lines!InLine
  <1>0. sendq[s] \in Seq(Callers) BY DEF TypeInv, TypeOK, LockerTypeOK
  <1>1. \A j \in 1 .. Len(sendq[s]) : sendq[s][j] # c
    BY Zenon DEF TypeInv, LockInv, QueueInv
  <1>2. CASE \A d \in Callers : ~Owns(d, s)
    BY <1>2, LineFree
  <1>3. ASSUME NEW d \in Callers, Owns(d, s) PROVE FALSE
    <2>1. LineOf[s] = <<d>> \o sendq[s]
      BY <1>3, LineOwned, Zenon DEF TypeInv, LockInv
    <2>2. d # c BY <1>3 DEF Owns, Locked
    <2>3. i = 1 \/ (i - 1 \in 1 .. Len(sendq[s]) /\ LineOf[s][i] = sendq[s][i - 1])
      BY <1>0, <2>1
    <2>4. i = 1 => LineOf[s][i] = d BY <1>0, <2>1
    <2> QED BY <1>1, <2>2, <2>3, <2>4
  <1> QED BY <1>2, <1>3

\* Lock puts the caller at the end of its line.
LEMMA JoinStep ==
  ASSUME TypeInv, TypeInv', NEW c \in Callers, Lock(c)
  PROVE  \E s \in Shards : Lines!Join(c, s)
  <1>s. PICK s \in Shards : s = ShardOf(c)
    BY CallerType, Zenon DEF TypeInv, ShardOf
  <1>0. /\ s \in Shards /\ pc[c] = "lock" /\ req[c].op = "batch"
        /\ pc \in [Callers -> PCs] /\ UNCHANGED req
        /\ sendq \in [Shards -> Seq(Callers)] /\ buf \in [Shards -> 0 .. 1]
    BY <1>s, CallerType, Zenon
    DEF TypeInv, TypeOK, CallerTypeOK, LockerTypeOK, ShardOf, Lock, LockInv, LockersAreBatches
  <1>1. MutualExclusion /\ MutualExclusion' BY DEF TypeInv, LockInv
  <1>2. \A d \in Callers, t \in Shards : d # c => (Owns(d, t)' <=> Owns(d, t))
    BY <1>s, <1>0, Zenon DEF Lock, Goto, Owns, Locked, ShardOf
  <1>3. \A t \in Shards : ~Owns(c, t) BY <1>s, <1>0 DEF Owns, Locked
  <1>4. \A t \in Shards \ {s} : LineOf'[t] = LineOf[t]
    <2>1. \A t \in Shards \ {s} : sendq'[t] = sendq[t]
      BY <1>s, <1>0, Zenon DEF Lock, LockFree, LockBlocks, ShardOf
    <2>2. \A t \in Shards \ {s} : ~Owns(c, t)' BY <1>s, <1>0 DEF Owns, ShardOf
    <2> QED BY <1>2, <1>3, <2>1, <2>2, LineFrame, Zenon
  <1>5. LineOf'[s] = Append(LineOf[s], c)
    <2>1. CASE LockFree(req[c].name) /\ Goto(c, "prepare")
      <3>1. buf[s] = 0 /\ UNCHANGED sendq BY <1>s, <2>1 DEF LockFree, ShardOf
      <3>2. \A d \in Callers : ~Owns(d, s)
        BY <1>s, <3>1 DEF Owns, TypeInv, LockInv, FullMeansOwned
      <3>3. LineOf[s] = << >> /\ sendq[s] = << >> BY <1>s, <1>0, <3>2, LineFree
      <3>4. Owns(c, s)' BY <1>s, <1>0, <2>1 DEF Owns, Locked, Goto, ShardOf
      <3>5. LineOf'[s] = <<c>> \o sendq'[s] BY <1>1, <3>4, LineOwnedNext, Zenon
      <3>6. \A q \in Seq(Callers) : q = << >> => <<c>> \o q = Append(q, c)
        OBVIOUS
      <3> QED BY <1>0, <3>1, <3>3, <3>5, <3>6
    <2>2. CASE LockBlocks(c, req[c].name) /\ Goto(c, "blocked")
      <3>1. buf[s] = 1 /\ sendq' = [sendq EXCEPT ![s] = Append(@, c)]
        BY <1>s, <2>2, Zenon DEF LockBlocks, ShardOf
      <3>2. PICK o \in Callers : Owns(o, s)
        BY <1>s, <1>0, <3>1, Zenon DEF Owns, TypeInv, LockInv, FullMeansOwned
      <3>3. LineOf[s] = <<o>> \o sendq[s] BY <1>s, <1>0, <1>1, <3>2, LineOwned, Zenon
      <3>4. Owns(o, s)' BY <1>s, <1>0, <1>2, <1>3, <3>2
      <3>5. LineOf'[s] = <<o>> \o sendq'[s] BY <1>1, <3>4, LineOwnedNext, Zenon
      <3>6. sendq'[s] = Append(sendq[s], c) /\ sendq[s] \in Seq(Callers) BY <1>s, <1>0, <3>1
      <3>7. \A q \in Seq(Callers) : <<o>> \o Append(q, c) = Append(<<o>> \o q, c)
        OBVIOUS
      <3> QED BY <3>3, <3>5, <3>6, <3>7
    <2> QED BY <2>1, <2>2 DEF Lock
  <1>6. LineOf' = [LineOf EXCEPT ![s] = Append(@, c)]
    <2>1. LineOf = [t \in Shards |-> LineOf[t]] /\ LineOf' = [t \in Shards |-> LineOf'[t]]
      BY DEF LineOf
    <2> QED BY <1>s, <1>0, <1>4, <1>5, <2>1
  <1> QED BY <1>s, <1>0, <1>6, NotInLine, Zenon DEF Lines!Join

\* The deferred Unlock takes the owner out, and the next in line owns.
LEMMA LeaveStep ==
  ASSUME TypeInv, TypeInv', NEW c \in Callers, Return(c), req[c].op = "batch"
  PROVE  \E s \in Shards : Lines!Leave(s)
  <1>s. PICK s \in Shards : s = ShardOf(c)
    BY CallerType, Zenon DEF TypeInv, ShardOf
  <1>0. /\ s \in Shards /\ pc[c] = "return" /\ UNCHANGED req
        /\ req[c].name \in Names /\ s = getShard(req[c].name)
        /\ sendq \in [Shards -> Seq(Callers)] /\ buf \in [Shards -> 0 .. 1]
    BY <1>s, CallerType, Zenon DEF TypeInv, TypeOK, CallerTypeOK, LockerTypeOK, ShardOf, Return
  <1>1. MutualExclusion /\ MutualExclusion' BY DEF TypeInv, LockInv
  <1>2. /\ Unlock(req[c].name)
        /\ \A d \in Callers : pc'[d] = IF d = c THEN "idle"
                                       ELSE IF d \in Woken(req[c].name) THEN "prepare"
                                       ELSE pc[d]
    BY Zenon DEF Return
  <1>3. \A d \in Woken(req[c].name) : /\ d \in Callers /\ ShardOf(d) = s
                                      /\ pc[d] = "blocked" /\ req[d].op = "batch"
    BY <1>s, <1>0, WokenBlocked, Zenon
  <1>4. Owns(c, s) BY <1>s, <1>0 DEF Owns, Locked
  <1>5. LineOf[s] = <<c>> \o sendq[s] BY <1>s, <1>0, <1>1, <1>4, LineOwned
  <1>6. \A t \in Shards \ {s} : LineOf'[t] = LineOf[t]
    <2>1. \A t \in Shards \ {s} : sendq'[t] = sendq[t]
      BY <1>s, <1>0, <1>2, Zenon DEF Unlock
    <2>2. ASSUME NEW d \in Callers, NEW t \in Shards \ {s}
          PROVE  Owns(d, t)' <=> Owns(d, t)
      <3>1. t # s BY Zenon
      <3>2. d = c => ~Owns(d, t) /\ ~Owns(d, t)'
        BY <1>s, <1>0, <3>1, Zenon DEF Owns, ShardOf
      <3>3. d \in Woken(req[c].name) => ~Owns(d, t) /\ ~Owns(d, t)'
        BY <1>s, <1>0, <1>3, <3>1, Zenon DEF Owns, ShardOf
      <3>4. CASE d # c /\ d \notin Woken(req[c].name)
        BY <1>0, <1>2, <3>4, Zenon DEF Owns, Locked, ShardOf
      <3> QED BY <3>2, <3>3, <3>4, Zenon
    <2> QED BY <2>1, <2>2, LineFrame, Zenon
  <1>7. LineOf'[s] = sendq[s]
    <2>1. CASE sendq[s] = << >>
      <3>1. buf' = [buf EXCEPT ![s] = 0] /\ UNCHANGED sendq
        BY <1>s, <1>0, <1>2, <2>1, Zenon DEF Unlock
      <3>2. \A d \in Callers : ~Owns(d, s)'
        <4>1. Woken(req[c].name) = {} BY <1>s, <1>0, <2>1 DEF Woken
        <4>2. ~Owns(c, s)' BY <1>2, Zenon DEF Owns, Locked
        <4>3. \A d \in Callers : d # c => ~Owns(d, s)
          BY <1>1, <1>4, Zenon DEF Owns, ShardOf, MutualExclusion
        <4>4. \A d \in Callers : d # c => pc'[d] = pc[d]
          BY <1>2, <4>1, Zenon
        <4> QED BY <1>0, <4>2, <4>3, <4>4, Zenon DEF Owns, Locked, ShardOf
      <3>3. {d \in Callers : Locked(d)' /\ (getShard(req[d].name))' = s} = {}
        BY <3>2, Zenon DEF Owns, ShardOf
      <3> QED BY <1>s, <1>0, <3>1, <3>3 DEF LineOf
    <2>2. CASE sendq[s] # << >>
      <3>1. sendq' = [sendq EXCEPT ![s] = Tail(@)]
        BY <1>s, <1>0, <1>2, <2>2, Zenon DEF Unlock
      <3>2. PICK h : h = Head(sendq[s]) /\ Woken(req[c].name) = {h}
        BY <1>s, <1>0, <2>2, Zenon DEF Woken
      <3>3. Owns(h, s)'
        BY <1>s, <1>0, <1>2, <1>3, <3>2, Zenon DEF Owns, Locked, ShardOf
      <3>4. LineOf'[s] = <<h>> \o sendq'[s]
        <4>1. h \in Callers BY <1>3, <3>2, Zenon
        <4> QED BY <1>1, <3>3, <4>1, LineOwnedNext, Zenon
      <3>5. \A q \in Seq(Callers) : q # << >> => <<Head(q)>> \o Tail(q) = q
        OBVIOUS
      <3> QED BY <1>s, <1>0, <2>2, <3>1, <3>2, <3>4, <3>5, Zenon
    <2> QED BY <2>1, <2>2
  <1>8. LineOf[s] # << >> /\ Tail(LineOf[s]) = sendq[s]
    <2>1. \A q \in Seq(Callers) : <<c>> \o q # << >> /\ Tail(<<c>> \o q) = q
      OBVIOUS
    <2> QED BY <1>s, <1>0, <1>5, <2>1
  <1>9. LineOf' = [LineOf EXCEPT ![s] = Tail(@)]
    <2>1. LineOf = [t \in Shards |-> LineOf[t]] /\ LineOf' = [t \in Shards |-> LineOf'[t]]
      BY DEF LineOf
    <2> QED BY <1>s, <1>0, <1>6, <1>7, <1>8, <2>1
  <1> QED BY <1>s, <1>0, <1>8, <1>9, Zenon DEF Lines!Leave

\* Every other step leaves all lines as they are.
LEMMA LineStutter ==
  ASSUME TypeInv, [Next]_vars,
         ~\E c \in Callers : Lock(c) \/ (Return(c) /\ req[c].op = "batch")
  PROVE  UNCHANGED LineOf
  <1>0. CallerTypeOK BY Zenon DEF TypeInv, TypeOK
  <1>1. UNCHANGED sendq
    BY LockFrame, Zenon DEF vars, Return
  <1>2. ASSUME UNCHANGED req,
               \A d \in Callers : pc'[d] \in {"idle", "lock", "blocked"}
                                    <=> pc[d] \in {"idle", "lock", "blocked"}
        PROVE  \A d \in Callers, s \in Shards : Owns(d, s)' <=> Owns(d, s)
    BY <1>2, Zenon DEF Owns, Locked, ShardOf
  <1>3. ASSUME NEW c \in Callers, UNCHANGED req, NEW l \in PCs,
               pc' = [pc EXCEPT ![c] = l],
               pc[c] \notin {"idle", "lock", "blocked"},
               l \notin {"idle", "lock", "blocked"}
        PROVE  \A d \in Callers, s \in Shards : Owns(d, s)' <=> Owns(d, s)
    BY <1>0, <1>2, <1>3, Zenon DEF CallerTypeOK
  <1>4. \A d \in Callers, s \in Shards : Owns(d, s)' <=> Owns(d, s)
    <2>1. CASE UNCHANGED <<pc, req>>
      BY <1>2, <2>1, Zenon
    <2>2. ASSUME NEW c \in Callers, Begin(c)
          PROVE  \A d \in Callers, s \in Shards : Owns(d, s)' <=> Owns(d, s)
      <3>1. \A d \in Callers : d # c => pc'[d] = pc[d] /\ req'[d] = req[d]
        BY <1>0, <2>2 DEF Begin, Goto, CallerTypeOK
      <3>2. pc[c] = "idle" /\ (req'[c].op = "batch" => pc'[c] = "lock")
        BY <1>0, <2>2, Zenon DEF Begin, Goto, CallerTypeOK
      <3> QED BY <3>1, <3>2 DEF Owns, Locked, ShardOf
    <2>3. ASSUME NEW c \in Callers, Return(c), req[c].op # "batch"
          PROVE  \A d \in Callers, s \in Shards : Owns(d, s)' <=> Owns(d, s)
      <3>1. UNCHANGED req /\ \A d \in Callers : d # c => pc'[d] = pc[d]
        BY <1>0, <2>3, Zenon DEF Return, Goto, CallerTypeOK
      <3> QED BY <2>3, <3>1 DEF Owns, Locked, ShardOf
    <2>4. ASSUME NEW c \in Callers,
                 \/ Prepare(c) \/ Query(c) \/ Save(c) \/ Sign(c) \/ BuildFails(c)
                 \/ BuildPanics(c) \/ SendFailed(c) \/ BatchFailed(c)
          PROVE  \A d \in Callers, s \in Shards : Owns(d, s)' <=> Owns(d, s)
      BY <1>3, <2>4, ZenonT(40) DEF Prepare, Query, Save, Sign, BuildFails, BuildPanics,
                        SendFailed, BatchFailed, Exit, Goto
    <2>5. ASSUME NEW c \in Callers, Broadcast(c)
          PROVE  \A d \in Callers, s \in Shards : Owns(d, s)' <=> Owns(d, s)
      BY <1>3, <2>5, Zenon DEF Broadcast, Simulate, Unsupported, BroadcastAsync,
                        BroadcastAccepted, BroadcastRejected, BroadcastLost,
                        Await, Succeed, Exit, Goto
    <2>6. ASSUME NEW c \in Callers, RejectBatch(c) PROVE UNCHANGED <<pc, req>>
      BY <2>6, Zenon DEF RejectBatch
    <2>7. CASE Environment
      BY <2>1, <2>7, Zenon DEF Environment, BlockDelivers, BlockFails, LateRequest,
                        OtherWallet, EntryDropped
    <2>8. UNCHANGED vars => UNCHANGED <<pc, req>> BY DEF vars
    <2> QED BY <2>1, <2>2, <2>3, <2>4, <2>5, <2>6, <2>7, <2>8, ZenonT(40) DEF Next, Step
  <1>5. \A s \in Shards : LineOf'[s] = LineOf[s]
    BY <1>1, <1>4, LineFrame, Zenon
  <1>6. LineOf = [t \in Shards |-> LineOf[t]] /\ LineOf' = [t \in Shards |-> LineOf'[t]]
    BY DEF LineOf
  <1> QED BY <1>5, <1>6

\* Lock and Unlock of SendBatch: every step of the client is a step of the
\* abstract lock or leaves the lines alone, so that shards are handed out in
\* the order of the calls of Lock.
THEOREM FirstComeFirstServed == Spec => ImplementsFairLock
  <1>1. Init => Lines!Init
    <2> SUFFICES ASSUME Init PROVE Lines!Init OBVIOUS
    <2>1. TypeInv BY InitTypeInv
    <2>2. \A s \in Shards : LineOf[s] = << >>
      BY <2>1, LineFree, Zenon DEF Init, Owns, Locked
    <2> QED BY <2>2 DEF Lines!Init, LineOf
  <1>2. TypeInv /\ TypeInv' /\ [Next]_vars => [Lines!Next]_LineOf
    <2> SUFFICES ASSUME TypeInv, TypeInv', [Next]_vars PROVE [Lines!Next]_LineOf
      OBVIOUS
    <2>1. ASSUME NEW c \in Callers, Lock(c) PROVE Lines!Next
      BY <2>1, JoinStep, Zenon DEF Lines!Next
    <2>2. ASSUME NEW c \in Callers, Return(c), req[c].op = "batch" PROVE Lines!Next
      BY <2>2, LeaveStep, Zenon DEF Lines!Next
    <2> QED BY <2>1, <2>2, LineStutter
  <1> QED BY <1>1, <1>2, InitTypeInv, NextTypeInv, PTL
          DEF Spec, ImplementsFairLock, Lines!Spec

-----------------------------------------------------------------------------
(* The sequences of SendBatch.  The cache has the sequence that was last    *)
(* handed out, one less than the one CheckTx expects, except while a caller *)
(* holds one that it has not used; that caller has the lock.                *)

\* A client whose callers use SendBatch only, wait for CheckTx, give no sequence of
\* their own, and have one shard for the names of an account.
LockedOnly ==
    /\ Cached
    /\ Ops = {"batch"} /\ Modes \subseteq {"sync", "commit"} /\ SeqArgs = {0}
    /\ \A m, n \in Names : AddrOf[m] = AddrOf[n] => getShard(m) = getShard(n)

\* No sequence of the account has been handed out.
Unused(a) == cache[a] = None /\ chainSeq[a] = checkSeq[a]

\* The cache has the last sequence that CheckTx let pass, or none was sent.
Settled(a) == Unused(a) \/ (cache[a] \in Nat /\ cache[a] + 1 = checkSeq[a])

\* c holds a sequence that is not used yet.
Holding(c) == pc[c] \in {"sign", "broadcast"}

CallerQuiet(c) ==
    /\ pc[c] # "failed" /\ ret[c] \in {"none", "ok", "rejected"}
    /\ pc[c] = "query" => Unused(acct(c))
    /\ pc[c] = "save" => seq[c] = checkSeq[acct(c)]
    /\ Holding(c) => seq[c] = checkSeq[acct(c)] /\ cache[acct(c)] = seq[c]

QuietState ==
    /\ inbox = {} /\ failed = {}
    /\ \A a \in Accounts : Settled(a) \/ \E c \in Callers : Holding(c) /\ acct(c) = a
    /\ \A c \in Callers : CallerQuiet(c)

QuietInv == LockedOnly /\ disturbances = 0 => QuietState

\* A caller that is past its lock.
Inside(c) == pc[c] \notin {"idle", "lock", "blocked"}

\* All requests are the ones of LockedOnly.
LEMMA QuietRequest ==
  ASSUME LockedOnly, TypeInv, NEW c \in Callers
  PROVE  /\ req[c].op = "batch" /\ req[c].mode \in {"sync", "commit"} /\ req[c].seqArg = 0
         /\ req[c].name \in Names /\ acct(c) \in Accounts
  <1>1. req[c] \in Requests /\ req[c].name \in Names /\ acct(c) \in Accounts
    BY CallerType, Zenon DEF TypeInv
  <1>2. req[c].op \in Ops /\ req[c].mode \in Modes /\ req[c].seqArg \in SeqArgs
    BY <1>1, Zenon DEF Requests
  <1> QED BY <1>1, <1>2, Zenon DEF LockedOnly

\* The lock of a name is a lock of its account.
LEMMA Apart ==
  ASSUME LockedOnly, TypeInv, NEW c \in Callers, NEW d \in Callers, Inside(c), Inside(d),
         acct(c) = acct(d)
  PROVE  c = d
  <1>1. getShard(req[c].name) = getShard(req[d].name)
    BY QuietRequest, Zenon DEF LockedOnly, acct
  <1>2. Locked(c) /\ Locked(d)
    BY QuietRequest, Zenon DEF Locked, Inside
  <1> QED BY <1>1, <1>2, Zenon DEF TypeInv, LockInv, MutualExclusion

\* Whoever is inside and holds no sequence has a settled account.
LEMMA SettledInside ==
  ASSUME LockedOnly, TypeInv, QuietState, NEW c \in Callers, Inside(c), ~Holding(c)
  PROVE  Settled(acct(c))
  <1>1. acct(c) \in Accounts BY QuietRequest, Zenon
  <1>2. ASSUME NEW d \in Callers, Holding(d), acct(d) = acct(c) PROVE FALSE
    <2>1. Inside(d) BY <1>2, Zenon DEF Holding, Inside
    <2> QED BY <1>2, <2>1, Apart, Zenon
  <1> QED BY <1>1, <1>2, Zenon DEF QuietState

\* A step of a caller inside changes its own account only.
LEMMA QuietMove ==
  ASSUME LockedOnly, TypeInv, QuietState, NEW c \in Callers, Inside(c),
         UNCHANGED <<req, chainSeq, inbox, failed>>,
         \A d \in Callers : d # c => pc'[d] = pc[d] /\ seq'[d] = seq[d] /\ ret'[d] = ret[d],
         \A a \in Accounts : a # acct(c) => cache'[a] = cache[a] /\ checkSeq'[a] = checkSeq[a],
         CallerQuiet(c)', Holding(c)' \/ Settled(acct(c))'
  PROVE  QuietState'
  <1>1. \A d \in Callers : acct(d)' = acct(d) /\ acct(d) \in Accounts
    BY QuietRequest, Zenon DEF acct
  <1>2. ASSUME NEW d \in Callers, d # c PROVE CallerQuiet(d)'
    <2>1. CASE Inside(d)
      <3>1. acct(d) # acct(c) BY <1>2, <2>1, Apart, Zenon
      <3>2. cache'[acct(d)] = cache[acct(d)] /\ checkSeq'[acct(d)] = checkSeq[acct(d)]
        BY <1>1, <3>1, Zenon
      <3>3. Unused(acct(d)) => Unused(acct(d))'
        BY <1>1, <3>2, Zenon DEF Unused
      <3>4. CallerQuiet(d) BY Zenon DEF QuietState
      <3>5. pc'[d] # "failed" /\ ret'[d] \in {"none", "ok", "rejected"}
        BY <1>2, <3>4, Zenon DEF CallerQuiet
      <3>6. pc'[d] = "query" => Unused(acct(d))'
        BY <1>2, <3>3, <3>4, Zenon DEF CallerQuiet
      <3>7. pc'[d] = "save" => seq'[d] = checkSeq'[acct(d)]
        BY <1>2, <3>2, <3>4, Zenon DEF CallerQuiet
      <3>8. Holding(d)' => seq'[d] = checkSeq'[acct(d)] /\ cache'[acct(d)] = seq'[d]
        BY <1>2, <3>2, <3>4, Zenon DEF CallerQuiet, Holding
      <3> QED BY <1>1, <3>5, <3>6, <3>7, <3>8, Zenon DEF CallerQuiet
    <2>2. CASE ~Inside(d)
      BY <1>2, <2>2, Zenon DEF QuietState, CallerQuiet, Holding, Inside
    <2> QED BY <2>1, <2>2
  <1>3. ASSUME NEW a \in Accounts
        PROVE  Settled(a)' \/ \E d \in Callers : (Holding(d) /\ acct(d) = a)'
    <2>1. CASE a = acct(c)
      BY <1>1, <2>1, Zenon
    <2>2. ASSUME a # acct(c), Settled(a) PROVE Settled(a)'
      BY <2>2, Zenon DEF Settled, Unused
    <2>3. ASSUME a # acct(c), NEW d \in Callers, Holding(d), acct(d) = a
          PROVE  (Holding(d) /\ acct(d) = a)'
      BY <1>1, <2>3, Zenon DEF Holding
    <2> QED BY <2>1, <2>2, <2>3, Zenon DEF QuietState
  <1>4. inbox' = {} /\ failed' = {} BY Zenon DEF QuietState
  <1> QED BY <1>2, <1>3, <1>4, Zenon DEF QuietState

\* Beginning, waiting for the lock, being woken and returning leave the sequences alone.
LEMMA QuietAside ==
  ASSUME QuietState, UNCHANGED <<cache, nodeVars>>,
         \A d \in Callers :
            /\ ret'[d] \in {"none", "ok", "rejected"}
            /\ \/ pc'[d] = pc[d] /\ seq'[d] = seq[d] /\ req'[d] = req[d]
               \/ ~Holding(d) /\ pc'[d] \in {"idle", "lock", "blocked", "prepare"}
  PROVE  QuietState'
  <1>1. \A a : (Unused(a) => Unused(a)') /\ (Settled(a) => Settled(a)')
    BY Zenon DEF Unused, Settled
  <1>2. ASSUME NEW d \in Callers PROVE CallerQuiet(d)'
    <2>1. CASE pc'[d] = pc[d] /\ seq'[d] = seq[d] /\ req'[d] = req[d]
      <3>1. acct(d)' = acct(d) BY <2>1, Zenon DEF acct
      <3>2. CallerQuiet(d) BY Zenon DEF QuietState
      <3>3. (pc'[d] = "query" => Unused(acct(d))') /\ pc'[d] # "failed"
        BY <1>1, <2>1, <3>1, <3>2, Zenon DEF CallerQuiet
      <3>4. (pc'[d] = "save" => seq'[d] = checkSeq'[acct(d)])
        BY <2>1, <3>2, Zenon DEF CallerQuiet
      <3>5. (Holding(d)' => seq'[d] = checkSeq'[acct(d)] /\ cache'[acct(d)] = seq'[d])
        BY <2>1, <3>2, Zenon DEF CallerQuiet, Holding
      <3> QED BY <3>1, <3>3, <3>4, <3>5, Zenon DEF CallerQuiet
    <2>2. CASE pc'[d] \in {"idle", "lock", "blocked", "prepare"}
      BY <2>2, Zenon DEF CallerQuiet, Holding
    <2> QED BY <2>1, <2>2, Zenon
  <1>3. ASSUME NEW d \in Callers, Holding(d) PROVE Holding(d)' /\ acct(d)' = acct(d)
    BY <1>3, Zenon DEF Holding, acct
  <1>4. ASSUME NEW a \in Accounts
        PROVE  Settled(a)' \/ \E d \in Callers : (Holding(d) /\ acct(d) = a)'
    BY <1>1, <1>3, Zenon DEF QuietState
  <1> QED BY <1>2, <1>4, Zenon DEF QuietState

\* A call takes the sequence that CheckTx expects, from the cache or from the chain.
LEMMA QuietTakes ==
  ASSUME LockedOnly, TypeInv, QuietState, NEW c \in Callers,
         Prepare(c) \/ Query(c) \/ Save(c) \/ Sign(c)
  PROVE  CallerQuiet(c)' /\ (Holding(c)' \/ Settled(acct(c))')
  <1>0. CallerTypeOK /\ CacheTypeOK BY Zenon DEF TypeInv, TypeOK
  <1>1. req'[c] = req[c] /\ acct(c)' = acct(c) /\ UNCHANGED <<chainSeq, checkSeq>>
    BY Zenon DEF Prepare, Query, Save, Sign, acct
  <1>2. acct(c) \in Accounts /\ req[c].seqArg = 0 /\ req[c].op = "batch" BY QuietRequest, Zenon
  <1>3. CallerQuiet(c) BY Zenon DEF QuietState
  <1>4. CASE Prepare(c)
    <2>1. Settled(acct(c)) BY <1>4, SettledInside, Zenon DEF Prepare, Inside, Holding
    <2>2. cache' = cache /\ ret' = ret BY <1>4, Zenon DEF Prepare
    <2>3. Settled(acct(c))' BY <1>1, <2>1, <2>2, Zenon DEF Settled, Unused
    <2>4. CASE Hit(acct(c))
      <3>1. pc'[c] = "save" /\ seq'[c] = cache[acct(c)] + 1
        BY <1>0, <1>2, <1>4, <2>4, Zenon DEF CallerTypeOK, Prepare, Goto, NextCached
      <3>2. cache[acct(c)] + 1 = checkSeq[acct(c)]
        BY <2>1, <2>4, Zenon DEF Settled, Unused, Hit
      <3> QED BY <1>1, <1>3, <2>2, <2>3, <3>1, <3>2, Zenon DEF CallerQuiet, Holding
    <2>5. CASE ~Hit(acct(c))
      <3>1. pc'[c] = "query"
        BY <1>0, <1>2, <1>4, <2>5, Zenon DEF CallerTypeOK, Prepare, Goto
      <3>2. cache[acct(c)] = None BY <2>5, Zenon DEF Hit, LockedOnly
      <3>3. Unused(acct(c)) BY <2>1, <3>2, CacheAssumption, Zenon DEF Settled
      <3>4. Unused(acct(c))' BY <1>1, <2>2, <3>3, Zenon DEF Unused
      <3> QED BY <1>3, <2>2, <2>3, <3>1, <3>4, Zenon DEF CallerQuiet, Holding
    <2> QED BY <2>4, <2>5
  <1>5. CASE Query(c)
    <2>1. pc[c] = "query" /\ cache' = cache /\ ret' = ret BY <1>5, Zenon DEF Query
    <2>2. Unused(acct(c)) BY <1>3, <2>1, Zenon DEF CallerQuiet
    <2>3. pc'[c] = "save" /\ seq'[c] = checkSeq[acct(c)]
      BY <1>0, <1>5, <2>2, Zenon DEF CallerTypeOK, Query, Goto, Unused
    <2>4. Settled(acct(c))' BY <1>1, <2>1, <2>2, Zenon DEF Settled, Unused
    <2> QED BY <1>1, <1>3, <2>1, <2>3, <2>4, Zenon DEF CallerQuiet, Holding
  <1>6. CASE Save(c)
    <2>1. pc[c] = "save" /\ seq' = seq /\ ret' = ret BY <1>6, Zenon DEF Save, callerVars
    <2>2. seq[c] = checkSeq[acct(c)] BY <1>3, <2>1, Zenon DEF CallerQuiet
    <2>3. pc'[c] = "sign" BY <1>0, <1>6, Zenon DEF CallerTypeOK, Save, Goto
    <2>4. cache'[acct(c)] = seq[c]
      BY <1>0, <1>2, <1>6, Zenon DEF CacheTypeOK, Save, saveAccount, LockedOnly
    <2> QED BY <1>1, <1>3, <2>1, <2>2, <2>3, <2>4, Zenon DEF CallerQuiet, Holding
  <1>7. CASE Sign(c)
    <2>1. pc[c] = "sign" /\ UNCHANGED <<seq, ret, cache>> BY <1>2, <1>7, Zenon DEF Sign
    <2>2. pc'[c] = "broadcast" BY <1>0, <1>2, <1>7, Zenon DEF CallerTypeOK, Sign, Goto
    <2> QED BY <1>1, <1>3, <2>1, <2>2, Zenon DEF CallerQuiet, Holding
  <1> QED BY <1>4, <1>5, <1>6, <1>7

\* The node takes it, and the cache keeps the last one used.
LEMMA QuietSends ==
  ASSUME LockedOnly, TypeInv, QuietState, NEW c \in Callers,
         BroadcastAccepted(c) \/ (Await(c) /\ Succeed(c))
  PROVE  CallerQuiet(c)' /\ Settled(acct(c))'
  <1>0. CallerTypeOK /\ CacheTypeOK /\ NodeTypeOK BY Zenon DEF TypeInv, TypeOK
  <1>1. /\ req'[c] = req[c] /\ acct(c)' = acct(c) /\ cache' = cache
        /\ acct(c) \in Accounts /\ CallerQuiet(c)
    BY QuietRequest, Zenon DEF BroadcastAccepted, Await, acct, QuietState
  <1>2. pc'[c] \in {"await", "prepare", "return"} /\ (ret'[c] = ret[c] \/ ret'[c] = "ok")
    BY <1>0, Zenon DEF CallerTypeOK, BroadcastAccepted, Succeed, Exit, Goto
  <1>3. CallerQuiet(c)' BY <1>1, <1>2, Zenon DEF CallerQuiet, Holding
  <1>4. CASE BroadcastAccepted(c)
    <2>1. seq[c] = checkSeq[acct(c)] /\ cache[acct(c)] = seq[c]
      BY <1>1, <1>4, Zenon DEF CallerQuiet, Holding, BroadcastAccepted
    <2>2. Tx(c).acct = acct(c) BY Zenon DEF Tx
    <2>3. checkSeq'[acct(c)] = checkSeq[acct(c)] + 1
      BY <1>0, <1>1, <1>4, <2>2, Zenon DEF NodeTypeOK, BroadcastAccepted, Admit
    <2>4. seq[c] \in Nat BY <1>0, Zenon DEF CallerTypeOK
    <2> QED BY <1>1, <1>3, <2>1, <2>3, <2>4, Zenon DEF Settled
  <1>5. CASE Await(c) /\ Succeed(c)
    <2>1. Settled(acct(c)) BY <1>5, SettledInside, Zenon DEF Await, Inside, Holding
    <2>2. UNCHANGED <<cache, chainSeq, checkSeq>> BY <1>5, Zenon DEF Await
    <2> QED BY <1>1, <1>3, <2>1, <2>2, Zenon DEF Settled, Unused
  <1> QED BY <1>4, <1>5

\* A block that executes a transaction changes no account that is unused.
LEMMA QuietBlock ==
  ASSUME TypeInv, NodeInv, QuietState, BlockDelivers
  PROVE  QuietState'
  <1>0. TypeOK BY Zenon DEF TypeInv
  <1>1. PICK tx \in mempool : DeliverTx(tx, TRUE) BY Zenon DEF BlockDelivers
  <1>2. tx \in Txs /\ tx.acct \in Accounts
    BY <1>0, Zenon DEF TypeOK, NodeTypeOK, accepted, Txs
  <1>3. chainSeq[tx.acct] # checkSeq[tx.acct]
    <2>1. chainSeq[tx.acct] \in Nat /\ checkSeq[tx.acct] \in Nat /\ tx.seq \in Nat
      BY <1>0, <1>2, Zenon DEF TypeOK, NodeTypeOK, Txs
    <2>2. tx.seq = chainSeq[tx.acct] /\ tx.seq < checkSeq[tx.acct]
      BY <1>1, Zenon DEF DeliverTx, NodeInv
    <2> QED BY <2>1, <2>2
  <1>4. /\ UNCHANGED <<pc, req, seq, ret, cache, checkSeq, inbox>> /\ failed' = failed
        /\ \A a \in Accounts : a # tx.acct => chainSeq'[a] = chainSeq[a]
    BY <1>0, <1>1, <1>2, Zenon DEF TypeOK, NodeTypeOK, BlockDelivers, DeliverTx
  <1>5. ASSUME NEW a \in Accounts
        PROVE  (Unused(a) => Unused(a)') /\ (Settled(a) => Settled(a)')
    BY <1>3, <1>4, Zenon DEF Unused, Settled
  <1>6. \A d \in Callers : acct(d)' = acct(d) /\ acct(d) \in Accounts
    BY <1>0, <1>4, CallerType, Zenon DEF acct
  <1>7. ASSUME NEW d \in Callers PROVE CallerQuiet(d)'
    <2>1. CallerQuiet(d) BY Zenon DEF QuietState
    <2>2. pc'[d] = "query" => Unused(acct(d))'
      BY <1>4, <1>5, <1>6, <2>1, Zenon DEF CallerQuiet
    <2> QED BY <1>4, <1>6, <2>1, <2>2, Zenon DEF CallerQuiet, Holding
  <1>8. ASSUME NEW a \in Accounts
        PROVE  Settled(a)' \/ \E d \in Callers : (Holding(d) /\ acct(d) = a)'
    BY <1>4, <1>5, <1>6, Zenon DEF QuietState, Holding
  <1>9. inbox' = {} /\ failed' = {} BY <1>4, Zenon DEF QuietState
  <1> QED BY <1>7, <1>8, <1>9, Zenon DEF QuietState

\* A step of a caller that is not a disturbance.
LEMMA QuietCaller ==
  ASSUME LockedOnly, TypeInv, QuietState, NEW c \in Callers,
         Begin(c) \/ RejectBatch(c) \/ Step(c), ~Disturb
  PROVE  QuietState'
  <1>0. CallerTypeOK /\ CacheTypeOK /\ NodeTypeOK BY Zenon DEF TypeInv, TypeOK
  <1>1. /\ req[c].op = "batch" /\ req[c].mode \in {"sync", "commit"} /\ acct(c) \in Accounts
        /\ CallerQuiet(c)
    BY QuietRequest, Zenon DEF QuietState
  <1>2. \A d \in Callers : ret[d] \in {"none", "ok", "rejected"}
    BY Zenon DEF QuietState, CallerQuiet
  <1>3. \A d \in Callers \ {c} :
           /\ req'[d] = req[d] /\ seq'[d] = seq[d] /\ ret'[d] = ret[d]
           /\ pc'[d] = pc[d] \/ (pc[d] = "blocked" /\ pc'[d] = "prepare")
    BY OthersStay, Zenon
  <1>4. CASE Begin(c) \/ RejectBatch(c) \/ Lock(c) \/ Return(c)
    <2>1. UNCHANGED <<cache, nodeVars>>
      BY <1>4, Zenon DEF Begin, RejectBatch, Lock, Return
    <2>2. CASE Begin(c)
      <3>1. PICK r \in Requests : r.op = "batch" => Goto(c, "lock")
        BY <2>2, Zenon DEF Begin
      <3>2. r.op = "batch" BY Zenon DEF Requests, LockedOnly
      <3>3. pc[c] = "idle" /\ pc'[c] = "lock" /\ ret' = ret
        BY <1>0, <2>2, <3>1, <3>2, Zenon DEF CallerTypeOK, Begin, Goto
      <3> QED BY <1>2, <1>3, <2>1, <3>3, QuietAside, Zenon DEF Holding
    <2>3. CASE RejectBatch(c)
      <3>1. /\ pc'[c] = pc[c] /\ req'[c] = req[c] /\ seq'[c] = seq[c]
            /\ ret'[c] = "rejected"
        BY <1>0, <2>3, Zenon DEF CallerTypeOK, RejectBatch
      <3> QED BY <1>2, <1>3, <2>1, <3>1, QuietAside, Zenon DEF Holding
    <2>4. CASE Lock(c) \/ Return(c)
      <3>1. /\ pc[c] \in {"lock", "return"} /\ pc'[c] \in {"prepare", "blocked", "idle"}
            /\ ret' = ret
        BY <1>0, <2>4, ReturnMoves, Zenon DEF CallerTypeOK, Lock, Goto
      <3> QED BY <1>2, <1>3, <2>1, <3>1, QuietAside, Zenon DEF Holding
    <2> QED BY <1>4, <2>2, <2>3, <2>4
  <1>5. CASE Prepare(c) \/ Query(c) \/ Save(c) \/ Sign(c)
    <2>1. Inside(c) BY <1>5, Zenon DEF Inside, Prepare, Query, Save, Sign
    <2>2. UNCHANGED <<req, chainSeq, checkSeq, inbox, failed>>
      BY <1>5, Zenon DEF Prepare, Query, Save, Sign
    <2>3. \A a \in Accounts : a # acct(c) => cache'[a] = cache[a]
      BY <1>0, <1>5, Zenon DEF CacheTypeOK, Prepare, Query, Save, Sign, saveAccount
    <2>4. \A d \in Callers : d # c => pc'[d] = pc[d]
      BY <1>0, <1>5, Zenon DEF CallerTypeOK, Prepare, Query, Save, Sign, Goto, Exit
    <2>5. CallerQuiet(c)' /\ (Holding(c)' \/ Settled(acct(c))') BY <1>5, QuietTakes, Zenon
    <2> QED BY <1>3, <2>1, <2>2, <2>3, <2>4, <2>5, QuietMove, Zenon
  <1>6. CASE BroadcastAccepted(c) \/ (Await(c) /\ Succeed(c))
    <2>1. Inside(c) BY <1>6, Zenon DEF Inside, BroadcastAccepted, Await
    <2>2. UNCHANGED <<req, chainSeq, cache, inbox, failed>>
      BY <1>6, Zenon DEF BroadcastAccepted, Await
    <2>3. Tx(c).acct = acct(c) BY Zenon DEF Tx
    <2>4. \A a \in Accounts : a # acct(c) => checkSeq'[a] = checkSeq[a]
      BY <1>0, <1>6, <2>3, Zenon DEF NodeTypeOK, BroadcastAccepted, Await, Admit
    <2>5. \A d \in Callers : d # c => pc'[d] = pc[d]
      BY <1>0, <1>6, Zenon DEF CallerTypeOK, BroadcastAccepted, Succeed, Goto, Exit
    <2>6. CallerQuiet(c)' /\ Settled(acct(c))' BY <1>6, QuietSends, Zenon
    <2> QED BY <1>3, <2>1, <2>2, <2>4, <2>5, <2>6, QuietMove, Zenon
  <1>7. ~BroadcastRejected(c)
    <2>1. pc[c] = "broadcast" => CheckTx(Tx(c))
      BY <1>1, Zenon DEF CallerQuiet, Holding, CheckTx, Tx
    <2> QED BY <2>1, Zenon DEF BroadcastRejected
  <1>8. ~(Await(c) /\ ~Succeed(c))
    BY Zenon DEF Await, QuietState
  <1>9. ~(\/ BuildFails(c) \/ BuildPanics(c) \/ Simulate(c) \/ Unsupported(c)
          \/ BroadcastAsync(c) \/ BroadcastLost(c) \/ SendFailed(c) \/ BatchFailed(c))
    BY <1>1, Zenon DEF BuildFails, BuildPanics, Simulate, Unsupported, BroadcastAsync,
       BroadcastLost, SendFailed, BatchFailed, CallerQuiet
  <1> QED BY <1>4, <1>5, <1>6, <1>7, <1>8, <1>9, Zenon DEF Step, Broadcast

\* Until something is disturbed, the sequences handed out are the expected ones.
LEMMA QuietStep == TypeInv /\ NodeInv /\ QuietInv /\ [Next]_vars => QuietInv'
  <1> SUFFICES ASSUME TypeInv, NodeInv, QuietInv, [Next]_vars, LockedOnly, disturbances' = 0
               PROVE  QuietState'
    BY Zenon DEF QuietInv, LockedOnly
  <1>1. disturbances \in 0 .. MaxDisturb BY Zenon DEF TypeInv, TypeOK
  <1>2. ~Disturb
    <2>1. disturbances + 1 # 0 BY <1>1
    <2> QED BY <2>1, Zenon DEF Disturb
  <1>3. disturbances' = disturbances
    <2>1. ASSUME NEW c \in Callers, Begin(c) \/ RejectBatch(c) \/ Step(c)
          PROVE  disturbances' = disturbances
      BY <1>2, <2>1, Zenon
         DEF Begin, RejectBatch, Step, Lock, Prepare, Query, Save, Sign, BuildFails, BuildPanics,
             Broadcast, Simulate, Unsupported, BroadcastAsync, BroadcastAccepted,
             BroadcastRejected, BroadcastLost, Await, SendFailed, BatchFailed, Return
    <2>2. Environment => disturbances' = disturbances
      BY <1>2, Zenon
         DEF Environment, BlockDelivers, BlockFails, LateRequest, OtherWallet, EntryDropped
    <2> QED BY <2>1, <2>2, Zenon DEF Next, vars
  <1>4. QuietState BY <1>3, Zenon DEF QuietInv
  <1>5. ASSUME NEW c \in Callers, Begin(c) \/ RejectBatch(c) \/ Step(c) PROVE QuietState'
    BY <1>2, <1>4, <1>5, QuietCaller, Zenon
  <1>6. CASE Environment
    <2>1. BlockDelivers
      BY <1>2, <1>4, <1>6, Zenon
         DEF Environment, BlockFails, LateRequest, OtherWallet, EntryDropped, QuietState
    <2> QED BY <1>4, <2>1, QuietBlock, Zenon
  <1>7. CASE UNCHANGED vars
    <2>1. \A d \in Callers : ret'[d] \in {"none", "ok", "rejected"}
      BY <1>4, <1>7, Zenon DEF vars, QuietState, CallerQuiet
    <2> QED BY <1>4, <1>7, <2>1, QuietAside, Zenon DEF vars
  <1> QED BY <1>5, <1>6, <1>7, Zenon DEF Next

\* SendBatch alone, one shard per account, nothing outside: no broadcast is rejected.
THEOREM UndisturbedSends == Spec => [](LockedOnly => UndisturbedNeverFails)
  <1>1. Init => TypeInv /\ NodeInv /\ QuietInv
    <2>1. Init => TypeInv /\ NodeInv BY InitTypeInv, NodeInvInit, Zenon
    <2>2. ASSUME Init PROVE QuietState
      <3>1. /\ inbox = {} /\ failed = {}
            /\ \A c \in Callers : pc[c] = "idle" /\ ret[c] = "none"
            /\ \A a \in Accounts : cache[a] = None /\ chainSeq[a] = checkSeq[a]
        BY <2>2, Zenon DEF Init, NodeInit, NewCache
      <3> QED BY <3>1, Zenon DEF QuietState, Settled, Unused, CallerQuiet, Holding
    <2> QED BY <2>1, <2>2, Zenon DEF QuietInv
  <1>2. TypeInv /\ NodeInv /\ QuietInv /\ [Next]_vars => (TypeInv /\ NodeInv /\ QuietInv)'
    <2>1. ASSUME TypeInv, NodeInv, UNCHANGED vars PROVE NodeInv'
      BY <2>1, Zenon DEF vars, NodeInv
    <2> QED BY <2>1, NextTypeInv, NodeInvStep, QuietStep, Zenon DEF TypeInv
  <1>3. QuietInv => (LockedOnly => UndisturbedNeverFails)
    BY Zenon DEF QuietInv, QuietState, CallerQuiet, UndisturbedNeverFails
  <1> QED BY <1>1, <1>2, <1>3, PTL DEF Spec
=============================================================================
