-------------------------- MODULE TxOnceProofs ------------------------------
(***************************************************************************)
(* Which transactions can be pending or executed for a segment: TxSender   *)
(* repeats none unless an answer was lost, none at all without the cache,  *)
(* and with an explicit sequence gets one accepted in the whole call.      *)
(***************************************************************************)
EXTENDS TxSenderProofs

USE DEF AllOps, AllModes, PCs, callerVars, lockVars, nodeVars

(* No repetition.  A transaction whose broadcast was answered belongs to an *)
(* earlier call, to a segment that already has its result, or is the one    *)
(* its caller waits for; a caller about to broadcast is in none of these.   *)

Live == inbox \cup mempool \cup delivered
Known(t) == t.c # Other /\ t \notin ambiguous
Past(t) == t.k < calls[t.c] \/ t.i <= nres[t.c]
Awaited(t) == pc[t.c] = "await" /\ t = Tx(t.c)

DeliveryInv ==
    /\ \A t \in Live : Known(t) => t.k <= calls[t.c]
    /\ \A t \in inbox : Known(t) => Past(t)
    /\ \A t \in mempool \cup delivered : Known(t) => Past(t) \/ Awaited(t)
    /\ \A t, u \in Live : /\ Known(t) /\ Known(u)
                          /\ t.c = u.c /\ t.k = u.k /\ t.i = u.i
                          => t = u

\* At the start there is no transaction.
LEMMA DeliveryInit == Init => DeliveryInv
  BY Zenon DEF Init, NodeInit, DeliveryInv, Live

\* A known transaction comes from a caller.
LEMMA KnownType ==
  ASSUME TypeOK, NEW t \in Live, Known(t)
  PROVE  /\ t \in Txs /\ t.c \in Callers /\ t.k \in Nat /\ t.i \in Nat
         /\ calls[t.c] \in Nat /\ nres[t.c] \in Nat
  <1>1. t \in Txs BY DEF TypeOK, NodeTypeOK, accepted, Live
  <1>2. t.c \in Callers /\ t.k \in Nat /\ t.i \in Nat
    BY <1>1, Zenon DEF Txs, Known
  <1> QED BY <1>1, <1>2, SenderAssumption DEF TypeOK, CallerTypeOK

\* A caller that stays in await keeps waiting for the same transaction.
LEMMA AwaitedKept ==
  ASSUME TypeOK,
         \A d \in Callers : pc[d] = "await" =>
            /\ pc'[d] = "await" /\ req'[d] = req[d] /\ seq'[d] = seq[d]
            /\ calls'[d] = calls[d] /\ nres'[d] = nres[d]
  PROVE  \A t \in Live : Known(t) /\ Awaited(t) => Awaited(t)'
  <1> SUFFICES ASSUME NEW t \in Live, Known(t), Awaited(t) PROVE Awaited(t)'
    OBVIOUS
  <1>1. t.c \in Callers BY KnownType
  <1> QED BY <1>1 DEF Awaited, Tx, acct

\* A step starts calls and appends results, or leaves them alone.
Forward(d) ==
    /\ calls'[d] \in Nat /\ nres'[d] \in Nat
    /\ calls[d] <= calls'[d]
    /\ calls'[d] = calls[d] => nres[d] <= nres'[d]

\* Steps that add no known transaction: transactions may leave the live ones
\* or become ambiguous, and every caller stays or goes forward.
LEMMA DeliveryFrame ==
  ASSUME TypeOK, DeliveryInv,
         \A t \in inbox' : Known(t)' => t \in inbox,
         \A t \in Live' : Known(t)' => t \in Live,
         ambiguous \subseteq ambiguous',
         \A d \in Callers : Forward(d),
         \A t \in (mempool' \cup delivered') : Known(t)' /\ Awaited(t)
            => Past(t)' \/ Awaited(t)'
  PROVE  DeliveryInv'
  <1>1. \A t : Known(t)' => Known(t) BY DEF Known
  <1>2. \A t \in Live : Known(t) /\ Past(t) => Past(t)'
    <2> SUFFICES ASSUME NEW t \in Live, Known(t), Past(t) PROVE Past(t)'
      OBVIOUS
    <2>1. t.k <= calls[t.c] BY DEF DeliveryInv
    <2> QED BY <2>1, KnownType DEF Past, Forward
  <1>3. \A t \in Live' : Known(t)' => t.k <= calls'[t.c]
    <2> SUFFICES ASSUME NEW t \in Live', Known(t)' PROVE t.k <= calls'[t.c]
      OBVIOUS
    <2>1. t \in Live /\ Known(t) BY <1>1
    <2> QED BY <2>1, KnownType DEF DeliveryInv, Forward
  <1>4. \A t \in inbox' : Known(t)' => Past(t)'
    <2> SUFFICES ASSUME NEW t \in inbox', Known(t)' PROVE Past(t)'
      OBVIOUS
    <2>1. t \in inbox /\ t \in Live /\ Known(t) BY <1>1 DEF Live
    <2> QED BY <1>2, <2>1 DEF DeliveryInv
  <1>5. \A t \in (mempool' \cup delivered') : Known(t)' => Past(t)' \/ Awaited(t)'
    <2> SUFFICES ASSUME NEW t \in (mempool' \cup delivered'), Known(t)'
                 PROVE  Past(t)' \/ Awaited(t)'
      OBVIOUS
    <2>1. t \in Live /\ Known(t) BY <1>1 DEF Live
    <2>2. Past(t) \/ Awaited(t) BY <2>1 DEF DeliveryInv, Live
    <2> QED BY <1>2, <2>1, <2>2
  <1>6. \A t, u \in Live' : /\ Known(t)' /\ Known(u)'
                            /\ t.c = u.c /\ t.k = u.k /\ t.i = u.i
                            => t = u
    BY <1>1, Zenon DEF DeliveryInv
  <1> QED BY <1>3, <1>4, <1>5, <1>6 DEF DeliveryInv

\* A caller that broadcasts has no known transaction for its segment yet.
LEMMA FreshSegment ==
  ASSUME TypeOK, DeliveryInv, NEW c \in Callers, pc[c] = "broadcast",
         NEW t \in Live, Known(t)
  PROVE  ~(t.c = c /\ t.k = Tx(c).k /\ t.i = Tx(c).i)
  <1>1. Past(t) \/ Awaited(t) BY DEF DeliveryInv, Live
  <1> QED BY <1>1, KnownType DEF Past, Awaited, Tx

\* A broadcast that adds the caller's transaction x to the live ones.
LEMMA DeliverySend ==
  ASSUME TypeOK, DeliveryInv, NEW c \in Callers, pc[c] = "broadcast",
         UNCHANGED <<req, calls, seq, delivered, ambiguous>>,
         NEW x, x = Tx(c),
         \A d \in Callers : d # c => nres'[d] = nres[d] /\ pc'[d] = pc[d],
         \/ /\ nres'[c] = nres[c] + 1
            /\ \/ inbox' = inbox \cup {x} /\ UNCHANGED mempool
               \/ mempool' = mempool \cup {x} /\ UNCHANGED inbox
         \/ /\ nres'[c] = nres[c] /\ pc'[c] = "await"
            /\ mempool' = mempool \cup {x} /\ UNCHANGED inbox
  PROVE  DeliveryInv'
  <1>1. /\ calls[c] \in Nat /\ nres[c] \in Nat
        /\ x.c = c /\ x.k = calls[c] /\ x.i = nres[c] + 1
    BY SenderAssumption DEF TypeOK, CallerTypeOK, Tx
  <1>2. /\ Live' = Live \cup {x}
        /\ \A t : Known(t)' <=> Known(t)
    BY Zenon DEF Live, Known
  <1>3. \A t \in Live : Known(t) => t.k <= calls'[t.c] /\ (Past(t) => Past(t)')
    BY <1>1, KnownType DEF DeliveryInv, Past
  <1>4. \A t \in Live : Known(t) /\ Awaited(t) => Awaited(t)'
    <2> SUFFICES ASSUME NEW t \in Live, Known(t), Awaited(t) PROVE Awaited(t)'
      OBVIOUS
    <2>1. t.c \in Callers /\ t.c # c BY KnownType DEF Awaited
    <2> QED BY <2>1 DEF Awaited, Tx, acct
  <1>5. \A t \in Live' : Known(t)' => t.k <= calls'[t.c]
    BY <1>1, <1>2, <1>3
  <1>6. \A t \in inbox' : Known(t)' => Past(t)'
    BY <1>1, <1>2, <1>3 DEF DeliveryInv, Live, Past
  <1>7. \A t \in (mempool' \cup delivered') : Known(t)' => Past(t)' \/ Awaited(t)'
    <2>1. \A t \in mempool \cup delivered : Known(t)' => Past(t)' \/ Awaited(t)'
      BY <1>2, <1>3, <1>4, Zenon DEF DeliveryInv, Live
    <2>2. nres'[c] = nres[c] + 1 => Past(x)'
      BY <1>1 DEF Past
    <2>3. pc'[c] = "await" /\ nres'[c] = nres[c] => Awaited(x)'
      BY <1>1, Zenon DEF Awaited, Tx, acct
    <2> QED BY <2>1, <2>2, <2>3
  <1>8. \A t, u \in Live' : /\ Known(t)' /\ Known(u)'
                            /\ t.c = u.c /\ t.k = u.k /\ t.i = u.i
                            => t = u
    <2>1. \A t \in Live : Known(t) => ~(t.c = x.c /\ t.k = x.k /\ t.i = x.i)
      BY <1>1, FreshSegment, Zenon
    <2> QED BY <1>2, <2>1 DEF DeliveryInv
  <1> QED BY <1>5, <1>6, <1>7, <1>8 DEF DeliveryInv

\* Every step keeps the known transactions behind their callers.
LEMMA DeliveryStep ==
  ASSUME TypeInv, NodeInv, DeliveryInv, [Next]_vars
  PROVE  DeliveryInv'
  <1>0. TypeOK /\ CallerTypeOK BY DEF TypeInv, TypeOK
  <1>n. \A d \in Callers : calls[d] \in Nat /\ nres[d] \in Nat
    BY <1>0, SenderAssumption DEF CallerTypeOK
  \* Steps that leave the transactions and the caller's position alone.
  <1>1. ASSUME UNCHANGED <<inbox, mempool, delivered, ambiguous, calls, nres>>,
               \A d \in Callers : pc[d] = "await" =>
                  pc'[d] = "await" /\ req'[d] = req[d] /\ seq'[d] = seq[d]
        PROVE  DeliveryInv'
    <2>1. \A t \in Live : Known(t) /\ Awaited(t) => Awaited(t)'
      BY <1>0, <1>1, AwaitedKept, Zenon
    <2>2. Live' = Live BY <1>1 DEF Live
    <2>3. \A t : Known(t)' <=> Known(t) BY <1>1 DEF Known
    <2>4. mempool' \cup delivered' \subseteq Live BY <1>1 DEF Live
    <2>5. \A d \in Callers : Forward(d) BY <1>1, <1>n DEF Forward
    <2>6. ambiguous \subseteq ambiguous' BY <1>1
    <2> QED BY <1>0, <1>1, <2>1, <2>2, <2>3, <2>4, <2>5, <2>6, DeliveryFrame, Zenon
  <1>2. ASSUME NEW c \in Callers,
               UNCHANGED <<inbox, mempool, delivered, ambiguous, calls, nres, req>>,
               pc[c] # "await", NEW l \in PCs, pc' = [pc EXCEPT ![c] = l],
               \A d \in Callers : d # c => seq'[d] = seq[d]
        PROVE  DeliveryInv'
    BY <1>0, <1>1, <1>2, Zenon DEF CallerTypeOK
  <1>3. ASSUME NEW c \in Callers,
               \/ Lock(c) \/ Prepare(c) \/ Query(c) \/ Save(c) \/ Sign(c)
               \/ BuildFails(c) \/ BuildPanics(c) \/ Unsupported(c)
               \/ BroadcastRejected(c) \/ SendFailed(c) \/ BatchFailed(c)
        PROVE  DeliveryInv'
    BY <1>0, <1>2, <1>3, Zenon
       DEF CallerTypeOK, Lock, Prepare, Query, Save, Sign, BuildFails, BuildPanics,
           Unsupported, BroadcastRejected, SendFailed, BatchFailed, Exit, Goto
  <1>4. ASSUME NEW c \in Callers, Return(c)
        PROVE  DeliveryInv'
    <2>1. UNCHANGED <<inbox, mempool, delivered, ambiguous>> BY <1>4, Zenon DEF Return
    <2> QED BY <1>1, <1>4, <2>1, ReturnMoves
  <1>5. ASSUME NEW c \in Callers, Begin(c) \/ RejectBatch(c)
        PROVE  DeliveryInv'
    <2>1. /\ UNCHANGED <<inbox, mempool, delivered, ambiguous>>
          /\ pc[c] = "idle"
          /\ calls' = [calls EXCEPT ![c] = @ + 1]
          /\ nres' = [nres EXCEPT ![c] = 0]
          /\ \A d \in Callers : d # c =>
                pc'[d] = pc[d] /\ req'[d] = req[d] /\ seq'[d] = seq[d]
      BY <1>0, <1>5 DEF Begin, RejectBatch, Goto, CallerTypeOK
    <2>2. \A d \in Callers : /\ calls'[d] = IF d = c THEN calls[d] + 1 ELSE calls[d]
                             /\ nres'[d] = IF d = c THEN 0 ELSE nres[d]
      BY <1>0, <2>1, Zenon DEF CallerTypeOK
    <2>3. \A t \in Live : Known(t) /\ Awaited(t) => Awaited(t)'
      BY <1>0, <2>1, <2>2, AwaitedKept
    <2>4. Live' = Live BY <2>1, Zenon DEF Live
    <2>5. \A t : Known(t)' <=> Known(t) BY <2>1 DEF Known
    <2>6. mempool' \cup delivered' \subseteq Live BY <2>1 DEF Live
    <2>7. \A d \in Callers : Forward(d) BY <1>n, <2>2 DEF Forward
    <2>8. ambiguous \subseteq ambiguous' BY <2>1
    <2> QED BY <1>0, <2>1, <2>3, <2>4, <2>5, <2>6, <2>7, <2>8, DeliveryFrame, Zenon
  <1>6. ASSUME NEW c \in Callers, Simulate(c)
        PROVE  DeliveryInv'
    <2>1. /\ UNCHANGED <<inbox, mempool, delivered, ambiguous, calls, req, seq>>
          /\ pc[c] = "broadcast"
          /\ nres'[c] = nres[c] \/ nres'[c] = nres[c] + 1
          /\ \A d \in Callers : d # c => pc'[d] = pc[d] /\ nres'[d] = nres[d]
      BY <1>0, <1>6 DEF Simulate, Succeed, Exit, Goto, CallerTypeOK
    <2>2. \A t \in Live : Known(t) /\ Awaited(t) => Awaited(t)'
      BY <1>0, <2>1, AwaitedKept, Zenon
    <2>3. \A d \in Callers : Forward(d) BY <1>n, <2>1 DEF Forward
    <2>4. Live' = Live BY <2>1 DEF Live
    <2>5. \A t : Known(t)' <=> Known(t) BY <2>1 DEF Known
    <2>6. mempool' \cup delivered' \subseteq Live BY <2>1 DEF Live
    <2>7. ambiguous \subseteq ambiguous' BY <2>1
    <2> QED BY <1>0, <2>1, <2>2, <2>3, <2>4, <2>5, <2>6, <2>7, DeliveryFrame, Zenon
  <1>7. ASSUME NEW c \in Callers, BroadcastAsync(c) \/ BroadcastAccepted(c)
        PROVE  DeliveryInv'
    <2> DEFINE x == Tx(c)
    <2>1. /\ pc[c] = "broadcast"
          /\ UNCHANGED <<req, calls, seq, delivered, ambiguous>>
      BY <1>7, Zenon DEF BroadcastAsync, BroadcastAccepted
    <2>2. \A d \in Callers : d # c => nres'[d] = nres[d] /\ pc'[d] = pc[d]
      BY <1>0, <1>7 DEF BroadcastAsync, BroadcastAccepted, Succeed, Exit, Goto, CallerTypeOK
    <2>3. CASE BroadcastAsync(c)
      <3>1. nres'[c] = nres[c] + 1 /\ inbox' = inbox \cup {x} /\ UNCHANGED mempool
        <4>1. Succeed(c) /\ inbox' = inbox \cup {x} /\ UNCHANGED mempool
          BY <2>3, Zenon DEF BroadcastAsync
        <4>2. nres' = [nres EXCEPT ![c] = @ + 1] BY <4>1, ZenonT(40) DEF Succeed
        <4> QED BY <1>0, <4>1, <4>2 DEF CallerTypeOK
      <3> QED BY <1>0, <2>1, <2>2, <3>1, DeliverySend, Zenon
    <2>4. CASE BroadcastAccepted(c)
      <3>1. mempool' = mempool \cup {x} /\ UNCHANGED inbox
        BY <2>4, Zenon DEF BroadcastAccepted, Admit
      <3>2. nres'[c] = nres[c] + 1 \/ (nres'[c] = nres[c] /\ pc'[c] = "await")
        BY <1>0, <2>4, Zenon DEF BroadcastAccepted, Succeed, Goto, CallerTypeOK
      <3> QED BY <1>0, <2>1, <2>2, <3>1, <3>2, DeliverySend
    <2> QED BY <1>7, <2>3, <2>4
  <1>8. ASSUME NEW c \in Callers, BroadcastLost(c)
        PROVE  DeliveryInv'
    <2>1. /\ UNCHANGED <<mempool, delivered, calls, nres, req, seq>>
          /\ pc[c] = "broadcast"
          /\ \A d \in Callers : d # c => pc'[d] = pc[d]
          /\ inbox' = inbox \cup {Tx(c)} /\ ambiguous' = ambiguous \cup {Tx(c)}
      BY <1>0, <1>8, SMTT(30) DEF BroadcastLost, Goto, CallerTypeOK
    <2>2. \A t \in Live : Known(t) /\ Awaited(t) => Awaited(t)'
      BY <1>0, <2>1, AwaitedKept, Zenon
    <2>3. \A t : Known(t)' => Known(t) /\ t # Tx(c) BY <2>1 DEF Known
    <2>4. \A t \in Live' : Known(t)' => t \in Live BY <2>1, <2>3 DEF Live
    <2>5. mempool' \cup delivered' \subseteq Live BY <2>1 DEF Live
    <2>6. \A d \in Callers : Forward(d) BY <1>n, <2>1 DEF Forward
    <2>7. /\ ambiguous \subseteq ambiguous'
          /\ \A t \in inbox' : Known(t)' => t \in inbox
      BY <2>1, <2>3, Zenon
    <2> QED BY <1>0, <2>2, <2>3, <2>4, <2>5, <2>6, <2>7, DeliveryFrame, Zenon
  <1>9. ASSUME NEW c \in Callers, Await(c)
        PROVE  DeliveryInv'
    <2>1. /\ UNCHANGED <<inbox, mempool, delivered, failed, calls, req, seq>>
          /\ \A d \in Callers : d # c => pc'[d] = pc[d] /\ nres'[d] = nres[d]
          /\ \/ nres'[c] = nres[c] + 1 /\ UNCHANGED ambiguous
             \/ nres'[c] = nres[c] /\ Tx(c) \in failed /\ UNCHANGED ambiguous
             \/ nres'[c] = nres[c] /\ ambiguous' = ambiguous \cup {Tx(c)}
      BY <1>0, <1>9 DEF Await, Succeed, Exit, Goto, CallerTypeOK
    <2>2. Tx(c) \in failed => Tx(c) \notin mempool \cup delivered
      <3>1. CallerTypeOK /\ chainSeq \in [Accounts -> Nat] /\ Tx(c) \in Txs
        BY <1>0, CallerType, Zenon DEF TypeOK, NodeTypeOK
      <3> QED BY <3>1 DEF NodeInv, Txs
    <2>3. Tx(c).c = c /\ Tx(c).i = nres[c] + 1 BY DEF Tx
    <2>4. \A t \in mempool \cup delivered : Known(t)' /\ Awaited(t) => Past(t)' \/ Awaited(t)'
      <3> SUFFICES ASSUME NEW t \in mempool \cup delivered, Known(t)', Awaited(t)
                   PROVE  Past(t)' \/ Awaited(t)'
        OBVIOUS
      <3>1. t \in Live /\ Known(t) BY <2>1 DEF Live, Known
      <3>2. CASE t.c # c
        BY <1>0, <2>1, <3>1, <3>2, KnownType, Zenon DEF Awaited, Tx, acct
      <3>3. CASE t.c = c
        <4>1. t = Tx(c) BY <3>3, Zenon DEF Awaited
        <4>2. t \notin ambiguous' BY Zenon DEF Known
        <4>3. nres'[c] = nres[c] + 1 BY <2>1, <2>2, <4>1, <4>2
        <4> QED BY <1>n, <2>3, <4>1, <4>3 DEF Past
      <3> QED BY <3>2, <3>3
    <2>5. \A d \in Callers : Forward(d) BY <1>n, <2>1 DEF Forward
    <2>6. ambiguous \subseteq ambiguous' BY <2>1
    <2>7. Live' = Live BY <2>1 DEF Live
    <2> QED BY <1>0, <2>1, <2>4, <2>5, <2>6, <2>7, DeliveryFrame, Zenon
  <1>10. ASSUME UNCHANGED <<pc, callerVars, ambiguous>>,
                \A t \in inbox' : Known(t) => t \in inbox,
                \A t \in Live' : Known(t) => t \in Live
         PROVE  DeliveryInv'
    <2>1. \A t : Known(t)' <=> Known(t) BY <1>10 DEF Known
    <2>2. \A t : Awaited(t)' <=> Awaited(t) BY <1>10 DEF Awaited, Tx, acct
    <2>3. \A d \in Callers : Forward(d) BY <1>10, <1>n DEF Forward
    <2>4. ambiguous \subseteq ambiguous' BY <1>10
    <2> QED BY <1>0, <1>10, <2>1, <2>2, <2>3, <2>4, DeliveryFrame, Zenon
  <1>11. CASE Environment
    <2>1. CASE BlockDelivers \/ BlockFails
      <3>1. PICK tx \in mempool, ok \in BOOLEAN : DeliverTx(tx, ok)
        BY <2>1, Zenon DEF BlockDelivers, BlockFails
      <3>2. UNCHANGED <<pc, callerVars, ambiguous>>
        BY <2>1, Zenon DEF BlockDelivers, BlockFails
      <3>3. UNCHANGED inbox /\ Live' \subseteq Live
        BY <3>1, Zenon DEF DeliverTx, Live
      <3> QED BY <1>10, <3>2, <3>3
    <2>2. CASE LateRequest
      <3>1. PICK tx \in inbox : LateCheckTx(tx)
        BY <2>2, Zenon DEF LateRequest
      <3>2. UNCHANGED <<pc, callerVars, ambiguous>>
        BY <2>2, Zenon DEF LateRequest
      <3>3. inbox' \subseteq inbox /\ Live' \subseteq Live
        BY <3>1, Zenon DEF LateCheckTx, Admit, Live
      <3> QED BY <1>10, <3>2, <3>3
    <2>3. CASE OtherWallet
      <3>1. PICK x : x.c = Other /\ mempool' = mempool \cup {x}
        BY <2>3, Zenon DEF OtherWallet, Admit
      <3>2. UNCHANGED <<pc, callerVars, ambiguous, inbox, delivered>>
        BY <2>3, Zenon DEF OtherWallet
      <3> QED BY <1>10, <3>1, <3>2 DEF Live, Known
    <2>4. CASE EntryDropped
      BY <1>10, <2>4, Zenon DEF EntryDropped, Live
    <2> QED BY <1>11, <2>1, <2>2, <2>3, <2>4 DEF Environment
  <1>12. CASE UNCHANGED vars
    BY <1>10, <1>12, Zenon DEF vars, Live
  <1> QED BY <1>3, <1>4, <1>5, <1>6, <1>7, <1>8, <1>9, <1>11, <1>12
          DEF Next, Step, Broadcast

\* SendBatch retries, BuildAndSend and their answers: no two transactions for
\* one segment of a call are pending or executed unless the broadcast of one
\* of them got no answer.
THEOREM NoRepetition == Spec => []DuplicateOnlyIfAmbiguous
  <1> DEFINE IInv == TypeInv /\ NodeInv /\ DeliveryInv
  <1>1. Init => IInv BY InitTypeInv, NodeInvInit, DeliveryInit
  <1>2. IInv /\ [Next]_vars => IInv'
    <2>1. TypeInv /\ NodeInv /\ [Next]_vars => NodeInv'
      <3>1. TypeInv => TypeOK BY DEF TypeInv
      <3>2. UNCHANGED vars /\ NodeInv => NodeInv' BY DEF vars, NodeInv
      <3> QED BY <3>1, <3>2, NodeInvStep
    <2> QED BY <2>1, NextTypeInv, DeliveryStep
  <1>3. IInv => DuplicateOnlyIfAmbiguous
    BY Zenon DEF DeliveryInv, DuplicateOnlyIfAmbiguous, Known, Live
  <1> QED BY <1>1, <1>2, <1>3, PTL DEF Spec

-----------------------------------------------------------------------------
(* Explicit sequences, and clients without the cache.                       *)

\* Every transaction that was sent.
All == inbox \cup accepted

\* The three ways in which a transaction leaves the client.
Sends(c) == BroadcastAsync(c) \/ BroadcastAccepted(c) \/ BroadcastLost(c)

\* A step brings the node a transaction of a caller, one of the other wallet, or none.
LEMMA Arrivals ==
  ASSUME [Next]_vars
  PROVE  \/ All' \subseteq All
         \/ \E c \in Callers : Sends(c) /\ All' = All \cup {Tx(c)}
         \/ \E tx : /\ OtherWallet /\ All' = All \cup {tx}
                    /\ tx.c = Other /\ tx.k = disturbances
  <1>1. UNCHANGED nodeVars => All' = All
    BY Zenon DEF All, accepted
  <1>2. ASSUME NEW c \in Callers, Sends(c) PROVE All' = All \cup {Tx(c)}
    BY <1>2, Zenon
       DEF All, accepted, Sends, BroadcastAsync, BroadcastAccepted, BroadcastLost, Admit
  <1>3. ASSUME NEW c \in Callers, Begin(c) \/ RejectBatch(c) \/ Step(c), ~Sends(c)
        PROVE  UNCHANGED nodeVars
    BY <1>3, Zenon
       DEF Begin, RejectBatch, Step, Lock, Prepare, Query, Save, Sign, BuildFails, BuildPanics,
           Broadcast, Simulate, Unsupported, BroadcastRejected, Await, SendFailed, BatchFailed,
           Return, Sends
  <1>4. CASE BlockDelivers \/ BlockFails
    BY <1>4, Zenon DEF BlockDelivers, BlockFails, DeliverTx, All, accepted
  <1>5. CASE LateRequest
    <2>1. PICK tx \in inbox : LateCheckTx(tx) BY <1>5, Zenon DEF LateRequest
    <2>2. /\ inbox' \subseteq inbox /\ mempool' \subseteq mempool \cup inbox
          /\ UNCHANGED <<delivered, failed>>
      BY <2>1, Zenon DEF LateCheckTx, Admit
    <2> QED BY <2>2, Zenon DEF All, accepted
  <1>6. CASE OtherWallet
    <2>1. PICK a \in Accounts :
             LET tx == [acct |-> a, seq |-> checkSeq[a], c |-> Other, k |-> disturbances, i |-> 1]
             IN  Admit(tx) /\ UNCHANGED <<inbox, delivered, failed>>
      BY <1>6, Zenon DEF OtherWallet
    <2> DEFINE tx == [acct |-> a, seq |-> checkSeq[a], c |-> Other, k |-> disturbances, i |-> 1]
    <2>2. tx.c = Other /\ tx.k = disturbances OBVIOUS
    <2>3. All' = All \cup {tx} BY <2>1, Zenon DEF Admit, All, accepted
    <2> HIDE DEF tx
    <2> QED BY <1>6, <2>2, <2>3, Zenon
  <1>7. CASE EntryDropped
    BY <1>1, <1>7, Zenon DEF EntryDropped
  <1>8. CASE UNCHANGED vars
    BY <1>1, <1>8, Zenon DEF vars
  <1> QED BY <1>1, <1>2, <1>3, <1>4, <1>5, <1>6, <1>7, <1>8, Zenon DEF Next, Environment

\* What a step does to a caller's count of calls and of results.
LEMMA Counts ==
  ASSUME TypeInv, [Next]_vars, NEW d \in Callers
  PROVE  \/ calls'[d] = calls[d] + 1 /\ pc[d] = "idle" /\ (Begin(d) \/ RejectBatch(d))
         \/ /\ calls'[d] = calls[d] /\ req'[d] = req[d]
            /\ nres'[d] = nres[d] \/ nres'[d] = nres[d] + 1
  <1>0. CallerTypeOK BY Zenon DEF TypeInv, TypeOK
  <1>1. CASE UNCHANGED callerVars
    BY <1>1, Zenon
  <1>2. CASE Begin(d) \/ RejectBatch(d)
    BY <1>0, <1>2, Zenon DEF CallerTypeOK, Begin, RejectBatch
  <1>3. CASE Step(d)
    BY <1>0, <1>3, Zenon
       DEF CallerTypeOK, Step, Lock, Prepare, Query, Save, Sign, BuildFails, BuildPanics,
           Broadcast, Simulate, Unsupported, BroadcastAsync, BroadcastAccepted,
           BroadcastRejected, BroadcastLost, Await, SendFailed, BatchFailed, Return, Succeed
  <1>4. ASSUME NEW c \in Callers, c # d, Begin(c) \/ RejectBatch(c) \/ Step(c)
        PROVE  calls'[d] = calls[d] /\ req'[d] = req[d] /\ nres'[d] = nres[d]
    BY <1>4, OthersStay, Zenon
  <1>5. Environment \/ UNCHANGED vars => UNCHANGED callerVars
    BY Zenon DEF Environment, BlockDelivers, BlockFails, LateRequest, OtherWallet, EntryDropped, vars
  <1> QED BY <1>1, <1>2, <1>3, <1>4, <1>5, Zenon DEF Next

-----------------------------------------------------------------------------
(* SendBatch with an explicit sequence *)

\* CheckTx lets every sequence of an account pass once, in blocks or not.
PassedOnce ==
    /\ \A t \in accepted : t.seq < checkSeq[t.acct]
    /\ \A t, u \in accepted : t.acct = u.acct /\ t.seq = u.seq => t = u

\* What CheckTx does to the accepted transactions.
LEMMA Passes ==
  ASSUME TypeInv, [Next]_vars
  PROVE  \/ accepted' = accepted /\ UNCHANGED checkSeq
         \/ \E tx \in Txs : /\ tx.seq = checkSeq[tx.acct]
                            /\ accepted' = accepted \cup {tx}
                            /\ checkSeq' = [checkSeq EXCEPT ![tx.acct] = @ + 1]
  <1>0. TypeOK BY Zenon DEF TypeInv
  <1>1. UNCHANGED nodeVars => accepted' = accepted /\ UNCHANGED checkSeq
    BY Zenon DEF accepted
  <1>2. ASSUME NEW c \in Callers, BroadcastAccepted(c)
        PROVE  /\ Tx(c) \in Txs /\ Tx(c).seq = checkSeq[Tx(c).acct]
               /\ accepted' = accepted \cup {Tx(c)}
               /\ checkSeq' = [checkSeq EXCEPT ![Tx(c).acct] = @ + 1]
    BY <1>0, <1>2, CallerType, Zenon DEF accepted, BroadcastAccepted, CheckTx, Admit
  <1>3. ASSUME NEW c \in Callers, Begin(c) \/ RejectBatch(c) \/ Step(c), ~BroadcastAccepted(c)
        PROVE  UNCHANGED <<chainSeq, checkSeq, mempool, delivered, failed>>
    BY <1>3, Zenon
       DEF Begin, RejectBatch, Step, Lock, Prepare, Query, Save, Sign, BuildFails, BuildPanics,
           Broadcast, Simulate, Unsupported, BroadcastAsync, BroadcastRejected, BroadcastLost,
           Await, SendFailed, BatchFailed, Return
  <1>4. CASE BlockDelivers \/ BlockFails
    BY <1>4, Zenon DEF BlockDelivers, BlockFails, DeliverTx, accepted
  <1>5. CASE LateRequest
    <2>1. PICK tx \in inbox : LateCheckTx(tx) BY <1>5, Zenon DEF LateRequest
    <2>2. tx \in Txs BY <1>0, Zenon DEF TypeOK, NodeTypeOK
    <2> QED BY <2>1, <2>2, Zenon DEF LateCheckTx, CheckTx, Admit, accepted
  <1>6. CASE OtherWallet
    <2>1. PICK a \in Accounts :
             LET tx == [acct |-> a, seq |-> checkSeq[a], c |-> Other, k |-> disturbances, i |-> 1]
             IN  Admit(tx) /\ UNCHANGED <<inbox, delivered, failed>>
      BY <1>6, Zenon DEF OtherWallet
    <2> DEFINE tx == [acct |-> a, seq |-> checkSeq[a], c |-> Other, k |-> disturbances, i |-> 1]
    <2>2. tx \in Txs /\ tx.acct = a /\ tx.seq = checkSeq[a]
      <3>1. checkSeq[a] \in Nat /\ disturbances \in Nat /\ 1 \in Nat
        BY <1>0, SenderAssumption DEF TypeOK, NodeTypeOK
      <3> QED BY <3>1, Zenon DEF Txs
    <2>3. accepted' = accepted \cup {tx} BY <2>1, Zenon DEF Admit, accepted
    <2>4. checkSeq' = [checkSeq EXCEPT ![tx.acct] = @ + 1] BY <2>1, Zenon DEF Admit
    <2> HIDE DEF tx
    <2> QED BY <2>2, <2>3, <2>4, Zenon
  <1>7. CASE EntryDropped
    BY <1>1, <1>7, Zenon DEF EntryDropped
  <1>8. CASE UNCHANGED vars
    BY <1>1, <1>8, Zenon DEF vars
  <1>9. UNCHANGED <<checkSeq, mempool, delivered, failed>> => accepted' = accepted
    BY Zenon DEF accepted
  <1> QED BY <1>2, <1>3, <1>4, <1>5, <1>6, <1>7, <1>8, <1>9, Zenon DEF Next, Environment

\* No step lets a sequence pass twice.
LEMMA PassedStep ==
  ASSUME TypeInv, PassedOnce, [Next]_vars
  PROVE  PassedOnce'
  <1>1. CASE accepted' = accepted /\ UNCHANGED checkSeq
    BY <1>1, Zenon DEF PassedOnce
  <1>2. ASSUME NEW tx \in Txs, tx.seq = checkSeq[tx.acct], accepted' = accepted \cup {tx},
               checkSeq' = [checkSeq EXCEPT ![tx.acct] = @ + 1]
        PROVE  PassedOnce'
    <2>1. /\ checkSeq \in [Accounts -> Nat] /\ accepted \subseteq Txs
          /\ \A t \in Txs : t.acct \in Accounts /\ t.seq \in Nat
      BY Zenon DEF TypeInv, TypeOK, NodeTypeOK, Txs
    <2>2. \A a \in Accounts : checkSeq[a] \in Nat /\ checkSeq[a] <= checkSeq'[a]
      BY <1>2, <2>1
    <2>3. checkSeq'[tx.acct] = checkSeq[tx.acct] + 1
      BY <1>2, <2>1, Zenon
    <2>4. ASSUME NEW t \in accepted PROVE t.seq < checkSeq'[t.acct] /\ t.seq < checkSeq[t.acct]
      <3>1. t.seq < checkSeq[t.acct] BY Zenon DEF PassedOnce
      <3>2. t.acct \in Accounts /\ t.seq \in Nat BY <2>1, Zenon
      <3>3. checkSeq'[t.acct] \in Nat BY <1>2, <2>1, <3>2
      <3> QED BY <2>2, <3>1, <3>2, <3>3
    <2>5. tx.seq < checkSeq'[tx.acct]
      BY <1>2, <2>1, <2>3
    <2>6. ASSUME NEW t \in accepted, t.acct = tx.acct PROVE t.seq # tx.seq
      <3>1. t.seq < tx.seq BY <1>2, <2>4, <2>6, Zenon
      <3> QED BY <2>1, <3>1
    <2>7. \A t \in accepted' : t.seq < checkSeq'[t.acct] BY <1>2, <2>4, <2>5, Zenon
    <2>8. \A t, u \in accepted' : t.acct = u.acct /\ t.seq = u.seq => t = u
      BY <1>2, <2>6, Zenon DEF PassedOnce
    <2> QED BY <2>7, <2>8, Zenon DEF PassedOnce
  <1> QED BY <1>1, <1>2, Passes, Zenon

\* A caller with an explicit sequence signs with it.
GivenOf(c) ==
    req[c].seqArg # 0 =>
        /\ pc[c] \notin {"query", "save"}
        /\ pc[c] \in {"sign", "broadcast", "await"} => seq[c] = req[c].seqArg

\* The transactions of the present call of their caller: its account, and the sequence
\* that it was given.
OriginOf(t) ==
    t.c # Other =>
        /\ t.k <= calls[t.c]
        /\ t.k = calls[t.c] => /\ t.acct = acct(t.c)
                               /\ req[t.c].seqArg # 0 => t.seq = req[t.c].seqArg

OriginInv == /\ \A c \in Callers : GivenOf(c)
             /\ \A t \in All : OriginOf(t)

\* Prepare takes the explicit sequence for every segment, and never the cache.
LEMMA GivenStep ==
  ASSUME TypeInv, [Next]_vars, NEW d \in Callers, GivenOf(d)
  PROVE  GivenOf(d)'
  <1>0. CallerTypeOK BY Zenon DEF TypeInv, TypeOK
  <1>1. CASE UNCHANGED <<pc, callerVars>>
    BY <1>1, Zenon DEF GivenOf
  <1>2. CASE Begin(d)
    <2>1. PICK r \in Requests : req' = [req EXCEPT ![d] = r] /\ seq' = [seq EXCEPT ![d] = r.seqArg]
      BY <1>2, Zenon DEF Begin
    <2>2. req'[d] = r /\ seq'[d] = r.seqArg BY <1>0, <2>1, Zenon DEF CallerTypeOK
    <2>3. pc'[d] \in {"lock", "sign", "prepare"}
      BY <1>0, <1>2, Zenon DEF CallerTypeOK, Begin, Goto
    <2> QED BY <2>2, <2>3, Zenon DEF GivenOf
  <1>3. CASE RejectBatch(d)
    BY <1>3, Zenon DEF GivenOf, RejectBatch
  <1>4. CASE Return(d)
    BY <1>4, ReturnMoves, Zenon DEF GivenOf
  <1>5. CASE Step(d) /\ ~Return(d)
    <2>1. CASE Prepare(d)
      <3>1. /\ req' = req
            /\ req[d].seqArg # 0 => pc'[d] = "sign" /\ seq'[d] = req[d].seqArg
        BY <1>0, <2>1, Zenon DEF CallerTypeOK, Prepare, Goto
      <3> QED BY <3>1, Zenon DEF GivenOf
    <2>2. CASE Lock(d) \/ Query(d) \/ Save(d) \/ Sign(d)
      BY <1>0, <2>2, Zenon DEF CallerTypeOK, GivenOf, Lock, Query, Save, Sign, Exit, Goto
    <2>3. CASE BuildFails(d) \/ BuildPanics(d) \/ SendFailed(d) \/ BatchFailed(d)
      BY <1>0, <2>3, Zenon
         DEF CallerTypeOK, GivenOf, BuildFails, BuildPanics, SendFailed, BatchFailed, Exit, Goto
    <2>4. CASE Broadcast(d)
      <3>1. /\ req' = req /\ seq' = seq /\ pc[d] \in {"broadcast", "await"}
            /\ pc'[d] \in {"await", "prepare", "failed", "return"}
        BY <1>0, <2>4, Zenon
           DEF CallerTypeOK, Broadcast, Simulate, Unsupported, BroadcastAsync, BroadcastAccepted,
               BroadcastRejected, BroadcastLost, Await, Succeed, Exit, Goto
      <3> QED BY <3>1, Zenon DEF GivenOf
    <2> QED BY <1>5, <2>1, <2>2, <2>3, <2>4, Zenon DEF Step
  <1>6. ASSUME NEW c \in Callers, c # d, Begin(c) \/ RejectBatch(c) \/ Step(c)
        PROVE  GivenOf(d)'
    BY <1>6, OthersStay, Zenon DEF GivenOf
  <1>7. Environment \/ UNCHANGED vars => UNCHANGED <<pc, callerVars>>
    BY Zenon DEF Environment, BlockDelivers, BlockFails, LateRequest, OtherWallet, EntryDropped, vars
  <1> QED BY <1>1, <1>2, <1>4, <1>5, <1>6, <1>7, <1>3, Zenon DEF Next

\* A transaction keeps its origin while its caller goes on.
LEMMA OriginKept ==
  ASSUME TypeInv, [Next]_vars, NEW t \in Txs, OriginOf(t)
  PROVE  OriginOf(t)'
  <1> SUFFICES ASSUME t.c # Other PROVE OriginOf(t)'
    BY Zenon DEF OriginOf
  <1>1. t.c \in Callers /\ t.k \in Nat /\ t.k <= calls[t.c]
    BY Zenon DEF Txs, OriginOf
  <1>2. calls[t.c] \in Nat
    BY <1>1, SenderAssumption DEF TypeInv, TypeOK, CallerTypeOK
  <1>3. CASE calls'[t.c] = calls[t.c] + 1
    <2>1. t.k <= calls'[t.c] /\ t.k # calls'[t.c] BY <1>1, <1>2, <1>3
    <2> QED BY <2>1, Zenon DEF OriginOf
  <1>4. CASE calls'[t.c] = calls[t.c] /\ req'[t.c] = req[t.c]
    BY <1>4, Zenon DEF OriginOf, acct
  <1> QED BY <1>1, <1>3, <1>4, Counts, Zenon

\* What a caller sends has the account and the sequence of its request.
LEMMA OriginSent ==
  ASSUME TypeInv, NEW c \in Callers, GivenOf(c), Sends(c)
  PROVE  OriginOf(Tx(c))
  <1>1. pc[c] = "broadcast"
    BY Zenon DEF Sends, BroadcastAsync, BroadcastAccepted, BroadcastLost
  <1>2. Tx(c).c = c /\ Tx(c).k = calls[c] /\ Tx(c).acct = acct(c) /\ Tx(c).seq = seq[c]
    BY Zenon DEF Tx
  <1>3. calls[c] <= calls[c]
    BY SenderAssumption DEF TypeInv, TypeOK, CallerTypeOK
  <1> QED BY <1>1, <1>2, <1>3, Zenon DEF OriginOf, GivenOf

\* The origin of all transactions.
LEMMA OriginStep ==
  ASSUME TypeInv, OriginInv, [Next]_vars
  PROVE  OriginInv'
  <1>1. \A c \in Callers : GivenOf(c)' BY GivenStep, Zenon DEF OriginInv
  <1>2. All \subseteq Txs BY Zenon DEF TypeInv, TypeOK, NodeTypeOK, All
  <1>3. \A t \in All : OriginOf(t)' BY <1>2, OriginKept, Zenon DEF OriginInv
  <1>4. ASSUME NEW c \in Callers, Sends(c), All' = All \cup {Tx(c)}
        PROVE  \A t \in All' : OriginOf(t)'
    <2>1. Tx(c) \in Txs BY CallerType, Zenon DEF TypeInv
    <2>2. OriginOf(Tx(c)) BY <1>4, OriginSent, Zenon DEF OriginInv
    <2> DEFINE x == Tx(c)
    <2> HIDE DEF x
    <2>3. ASSUME NEW t \in All' PROVE t \in Txs /\ OriginOf(t)
      BY <1>2, <1>4, <2>1, <2>2, Zenon DEF OriginInv
    <2> QED BY <2>3, OriginKept, Zenon
  <1>5. ASSUME NEW tx, All' = All \cup {tx}, tx.c = Other
        PROVE  \A t \in All' : OriginOf(t)'
    BY <1>3, <1>5, Zenon DEF OriginOf
  <1> QED BY <1>1, <1>3, <1>4, <1>5, Arrivals, Zenon DEF OriginInv

\* SendBatch with an explicit sequence uses it for every segment, so that of all its
\* transactions the node accepts one at most, whatever is retried, lost or late.
THEOREM GivenSequenceOnce == Spec => []ExplicitSequenceOnce
  <1>1. Init => PassedOnce /\ OriginInv
    BY Zenon DEF Init, NodeInit, PassedOnce, OriginInv, GivenOf, All, accepted
  <1>2. TypeInv /\ PassedOnce /\ OriginInv /\ [Next]_vars => (PassedOnce /\ OriginInv)'
    BY PassedStep, OriginStep, Zenon
  <1>3. PassedOnce /\ OriginInv => ExplicitSequenceOnce
    <2> SUFFICES ASSUME PassedOnce, OriginInv, NEW t \in accepted, NEW u \in accepted,
                        t.c = u.c, t.k = u.k, t.c # Other, t.k = calls[t.c], req[t.c].seqArg # 0
                 PROVE  t = u
      BY Zenon DEF ExplicitSequenceOnce
    <2>1. t.acct = acct(t.c) /\ t.seq = req[t.c].seqArg BY Zenon DEF OriginInv, OriginOf, All
    <2>2. u.acct = acct(t.c) /\ u.seq = req[t.c].seqArg BY Zenon DEF OriginInv, OriginOf, All
    <2> QED BY <2>1, <2>2, Zenon DEF PassedOnce
  <1> QED BY <1>1, <1>2, <1>3, InitTypeInv, NextTypeInv, PTL DEF Spec

-----------------------------------------------------------------------------
(* A client without the cache *)

\* The caller of t has its answer for t's segment, or will not send it again.
Over(t) ==
    \/ t.k < calls[t.c]
    \/ /\ t.k = calls[t.c]
       /\ \/ t.i <= nres[t.c]
          \/ t.i = nres[t.c] + 1 /\ pc[t.c] \in {"await", "failed", "return", "idle"}

OnceInv ==
    ~Cached =>
        /\ \A t \in All : IF t.c = Other THEN t.k < disturbances ELSE Over(t)
        /\ \A t, u \in All : t.c = u.c /\ t.k = u.k /\ t.i = u.i => t = u

\* Without the cache a failed broadcast is the last one.
LEMMA NoWayBack ==
  ASSUME TypeInv, [Next]_vars, ~Cached, NEW d \in Callers, calls'[d] = calls[d],
         nres'[d] = nres[d], pc[d] \in {"await", "failed", "return", "idle"}
  PROVE  pc'[d] \in {"await", "failed", "return", "idle"}
  <1>0. CallerTypeOK BY Zenon DEF TypeInv, TypeOK
  <1>1. CASE Begin(d) \/ RejectBatch(d)
    <2>1. calls'[d] = calls[d] + 1 BY <1>0, <1>1, Zenon DEF CallerTypeOK, Begin, RejectBatch
    <2>2. calls[d] \in Nat BY <1>0, SenderAssumption DEF CallerTypeOK
    <2> QED BY <2>1, <2>2
  <1>2. CASE Return(d)
    BY <1>2, ReturnMoves, Zenon
  <1>3. CASE Step(d) /\ ~Return(d)
    <2>1. nres[d] \in Nat BY <1>0, SenderAssumption DEF CallerTypeOK
    <2>2. ~Succeed(d)
      <3>1. Succeed(d) => nres'[d] = nres[d] + 1 BY <1>0, Zenon DEF CallerTypeOK, Succeed
      <3> QED BY <2>1, <3>1
    <2> QED
      BY <1>0, <1>3, <2>2, Zenon
         DEF CallerTypeOK, Step, Lock, Prepare, Query, Save, Sign, BuildFails, BuildPanics,
             Broadcast, Simulate, Unsupported, BroadcastAsync, BroadcastAccepted,
             BroadcastRejected, BroadcastLost, Await, SendFailed, BatchFailed, Exit, Goto
  <1>4. ASSUME NEW c \in Callers, c # d, Begin(c) \/ RejectBatch(c) \/ Step(c)
        PROVE  pc'[d] = pc[d]
    BY <1>4, OthersStay, Zenon
  <1>5. Environment \/ UNCHANGED vars => UNCHANGED pc
    BY Zenon DEF Environment, BlockDelivers, BlockFails, LateRequest, OtherWallet, EntryDropped, vars
  <1> QED BY <1>1, <1>2, <1>3, <1>4, <1>5, Zenon DEF Next

\* What is over stays over.
LEMMA OverKept ==
  ASSUME TypeInv, [Next]_vars, ~Cached, NEW t \in Txs, t.c # Other, Over(t)
  PROVE  Over(t)'
  <1>1. t.c \in Callers /\ t.k \in Nat /\ t.i \in Nat
    BY Zenon DEF Txs
  <1>2. calls[t.c] \in Nat /\ nres[t.c] \in Nat
    BY <1>1, SenderAssumption DEF TypeInv, TypeOK, CallerTypeOK
  <1>3. CASE calls'[t.c] = calls[t.c] + 1
    BY <1>1, <1>2, <1>3 DEF Over
  <1>4. CASE calls'[t.c] = calls[t.c] /\ nres'[t.c] = nres[t.c] + 1
    BY <1>1, <1>2, <1>4 DEF Over
  <1>5. CASE calls'[t.c] = calls[t.c] /\ nres'[t.c] = nres[t.c]
    BY <1>1, <1>5, NoWayBack, Zenon DEF Over
  <1> QED BY <1>1, <1>3, <1>4, <1>5, Counts, Zenon

\* A caller about to send has nothing over for its segment; afterwards it has.
LEMMA SendsNew ==
  ASSUME TypeInv, NEW c \in Callers, Sends(c), NEW x, x = Tx(c)
  PROVE  /\ Over(x)'
         /\ \A t \in Txs : Over(t) => ~(t.c = c /\ t.k = calls[c] /\ t.i = nres[c] + 1)
  <1>1. pc[c] = "broadcast"
    BY Zenon DEF Sends, BroadcastAsync, BroadcastAccepted, BroadcastLost
  <1>2. calls[c] \in Nat /\ nres[c] \in Nat /\ CallerTypeOK
    BY SenderAssumption DEF TypeInv, TypeOK, CallerTypeOK
  <1>3. ~(calls[c] < calls[c]) /\ ~(nres[c] + 1 <= nres[c])
    BY <1>2
  <1>4. \A t \in Txs : Over(t) => ~(t.c = c /\ t.k = calls[c] /\ t.i = nres[c] + 1)
    BY <1>1, <1>3, Zenon DEF Over
  <1>5. UNCHANGED calls
    BY Zenon DEF Sends, BroadcastAsync, BroadcastAccepted, BroadcastLost
  <1>6. \/ nres'[c] = nres[c] + 1
        \/ nres'[c] = nres[c] /\ pc'[c] \in {"await", "failed"}
    BY <1>2, Zenon DEF CallerTypeOK, Sends, BroadcastAsync, BroadcastAccepted, BroadcastLost, Succeed, Goto
  <1>7. x.c = c /\ x.k = calls[c] /\ x.i = nres[c] + 1
    BY Zenon DEF Tx
  <1>8. nres[c] + 1 <= nres[c] + 1 BY <1>2
  <1>9. Over(x)' BY <1>5, <1>6, <1>7, <1>8, Zenon DEF Over
  <1> QED BY <1>4, <1>9, Zenon

\* Disturbances are counted one by one.
LEMMA DisturbCounts ==
  ASSUME [Next]_vars
  PROVE  disturbances' = disturbances \/ disturbances' = disturbances + 1
  <1>1. ASSUME NEW c \in Callers, Begin(c) \/ RejectBatch(c) \/ Step(c)
        PROVE  UNCHANGED disturbances \/ Disturb
    BY <1>1, Zenon
       DEF Begin, RejectBatch, Step, Lock, Prepare, Query, Save, Sign, BuildFails, BuildPanics,
           Broadcast, Simulate, Unsupported, BroadcastAsync, BroadcastAccepted,
           BroadcastRejected, BroadcastLost, Await, SendFailed, BatchFailed, Return
  <1>2. Environment \/ UNCHANGED vars => UNCHANGED disturbances \/ Disturb
    BY Zenon DEF Environment, BlockDelivers, BlockFails, LateRequest, OtherWallet, EntryDropped, vars
  <1> QED BY <1>1, <1>2, Zenon DEF Next, Disturb

\* No step sends a segment for the second time.
LEMMA OnceStep ==
  ASSUME TypeInv, OnceInv, [Next]_vars
  PROVE  OnceInv'
  <1> SUFFICES ASSUME ~Cached
               PROVE  /\ \A t \in All' : IF t.c = Other THEN t.k < disturbances' ELSE Over(t)'
                      /\ \A t, u \in All' : t.c = u.c /\ t.k = u.k /\ t.i = u.i => t = u
    BY Zenon DEF OnceInv
  <1>1. All \subseteq Txs BY Zenon DEF TypeInv, TypeOK, NodeTypeOK, All
  <1>2. disturbances \in Nat BY SenderAssumption DEF TypeInv, TypeOK
  <1>3. \A t \in Txs : t.k \in Nat BY Zenon DEF Txs
  <1>4. ASSUME NEW t \in All, t.c = Other PROVE t.k < disturbances /\ t.k < disturbances'
    <2>1. t.k < disturbances BY <1>4, Zenon DEF OnceInv
    <2>2. t.k \in Nat BY <1>1, <1>3, Zenon
    <2> QED BY <1>2, <2>1, <2>2, DisturbCounts
  <1>5. ASSUME NEW t \in All, t.c # Other PROVE Over(t) /\ Over(t)'
    <2>1. Over(t) BY <1>5, Zenon DEF OnceInv
    <2> QED BY <1>1, <1>5, <2>1, OverKept, Zenon
  <1>6. CASE All' \subseteq All
    BY <1>4, <1>5, <1>6, Zenon DEF OnceInv
  <1>7. ASSUME NEW c \in Callers, Sends(c), NEW x, x = Tx(c), All' = All \cup {x}
        PROVE  /\ \A t \in All' : IF t.c = Other THEN t.k < disturbances' ELSE Over(t)'
               /\ \A t, u \in All' : t.c = u.c /\ t.k = u.k /\ t.i = u.i => t = u
    <2>1. x.c = c /\ x.k = calls[c] /\ x.i = nres[c] + 1 /\ c # Other
      BY <1>7, SenderAssumption, Zenon DEF Tx
    <2>2. Over(x)' BY <1>7, SendsNew, Zenon
    <2>3. ASSUME NEW t \in All PROVE ~(t.c = c /\ t.k = calls[c] /\ t.i = nres[c] + 1)
      <3>1. t.c = c => Over(t) BY <1>5, <2>1, Zenon
      <3> QED BY <1>1, <1>7, <3>1, SendsNew, Zenon
    <2>4. \A t \in All' : IF t.c = Other THEN t.k < disturbances' ELSE Over(t)'
      BY <1>4, <1>5, <1>7, <2>1, <2>2, Zenon
    <2>5. ASSUME NEW t \in All', NEW u \in All', t.c = u.c, t.k = u.k, t.i = u.i PROVE t = u
      <3>1. t \in All \/ t = x BY <1>7, Zenon
      <3>2. u \in All \/ u = x BY <1>7, Zenon
      <3>3. t \in All /\ u \in All => t = u BY <2>5, Zenon DEF OnceInv
      <3> QED BY <2>1, <2>3, <2>5, <3>1, <3>2, <3>3, Zenon
    <2> QED BY <2>4, <2>5, Zenon
  <1>8. ASSUME NEW tx, OtherWallet, All' = All \cup {tx}, tx.c = Other, tx.k = disturbances
        PROVE  /\ \A t \in All' : IF t.c = Other THEN t.k < disturbances' ELSE Over(t)'
               /\ \A t, u \in All' : t.c = u.c /\ t.k = u.k /\ t.i = u.i => t = u
    <2>1. disturbances' = disturbances + 1 BY <1>8, Zenon DEF OtherWallet, Disturb
    <2>2. tx.k < disturbances' BY <1>2, <1>8, <2>1
    <2>3. ASSUME NEW t \in All, t.c = Other PROVE t.k # disturbances
      <3>1. t.k < disturbances BY <1>4, <2>3, Zenon
      <3>2. t.k \in Nat BY <1>1, <1>3, Zenon
      <3> QED BY <1>2, <3>1, <3>2
    <2>4. \A t \in All' : IF t.c = Other THEN t.k < disturbances' ELSE Over(t)'
      BY <1>4, <1>5, <1>8, <2>2, Zenon
    <2>5. ASSUME NEW t \in All', NEW u \in All', t.c = u.c, t.k = u.k, t.i = u.i PROVE t = u
      <3>1. t \in All \/ t = tx BY <1>8, Zenon
      <3>2. u \in All \/ u = tx BY <1>8, Zenon
      <3>3. t \in All /\ u \in All => t = u BY <2>5, Zenon DEF OnceInv
      <3> QED BY <1>8, <2>3, <2>5, <3>1, <3>2, <3>3, Zenon
    <2> QED BY <2>4, <2>5, Zenon
  <1> QED BY <1>6, <1>7, <1>8, Arrivals, Zenon

\* WithCached(false): no segment of any call is sent twice, whatever answer is lost, for
\* any number of callers, locked or not.
THEOREM UncachedOnce == Spec => []UncachedNeverRepeats
  <1>1. Init => OnceInv
    BY Zenon DEF Init, NodeInit, OnceInv, All, accepted
  <1>2. TypeInv /\ OnceInv /\ [Next]_vars => OnceInv'
    BY OnceStep, Zenon
  <1>3. OnceInv => UncachedNeverRepeats
    BY Zenon DEF OnceInv, All, UncachedNeverRepeats
  <1> QED BY <1>1, <1>2, <1>3, InitTypeInv, NextTypeInv, PTL DEF Spec
=============================================================================
