-------------------------------- MODULE Node --------------------------------
(***************************************************************************)
(* The node the client talks to, as far as the client can tell: account    *)
(* sequences, CheckTx, the mempool and block execution.  This code is not  *)
(* in the repository; it is modelled from how modules/tx.go and            *)
(* modules/account.go use it (BroadcastTx{Sync,Async,Commit} and the       *)
(* account query).  A transaction names its account and sequence, and the  *)
(* caller, call and segment that built it.                                 *)
(***************************************************************************)
EXTENDS Naturals

CONSTANTS Accounts

VARIABLES chainSeq,   \* committed sequence of each account
          checkSeq,   \* sequence CheckTx expects next from each account
          inbox,      \* requests whose fate the client does not know
          mempool,    \* transactions CheckTx accepted, not yet in a block
          delivered,  \* transactions executed with code 0
          failed      \* transactions in a block whose execution failed

nodeVars == <<chainSeq, checkSeq, inbox, mempool, delivered, failed>>

accepted == mempool \cup delivered \cup failed

NodeInit == /\ chainSeq \in [Accounts -> {0, 1}]
            /\ checkSeq = chainSeq
            /\ inbox = {}
            /\ mempool = {}
            /\ delivered = {}
            /\ failed = {}

CheckTx(tx) == tx.seq = checkSeq[tx.acct]

Admit(tx) == /\ mempool' = mempool \cup {tx}
             /\ checkSeq' = [checkSeq EXCEPT ![tx.acct] = @ + 1]

\* A request that was delayed, or sent in Async mode, reaches CheckTx.
LateCheckTx(tx) ==
    /\ tx \in inbox
    /\ inbox' = inbox \ {tx}
    /\ IF CheckTx(tx) THEN Admit(tx) ELSE UNCHANGED <<mempool, checkSeq>>
    /\ UNCHANGED <<chainSeq, delivered, failed>>

\* A block includes the transaction; the sequence advances either way.
DeliverTx(tx, ok) ==
    /\ tx \in mempool
    /\ tx.seq = chainSeq[tx.acct]
    /\ mempool' = mempool \ {tx}
    /\ chainSeq' = [chainSeq EXCEPT ![tx.acct] = @ + 1]
    /\ delivered' = IF ok THEN delivered \cup {tx} ELSE delivered
    /\ failed' = IF ok THEN failed ELSE failed \cup {tx}
    /\ UNCHANGED <<checkSeq, inbox>>
=============================================================================
