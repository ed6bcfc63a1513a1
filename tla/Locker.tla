------------------------------- MODULE Locker -------------------------------
(***************************************************************************)
(* The sharded lock of the base client (modules/base_client.go).  A shard  *)
(* is a Go channel of capacity one: Lock sends a token into it, Unlock     *)
(* receives one from it.  The channel is external code: a send into a full *)
(* channel joins the FIFO queue of blocked senders, and a receive from a   *)
(* full channel with blocked senders hands the slot to the first of them.  *)
(* The hash is left arbitrary: what is shown holds for every indexFor.     *)
(***************************************************************************)
EXTENDS Naturals, Sequences

CONSTANTS Callers,   \* the goroutines that use the client
          Names,     \* the key names a caller may lock
          Size,      \* number of shards
          indexFor   \* the hash of a name

ASSUME LockerAssumption == /\ Size \in Nat \ {0}
                           /\ indexFor \in [Names -> Nat]

VARIABLES buf,    \* buf[s]: number of tokens in the channel of shard s
          sendq   \* sendq[s]: the callers blocked in a send to shard s

lockVars == <<buf, sendq>>

Shards == 0 .. (Size - 1)

getShard(key) == indexFor[key] % Size

LockerTypeOK == /\ buf \in [Shards -> 0 .. 1]
                /\ sendq \in [Shards -> Seq(Callers)]

NewLocker == /\ buf = [s \in Shards |-> 0]
             /\ sendq = [s \in Shards |-> << >>]

\* Mutant: the send does not wait for room.
LockAlways(key) == /\ buf' = [buf EXCEPT ![getShard(key)] = 1]
                   /\ UNCHANGED sendq

\* The send finds room: the caller goes on.
LockFree(key) == /\ buf[getShard(key)] = 0
                 /\ buf' = [buf EXCEPT ![getShard(key)] = 1]
                 /\ UNCHANGED sendq

\* The send finds the channel full: the caller blocks.
LockBlocks(c, key) ==
    /\ buf[getShard(key)] = 1
    /\ sendq' = [sendq EXCEPT ![getShard(key)] = Append(@, c)]
    /\ UNCHANGED buf

\* Mutant: the last sender to come is dequeued first.
UnlockLast(key) ==
    LET s == getShard(key)
    IN  IF sendq[s] = << >>
        THEN /\ buf' = [buf EXCEPT ![s] = 0]
             /\ UNCHANGED sendq
        ELSE /\ sendq' = [sendq EXCEPT ![s] = SubSeq(@, 1, Len(@) - 1)]
             /\ UNCHANGED buf

\* The receive: the slot goes to the first blocked sender, if there is one.
Unlock(key) ==
    LET s == getShard(key)
    IN  IF sendq[s] = << >>
        THEN /\ buf' = [buf EXCEPT ![s] = 0]
             /\ UNCHANGED sendq
        ELSE /\ sendq' = [sendq EXCEPT ![s] = Tail(@)]
             /\ UNCHANGED buf

\* The callers a receive on the shard of key sets running again.
Woken(key) == IF sendq[getShard(key)] = << >>
              THEN {} ELSE {Head(sendq[getShard(key)])}
=============================================================================
