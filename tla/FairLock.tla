------------------------------ MODULE FairLock ------------------------------
(***************************************************************************)
(* What the locker promises: callers stand in one line per shard, the      *)
(* first in line owns the shard, and everyone moves up when the owner      *)
(* leaves.  TxSender is shown to implement it (TxSender!LineOf).           *)
(***************************************************************************)
EXTENDS Naturals, Sequences

CONSTANTS Callers, Shards

VARIABLE line   \* line[s]: the owner of shard s, then those who wait

Init == line = [s \in Shards |-> << >>]

InLine(c) == \E s \in Shards : \E i \in 1 .. Len(line[s]) : line[s][i] = c

Join(c, s) == /\ ~InLine(c)
              /\ line' = [line EXCEPT ![s] = Append(@, c)]

Leave(s) == /\ line[s] # << >>
            /\ line' = [line EXCEPT ![s] = Tail(@)]

Next == \E s \in Shards : Leave(s) \/ \E c \in Callers : Join(c, s)

Spec == Init /\ [][Next]_line

\* The owner of a shard leaves, so that everyone in line gets it.
OwnerLeaves(s) == WF_line(Leave(s))
=============================================================================
