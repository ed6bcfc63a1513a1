----------------------------- MODULE MCTxSender -----------------------------
(***************************************************************************)
(* Instances of TxSender for TLC.                                          *)
(***************************************************************************)
EXTENDS TxSender, TLC

CONSTANTS c1, c2, c3, alice, alias, bob, addrA, addrB

\* alice and alias are two names for one key.
MCAddrOf == [n \in Names |-> IF n = bob /\ addrB \in Accounts THEN addrB ELSE addrA]

\* alice and bob share a shard when Size is 2; alias is on the other one.
MCindexFor == [n \in Names |-> IF n = alias THEN 5 ELSE IF n = bob THEN 4 ELSE 2]

Symmetry == Permutations(Callers)
=============================================================================
