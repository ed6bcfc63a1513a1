------------------------------- MODULE MCKeys -------------------------------
(***************************************************************************)
(* Scenarios of the key manager.  Init chooses one, which says who calls   *)
(* what for which names; the key store is the database, except in one.     *)
(***************************************************************************)
EXTENDS KeyManager

CONSTANTS c1, n1, n2, k1, p1

VARIABLE scenario

\* The requests of a scenario, and the calls of one caller.
Wanted == CASE scenario = "concurrent" -> [op : AllOps, name : {n1}, pw : {p1}]
            [] scenario = "send" -> [op : {"recover", "delete", "send"}, name : {n1, n2}, pw : {p1}]
            [] scenario = "passwords" -> [op : AllOps, name : {n1}, pw : Passwords]
            [] scenario = "delete" -> [op : {"recover", "delete"}, name : {n1}, pw : Passwords]
            [] scenario = "memory" ->
                  [op : {"insert", "recover", "delete", "send"}, name : {n1, k1}, pw : {p1}]

MayCall(c) == IF scenario = "passwords" THEN c = c1 ELSE calls[c] < 2

\* What an earlier process left behind: keys of the names in use.
Left == \A n \in Names : ~ Stored(n) \/ n = n1 \/ (n = n2 /\ scenario = "send")

MCInit == /\ scenario \in {"concurrent", "send", "passwords", "delete", "memory"}
          /\ Init /\ Left
          /\ dao = IF scenario = "memory" THEN "memory" ELSE "level"
          /\ scenario \notin {"passwords", "delete"} =>
                \A n \in Names : Stored(n) => store[n].pw = p1

MCNext == /\ UNCHANGED <<scenario, dao>>
          /\ \/ Progress
             \/ \E c \in Callers : MayCall(c) /\ \E r \in Wanted : BeginWith(c, r)
          \* Has meets an error of the database in the other scenarios.
          /\ scenario \in {"send", "delete"} => misled' = {}

MCSpec == MCInit /\ [][MCNext]_<<scenario, vars>>
=============================================================================
