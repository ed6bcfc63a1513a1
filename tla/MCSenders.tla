------------------------------ MODULE MCSenders ------------------------------
(***************************************************************************)
(* Scenarios of the senders.  Init chooses one, which says which callers   *)
(* there are, what they call and what goes wrong around them; the          *)
(* constants of this module are the largest of any.                        *)
(***************************************************************************)
EXTENDS MCTxSender

VARIABLE scenario

\* Locked senders, nothing going wrong outside.
Undisturbed == INSTANCE TxSender WITH
    Ops <- {"batch"}, Modes <- {"sync", "commit"}, SeqArgs <- {0},
    MaxSegs <- 2, MaxCalls <- 2, MaxDisturb <- 0

\* Locked and unlocked senders of one account at once.
Mixed == INSTANCE TxSender WITH
    Ops <- AllOps, Modes <- {"sync", "commit", "async"}, SeqArgs <- {0},
    MaxSegs <- 2, MaxCalls <- 1, MaxDisturb <- 1

\* One caller, every mode and explicit sequences.
Arguments == INSTANCE TxSender WITH
    Ops <- AllOps, Modes <- AllModes, SeqArgs <- {0, 1},
    MaxSegs <- 3, MaxCalls <- 1, MaxDisturb <- 2

\* WithCached(false).
Uncached == INSTANCE TxSender WITH
    Cached <- FALSE, Ops <- {"batch"}, Modes <- {"sync", "commit"}, SeqArgs <- {0},
    MaxSegs <- 2, MaxCalls <- 1, MaxDisturb <- 2

\* One caller after another call of its own, waiting for its blocks.
Sequential == INSTANCE TxSender WITH
    Ops <- {"batch", "send", "hash"}, Modes <- {"commit"}, SeqArgs <- {0},
    MaxSegs <- 2, MaxCalls <- 4, MaxDisturb <- 0

\* No other caller calls.
Alone(c) == \A d \in Callers \ {c} : calls[d] = 0

MCInit == Init /\ scenario \in {"undisturbed", "mixed", "arguments", "uncached", "sequential"}

MCNext == /\ UNCHANGED scenario
          /\ \/ scenario = "undisturbed" /\ Undisturbed!Next
             \/ scenario = "mixed" /\ Mixed!Next
             \/ /\ scenario = "arguments"
                /\ \/ \E c \in Callers : /\ Alone(c)
                                         /\ \/ Arguments!Begin(c) \/ Arguments!RejectBatch(c)
                                            \/ Arguments!Step(c)
                   \/ Arguments!Environment
             \/ scenario = "uncached" /\ Uncached!Next
             \/ /\ scenario = "sequential"
                /\ \/ \E c \in Callers : /\ Alone(c)
                                         /\ \/ Sequential!Begin(c) \/ Sequential!RejectBatch(c)
                                            \/ Sequential!Step(c)
                   \/ Sequential!Environment

MCSpec == MCInit /\ [][MCNext]_<<scenario, vars>>

\* SendBatch under its lock: undisturbed calls never meet a rejected sequence, and
\* with the cache disabled nothing is sent twice, whatever answer is lost.
LockedSendsOnce ==
    /\ scenario = "undisturbed" => UndisturbedNeverFails
    /\ scenario = "uncached" => Uncached!UncachedNeverRepeats

\* One sequential caller never gets two errors in a row.
FailureHeals == [][scenario = "sequential" => HealStep]_<<scenario, vars>>
=============================================================================
