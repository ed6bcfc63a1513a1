----------------------------- MODULE MCLiveness -----------------------------
(***************************************************************************)
(* What has to happen in the end: calls that return, shards that are       *)
(* handed on, events that are handled.  Init chooses a scenario of the     *)
(* senders or the subscriptions, which share no state.                     *)
(***************************************************************************)
EXTENDS MCTxSender

CONSTANTS sub1, sub2, Nil

VARIABLES scenario,
          conditions, used, sub, pending, workers, handled, emitted, crash

eventVars == <<conditions, used, sub, pending, workers, handled, emitted, crash>>

\* Three SendBatch calls for names on one shard.
Queue == INSTANCE TxSender WITH
    Names <- {alice, bob}, Ops <- {"batch"}, Modes <- {"unsupported"}, SeqArgs <- {0},
    MaxSegs <- 1, MaxCalls <- 1, MaxDisturb <- 0

\* SendBatch calls of two segments that meet a disturbance.
Retry == INSTANCE TxSender WITH
    Names <- {alice}, Ops <- {"batch"}, Modes <- {"commit"}, SeqArgs <- {0},
    MaxSegs <- 2, MaxCalls <- 1, MaxDisturb <- 1

\* Two SendBatch calls on one shard or on two.
Apart == INSTANCE TxSender WITH
    Names <- {alice, alias}, Ops <- {"batch"}, Modes <- {"unsupported"}, SeqArgs <- {0},
    MaxSegs <- 1, MaxCalls <- 1, MaxDisturb <- 0

Event(id, kind) == [id |-> id, kind |-> kind, attrs |-> {"a"}, decodes |-> TRUE]
SomeEvents == {Event(1, "Tx"), Event(2, "Tx")}

Subscriptions == INSTANCE Subscription WITH
    Subs <- {sub1, sub2}, Builders <- {}, Ops <- {"newBlock", "tx"},
    Events <- SomeEvents,
    HandlersPanic <- TRUE, MaxConds <- 0

MCInit == /\ scenario \in {"queue", "retry", "apart", "subscriptions"}
          /\ Init /\ Subscriptions!Init

\* The steps of a started call.
CallStep(c) == /\ \/ scenario = "queue" /\ Queue!Step(c)
                  \/ scenario = "retry" /\ Retry!Step(c)
                  \/ scenario = "apart" /\ Apart!Step(c)
               /\ UNCHANGED <<scenario, eventVars>>

MCNext == \/ \E c \in Callers : CallStep(c)
          \/ /\ \/ \E c \in Callers :
                      \/ scenario = "queue" /\ (Queue!Begin(c) \/ Queue!RejectBatch(c))
                      \/ /\ scenario \in {"retry", "apart"} /\ c # c3
                         /\ \/ scenario = "retry" /\ (Retry!Begin(c) \/ Retry!RejectBatch(c))
                            \/ scenario = "apart" /\ (Apart!Begin(c) \/ Apart!RejectBatch(c))
                \/ scenario = "retry" /\ Retry!Environment
             /\ UNCHANGED <<scenario, eventVars>>
          \/ scenario = "subscriptions" /\ Subscriptions!Next /\ UNCHANGED <<scenario, vars>>

Deliver == BlockDelivers /\ UNCHANGED <<scenario, eventVars>>
Loop(s) == scenario = "subscriptions" /\ Subscriptions!Receive(s) /\ UNCHANGED <<scenario, vars>>
Goroutine(s, e) == scenario = "subscriptions" /\ Subscriptions!Handle(s, e) /\ UNCHANGED <<scenario, vars>>

mcVars == <<scenario, vars, eventVars>>

\* The fairness of the two modules.
MCSpec == /\ MCInit /\ [][MCNext]_mcVars
          /\ \A c \in Callers : WF_mcVars(~ Asking(c) /\ CallStep(c))
          /\ WF_mcVars(Deliver)
          /\ \A s \in {sub1, sub2} : WF_mcVars(Loop(s))
          /\ \A s \in {sub1, sub2}, e \in SomeEvents : WF_mcVars(Goroutine(s, e))

\* Every call of SendBatch that was started returns, and a line for a shard moves on
\* as the fairness of FairLock promises, unless the node never answers an account or
\* token query of the call that holds the shard: these have no deadline.
EveryCallReturnsInTurn == EveryCallReturns /\ FairLockLive

\* Every event that the node sends to a subscription reaches its handler.
EveryEventHandled == Subscriptions!EveryEventHandled
=============================================================================
