------------------------------ MODULE MCClients ------------------------------
(***************************************************************************)
(* Parts of the client that share no state: the identifiers of             *)
(* subscribers, the subscriptions, the paged queries and the proposals.    *)
(* Init chooses the part that moves.                                       *)
(***************************************************************************)
EXTENDS UuidGenerator, Subscription

VARIABLES part,
          stored, page, size, read, done, first, came, gone,
          proposals, call, mempool, deposited, got

pageVars == <<stored, page, size, read, done, first, came, gone>>
govVars == <<proposals, call, mempool, deposited, got>>

Event(id, kind, attrs, decodes) ==
    [id |-> id, kind |-> kind, attrs |-> attrs, decodes |-> decodes]

\* Two transactions, one of them beyond the decoder, and a block.
FewEvents == {Event(1, "Tx", {"a"}, TRUE), Event(2, "Tx", {"a"}, FALSE),
              Event(3, "NewBlock", {"a"}, TRUE)}

\* One event of every kind, the block with a validator's key that cannot be read.
EachEvent == {Event(1, "Tx", {"a"}, TRUE), Event(2, "NewBlock", {}, FALSE),
              Event(3, "NewBlockHeader", {}, TRUE), Event(4, "ValidatorSetUpdates", {}, TRUE)}

SomeEvents == FewEvents \cup EachEvent

\* Builders used again.
Mixed == INSTANCE Subscription WITH
    Ops <- {"newBlock", "tx", "sendTx"}, Events <- FewEvents

\* Every kind of subscription.
Each == INSTANCE Subscription WITH
    Ops <- AllOps \ {"sendTx"}, Events <- EachEvent, MaxConds <- 1

Paged == INSTANCE Pages WITH
    Width <- 4, Entries <- 1 .. 5, FirstPages <- {0, 1, 2, 5, 9}, Sizes <- {0, 1, 2, 4},
    MaxChanges <- 2

Proposals == INSTANCE Gov WITH
    Callers <- {"a", "b"}, Depositors <- {"d", "e"}, Before <- 1, BeforeDeposits <- 99,
    Asked <- {"", "VOTE_OPTION_YES"}

-----------------------------------------------------------------------------
MCInit ==
    /\ part \in {"uuid", "mixed", "each", "pages", "gov"}
    /\ UuidInit /\ Init
    /\ Paged!Init /\ (part # "pages" => stored = {} /\ first = 1 /\ size = 1)
    /\ Proposals!Init /\ (part # "gov" => proposals[1].status = 1)

MCNext ==
    /\ UNCHANGED part
    /\ \/ part = "uuid" /\ UuidNext /\ UNCHANGED <<vars, pageVars, govVars>>
       \/ part = "mixed" /\ Mixed!Next /\ UNCHANGED <<uuidVars, pageVars, govVars>>
       \/ part = "each" /\ Each!Next /\ UNCHANGED <<uuidVars, pageVars, govVars>>
       \/ part = "pages" /\ Paged!Next /\ UNCHANGED <<uuidVars, vars, govVars>>
       \/ part = "gov" /\ Proposals!Next /\ UNCHANGED <<uuidVars, vars, pageVars>>

MCSpec == MCInit /\ [][MCNext]_<<part, uuidVars, vars, pageVars, govVars>>

\* A walk over pages that ParsePage asks for misses an entry only if one before it
\* went, reads one twice only if one before it came, and comes back to an early
\* page only if the product of ParsePage wraps around.
ReadOnceUnlessShifted ==
    part = "pages" =>
        Paged!MissedOnlyIfOneWent /\ Paged!TwiceOnlyIfOneCame /\ Paged!EarlyPageOnlyIfWrapped

\* SubmitProposal returns the number of the caller's own proposal and fails for one
\* that was submitted only without the events of the transaction; the lists of the
\* gov client are cut at their limit and nowhere else.
GovAnswersTrue ==
    part = "gov" => Proposals!IdIsOwn /\ Proposals!ErrorThoughSent /\ Proposals!CutOnlyAtLimit
=============================================================================
