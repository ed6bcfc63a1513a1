--------------------------------- MODULE Gov ---------------------------------
(***************************************************************************)
(* modules/gov: callers submit proposals and add deposits in the modes of  *)
(* broadcastTx, and ask for proposals and deposits.  SubmitProposal reads  *)
(* the number of the proposal from the events of the transaction.          *)
(***************************************************************************)
EXTENDS Integers, Sequences, SequencesExt

CONSTANTS Callers,       \* calls of SubmitProposal
          Depositors,    \* calls of Deposit
          Before,        \* proposals there from the start
          BeforeDeposits,\* deposits that each of them has
          Asked          \* the names that QueryProposals is asked with

VARIABLES proposals,     \* at the node: [by, status, deposits]
          call,          \* the calls of SubmitProposal
          mempool,       \* the transactions that the node holds
          deposited,     \* the depositors whose deposit was made
          got            \* the last answer to a query

vars == <<proposals, call, mempool, deposited, got>>

-----------------------------------------------------------------------------
(* types/events.go: the events of a transaction as the client sees them.   *)
(* An event of the node is [type, attributes], its attributes pairs of a   *)
(* key and a value.  The result of Flatten is sorted by type and has each  *)
(* type once: it is a function from types to attributes.                   *)

\* StringifyEvents and Flatten: the attributes of the events of a type, in order.
StringifyEvents(es) ==
    [t \in {es[k].type : k \in DOMAIN es} |->
        FoldLeft(LAMBDA acc, e : IF e.type = t THEN acc \o e.attributes ELSE acc, << >>, es)]

\* GetValue: the first value of the key, or << >> for its error.
GetValue(flat, typ, key) ==
    LET found == IF typ \in DOMAIN flat THEN SelectSeq(flat[typ], LAMBDA a : a[1] = key)
                 ELSE << >>
    IN  IF found = << >> THEN << >> ELSE <<Head(found)[2]>>

-----------------------------------------------------------------------------
Limit == 100                \* of every list that the client asks for

VoteOption_value(name) ==
    CASE name = "VOTE_OPTION_YES" -> 1 [] name = "VOTE_OPTION_ABSTAIN" -> 2
      [] name = "VOTE_OPTION_NO" -> 3 [] name = "VOTE_OPTION_NO_WITH_VETO" -> 4
      [] OTHER -> 0

ProposalStatus_value(name) ==
    CASE name = "PROPOSAL_STATUS_DEPOSIT_PERIOD" -> 1 [] name = "PROPOSAL_STATUS_VOTING_PERIOD" -> 2
      [] name = "PROPOSAL_STATUS_PASSED" -> 3 [] name = "PROPOSAL_STATUS_REJECTED" -> 4
      [] name = "PROPOSAL_STATUS_FAILED" -> 5 [] OTHER -> 0

\* The answer of the node to a request for the first n.
FirstOf(s, n) == IF Len(s) <= n THEN s ELSE SubSeq(s, 1, n)

\* The events of an executed proposal: of the fee, of the proposal, of its deposit,
\* and of the voting period if the deposit is enough for it.
EventsOf(id, voting) ==
    <<[type |-> "message", attributes |-> << <<"action", 0>> >>],
      [type |-> "submit_proposal", attributes |-> << <<"proposal_id", id>> >>],
      [type |-> "proposal_deposit", attributes |-> << <<"amount", 1>>, <<"proposal_id", id>> >>]>>
    \o IF voting THEN <<[type |-> "submit_proposal", attributes |-> << <<"voting_period_start", id>> >>]>>
       ELSE << >>

-----------------------------------------------------------------------------
NoCall == [st |-> "idle", mode |-> "", events |-> << >>, id |-> 0, lost |-> FALSE]
Nothing == [kind |-> "none", asked |-> "", list |-> << >>, all |-> << >>]

Init == /\ proposals \in [1 .. Before -> [by : {"other"}, status : {1, 2}, deposits : {BeforeDeposits}]]
        /\ call = [c \in Callers |-> NoCall]
        /\ mempool = {} /\ deposited = {} /\ got = Nothing

Returned(c, id, st, lost) == call' = [call EXCEPT ![c].st = st, ![c].id = id, ![c].lost = lost]

\* A key, a coin or a type of proposal that is unknown: the call ends before it sends.
SubmitInvalid(c) ==
    /\ call[c].st = "idle"
    /\ Returned(c, 0, "error", FALSE)
    /\ UNCHANGED <<proposals, mempool, deposited, got>>

\* SubmitProposal until BuildAndSend has sent the transaction.
SubmitProposal(c, mode) ==
    /\ call[c].st = "idle"
    /\ call' = [call EXCEPT ![c].st = "sent", ![c].mode = mode]
    /\ mempool' = mempool \cup {c}
    /\ UNCHANGED <<proposals, deposited, got>>

\* The node executes a transaction, or drops it.
Execute(c, voting) ==
    /\ c \in mempool
    /\ mempool' = mempool \ {c}
    /\ LET p == [by |-> c, status |-> IF voting THEN 2 ELSE 1, deposits |-> 1]
       IN  proposals' = Append(proposals, p)
    /\ call' = [call EXCEPT ![c].events = EventsOf(Len(proposals'), voting)]
    /\ UNCHANGED <<deposited, got>>

Drop(c) ==
    /\ c \in mempool
    /\ mempool' = mempool \ {c}
    /\ UNCHANGED <<proposals, call, deposited, got>>

\* Mutant: the proposal is taken to be the last one.
SubmitEndsLast(c) ==
    /\ call[c].st = "sent" /\ (call[c].mode = "commit" => c \notin mempool)
    /\ LET events == IF call[c].mode = "commit" THEN call[c].events ELSE << >>
       IN  IF events = << >> THEN Returned(c, 0, "error", FALSE)
           ELSE Returned(c, Len(proposals), "ok", FALSE)
    /\ UNCHANGED <<proposals, mempool, deposited, got>>

\* Mutant: the event is looked for under the name of the deposit.
SubmitEndsDeposit(c) ==
    /\ call[c].st = "sent" /\ (call[c].mode = "commit" => c \notin mempool)
    /\ LET events == IF call[c].mode = "commit" THEN call[c].events ELSE << >>
           id == GetValue(StringifyEvents(events), "deposit", "proposal_id")
       IN  IF id = << >> THEN Returned(c, 0, "error", FALSE) ELSE Returned(c, id[1], "ok", FALSE)
    /\ UNCHANGED <<proposals, mempool, deposited, got>>

\* The answer to BuildAndSend, which has the events in Commit mode only, and the rest
\* of SubmitProposal.
SubmitEnds(c) ==
    /\ call[c].st = "sent" /\ (call[c].mode = "commit" => c \notin mempool)
    /\ LET events == IF call[c].mode = "commit" THEN call[c].events ELSE << >>
           id == GetValue(StringifyEvents(events), "submit_proposal", "proposal_id")
       IN  IF id = << >> THEN Returned(c, 0, "error", FALSE) ELSE Returned(c, id[1], "ok", FALSE)
    /\ UNCHANGED <<proposals, mempool, deposited, got>>

\* The answer to BuildAndSend does not come.
SubmitLost(c) ==
    /\ call[c].st = "sent"
    /\ Returned(c, 0, "error", TRUE)
    /\ UNCHANGED <<proposals, mempool, deposited, got>>

\* Deposit by an address that did not deposit before, once the node executes it; one
\* that fails on the way changes nothing here.
Deposit(d, p) ==
    /\ d \notin deposited /\ deposited' = deposited \cup {d}
    /\ proposals' = [proposals EXCEPT ![p].deposits = @ + 1]
    /\ UNCHANGED <<call, mempool, got>>

\* QueryProposals; proposals are known by their numbers.
QueryProposals(name) ==
    LET status == VoteOption_value(name)
        all == SelectSeq([k \in DOMAIN proposals |-> k],
                         LAMBDA k : status = 0 \/ proposals[k].status = status)
    IN  /\ got' = [kind |-> "proposals", asked |-> name, list |-> FirstOf(all, Limit), all |-> all]
        /\ UNCHANGED <<proposals, call, mempool, deposited>>

\* Mutant: the first one is left out.
QueryDepositsSecond(p) ==
    LET all == [k \in 1 .. proposals[p].deposits |-> k]
    IN  /\ got' = [kind |-> "deposits", asked |-> "", list |-> FirstOf(Tail(all), Limit), all |-> all]
        /\ UNCHANGED <<proposals, call, mempool, deposited>>

\* QueryDeposits.
QueryDeposits(p) ==
    LET all == [k \in 1 .. proposals[p].deposits |-> k]
    IN  /\ got' = [kind |-> "deposits", asked |-> "", list |-> FirstOf(all, Limit), all |-> all]
        /\ UNCHANGED <<proposals, call, mempool, deposited>>

Next == \/ \E c \in Callers :
              \/ SubmitInvalid(c) \/ SubmitEnds(c) \/ SubmitLost(c) \/ Drop(c)
              \/ \E mode \in {"commit", "sync", "async"} : SubmitProposal(c, mode)
              \/ \E voting \in BOOLEAN : Execute(c, voting)
        \/ \E p \in DOMAIN proposals : QueryDeposits(p) \/ \E d \in Depositors : Deposit(d, p)
        \/ \E name \in Asked : QueryProposals(name)

Spec == Init /\ [][Next]_vars

-----------------------------------------------------------------------------
(* Properties *)

Submitted(c) == \E k \in DOMAIN proposals : proposals[k].by = c

\* A call of SubmitProposal that returns without an error returns the number of its
\* own proposal, also when others submit at the same time.
IdIsOwn == \A c \in Callers : call[c].st = "ok" => proposals[call[c].id].by = c

\* An error of SubmitProposal although the proposal is, or may still be, submitted
\* comes only without the events of the transaction: in Sync and Async mode, where it
\* always comes, or when the answer is lost.  A caller that tries again then submits
\* a second proposal.
ErrorThoughSent ==
    \A c \in Callers :
        /\ call[c].st = "error" /\ (Submitted(c) \/ c \in mempool) =>
              call[c].lost \/ call[c].mode \in {"sync", "async"}
        /\ call[c].st = "ok" => call[c].mode = "commit" /\ Submitted(c)

\* A list that the client asks for is cut only if it has more than the 100 entries
\* of the request, and then it has just these.
CutOnlyAtLimit == got.list # got.all => Len(got.list) = Limit /\ Len(got.all) > Limit

\* gov.md: proposals are filtered by the status that QueryProposals is given.
FilteredByStatus ==
    [][got' # got /\ got'.kind = "proposals" =>
         \A k \in DOMAIN got'.list :
            LET s == ProposalStatus_value(got'.asked)
            IN  s # 0 => proposals[got'.list[k]].status = s]_vars
=============================================================================
