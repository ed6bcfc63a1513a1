---------------------------- MODULE Subscription ----------------------------
(***************************************************************************)
(* Event subscriptions: modules/rpc_client.go, and SubscribeSendTx of      *)
(* modules/bank.  A subscription has a receive loop that starts one        *)
(* goroutine per event; the goroutine parses the event and calls the       *)
(* handler.  The websocket client (external) keeps the events of a         *)
(* subscription in order until the loop takes them.                        *)
(*                                                                         *)
(* A query is made by EventQueryBuilder of types/event.go: conditions are  *)
(* turned into text when they are added and joined by AND when the query   *)
(* is built.  A text is a sequence of tokens: conditions, and And.         *)
(***************************************************************************)
EXTENDS Naturals, Sequences, FiniteSets

CONSTANTS Subs,           \* subscriptions that can be made
          Builders,       \* query builders of the application
          Ops,            \* subscription functions used
          Events,         \* the events the node may emit, each at most once
          HandlersPanic,  \* whether the application's handlers may panic
          MaxConds,       \* bound: conditions the application adds
          Nil

ASSUME SubscriptionAssumption == IsFiniteSet(Subs) /\ MaxConds \in Nat

AllOps == {"newBlock", "tx", "header", "validators", "any", "sendTx"}

\* The event type each function asks for.
KindOf == [newBlock |-> "NewBlock", tx |-> "Tx", header |-> "NewBlockHeader",
           validators |-> "ValidatorSetUpdates", any |-> "Tx", sendTx |-> "Tx"]

VARIABLES conditions, \* texts in each builder
          used,       \* history: functions each builder was given to
          sub,        \* each subscription
          pending,    \* events not yet taken by its receive loop
          workers,    \* goroutines started for an event: <<s, event>>
          handled,    \* history: <<s, event>> in the order handlers returned
          emitted,    \* events the node has emitted
          crash       \* why the process ended, "no" while it runs

vars == <<conditions, used, sub, pending, workers, handled, emitted, crash>>

-----------------------------------------------------------------------------
(* EventQueryBuilder *)

\* A condition on the type of the event or on an attribute; op is "" until
\* LTE, GTE, LE, GE or EQ fills it.
Cond(key, val) == [key |-> key, val |-> val, op |-> "="]
TypeCond(kind) == Cond("tm.event", kind)
Incomplete == [key |-> "attribute", val |-> "", op |-> ""]

And == [key |-> "AND", val |-> "", op |-> "AND"]

\* condition.String: no text for a condition without a key or an operator.
CondString(c) == IF c.op = "" THEN << >> ELSE <<c>>

\* Mutant: AND is written before the test for an empty buffer.
BuildLeading(texts) ==
    LET buf[n \in 0 .. Len(texts)] ==
            IF n = 0 THEN << >> ELSE Append(buf[n - 1], And) \o texts[n]
    IN  buf[Len(texts)]

\* Mutant: the last condition is left out.
BuildShort(texts) ==
    LET buf[n \in 0 .. Len(texts)] ==
            IF n = 0 THEN << >>
            ELSE (IF buf[n - 1] = << >> THEN << >> ELSE Append(buf[n - 1], And)) \o texts[n]
    IN  buf[IF Len(texts) = 1 THEN 1 ELSE Len(texts) - 1]

\* Build: buf[n] is the buffer after n conditions; AND is written when it is not empty.
Build(texts) ==
    LET buf[n \in 0 .. Len(texts)] ==
            IF n = 0 THEN << >>
            ELSE (IF buf[n - 1] = << >> THEN << >> ELSE Append(buf[n - 1], And)) \o texts[n]
    IN  buf[Len(texts)]

\* The node accepts conditions separated by single ANDs (external).
WellFormed(query) ==
    /\ Len(query) % 2 = 1
    /\ \A i \in DOMAIN query : (query[i] = And) <=> (i % 2 = 0)

Kinds(query) == {query[i].val : i \in {j \in DOMAIN query :
                    j % 2 = 1 /\ query[j].key = "tm.event"}}

\* The events a query selects (external).
Matches(query, event) ==
    \A i \in DOMAIN query : i % 2 = 1 =>
        IF query[i].key = "tm.event" THEN query[i].val = event.kind
        ELSE query[i].val \in event.attrs

-----------------------------------------------------------------------------
Free == [state |-> "free", op |-> "any", query |-> << >>]

TypeOK ==
    /\ \A b \in Builders : Len(conditions[b]) <= MaxConds + Cardinality(Subs)
    /\ used \in [Builders -> SUBSET Ops]
    /\ \A s \in Subs : /\ sub[s].state \in {"free", "rejected", "on", "lost", "off"}
                       /\ sub[s].op \in AllOps
    /\ workers \subseteq Subs \X Events
    /\ emitted \subseteq Events
    /\ crash \in {"no", "type", "handler", "undecoded"}

Init == /\ conditions = [b \in Builders |-> << >>]
        /\ used = [b \in Builders |-> {}]
        /\ sub = [s \in Subs |-> Free]
        /\ pending = [s \in Subs |-> << >>]
        /\ workers = {}
        /\ handled = << >>
        /\ emitted = {}
        /\ crash = "no"

Running == crash = "no"

-----------------------------------------------------------------------------
AddCondition(b, c) ==
    /\ Running
    /\ Len(conditions[b]) < MaxConds
    /\ conditions' = [conditions EXCEPT ![b] = Append(@, CondString(c))]
    /\ UNCHANGED <<used, sub, pending, workers, handled, emitted, crash>>

\* SubscribeAny: the node refuses a query it cannot parse.  (A call that fails
\* for another reason leaves nothing behind.)
SubscribeAny(s, op, query) ==
    /\ Running /\ sub[s].state = "free" /\ op \in Ops
    /\ \/ /\ WellFormed(query)
          /\ sub' = [sub EXCEPT ![s] = [state |-> "on", op |-> op, query |-> query]]
       \/ /\ ~ WellFormed(query)
          /\ sub' = [sub EXCEPT ![s] = [state |-> "rejected", op |-> op, query |-> query]]
    /\ UNCHANGED <<pending, workers, handled, emitted, crash>>

\* Mutant: the condition is added twice.
SubscribeBuiltTwice(s, op, b) ==
    LET cond == CondString(TypeCond(KindOf[op]))
        added == Append(IF b = Nil THEN << >> ELSE conditions[b], cond) IN
    /\ op \in {"newBlock", "tx"}
    /\ SubscribeAny(s, op, Build(added))
    /\ IF b = Nil THEN UNCHANGED <<conditions, used>>
       ELSE /\ conditions' = [conditions EXCEPT ![b] = Append(added, cond)]
            /\ used' = [used EXCEPT ![b] = @ \cup {op}]

\* Mutant: without a builder, one that is shared is used.
SubscribeBuiltShared(s, op, b) ==
    LET b1 == IF b = Nil THEN CHOOSE x \in Builders : TRUE ELSE b
        added == Append(conditions[b1], CondString(TypeCond(KindOf[op]))) IN
    /\ op \in {"newBlock", "tx"}
    /\ SubscribeAny(s, op, Build(added))
    /\ conditions' = [conditions EXCEPT ![b1] = added]
    /\ used' = IF b = Nil THEN used ELSE [used EXCEPT ![b] = @ \cup {op}]

\* SubscribeNewBlock and SubscribeTx add their condition to the caller's
\* builder, or to a new one.
SubscribeBuilt(s, op, b) ==
    LET added == Append(IF b = Nil THEN << >> ELSE conditions[b],
                        CondString(TypeCond(KindOf[op]))) IN
    /\ op \in {"newBlock", "tx"}
    /\ SubscribeAny(s, op, Build(added))
    /\ IF b = Nil THEN UNCHANGED <<conditions, used>>
       ELSE /\ conditions' = [conditions EXCEPT ![b] = added]
            /\ used' = [used EXCEPT ![b] = @ \cup {op}]

\* SubscribeNewBlockHeader and SubscribeValidatorSetUpdates, and SubscribeAny
\* called directly.
SubscribeKind(s, op) ==
    /\ op \in {"header", "validators", "any"}
    /\ SubscribeAny(s, op, Build(<<CondString(TypeCond(KindOf[op]))>>))
    /\ UNCHANGED <<conditions, used>>

\* SubscribeSendTx: a condition for the sender and one for the recipient, each
\* left out when empty.  Its error is dropped.
SubscribeSendTx(s, from, to) ==
    LET attr(key, a) == IF a = Nil THEN << >> ELSE << CondString(Cond(key, a)) >> IN
    /\ SubscribeAny(s, "sendTx", Build(attr("message.sender", from)
                                       \o attr("transfer.recipient", to)
                                       \o << CondString(TypeCond("Tx")) >>))
    /\ UNCHANGED <<conditions, used>>

\* Resubscribe does not return the new subscription: nobody can end it.  Its handler
\* is not wrapped in a type assertion (Outcomes).
Resubscribe(s, t) ==
    /\ Running /\ sub[s].state \in {"on", "off"} /\ sub[t].state = "free"
    /\ sub' = [sub EXCEPT ![t] = [sub[s] EXCEPT !.state = "lost"]]
    /\ UNCHANGED <<conditions, used, pending, workers, handled, emitted, crash>>

\* The node and the websocket drop what the loop has not taken.  The loop and
\* the goroutines it started go on.
Unsubscribe(s) ==
    /\ Running /\ sub[s].state = "on"
    /\ sub' = [sub EXCEPT ![s].state = "off"]
    /\ pending' = [pending EXCEPT ![s] = << >>]
    /\ UNCHANGED <<conditions, used, workers, handled, emitted, crash>>

Live(s) == sub[s].state \in {"on", "lost"}

Emit(e) ==
    /\ Running /\ e \notin emitted
    /\ emitted' = emitted \cup {e}
    /\ pending' = [s \in Subs |-> IF Live(s) /\ Matches(sub[s].query, e)
                                  THEN Append(pending[s], e) ELSE pending[s]]
    /\ UNCHANGED <<conditions, used, sub, workers, handled, crash>>

-----------------------------------------------------------------------------
\* Mutant: the event is not taken out of the channel.
ReceiveKeeps(s) ==
    /\ Running /\ pending[s] # << >>
    /\ workers' = workers \cup {<<s, Head(pending[s])>>}
    /\ UNCHANGED <<conditions, used, sub, pending, handled, emitted, crash>>

\* Mutant: the loop ends after the first event.
ReceiveOnce(s) ==
    /\ Running /\ pending[s] # << >>
    /\ \A i \in DOMAIN handled : handled[i][1] # s
    /\ workers' = workers \cup {<<s, Head(pending[s])>>}
    /\ pending' = [pending EXCEPT ![s] = Tail(@)]
    /\ UNCHANGED <<conditions, used, sub, handled, emitted, crash>>

\* The receive loop takes an event and starts a goroutine for it.
Receive(s) ==
    /\ Running /\ pending[s] # << >>
    /\ workers' = workers \cup {<<s, Head(pending[s])>>}
    /\ pending' = [pending EXCEPT ![s] = Tail(@)]
    /\ UNCHANGED <<conditions, used, sub, handled, emitted, crash>>

\* Mutant: every transaction comes out empty.
UndecodedTx(e) == e.kind = "Tx"

\* parseTx answers an empty event for a transaction it cannot decode.
Undecoded(e) == e.kind = "Tx" /\ ~ e.decodes

\* Mutant: the keys of headers are never read.
NilKeyHeader(e) == e.kind = "NewBlockHeader"

\* The validators of a block, of a header or of an update are read with their keys:
\* when a key cannot be read the error is ignored, and reading the nil key panics.
NilKey(e) == e.kind # "Tx" /\ ~ e.decodes

\* What becomes of an event: it is parsed, the typed handlers assert the type, the
\* one of SubscribeSendTx reads the messages of the transaction, which panics when
\* there is none, and an application's handler may panic.  Resubscribe and
\* SubscribeAny take the application's handler as it is.
Outcomes(s, e) ==
    LET op == sub[s].op
        typed == op # "any" /\ sub[s].state # "lost"
    IN  IF NilKey(e) THEN {"undecoded"}
        ELSE IF typed /\ e.kind # KindOf[op] THEN {"type"}
        ELSE IF typed /\ op = "sendTx" /\ Undecoded(e) THEN {"undecoded"}
        ELSE IF HandlersPanic THEN {"no", "handler"} ELSE {"no"}

\* A goroutine runs the handler.  A panic is recovered by CatchPanic, whose
\* callback dereferences the nil error of SubscribeAny: the process ends.
Handle(s, e) ==
    /\ Running /\ <<s, e>> \in workers
    /\ workers' = workers \ {<<s, e>>}
    /\ \E outcome \in Outcomes(s, e) :
        /\ crash' = outcome
        /\ handled' = IF outcome = "no" THEN Append(handled, <<s, e>>) ELSE handled
    /\ UNCHANGED <<conditions, used, sub, pending, emitted>>

Next == \/ \E b \in Builders : \E c \in {Cond("attribute", "a"), Incomplete} :
                AddCondition(b, c)
        \/ \E s \in Subs, op \in Ops, b \in Builders \cup {Nil} : SubscribeBuilt(s, op, b)
        \/ \E s \in Subs, op \in Ops : SubscribeKind(s, op)
        \/ \E s \in Subs, from, to \in {Nil, "a"} : SubscribeSendTx(s, from, to)
        \/ \E s, t \in Subs : Resubscribe(s, t)
        \/ \E s \in Subs : Unsubscribe(s) \/ Receive(s)
        \/ \E e \in Events : Emit(e)
        \/ \E w \in workers : Handle(w[1], w[2])

Spec == Init /\ [][Next]_vars

\* Goroutines that can run are run.
FairSpec == /\ Spec
            /\ \A s \in Subs : WF_vars(Receive(s))
            /\ \A s \in Subs, e \in Events : WF_vars(Handle(s, e))

-----------------------------------------------------------------------------
(* Properties *)

\* No handler gets an event twice, whatever order the goroutines run in.
HandledOnce == \A i, j \in DOMAIN handled : handled[i] = handled[j] => i = j

\* The type assertions in the handlers never fail: the condition each function
\* adds keeps other events away, whatever else is in the builder.
NoTypePanic == crash # "type"

\* Without a panic of the application's own, the process ends only by an event of
\* a subscription's kind that cannot be decoded: a transaction in SubscribeSendTx,
\* or validators with a key that cannot be read, in any subscription to blocks,
\* headers or validators.
CrashOnlyByUndecoded ==
    ~ HandlersPanic /\ ~ Running =>
        \E s \in Subs : \E e \in emitted :
            /\ ~ e.decodes /\ e.kind = KindOf[sub[s].op]
            /\ e.kind = "Tx" => sub[s].op = "sendTx" /\ sub[s].state # "lost"

\* The node refuses a query only if a condition without an operator was added.
RejectedOnlyIfIncomplete ==
    \A s \in Subs : sub[s].state = "rejected" =>
        \E b \in Builders : \E i \in DOMAIN conditions[b] : conditions[b][i] = << >>

\* A query that asks for two event types, and so for nothing, comes only from a
\* builder given to both functions: each leaves its condition behind.
ConflictOnlyIfReused ==
    \A s \in Subs : Cardinality(Kinds(sub[s].query)) > 1 =>
        \E b \in Builders : {"newBlock", "tx"} \subseteq used[b]

\* A handler gets an event once, and one of its kind; and the functions leave one
\* condition each in a builder, as TypeOK bounds them.
HandledOnceByKind == TypeOK /\ HandledOnce /\ NoTypePanic

\* A query that is refused, or selects nothing, comes from a misused builder.
QueryWrongOnlyIfMisused == RejectedOnlyIfIncomplete /\ ConflictOnlyIfReused

\* Every event the node emits for a subscription is handled, unless the
\* subscription or the process ends first.
EveryEventHandled ==
    \A s \in Subs, e \in Events :
        (\E i \in DOMAIN pending[s] : pending[s][i] = e) ~>
            (\/ \E i \in DOMAIN handled : handled[i] = <<s, e>>
             \/ sub[s].state = "off" \/ ~ Running)
=============================================================================
