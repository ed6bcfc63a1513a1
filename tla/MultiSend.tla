------------------------------ MODULE MultiSend ------------------------------
(***************************************************************************)
(* One transfer to many receivers: MultiSend and SendBatch of modules/bank *)
(* over SubArray (utils/commom.go) and the segment loop of the base        *)
(* client's SendBatch, with its retries.  Receipts are cut into messages   *)
(* of maxMsgLen, the messages into transactions of maxBatch.  Who else is  *)
(* sending, with which sequences, and simulation are in TxSender.          *)
(***************************************************************************)
EXTENDS Naturals, Sequences

CONSTANTS maxMsgLen,    \* receipts in one message
          maxBatch,     \* messages in one transaction
          tryThreshold, \* failed broadcasts after which SendBatch gives up
          Requests      \* the requests, each a sequence of receipts

\* A receipt whose amount or address cannot be converted is "malformed", one
\* that converts but fails ValidateBasic (no coins) is "empty".
Kinds == {"good", "malformed", "empty"}
Receipts == [id: Nat, kind: Kinds]

ASSUME MultiSendAssumption == /\ maxMsgLen \in Nat \ {0}
                              /\ maxBatch \in Nat \ {0}
                              /\ tryThreshold \in Nat \ {0}
                              /\ Requests \subseteq Seq(Receipts)

VARIABLES cached,    \* the configuration: SendBatch retries only with the cache
          receipts,  \* the request
          segments,  \* its transactions, each a sequence of messages
          status,    \* where the call is, or how it ended
          rs,        \* number of results
          tryCnt,    \* failed broadcasts of SendBatch
          sent,      \* history: the receipts that the node said it took, in order
          lost       \* history: what it took besides, the answer having been lost,
                     \* and how much had been sent before

sendVars == <<cached, receipts, segments, status, rs, tryCnt, sent, lost>>

\* "caught": a panic was recovered, and the call returns a nil error.
Statuses == {"start", "validate", "sending", "ok", "err", "caught", "panic"}

SendInit == /\ cached \in BOOLEAN
            /\ receipts \in Requests
            /\ segments = << >>
            /\ status = "start"
            /\ rs = 0 /\ tryCnt = 0
            /\ sent = << >> /\ lost = << >>

-----------------------------------------------------------------------------
\* Mutant: the rest after the last full segment is forgotten.
SubArrayFull(subLen, array) ==
    IF Len(array) <= subLen THEN <<array>>
    ELSE [i \in 1 .. (Len(array) \div subLen) |->
            SubSeq(array, (i - 1) * subLen + 1, i * subLen)]

\* Mutant: a segment starts with the last element of the one before.
SubArrayOverlaps(subLen, array) ==
    LET batch == (Len(array) + subLen - 1) \div subLen
    IN  IF Len(array) <= subLen THEN <<array>>
        ELSE [i \in 1 .. batch |->
                SubSeq(array, IF i = 1 THEN 1 ELSE (i - 1) * subLen,
                              IF i # batch THEN i * subLen ELSE Len(array))]

\* Mutant: segments of equal size instead of full ones.
SubArrayEven(subLen, array) ==
    LET batch == (Len(array) + subLen - 1) \div subLen
        start(i) == (i * Len(array)) \div batch
    IN  IF Len(array) <= subLen THEN <<array>>
        ELSE [i \in 1 .. batch |-> SubSeq(array, start(i - 1) + 1, start(i))]

SubArray(subLen, array) ==
    LET maxLen == Len(array)
        batch == (maxLen \div subLen) + (IF maxLen % subLen > 0 THEN 1 ELSE 0)
    IN  IF maxLen <= subLen THEN <<array>>
        ELSE [i \in 1 .. batch |->
                SubSeq(array, (i - 1) * subLen + 1,
                              IF i # batch THEN i * subLen ELSE maxLen)]

\* The receipts of a transaction, message after message.
ReceiptsOf(msgs) ==
    LET upTo[j \in 0 .. Len(msgs)] == IF j = 0 THEN << >> ELSE upTo[j - 1] \o msgs[j]
    IN  upTo[Len(msgs)]

\* MsgMultiSend.ValidateBasic
ValidateBasic(msg) == /\ msg # << >>
                      /\ \A i \in DOMAIN msg : msg[i].kind # "empty"

\* SendBatch is for requests of more than one message.
Long == Len(receipts) > maxMsgLen

\* The call ends, or goes on, with the results it has.
Goes(to) == /\ status' = to
            /\ UNCHANGED <<cached, receipts, segments, rs, tryCnt, sent, lost>>

\* The sender's key is not found, or the token of an amount.
NotFound == status = "start" /\ Goes("err")

\* Every receipt is converted before anything is sent.  A short request is
\* one message, given to BuildAndSend without validation.
Convert ==
    /\ status = "start"
    /\ IF \E i \in DOMAIN receipts : receipts[i].kind = "malformed"
       THEN status' = "err" /\ UNCHANGED segments
       ELSE IF Long
       THEN /\ segments' = SubArray(maxBatch, SubArray(maxMsgLen, receipts))
            /\ status' = "validate"
       ELSE /\ segments' = << <<receipts>> >>
            /\ status' = "sending"
    /\ UNCHANGED <<cached, receipts, rs, tryCnt, sent, lost>>

\* Mutant: each segment is validated only when its turn comes.
ValidateLazily ==
    /\ status = "validate"
    /\ Goes(IF \A j \in DOMAIN segments[1] : ValidateBasic(segments[1][j])
            THEN "sending" ELSE "err")

\* The base client's SendBatch validates all messages before the first one
\* is sent.
Validate ==
    /\ status = "validate"
    /\ Goes(IF \A i \in DOMAIN segments : \A j \in DOMAIN segments[i] :
                    ValidateBasic(segments[i][j])
            THEN "sending" ELSE "err")

\* The transaction cannot be built or signed.
BuildFails == status = "sending" /\ Goes("err")

\* Something panics: SendBatch of the base client recovers and returns a nil error
\* with the results so far, the rest of MultiSend does not recover.
Panics ==
    \/ status = "start" /\ Goes("panic")
    \/ status = "sending" /\ Goes(IF Long THEN "caught" ELSE "panic")

\* The transaction in turn; the node takes it only if it is valid.
Current == segments[rs + 1]
Valid == \A j \in DOMAIN Current : ValidateBasic(Current[j])

\* Mutant: the end of the loop is tested before the result is counted.
BroadcastLate ==
    /\ status = "sending" /\ Valid
    /\ sent' = sent \o ReceiptsOf(Current)
    /\ rs' = rs + 1
    /\ status' = IF rs = Len(segments) THEN "ok" ELSE "sending"
    /\ UNCHANGED <<cached, receipts, segments, tryCnt, lost>>

\* The transaction is built and broadcast, and the node says that it took it.
Broadcast ==
    /\ status = "sending" /\ Valid
    /\ sent' = sent \o ReceiptsOf(Current)
    /\ rs' = rs + 1
    /\ status' = IF rs + 1 = Len(segments) THEN "ok" ELSE "sending"
    /\ UNCHANGED <<cached, receipts, segments, tryCnt, lost>>

\* The node took the transaction and its answer was lost, or it did not.
Unanswered ==
    \/ UNCHANGED lost
    \/ Valid /\ lost' = Append(lost, [at |-> Len(sent), what |-> ReceiptsOf(Current)])

\* Mutant: one broadcast too many.
BroadcastFailsLate ==
    /\ status = "sending"
    /\ Unanswered
    /\ tryCnt' = IF Long /\ cached THEN tryCnt + 1 ELSE tryCnt
    /\ status' = IF Long /\ cached /\ tryCnt < tryThreshold THEN "sending" ELSE "err"
    /\ UNCHANGED <<cached, receipts, segments, rs, sent>>

\* The broadcast ends with an error.  SendBatch tries the same transaction again
\* if there is a cache, up to a number for the whole call.
BroadcastFails ==
    /\ status = "sending"
    /\ Unanswered
    /\ tryCnt' = IF Long /\ cached THEN tryCnt + 1 ELSE tryCnt
    /\ status' = IF Long /\ cached /\ tryCnt' < tryThreshold THEN "sending" ELSE "err"
    /\ UNCHANGED <<cached, receipts, segments, rs, sent>>

SendNext == \/ NotFound \/ Convert \/ Validate \/ BuildFails \/ Panics
            \/ Broadcast \/ BroadcastFails

SendSpec == SendInit /\ [][SendNext]_sendVars

-----------------------------------------------------------------------------
(* Properties *)

\* Types, and the index of the segment loop.
SendTypeOK == /\ cached \in BOOLEAN
              /\ receipts \in Seq(Receipts)
              /\ status \in Statuses
              /\ rs \in 0 .. Len(segments)
              /\ status = "sending" => rs < Len(segments)
              /\ tryCnt \in 0 .. tryThreshold
              /\ sent \in Seq({receipts[i] : i \in DOMAIN receipts})

\* SubArray twice, the segment loop, its retries and an end at any point: what
\* the node said it took is a prefix of the request, so that no receiver is
\* skipped, or paid out of order.  Only what the node took without an answer
\* reaching the client can be paid twice, and then as a whole: it is what follows
\* the prefix of its time.
SentIsPrefix ==
    /\ Len(sent) <= Len(receipts) /\ sent = SubSeq(receipts, 1, Len(sent))
    /\ \A i \in DOMAIN lost :
          LET from == lost[i].at
              to == lost[i].at + Len(lost[i].what)
          IN  /\ from <= Len(sent) /\ lost[i].what = SubSeq(receipts, from + 1, to)
              /\ from < Len(sent) => to <= Len(sent)

\* A nil error, unless that of a recovered panic, means that everybody was paid.
OkMeansAllSent == status = "ok" => sent = receipts

\* The number of results tells a caller who got an error where to resume, if no
\* answer was lost.
ResultsTellProgress ==
    Len(sent) = LET n == rs * maxBatch * maxMsgLen
                IN  IF n < Len(receipts) THEN n ELSE Len(receipts)

\* The failed broadcasts bound the lost answers, and the last one ends the call; a
\* short request, or one without the cache, is not tried again.
FewLost == /\ Len(lost) <= IF Long /\ cached THEN tryCnt ELSE 1
           /\ lost # << >> /\ ~ (Long /\ cached) => status = "err"
           /\ tryCnt = tryThreshold => status = "err"

\* One bad receipt anywhere, and nobody is paid: conversion and validation
\* of the whole request come before the first broadcast.
InvalidSendsNothing ==
    (\E i \in DOMAIN receipts : receipts[i].kind # "good") => sent = << >> /\ lost = << >>

\* A nil error of MultiSend that is not that of a recovered panic means that all was
\* sent, its results tell how much was but for lost answers, which the retries bound,
\* and a receipt that ValidateBasic refuses keeps all of the request back.
AnswerTellsProgress == /\ SendTypeOK /\ OkMeansAllSent /\ ResultsTellProgress
                       /\ FewLost /\ InvalidSendsNothing
=============================================================================
