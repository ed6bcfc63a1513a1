---------------------------- MODULE UuidGenerator ----------------------------
(***************************************************************************)
(* The generator of utils/uuid/generator.go, which names the subscribers   *)
(* of module Subscription, used by concurrent goroutines.  The clock may   *)
(* stand still or go back, and NewV2 draws from it as NewV1 does.  A V1    *)
(* UUID is its time, the bits of the clock sequence that the variant       *)
(* leaves, and the hardware address, which is one for the whole process.   *)
(***************************************************************************)
EXTENDS Naturals, Sequences

CONSTANTS Callers,
          SeqRange,    \* 2^16: values of clockSequence
          Visible,     \* 2^14: values left of it by SetVariant
          MaxTime,     \* bound: clock values
          MaxIssued,   \* bound: V1 values
          MaxSteps     \* bound: a call starts after fewer increments

ASSUME GeneratorAssumption ==
    /\ SeqRange \in Nat \ {0} /\ Visible \in Nat \ {0}
    /\ SeqRange % Visible = 0
    /\ MaxTime \in Nat /\ MaxIssued \in Nat /\ MaxSteps \in Nat

VARIABLES seqOnce,        \* clockSequenceOnce is done
          hwOnce,         \* hardwareAddrOnce is done
          hardwareAddr,   \* "zero" until it is set
          clockSequence,
          lastTime,
          pc,             \* where each caller is
          drawn,          \* the time and the sequence it got
          issued,         \* history: the V1 values, with the number of steps back
          steps           \* history: times clockSequence was increased

uuidVars == <<seqOnce, hwOnce, hardwareAddr, clockSequence, lastTime, pc, drawn,
              issued, steps>>

Draws == [time: Nat, seq: Nat, n: Nat]
Uuids == [time: Nat, seq: 0 .. Visible - 1, n: Nat]

UuidTypeOK == /\ seqOnce \in BOOLEAN /\ hwOnce \in BOOLEAN
              /\ hardwareAddr \in {"zero", "mac", "random"}
              /\ clockSequence \in 0 .. SeqRange - 1
              /\ lastTime \in Nat
              /\ pc \in [Callers -> {"idle", "once", "clock", "address"}]
              /\ drawn \in [Callers -> Draws]
              /\ issued \in Seq(Uuids)
              /\ steps \in Nat

UuidInit == /\ seqOnce = FALSE /\ hwOnce = FALSE
            /\ hardwareAddr = "zero"
            /\ clockSequence = 0
            /\ lastTime = 0
            /\ pc = [c \in Callers |-> "idle"]
            /\ drawn = [c \in Callers |-> [time |-> 0, seq |-> 0, n |-> 0]]
            /\ issued = << >>
            /\ steps = 0

Goto(c, l) == pc' = [pc EXCEPT ![c] = l]

-----------------------------------------------------------------------------
\* NewV1 or NewV2 is called.
Begin(c) ==
    /\ pc[c] = "idle" /\ Len(issued) < MaxIssued /\ steps < MaxSteps
    /\ Goto(c, "once")
    /\ UNCHANGED <<seqOnce, hwOnce, hardwareAddr, clockSequence, lastTime, drawn,
                   issued, steps>>

\* The first call draws the clock sequence.  When the random source fails, that
\* call fails, and later ones go on with 0.
SeqOnce(c) ==
    /\ pc[c] = "once"
    /\ seqOnce' = TRUE
    /\ \/ seqOnce /\ Goto(c, "clock") /\ UNCHANGED clockSequence
       \/ /\ ~ seqOnce
          /\ clockSequence' \in 0 .. SeqRange - 1
          /\ Goto(c, "clock")
       \/ ~ seqOnce /\ Goto(c, "idle") /\ UNCHANGED clockSequence
    /\ UNCHANGED <<hwOnce, hardwareAddr, lastTime, drawn, issued, steps>>

\* Mutant: a clock that stands still does not count.
ClockSequenceStill(c) ==
    /\ pc[c] = "clock"
    /\ \E timeNow \in 1 .. MaxTime :
        LET back == timeNow < lastTime
            next == IF back THEN (clockSequence + 1) % SeqRange ELSE clockSequence
            n == IF back THEN steps + 1 ELSE steps
        IN  /\ clockSequence' = next /\ steps' = n
            /\ lastTime' = timeNow
            /\ drawn' = [drawn EXCEPT ![c] = [time |-> timeNow, seq |-> next, n |-> n]]
    /\ Goto(c, "address")
    /\ UNCHANGED <<seqOnce, hwOnce, hardwareAddr, issued>>

\* Mutant: the clock sequence is wider than its field.
ClockSequenceWide(c) ==
    /\ pc[c] = "clock"
    /\ \E timeNow \in 1 .. MaxTime :
        LET back == timeNow <= lastTime
            next == IF back THEN clockSequence + 1 ELSE clockSequence
            n == IF back THEN steps + 1 ELSE steps
        IN  /\ clockSequence' = next /\ steps' = n
            /\ lastTime' = timeNow
            /\ drawn' = [drawn EXCEPT ![c] = [time |-> timeNow, seq |-> next, n |-> n]]
    /\ Goto(c, "address")
    /\ UNCHANGED <<seqOnce, hwOnce, hardwareAddr, issued>>

\* getClockSequence under storageMutex: the sequence moves when the time did
\* not.
ClockSequence(c) ==
    /\ pc[c] = "clock"
    /\ \E timeNow \in 1 .. MaxTime :
        LET back == timeNow <= lastTime
            next == IF back THEN (clockSequence + 1) % SeqRange ELSE clockSequence
            n == IF back THEN steps + 1 ELSE steps
        IN  /\ clockSequence' = next /\ steps' = n
            /\ lastTime' = timeNow
            /\ drawn' = [drawn EXCEPT ![c] = [time |-> timeNow, seq |-> next, n |-> n]]
    /\ Goto(c, "address")
    /\ UNCHANGED <<seqOnce, hwOnce, hardwareAddr, issued>>

\* getHardwareAddr once: an interface's address, else a random one, else the
\* call fails and later ones use zeros.
HardwareAddr(c) ==
    /\ pc[c] = "address" /\ ~ hwOnce
    /\ hwOnce' = TRUE
    /\ \/ hardwareAddr' \in {"mac", "random"} /\ UNCHANGED pc
       \/ hardwareAddr' = "zero" /\ Goto(c, "idle")
    /\ UNCHANGED <<seqOnce, clockSequence, lastTime, drawn, issued, steps>>

\* The version and the variant are set over the high bits.
V1(c) ==
    /\ pc[c] = "address" /\ hwOnce
    /\ issued' = Append(issued, [time |-> drawn[c].time,
                                 seq |-> drawn[c].seq % Visible, n |-> drawn[c].n])
    /\ Goto(c, "idle")
    /\ UNCHANGED <<seqOnce, hwOnce, hardwareAddr, clockSequence, lastTime, drawn, steps>>

\* NewV2 overwrites the low time and the low byte of the sequence: what is left
\* is not a V1 value, but the clock has moved.
V2(c) ==
    /\ pc[c] = "address" /\ hwOnce
    /\ Goto(c, "idle")
    /\ UNCHANGED <<seqOnce, hwOnce, hardwareAddr, clockSequence, lastTime, drawn,
                   issued, steps>>

UuidNext == \E c \in Callers : \/ Begin(c) \/ SeqOnce(c) \/ ClockSequence(c)
                               \/ HardwareAddr(c) \/ V1(c) \/ V2(c)

UuidSpec == UuidInit /\ [][UuidNext]_uuidVars

-----------------------------------------------------------------------------
(* Properties *)

\* Two equal V1 UUIDs are at least Visible increments of the clock sequence
\* apart: a clock that stalls or goes back, by any number of goroutines, never
\* makes getClockSequence repeat itself before the 14 bits have gone round.
EqualOnlyAfterWrap ==
    \A i, j \in DOMAIN issued :
        /\ i # j
        /\ issued[i].time = issued[j].time
        /\ issued[i].seq = issued[j].seq
        => \/ issued[i].n >= issued[j].n + Visible
           \/ issued[j].n >= issued[i].n + Visible

\* NewV1 returns a UUID again only after the clock sequence wrapped around, whatever
\* calls of NewV2 come in between, and the storage keeps its types.  Nothing is said
\* of the UUIDs of NewV2, which it overwrites with an ID and a domain.
UniqueUnlessWrapped == UuidTypeOK /\ EqualOnlyAfterWrap
=============================================================================
