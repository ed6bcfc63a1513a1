----------------------------- MODULE WireChannel -----------------------------
(***************************************************************************)
(* A message on its way between the client and a node.  The sender writes  *)
(* one message, or two whose bytes are joined; a newer peer adds fields    *)
(* that this version does not know; the bytes may be cut short; the        *)
(* receiver calls Unmarshal on an empty message.                           *)
(***************************************************************************)
EXTENDS Wire

CONSTANTS Types,        \* the types of message: <<package, name>>
          Disturbed,    \* those that are joined, added to and cut
          MaxSent,      \* bound: messages joined
          MaxCut,       \* bound: messages joined before a cut
          Depth,        \* bound: levels of filled nested messages
          Foreign,      \* the fields that a newer peer may add
          MaxForeign    \* bound: how many

VARIABLES type,
          sent,       \* the messages written
          wire,       \* their bytes, and those of the foreign fields
          foreign,    \* history: number of foreign fields
          ends,       \* history: where fields end
          whole,      \* history: the length before a cut, or -1
          got         \* the results of Unmarshal, at most one

vars == <<type, sent, wire, foreign, ends, whole, got>>

-----------------------------------------------------------------------------
(* Messages to send: each field alone with each of its samples, and all     *)
(* fields at once.                                                         *)

Max64 == <<127, 127, 127, 127, 127, 127, 127, 127, 127, 1>>

Numbers(kind) == CASE kind \in {"uint64", "int64"} -> {<<1>>, <<0, 1>>, Max64}
                   [] kind = "uint32" -> {<<1>>, <<127, 127, 127, 127, 15>>}
                   [] kind = "int32" -> {<<1>>, Max64}
                   [] kind = "bool" -> {<<1>>}

\* A decimal number as text.
RECURSIVE Decimals(_)
Decimals(n) == (IF n < 10 THEN << >> ELSE Decimals(n \div 10)) \o <<48 + (n % 10)>>

\* The largest that is read, and for a Dec the next one, and its negative, which
\* its arithmetic still makes; that of Int does not.
Limits(kind) ==
    LET next == Decimals(2 ^ maxBitLen) IN
    {Decimals(2 ^ maxBitLen - 1)}
        \cup (IF kind \in {"dec", "decPointer"} THEN {next, <<45>> \o next} ELSE {})

RECURSIVE Filled(_, _)
Filled(t, depth) ==
    LET fs == Readers[t[1]][t[2]]
        value(f) ==
            CASE f.kind \in NumberKinds -> CHOOSE v \in Numbers(f.kind) : TRUE
              [] f.kind \in {"string", "bytes"} -> <<65>>
              [] f.kind = "list" -> << <<65>>, << >> >>
              [] f.kind \in CustomKinds -> <<49, 48>>
              [] f.kind \in CustomPointerKinds -> << <<49>> >>
              [] f.kind = "unrecognized" -> << >>
              [] f.kind \in {"message", "std"} -> <<Filled(f.of, depth - 1)>>
              [] f.kind = "pointer" -> IF depth = 0 THEN << >> ELSE <<Filled(f.of, depth - 1)>>
              [] f.kind = "messages" ->
                    IF depth = 0 THEN << >> ELSE <<Filled(f.of, depth - 1), Empty(f.of)>>
              [] f.kind = "oneof" ->
                    IF depth = 0 THEN << >>
                    ELSE <<[case |-> f.case, m |-> Filled(f.of, depth - 1)]>>
    IN  [n \in {fs[k].name : k \in DOMAIN fs} |-> value(CHOOSE f \in Range(fs) : f.name = n)]

Alone(t, f) ==
    {[Empty(t) EXCEPT ![f.name] = v] :
        v \in CASE f.kind \in NumberKinds -> Numbers(f.kind)
                [] f.kind \in CustomKinds -> Limits(f.kind)
                [] f.kind \in CustomPointerKinds -> {<<n>> : n \in Limits(f.kind)}
                [] f.kind = "oneof" -> {<<[case |-> f.case, m |-> Filled(f.of, Depth - 1)]>>}
                [] f.kind \in {"message", "pointer", "messages", "std"} -> {<<Empty(f.of)>>}
                [] OTHER -> {Filled(t, 0)[f.name]}}

Samples(t) == {Empty(t), Filled(t, Depth)}
              \cup UNION {Alone(t, f) : f \in Range(Readers[t[1]][t[2]])}

\* Where the fields of the messages and of the peer end, from what was written
\* and not from what is read.
Pieces(w, v) == IF w.how \in {"list", "messages"}
                THEN [k \in DOMAIN v |-> Written(w, <<v[k]>>)]
                ELSE <<Written(w, v)>>

AllPieces(t, m) == LET ws == Writers[t[1]][t[2]]
                   IN  Concat([k \in DOMAIN ws |-> Pieces(ws[k], m[ws[k].name])])

Ends(t, m) == LET ps == AllPieces(t, m)
              IN  {Len(Concat(SubSeq(ps, 1, k))) : k \in 0 .. Len(ps)}

-----------------------------------------------------------------------------
Init == /\ type \in Types
        /\ sent = << >> /\ wire = << >>
        /\ foreign = 0 /\ ends = {0} /\ whole = -1
        /\ got = << >>

Open == got = << >> /\ whole = -1

Send == /\ Open /\ Len(sent) < (IF type \in Disturbed THEN MaxSent ELSE 1)
        /\ \E m \in Samples(type) :
              /\ sent' = Append(sent, m)
              /\ wire' = wire \o Marshal(type, m)
              /\ ends' = ends \cup {Len(wire) + n : n \in Ends(type, m)}
        /\ UNCHANGED <<type, foreign, whole, got>>

AddForeign == /\ Open /\ type \in Disturbed /\ foreign < MaxForeign /\ sent # << >>
              /\ \E f \in Foreign : /\ wire' = wire \o f
                                  /\ ends' = ends \cup {Len(wire')}
              /\ foreign' = foreign + 1
              /\ UNCHANGED <<type, sent, whole, got>>

Cut == /\ Open /\ type \in Disturbed /\ Len(sent) <= MaxCut
       /\ \E n \in 0 .. Len(wire) - 1 : wire' = SubSeq(wire, 1, n)
       /\ whole' = Len(wire)
       /\ UNCHANGED <<type, sent, foreign, ends, got>>

Receive == /\ got = << >> /\ sent # << >>
           /\ got' = <<Unmarshal(type, Empty(type), wire)>>
           /\ UNCHANGED <<type, sent, wire, foreign, ends, whole>>

Next == Send \/ AddForeign \/ Cut \/ Receive

Spec == Init /\ [][Next]_vars

-----------------------------------------------------------------------------
(* Properties *)

\* The fields of a taken over by those that are set in b.
RECURSIVE Merge(_, _, _), Joined(_, _, _)
Joined(f, x, y) ==
    CASE f.kind \in {"list", "messages"} -> x \o y
      [] f.kind \in {"message", "pointer"} /\ x # << >> /\ y # << >> ->
            <<Merge(f.of, x[1], y[1])>>
      [] f.kind \in CustomKinds /\ y = << >> -> <<48>>
      [] f.kind \in CustomPointerKinds /\ y = << << >> >> -> << <<48>> >>
      [] OTHER -> IF y = << >> THEN x ELSE y

Merge(t, a, b) ==
    LET fs == Readers[t[1]][t[2]]
    IN  [n \in DOMAIN a |-> Joined(CHOOSE f \in Range(fs) : f.name = n, a[n], b[n])]

\* Amounts that were never set are read back as zero, at every level.
RECURSIVE Zeroed(_, _)
Zeroed(t, a) ==
    LET fs == Readers[t[1]][t[2]]
        field(f, v) ==
            CASE f.kind \in CustomKinds -> IF v = << >> THEN <<48>> ELSE v
              [] f.kind \in CustomPointerKinds -> [k \in DOMAIN v |-> IF v[k] = << >> THEN <<48>> ELSE v[k]]
              [] f.kind \in {"message", "pointer", "messages", "std"} ->
                    [k \in DOMAIN v |-> Zeroed(f.of, v[k])]
              [] f.kind = "oneof" -> [k \in DOMAIN v |->
                    LET c == CHOOSE x \in Range(fs) : x.kind = "oneof" /\ x.case = v[k].case
                    IN  [v[k] EXCEPT !.m = Zeroed(c.of, v[k].m)]]
              [] OTHER -> v
    IN  [n \in DOMAIN a |-> field(CHOOSE f \in Range(fs) : f.name = n, a[n])]

SentAs(t) == FoldLeft(LAMBDA acc, m : Merge(t, acc, Zeroed(t, m)), Empty(t), sent)

\* A number in m, at any level, that Marshal writes and Unmarshal does not read.
RECURSIVE TooLong(_, _)
TooLong(t, m) ==
    \E f \in Range(Readers[t[1]][t[2]]) :
        LET v == m[f.name] IN
        \/ f.kind \in CustomKinds /\ ~ InRange(v)
        \/ f.kind \in CustomPointerKinds /\ \E k \in DOMAIN v : ~ InRange(v[k])
        \/ f.kind \in {"message", "pointer", "messages", "std"} /\ \E k \in DOMAIN v : TooLong(f.of, v[k])
        \/ f.kind = "oneof" /\ \E k \in DOMAIN v : v[k].case = f.case /\ TooLong(f.of, v[k].m)

SomeTooLong == \E k \in DOMAIN sent : TooLong(type, sent[k])

\* What Unmarshal reads is what Marshal wrote: every field of every type comes
\* back, joined messages are merged, and the fields of a newer peer do not
\* disturb the others.  A message is refused if a Dec in it is longer than
\* Unmarshal reads, and only then.
ReceivedIsSent ==
    got # << >> /\ whole = -1 =>
        /\ got[1].st = IF SomeTooLong THEN "error" ELSE "ok"
        /\ ~ SomeTooLong =>
           LET kept == IF "XXX_unrecognized" \in DOMAIN got[1].m
                       THEN [got[1].m EXCEPT !["XXX_unrecognized"] = << >>] ELSE got[1].m
           IN  kept = SentAs(type)

\* A message cut inside a field is refused with an error, and never by a read
\* outside the buffer; one cut between two fields is accepted, if its numbers
\* can be read.
CutSeen ==
    got # << >> /\ whole # -1 =>
        /\ got[1].st # "panic"
        /\ ~ SomeTooLong => got[1].st = IF Len(wire) \in ends THEN "ok" ELSE "error"
=============================================================================
