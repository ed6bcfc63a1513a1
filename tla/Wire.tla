-------------------------------- MODULE Wire --------------------------------
(***************************************************************************)
(* The wire format that every generated Marshal, Size and Unmarshal of the *)
(* *.pb.go files speaks.  The code of a message differs from that of       *)
(* another in its fields only: the tables of the module Messages list      *)
(* them, and this module is the code around them.                          *)
(*                                                                         *)
(* The value of a field is a sequence: the bytes of a text, the base-128   *)
(* digits of a number without leading zeros (a negative one as its 64-bit  *)
(* two's complement), the elements of a list, at most one message of a     *)
(* pointer, just one of a field held by value.  A message is a function    *)
(* from its fields to their values.                                        *)
(***************************************************************************)
EXTENDS Integers, Sequences, SequencesExt

CONSTANTS maxBitLen,   \* of an Int or a Dec that is read
          Readers,     \* Readers[p][m]: the fields that Unmarshal of m of package p knows
          Writers      \* Writers[p][m]: the fields that MarshalToSizedBuffer of m writes

-----------------------------------------------------------------------------
(* Numbers *)

Digit(v, k) == IF k <= Len(v) THEN v[k] ELSE 0

\* No leading zeros.
Norm(v) == LET ks == {k \in DOMAIN v : v[k] # 0}
           IN  IF ks = {} THEN << >> ELSE SubSeq(v, 1, CHOOSE k \in ks : \A j \in ks : j <= k)

Trunc64(v) == Norm([k \in 1 .. Len(v) |-> IF k = 10 THEN v[k] % 2 ELSE v[k]])
Trunc32(v) == Norm([k \in 1 .. (IF Len(v) > 5 THEN 5 ELSE Len(v)) |->
                        IF k = 5 THEN v[k] % 16 ELSE v[k]])

\* An int32 as the 64 bits that uint64(x) makes of it.
Extend32(v) == LET t == Trunc32(v)
               IN  IF Digit(t, 5) < 8 THEN t
                   ELSE SubSeq(t, 1, 4) \o <<t[5] + 112, 127, 127, 127, 127, 1>>

Negative(v) == Digit(v, 10) % 2 = 1

\* Lengths of 2^28 or more exceed every buffer.
Huge(v) == Len(v) > 4
Small(v) == Digit(v, 1) + 128 * Digit(v, 2) + 16384 * Digit(v, 3) + 2097152 * Digit(v, 4)

\* int32(wire >> 3); every negative one is -1.
FieldNum(v) == IF Digit(v, 5) >= 64 THEN -1 ELSE Small(v) \div 8 + Digit(v, 5) * 33554432
WireType(v) == Digit(v, 1) % 8

RECURSIVE Digits(_)
Digits(n) == IF n = 0 THEN << >> ELSE <<n % 128>> \o Digits(n \div 128)

\* encodeVarint.
encodeVarint(v) == IF v = << >> THEN <<0>>
                   ELSE [k \in DOMAIN v |-> IF k < Len(v) THEN v[k] + 128 ELSE v[k]]

\* The loop over the bytes of a varint of d from position i on.
Varint(d, i) ==
    LET n == CHOOSE k \in 0 .. 10 :
                /\ k = 10 \/ i + k > Len(d) \/ d[i + k] < 128
                /\ \A j \in 0 .. k - 1 : i + j <= Len(d) /\ d[i + j] >= 128
    IN  IF n = 10 \/ i + n > Len(d) THEN [ok |-> FALSE, v |-> << >>, i |-> i]
        ELSE [ok |-> TRUE, i |-> i + n + 1,
              v |-> Trunc64([k \in 1 .. n + 1 |-> d[i + k - 1] % 128])]

-----------------------------------------------------------------------------
(* skip: the position after the field that starts at i, or 0 on an error.  *)

\* Mutant: the start of a group is skipped alone.
SkipFlat(d, i, depth) ==
    LET wire == Varint(d, i)
        body == Varint(d, wire.i)
        type == WireType(wire.v)
    IN  CASE ~ wire.ok -> 0
          [] wire.ok /\ type = 0 -> IF body.ok THEN body.i ELSE 0
          [] wire.ok /\ type = 1 -> wire.i + 8
          [] wire.ok /\ type = 2 -> body.i + Small(body.v)
          [] wire.ok /\ type = 3 -> wire.i
          [] wire.ok /\ type = 5 -> wire.i + 4
          [] OTHER -> 0

RECURSIVE Skip(_, _, _)
Skip(d, i, depth) ==
    LET wire == Varint(d, i)
        body == Varint(d, wire.i)
        type == WireType(wire.v)
        after == CASE type = 0 -> IF body.ok THEN body.i ELSE 0
                   [] type = 1 -> wire.i + 8
                   [] type = 2 -> IF body.ok /\ ~ Negative(body.v) /\ ~ Huge(body.v)
                                  THEN body.i + Small(body.v) ELSE 0
                   [] type \in {3, 4} -> wire.i
                   [] type = 5 -> wire.i + 4
                   [] OTHER -> 0
        level == CASE type = 3 -> depth + 1 [] type = 4 -> depth - 1 [] OTHER -> depth
    IN  IF i > Len(d) \/ ~ wire.ok \/ after = 0 \/ level < 0 THEN 0
        ELSE IF level = 0 THEN after
        ELSE Skip(d, after, level)

-----------------------------------------------------------------------------
(* Unmarshal *)

MessageKinds == {"message", "pointer", "messages", "oneof"}
CustomKinds == {"int", "dec"}
CustomPointerKinds == {"intPointer", "decPointer"}
NumberKinds == {"uint64", "int64", "uint32", "int32", "bool"}

\* A message that nothing was read into.
RECURSIVE Empty(_)
Empty(t) == LET fs == Readers[t[1]][t[2]]
            IN  [n \in {fs[k].name : k \in DOMAIN fs} |->
                    LET f == CHOOSE x \in Range(fs) : x.name = n
                    IN  IF f.kind \in {"message", "std"} THEN <<Empty(f.of)>> ELSE << >>]

Done(m) == [st |-> "ok", m |-> m]
Error(m) == [st |-> "error", m |-> m]

\* The plain decimals that Marshal of Int and Dec writes.
Unsigned(s) == IF s # << >> /\ Head(s) = 45 THEN Tail(s) ELSE s
Magnitude(s) == FoldLeft(LAMBDA acc, c : 10 * acc + c - 48, 0, Unsigned(s))
InRange(s) == Magnitude(s) < 2 ^ maxBitLen

\* Mutant: one bit less.
IsIntegerShort(s) == /\ Unsigned(s) # << >> /\ \A k \in DOMAIN Unsigned(s) : Unsigned(s)[k] \in 48 .. 57
                     /\ Magnitude(s) < 2 ^ (maxBitLen - 1)

\* Unmarshal of Int and Dec: UnmarshalText, and then the limit on bits, which is
\* the same for both although the arithmetic of Dec allows for its precision.
IsInteger(s) == /\ Unsigned(s) # << >> /\ \A k \in DOMAIN Unsigned(s) : Unsigned(s)[k] \in 48 .. 57
                /\ InRange(s)

NumberOf(kind, v) ==
    CASE kind \in {"uint64", "int64"} -> v
      [] kind = "uint32" -> Trunc32(v)
      [] kind = "int32" -> Extend32(v)
      [] kind = "bool" -> IF v = << >> THEN << >> ELSE <<1>>

\* The case of a field f of m whose bytes are s.
RECURSIVE Unmarshal(_, _, _), UnmarshalFrom(_, _, _, _), Field(_, _, _)
Field(f, m, s) ==
    LET old == m[f.name]
        set(v) == [m EXCEPT ![f.name] = v]
        into(sub) == Unmarshal(f.of, sub, s)
        put(r, v) == [st |-> r.st, m |-> set(v)]
    IN  CASE f.kind \in {"string", "bytes"} -> Done(set(s))
          [] f.kind = "list" -> Done(set(Append(old, s)))
          [] f.kind \in CustomKinds ->
                IF s = << >> THEN Done(m) ELSE IF IsInteger(s) THEN Done(set(s)) ELSE Error(m)
          [] f.kind \in CustomPointerKinds ->
                IF s = << >> THEN Done(set(<< << >> >>))
                ELSE IF IsInteger(s) THEN Done(set(<<s>>)) ELSE Error(set(<< << >> >>))
          [] f.kind = "message" -> LET r == into(old[1]) IN put(r, <<r.m>>)
          [] f.kind = "pointer" ->
                LET r == into(IF old = << >> THEN Empty(f.of) ELSE old[1]) IN put(r, <<r.m>>)
          [] f.kind = "messages" -> LET r == into(Empty(f.of)) IN put(r, Append(old, r.m))
          [] f.kind = "std" ->
                LET r == into(Empty(f.of))
                IN  IF r.st = "ok" THEN put(r, <<r.m>>) ELSE Error(m)
          [] f.kind = "oneof" ->
                LET r == into(Empty(f.of))
                IN  IF r.st = "ok" THEN put(r, <<[case |-> f.case, m |-> r.m]>>) ELSE Error(m)

\* Mutant: the end of the buffer is not compared with the length.
PastEndUnseen(d, i, v) == Negative(v)

\* The checks of a length: negative, or past the end.
PastEnd(d, i, v) == Negative(v) \/ Huge(v) \/ i + Small(v) - 1 > Len(d)

UnmarshalFrom(t, m, d, i) ==
    LET wire == Varint(d, i)
        num == FieldNum(wire.v)
        fs == Readers[t[1]][t[2]]
        known == {k \in DOMAIN fs : fs[k].num = num}
        f == fs[CHOOSE k \in known : TRUE]
        next == Varint(d, wire.i)
        end == next.i + Small(next.v)
        r == Field(f, m, SubSeq(d, next.i, end - 1))
        after == Skip(d, i, 0)
        keep == {k \in DOMAIN fs : fs[k].kind = "unrecognized"}
    IN  CASE i > Len(d) -> Done(m)
          [] i <= Len(d) /\ (~ wire.ok \/ WireType(wire.v) = 4 \/ num <= 0) -> Error(m)
          [] i <= Len(d) /\ wire.ok /\ WireType(wire.v) # 4 /\ num > 0 ->
             IF known = {}
             THEN IF after = 0 \/ after - 1 > Len(d) THEN Error(m)
                  ELSE UnmarshalFrom(t, IF keep = {} THEN m
                                        ELSE [m EXCEPT !["XXX_unrecognized"] =
                                                @ \o SubSeq(d, i, after - 1)], d, after)
             ELSE IF WireType(wire.v) # (IF f.kind \in NumberKinds THEN 0 ELSE 2) THEN Error(m)
             ELSE IF f.kind \in NumberKinds
             THEN IF ~ next.ok THEN Error(m)
                  ELSE UnmarshalFrom(t, [m EXCEPT ![f.name] = NumberOf(f.kind, next.v)], d, next.i)
             ELSE IF ~ next.ok \/ PastEnd(d, next.i, next.v) THEN Error(m)
             ELSE IF end - 1 > Len(d) THEN [st |-> "panic", m |-> m]
             ELSE IF r.st # "ok" THEN r
             ELSE UnmarshalFrom(t, r.m, d, end)

Unmarshal(t, m, d) == UnmarshalFrom(t, m, d, 1)

-----------------------------------------------------------------------------
(* MarshalToSizedBuffer, which writes from the end of the buffer back; the  *)
(* tables list the fields in the order of the bytes.                       *)

Concat(ss) == FoldLeft(LAMBDA acc, s : acc \o s, << >>, ss)
Sized(s) == encodeVarint(Digits(Len(s))) \o s

RECURSIVE Marshal(_, _), Written(_, _)
Written(w, v) ==
    LET sub(m) == w.tag \o Sized(Marshal(w.of, m))
        text(s) == w.tag \o Sized(s)
    IN  CASE w.how = "nonempty" -> IF v = << >> THEN << >> ELSE text(v)
          [] w.how = "nonzero" -> IF v = << >> THEN << >> ELSE w.tag \o encodeVarint(v)
          [] w.how = "true" -> IF v = << >> THEN << >> ELSE w.tag \o <<1>>
          [] w.how = "list" -> Concat([k \in DOMAIN v |-> text(v[k])])
          [] w.how \in {"messages", "pointer", "message", "std"} ->
                Concat([k \in DOMAIN v |-> sub(v[k])])
          [] w.how = "custom" -> text(IF v = << >> THEN <<48>> ELSE v)
          [] w.how = "customPointer" ->
                Concat([k \in DOMAIN v |-> text(IF v[k] = << >> THEN <<48>> ELSE v[k])])
          [] w.how = "oneof" ->
                IF v = << >> THEN << >>
                ELSE Written(Writers[w.package][v[1].case][1], <<v[1].m>>)
          [] w.how = "unrecognized" -> v

Marshal(t, m) == LET ws == Writers[t[1]][t[2]]
                 IN  Concat([k \in DOMAIN ws |-> Written(ws[k], m[ws[k].name])])
=============================================================================
