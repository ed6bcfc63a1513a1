------------------------------ MODULE Registry ------------------------------
(***************************************************************************)
(* interfaceRegistry and Any: which Go type stands behind a type URL for   *)
(* an interface.  A registry is a record of its three maps, as sets; a     *)
(* value is a Go type with the Anys inside it; an Any holds the bytes of a *)
(* value, under a URL, and at most one cached value.                       *)
(***************************************************************************)
EXTENDS Integers, Sequences, SequencesExt

CONSTANTS Implements,     \* pairs of a Go type and an interface it has the methods of
          MessageName,    \* the name of each Go type in the protobuf registry
          Holds           \* the interfaces that UnpackInterfaces of each type unpacks

NewInterfaceRegistry == [interfaceNames |-> {}, interfaceImpls |-> {}, typeURLMap |-> {}]

Panic(r) == [st |-> "panic", r |-> r]
Registered(r) == [st |-> "ok", r |-> r]

\* Mutant: a second type under the same URL replaces the first.
registerImplOver(r, iface, typeURL, impl) ==
    IF <<impl, iface>> \notin Implements THEN Panic(r)
    ELSE Registered([r EXCEPT
            !.interfaceImpls = {x \in @ : x.iface # iface \/ x.url # typeURL}
                                    \cup {[iface |-> iface, url |-> typeURL, impl |-> impl]},
            !.typeURLMap = {x \in @ : x.url # typeURL} \cup {[url |-> typeURL, impl |-> impl]}])

registerImpl(r, iface, typeURL, impl) ==
    IF \/ <<impl, iface>> \notin Implements
       \/ \E x \in r.interfaceImpls : x.iface = iface /\ x.url = typeURL /\ x.impl # impl
    THEN Panic(r)
    ELSE Registered([r EXCEPT
            !.interfaceImpls = @ \cup {[iface |-> iface, url |-> typeURL, impl |-> impl]},
            !.typeURLMap = {x \in @ : x.url # typeURL} \cup {[url |-> typeURL, impl |-> impl]}])

\* A panic keeps what was registered before it.
RegisterImplementations(r, iface, impls) ==
    FoldLeft(LAMBDA acc, impl :
                IF acc.st = "panic" THEN acc ELSE registerImpl(acc.r, iface, MessageName[impl], impl),
             Registered(r), impls)

RegisterInterface(r, protoName, iface, impls) ==
    RegisterImplementations(
        [r EXCEPT !.interfaceNames = {x \in @ : x.name # protoName}
                                        \cup {[name |-> protoName, iface |-> iface]}],
        iface, impls)

-----------------------------------------------------------------------------
(* Any *)

Value(type, anys) == [type |-> type, anys |-> anys]

NewAnyWithValue(v) == [TypeUrl |-> MessageName[v.type], bytes |-> v, cachedValue |-> <<v>>]

\* What arrives from the wire: the bytes without any cached value, at all levels.
RECURSIVE Received(_)
Received(v) == [TypeUrl |-> MessageName[v.type], cachedValue |-> << >>,
                bytes |-> Value(v.type, [k \in DOMAIN v.anys |-> Received(v.anys[k].bytes)])]

\* An Any that was left empty.
EmptyAny == [TypeUrl |-> "", bytes |-> Value("", << >>), cachedValue |-> << >>]

\* Mutant: an Any inside the value stays packed.
RECURSIVE UnpackAny(_, _, _)
UnpackOuter(r, any, rt) ==
    LET impls == {x \in r.interfaceImpls : x.iface = rt /\ x.url = any.TypeUrl}
    IN  IF any.TypeUrl = "" THEN [st |-> "ok", any |-> any, val |-> << >>]
        ELSE IF impls = {} THEN [st |-> "error", any |-> any, val |-> << >>]
        ELSE [st |-> "ok", any |-> [any EXCEPT !.cachedValue = <<any.bytes>>], val |-> <<any.bytes>>]

\* UnpackAny into a variable of the interface rt: the value put there, at most
\* one, and the Any afterwards.  The bytes of another type are read as those of
\* the registered one.
UnpackAny(r, any, rt) ==
    LET impls == {x \in r.interfaceImpls : x.iface = rt /\ x.url = any.TypeUrl}
        typ == (CHOOSE x \in impls : TRUE).impl
        anys == IF typ = any.bytes.type THEN any.bytes.anys ELSE << >>
        inner == [k \in DOMAIN anys |-> UnpackAny(r, anys[k], Holds[typ][k])]
        msg == Value(typ, [k \in DOMAIN anys |-> inner[k].any])
    IN  IF any.TypeUrl = "" THEN [st |-> "ok", any |-> any, val |-> << >>]
        ELSE IF any.cachedValue # << >> /\ <<any.cachedValue[1].type, rt>> \in Implements
        THEN [st |-> "ok", any |-> any, val |-> any.cachedValue]
        ELSE IF impls = {} \/ \E k \in DOMAIN anys : inner[k].st # "ok"
        THEN [st |-> "error", any |-> any, val |-> << >>]
        ELSE [st |-> "ok", any |-> [any EXCEPT !.cachedValue = <<msg>>], val |-> <<msg>>]
=============================================================================
