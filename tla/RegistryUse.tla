----------------------------- MODULE RegistryUse -----------------------------
(***************************************************************************)
(* A registry in use: registrations go on while Anys are packed, received  *)
(* and unpacked.                                                           *)
(***************************************************************************)
EXTENDS Registry

CONSTANTS Interfaces,
          Urls,
          ImplLists,      \* the lists of types that are registered in one call
          Values,         \* the values that are packed or received
          MaxCalls        \* bound: registrations

VARIABLES registry,
          any,            \* the Any at hand
          calls,          \* history: registrations so far
          out             \* the last result of UnpackAny, and whether a value was cached before it

vars == <<registry, any, calls, out>>

Nothing == [iface |-> "", st |-> "none", val |-> << >>, local |-> FALSE]

Init == /\ registry = NewInterfaceRegistry
        /\ any = EmptyAny
        /\ calls = 0
        /\ out = Nothing

\* RegisterInterface, and RegisterImplementations as the case without a name.
Register ==
    /\ calls < MaxCalls
    /\ \E iface \in Interfaces, impls \in ImplLists, name \in {"", "N"} :
          LET res == IF name = "" THEN RegisterImplementations(registry, iface, impls)
                     ELSE RegisterInterface(registry, name, iface, impls)
          IN  registry' = res.r
    /\ calls' = calls + 1
    /\ UNCHANGED <<any, out>>

RegisterCustomTypeURL ==
    /\ calls < MaxCalls
    /\ \E iface \in Interfaces, url \in Urls, impl \in DOMAIN MessageName :
          LET res == registerImpl(registry, iface, url, impl)
          IN  registry' = res.r
    /\ calls' = calls + 1
    /\ UNCHANGED <<any, out>>

Pack == /\ \E v \in Values : any' = NewAnyWithValue(v)
        /\ out' = Nothing
        /\ UNCHANGED <<registry, calls>>

Receive == /\ \E v \in Values : any' = Received(v)
           /\ out' = Nothing
           /\ UNCHANGED <<registry, calls>>

Unpack == /\ any.TypeUrl # ""
          /\ \E iface \in Interfaces :
                LET res == UnpackAny(registry, any, iface)
                IN  /\ any' = res.any
                    /\ out' = [iface |-> iface, st |-> res.st, val |-> res.val,
                               local |-> any.cachedValue # << >>]
          /\ UNCHANGED <<registry, calls>>

Next == Register \/ RegisterCustomTypeURL \/ Pack \/ Receive \/ Unpack

Spec == Init /\ [][Next]_vars

-----------------------------------------------------------------------------
(* Properties *)

\* The type behind a URL for an interface never changes: registerImpl panics
\* before it replaces one, in the middle of a list too.
TypeKept ==
    \A x \in registry.interfaceImpls :
        {y \in registry'.interfaceImpls : y.iface = x.iface /\ y.url = x.url} = {x}

RECURSIVE AllUnpacked(_)
AllUnpacked(v) == \A k \in DOMAIN v.anys :
                    \/ v.anys[k].TypeUrl = ""
                    \/ v.anys[k].cachedValue # << >> /\ AllUnpacked(v.anys[k].cachedValue[1])

\* UnpackAny of something received gives a value of a type that is registered for
\* the interface under the URL, with every Any inside it unpacked as well, so that
\* the accessors that read GetCachedValue find something.
ReceivedIsUnpacked ==
    out.st = "ok" /\ out.val # << >> /\ ~ out.local =>
        /\ [iface |-> out.iface, url |-> any.TypeUrl, impl |-> out.val[1].type] \in registry.interfaceImpls
        /\ AllUnpacked(out.val[1])
=============================================================================
