SPECIFICATION Spec
CONSTANTS
    c1 = c1
    c2 = c2
    c3 = c3
    alice = alice
    alias = alias
    bob = bob
    addrA = addrA
    addrB = addrB
    None = None
    Other = Other
    AddrOf <- MCAddrOf
    indexFor <- MCindexFor
    Callers = {c1, c2}
    Names = {alice, alias}
    Accounts = {addrA}
    Size = 2
    Cached = TRUE
    Ops = {"batch"}
    Modes = {"sync"}
    SeqArgs = {0}
    MaxSegs = 2
    MaxCalls = 1
    MaxDisturb = 0
    tryThreshold = 3
SYMMETRY Symmetry
INVARIANT LocksTheAccount
CHECK_DEADLOCK FALSE
