SPECIFICATION Spec
CONSTANTS
    c1 = c1
    c2 = c2
    c3 = c3
    alice = alice
    alias = alias
    bob = bob
    addrA = addrA
    addrB = addrB
    None = None
    Other = Other
    AddrOf <- MCAddrOf
    indexFor <- MCindexFor
    Callers = {c1}
    Names = {alice}
    Accounts = {addrA}
    Size = 2
    Cached = TRUE
    Ops = {"batch"}
    Modes = {"sync", "commit"}
    SeqArgs = {0}
    MaxSegs = 2
    MaxCalls = 1
    MaxDisturb = 1
    tryThreshold = 3
INVARIANT NilErrorMeansSent
CHECK_DEADLOCK FALSE
