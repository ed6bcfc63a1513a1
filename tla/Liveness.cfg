SPECIFICATION MCSpec
CONSTANTS
    c1 = c1
    c2 = c2
    c3 = c3
    alice = alice
    alias = alias
    bob = bob
    addrA = addrA
    addrB = addrB
    None = None
    Other = Other
    AddrOf <- MCAddrOf
    indexFor <- MCindexFor
    sub1 = sub1
    sub2 = sub2
    Nil = Nil
    Callers = {c1, c2, c3}
    Names = {alice, alias, bob}
    Accounts = {addrA}
    Size = 2
    Cached = TRUE
    Ops = {"batch"}
    Modes = {"simulate", "commit", "unsupported"}
    SeqArgs = {0}
    MaxSegs = 2
    MaxCalls = 1
    MaxDisturb = 1
    tryThreshold = 3
INVARIANTS
    MutualExclusion
    NoLostWakeup
PROPERTIES
    EveryCallReturnsInTurn
    ImplementsFairLock
    EveryEventHandled
CHECK_DEADLOCK FALSE
