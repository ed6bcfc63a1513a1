SPECIFICATION MCSpec
CONSTANTS
    c1 = c1
    c2 = c2
    c3 = c3
    alice = alice
    alias = alias
    bob = bob
    addrA = addrA
    addrB = addrB
    None = None
    Other = Other
    AddrOf <- MCAddrOf
    indexFor <- MCindexFor
    Callers = {c1, c2}
    Names = {alice}
    Accounts = {addrA}
    Size = 2
    Cached = TRUE
    Ops = {"batch", "send", "withAccount", "hash"}
    Modes = {"commit", "sync", "async", "simulate", "unsupported"}
    SeqArgs = {0, 1}
    MaxSegs = 3
    MaxCalls = 4
    MaxDisturb = 2
    tryThreshold = 3
SYMMETRY Symmetry
INVARIANTS
    TypeOK
    DuplicateOnlyIfAmbiguous
    OkMeansAccepted
    RetryBound
    ExplicitSequenceOnce
    LockedSendsOnce
PROPERTY FailureHeals
CHECK_DEADLOCK FALSE
