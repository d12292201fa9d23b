SPECIFICATION Safety
CONSTANTS
    a = a
    b = b
    s1 = s1
    s2 = s2
    s3 = s3
    s4 = s4
    s5 = s5
    s6 = s6
    m0 = m0
    m1 = m1
    n0 = n0
    k1 = k1
    k2 = k2
    k4 = k4
    k6 = k6
    Burn = {a, b}
    Block <- Blocks
    Microblock <- Stream
    Key = {k1, k2, k4, k6}
    FirstBlock = FirstBlock
    NoMicroblock = NoMicroblock
    Entry <- Sortitions
    Invalid <- InvalidEntries
    ParentBurn <- SortitionParents
    ParentBlock <- Parents
    ParentMicroblock <- Confirms
    PubkeyHash <- Keys
    Sequence <- Sequences
    PrevBlock <- Prevs
    Delivery <- Deliveries
    MaxCrashes = 0
INVARIANT
    AtomicProcessing
CHECK_DEADLOCK FALSE
