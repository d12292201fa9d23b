SPECIFICATION Spec
CONSTANTS
    k1 = k1 k2 = k2 s0 = s0 s1 = s1 s2 = s2 alice = alice bob = bob
    BurnHash = {0, 1, 2, 3, 4}
    FirstHash = 0
    FirstHeight = 1
    VRFKey = {k1, k2}
    StacksBlock = {s0, s1, s2}
    FirstStacksBlock = s0
    Address = {alice, bob}
    Vtx = {1, 2, 3}
    Bodies <- BurnBodies
    ConsensusHashLifetime = 1
    U64Max = 6
ACTION_CONSTRAINT NamedInOrder
INVARIANTS CountersAgree CommitsResolve SortitionIndexAgrees KeyInv
