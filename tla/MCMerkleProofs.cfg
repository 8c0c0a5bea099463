SPECIFICATION Spec
CONSTANTS
    k1 = k1
    k2 = k2
    k3 = k3
    k4 = k4
    Depth = 2
    Keys = {k1, k2, k3, k4}
    Values = {a, b}
    Path <- MCPath
    ZeroHash = ZeroHash
    NoProof = NoProof
INVARIANTS
    ProofsOfTreeVerify
