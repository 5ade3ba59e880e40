CONSTANTS
    R = R
    D = D
    I = I
    Q = Q
    G = G
    P = P
    Nodes <- MCNodes
    Kids <- MCKids
    Type <- MCType
    IsIndex <- MCIsIndex
    Public <- MCPublic
    Shareable <- MCShareable
    TTL = 2
    MaxTime = 4

SPECIFICATION Spec

INVARIANTS
    TypeOK
    ShareConfined
