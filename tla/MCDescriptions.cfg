SPECIFICATION MCSpec
CONSTANTS
    None = None
    X = X
    Y = Y
    Z = Z
    S1 = S1
    S2 = S2
    R1 = R1
    R2 = R2
    D = D
    E = E
    F1 = F1
    F2 = F2
    K1 = K1
    K2 = K2
    A = A
    B = B
    C = C
    T = T
INVARIANTS
    FilesLoseNothing
    OrderDoesNotMatter
    CopiesHaveTheShape
PROPERTIES
    LoadingEnds
CHECK_DEADLOCK FALSE
