\* A turn or an import that passed its checks reaches a branch merged meanwhile.
CONSTANTS
    b1 = b1
    b2 = b2
    Branches = {b1, b2}
    Root = Root
    Parent <- Nested
    Requests = {r1, r2}
    Nobody = Nobody
    Dead = Dead
    Watched = {b1, b2}
    MaxTurns = 1
    MaxMishaps = 0
    MaxImports = 2
    Calm = TRUE
SPECIFICATION Spec
PROPERTY MergedIsReadOnly
