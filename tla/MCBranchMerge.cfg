\* A branch and a branch of it, two requests at once: turns, runs, merges, crashes,
\* and one lapsed lease, run that writes in between or import cut off.
CONSTANTS
    b1 = b1
    b2 = b2
    Branches = {b1, b2}
    Root = Root
    Parent <- Nested
    Requests = {r1, r2}
    Nobody = Nobody
    Dead = Dead
    Watched = {b2}
    MaxTurns = 1
    MaxMishaps = 1
    MaxImports = 2
    Calm = TRUE
SPECIFICATION Spec
SYMMETRY Interchangeable
INVARIANTS ImportedOnce ImportedIsClosed MergedMeansImported
PROPERTIES MergedForever ReviewIsCurrent
