SPECIFICATION Spec
CONSTANTS
    q1 = q1
    q2 = q2
    q3 = q3
    a = a
    b = b
    c = c
    x = x
    y = y
    p = p
    j = j
    old = old
    new = new
    Requests = {q1, q2, q3}
    Seed = seed
    SeedItems = {a}
    Items = {a, b, c}
    Target <- MCTarget
    Names = {new}
    SeedName = old
    Projects = {p}
    Discovered <- MCDiscovered
    Snapshots = {j}
    Captured <- MCCaptured
    Selections <- MCSelections
    MaxRevision = 2
    Absent = Absent
CHECK_DEADLOCK FALSE
INVARIANT AnswersAreTrue
INVARIANT SomeRequestProceeds
PROPERTY ImplementsChains
SYMMETRY Symmetry
