CONSTANTS
    r1 = r1
    r2 = r2
    c1 = c1
    c2 = c2
    NoRevision = NoRevision
    Revisions = {r1, r2}
    Slots = {c1, c2}
    MaxJobs = 2

SPECIFICATION Spec
SYMMETRY Symmetry
INVARIANT RecoversOnce
INVARIANT OnlyTheRequestedPlan
PROPERTY NoWayBack
CHECK_DEADLOCK FALSE
