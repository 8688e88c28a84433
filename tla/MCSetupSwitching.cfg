SPECIFICATION Spec
CONSTANTS
    i1 = i1
    i2 = i2
    r1 = r1
    r2 = r2
    Checkouts = {i1, i2}
    Revisions = {r1, r2}
    NoRevision = NoRevision
    Default = r1
    Nothing = Nothing
    Shapes = {"intact", "missing", "modified"}
    MaxJobs = 4
CHECK_DEADLOCK FALSE
INVARIANT OneJobPerDecision
INVARIANT ReceiptsAreReal
INVARIANT OfferedRollbackIsLatest
INVARIANT SettledHealthIsHonest
PROPERTY AppliesWhatWasReviewed
PROPERTY AssignmentFollowsDisk
CONSTRAINT SecondIsPlain
ACTION_CONSTRAINT EditsWait
ACTION_CONSTRAINT SavedAtOnce
