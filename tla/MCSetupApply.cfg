CONSTANTS
    p1 = p1
    p2 = p2
    s1 = s1
    s2 = s2
    r1 = r1
    r2 = r2
    Paths = {p1, p2}
    Skills = {s1, s2}
    Revisions = {r1, r2}
    Desired <- MCDesired
    NoSkill = NoSkill
    Torn = Torn
    Foreign = Foreign
    NoRevision = NoRevision
    Idle = Idle
    NoRecovery = NoRecovery
    MaxOperations = 2
    MaxFaults = 2
    MaxEdits = 1

SPECIFICATION Spec
INVARIANT RecoveryLeadsBack
INVARIANT RecordsMatchDisk
PROPERTY ImplementsAtomic
PROPERTY RollbackUndoes
PROPERTY PlannedContentKept
CHECK_DEADLOCK FALSE
