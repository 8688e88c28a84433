CONSTANTS
    apply = apply
    snapshot = snapshot
    evaluate = evaluate
    rollback = rollback
    checkout = checkout
    NoInstance = NoInstance
    Idle = Idle
    Instances = {checkout}
    Kind <- MCKind
    InstanceOf <- MCInstanceOf
    JobTtl <- MCJobTtl
    LeaseTtl = 2
    MaxWork = 2
    Jobs = {apply, snapshot, evaluate, rollback}
    MaxTime = 2
    MaxLease = 4
    MaxFaults = 1

SPECIFICATION FairDeliverySpec
INVARIANT CommittedBeforeSent
INVARIANT RepeatedOnlyByCrash
INVARIANT SuccessIsReal
PROPERTY ResultEndsExecution
PROPERTY ImplementsMailbox
PROPERTY EveryJobEnds
CONSTRAINT SomeComeAlone
CHECK_DEADLOCK FALSE
