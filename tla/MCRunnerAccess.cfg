CONSTANTS
    plan = plan
    apply = apply
    checkout = checkout
    s1 = s1
    s2 = s2
    c1 = c1
    NoInstance = NoInstance
    NoServer = NoServer
    Jobs = {plan, apply}
    Instances = {checkout}
    Kind <- MCKind
    InstanceOf <- MCInstanceOf
    JobTtl <- MCJobTtl
    LeaseTtl = 1
    MaxTime = 1
    MaxLease = 2
    Servers = {s1, s2}
    Requests = {c1}

SPECIFICATION AccessSpec
INVARIANT NoLostWakeUp
INVARIANT SingleFlight
PROPERTY RevocationTakesEffect
PROPERTY EndIsFinal
CHECK_DEADLOCK FALSE
