CONSTANTS
    old = old
    new = new
    e1 = e1
    e2 = e2
    p1 = p1
    p2 = p2
    NoDevice = NoDevice
    NoEnrollment = NoEnrollment
    Devices = {old, new}
    Known = {}
    Enrollments = {e1, e2}
    Slots = {p1, p2}
    MaxGeneration = 3

SPECIFICATION Spec
INVARIANT CodeUsedOnce
PROPERTY ClaimSettles
CHECK_DEADLOCK FALSE
