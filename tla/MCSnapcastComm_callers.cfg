SPECIFICATION Spec
CONSTANTS
    Callers = {c1, c2}
    Worker = worker
    Servers = {s1}
    NoServer = NoServer
    FaultKinds = {"crash", "garbage", "select"}
    MaxFaults = 1
SYMMETRY CallerSymmetry
INVARIANTS
    TypeOK
    SpinFree
    DescriptorInv
    NoStaleReceipt
    WakeupLostOnlyToStranded
CHECK_DEADLOCK FALSE
