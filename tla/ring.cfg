SPECIFICATION Spec
CONSTANTS
    a = a
    b = b
    d = d
    k1 = k1
    k2 = k2
    Host <- MCHost
    Key <- MCKey
    Point <- MCPoint
    VHash <- MCVHash0
    KHash <- MCKHash
    LoadValue <- MCLoadValue
    Replicas = 2
    ReplicationFactor = 3
    NoHost = NoHost
    ErrNoHosts = ErrNoHosts
    Spin = Spin
    Panic = Panic
    Client = {c1, c2}
    MaxOps = 5
INVARIANTS
    TypeOK
    RingMatchesMembers
    LoadsAccounted
    GetLeastTerminates
    GetLeastv2Agrees
    MemberRingAgrees
PROPERTIES
    AssignmentSpec
CHECK_DEADLOCK FALSE
