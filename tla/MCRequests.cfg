CONSTANTS
    g1 = g1
    g2 = g2
    Routes <- MCRoutes
    GateUsers = {gu1, gu2}
    Anonymous = Anonymous
    AdminUsers = {gu1}
    GateRequests = {g1, g2}
    Limit = 1
    Window = 2
    MaxSecond = 2
    ByteWidth = 4
    MaxChunkCount = 6
    ChunkSizes = {0, 2, 3, 5}
    Users = {u1, u2}
    Administrators = {u1}
    Passwords = {pw1, pw2}
    Instances = {api1, api2}
    Calls = {c1, c2, c3}
    MaxSession = 3
    AccessTtl = 2
    RefreshTtl = 3
    LockTime = 1
    FailureLimit = 2
    AddressLimit = 2
    AddressWindow = 1
    MaxTime = 2
    Nobody = Nobody
    ShareIds = {"s1", "s2"}
    MaxAuthCalls = 5
    MaxManagerCalls = 2
SPECIFICATION RequestSpec
INVARIANTS GateSound FormsSound AccountsSound DeskConsistent
PROPERTIES WithdrawalsStand
SYMMETRY Interchangeable
CHECK_DEADLOCK FALSE
