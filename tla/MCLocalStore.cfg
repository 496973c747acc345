CONSTANTS
    Instances = {api1, api2}
    NoOwner = NoOwner
    Users = {alice}
    Uploads = {u1}
    Workers = {w1, w2}
    Contents = {c1}
    Names = {n1}
    Payloads = {ok}
    Good = ok
    OwnerOf <- AllAlice
    ContentOf <- SameContent
    NameOf <- DistinctNames
    SizeOf <- TwoBytes
    QuotaOf <- QuotaFour
    InstanceOf <- TwoInstances
    TotalChunks = 1
    Backend = "local"
    NoUpload = NoUpload
    MaxClaims = 2
    MaxChunkRequests = 1
    u1 = u1
    u2 = u2
    u3 = u3
    alice = alice
    bob = bob
    c1 = c1
    c2 = c2
    n1 = n1
    n2 = n2
    n3 = n3
    w1 = w1
    w2 = w2
    w3 = w3
    api1 = api1
    api2 = api2
    ok = ok
    bad = bad
SPECIFICATION Spec
INVARIANT ReferencedBlobIntact
CHECK_DEADLOCK FALSE
