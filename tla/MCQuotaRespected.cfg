CONSTANTS
    Instances = {api1, api2}
    NoOwner = NoOwner
    Users = {alice}
    Uploads = {u1, u2, u3}
    Workers = {w1}
    Contents = {c1, c2}
    Names = {n1, n2, n3}
    Payloads = {ok}
    Good = ok
    OwnerOf <- AllAlice
    ContentOf <- SecondDiffers
    NameOf <- DistinctNames
    SizeOf <- TwoBytes
    QuotaOf <- QuotaFive
    InstanceOf <- TwoInstances
    TotalChunks = 1
    Backend = "s3"
    NoUpload = NoUpload
    MaxClaims = 1
    MaxChunkRequests = 1
    u1 = u1
    u2 = u2
    u3 = u3
    alice = alice
    bob = bob
    c1 = c1
    c2 = c2
    n1 = n1
    n2 = n2
    n3 = n3
    w1 = w1
    w2 = w2
    w3 = w3
    api1 = api1
    api2 = api2
    ok = ok
    bad = bad
SPECIFICATION Spec
INVARIANT QuotaRespected
CHECK_DEADLOCK FALSE
