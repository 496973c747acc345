CONSTANTS
    i1 = i1
    i2 = i2
    p1 = p1
    p2 = p2
    p3 = p3
    j1 = j1
    j2 = j2
    r1 = r1
    r2 = r2
    f1 = f1
    f2 = f2
    alice = alice
    bob = bob
    c1 = c1
    d1 = d1
    d2 = d2
    ua = ua
    ub = ub
    w1 = w1
    w2 = w2
    q1 = q1
    q2 = q2
    fa = fa
    fb = fb
    NoLock = NoLock
    NoJob = NoJob
    JobOwners = {i1, i2}
    ProcessOf <- MCProcessOf
    Jobs = {j1, j2}
    TxJobs = {j2}
    NextOf <- MCPages
    MaxAttempts = 2
    Users = {alice, bob}
    Contents = {c1}
    Files = {f1, f2}
    OwnerOf <- MCOwnerOf
    ContentOf <- MCContentOf
    SizeOf <- MCSizeOf
    ConnectionLoss = TRUE
    RemoteFiles = {fa, fb}
    DownloadSize = 3
    MaxRetryCount = 1
    MaxConcurrent = 1
    MaxFaults = 1
    MaxDeaths = 1
    Pollers = {p1, p2, p3}
    MaxArms = 2
    Requests = {r1, r2}
    Deleters = {d1, d2}
    Uploads = {ua, ub}
    Parts = 2
    LastChunk = 1
    LocalWriters = {w1, w2}
    LocalPromoters = {q1, q2}
    ChunkTotal = 2
    MaxSessions = 2
    MaxDownloads = 3
SPECIFICATION BackgroundSpec
INVARIANTS TypeOK ClaimFenced NoFalseSuccess ScanContinues DrainConsistent GcConsistent S3Consistent   
PROPERTIES ZeroIsFinal ReferencedBlobKept
CHECK_DEADLOCK FALSE
