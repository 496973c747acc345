CONSTANTS
    na = na
    nb = nb
    t1 = t1
    t2 = t2
    i1 = i1
    f1 = f1
    f2 = f2
    v1 = v1
    v2 = v2
    s1 = s1
    s2 = s2
    FolderIds = {1, 2, 3, 4, 5}
    FileIds = {1, 2}
    Names = {na, nb}
    Requests = {t1, t2}
    NoRequest = NoRequest
    StartFolders <- MCStartFolders
    StartFiles <- MCStartFiles
    MaxBatch = 1
    Sources = {"a", "e"}
    SourceFolders = {"x1", "x2"}
    InFolder <- MCInFolder
    Below <- MCBelow
    SizeOf <- MCSizeOf
    ContentOf <- MCContentOf
    Contents = {"k1", "k2"}
    CopyRequests = {"c1", "c2"}
    Asked <- MCAsked
    ChunkSize = 2
    StartQuota = 6
    GrantedSpace = 2
    Codes = {code}
    NoCode = NoCode
    Items = {i1}
    FilesOf <- MCFilesOf
    Visitors = {v1, v2}
    SaverQuota = 2
    MaxDay = 1
    MaxTokens = 1
    Listers = {l1, l2}
    Mutators = {m1, m2}
    Rows <- MCRows
    PageSize = 2
    FileSize = 4
    ByteOffsets = {0, 1, 3, 4, 5}
    LastObject = 2
    LastContent = 1
    ScanWorkers = {s1, s2}
    MaxScans = 2
    MaxMoves = 1
    MaxScanFaults = 1
SPECIFICATION MetadataSpec
INVARIANTS  CopiesAccounted  WithdrawnGrantsNothing  
CHECK_DEADLOCK FALSE
