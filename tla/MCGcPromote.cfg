CONSTANTS
    f1 = f1
    f2 = f2
    f3 = f3
    alice = alice
    bob = bob
    c1 = c1
    g1 = g1
    g2 = g2
    d1 = d1
    d2 = d2
    NoLock = NoLock
    JobOwners = {g1, g2}
    MaxAttempts = 2
    Users = {alice, bob}
    Contents = {c1}
    OwnerOf <- MCOwnerOf
    ContentOf <- MCContentOf
    SizeOf <- MCSizeOf
    Files = {f1, f2}
    Deleters = {d1}
    ConnectionLoss = FALSE
SPECIFICATION GcSpec
INVARIANTS ReferencedBlobPresent
CHECK_DEADLOCK FALSE
