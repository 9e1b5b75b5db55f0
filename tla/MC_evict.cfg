CONSTANTS
    t1 = t1 t2 = t2 t3 = t3 b1 = b1 x1 = x1 y1 = y1 b2 = b2 z2 = z2
    p1 = p1 i1 = i1 c1 = c1 p2 = p2 i2 = i2 c2 = c2 acc = acc tip = tip
    Member <- MCMember First <- MCFirst Account = {acc, tip}
    Twice = {} Writes <- MCWrites Reads <- MCReads Cost <- MCCost Rank <- MCRank
    Tx = {t1, t2}
    Bundle = {}
    TipPair = {p1}
    NumExecWorkers = 1
    UncheckedCapacity = 2
    CheckedCapacity = 3
    BundleCapacity = 1
    BatchSize = 2
    MaxCheckBatches = 1
    DrainLeader = 1
    DrainFollower = 2
    MaxBlockUnits = 3
    BlockFillCutoff = 20
    Progress = {100}
    Remaining = {3}
    MaxSlot = 1
    MaxTaken = 1
SPECIFICATION Spec
INVARIANTS
    EvictionFinds
