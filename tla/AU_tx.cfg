CONSTANTS
    t1 = t1 t2 = t2 t3 = t3 b1 = b1 x1 = x1 y1 = y1 b2 = b2 x2 = x2 y2 = y2
    p1 = p1 i1 = i1 c1 = c1 acc = acc tip = tip
    Member <- MCMember First <- MCFirst InitTip <- MCInitTip Account = {acc, tip}
    Twice = {} Writes <- MCWrites Reads <- MCReads Cost <- MCCost Rank <- MCRank
    WordMax = 15 Multiplier = 3 Float <- MCFloat ToFloat <- MCToFloat Scaled <- MCScaled
    Tx = {t2, t3}
    Bundle = {}
    TipPair = {p1}
    NumExecWorkers = 2
    UncheckedCapacity = 2
    CheckedCapacity = 2
    BundleCapacity = 1
    BatchSize = 2
    MaxCheckBatches = 1
    DrainLeader = 1
    DrainFollower = 2
    MaxBlockUnits = 4
    BlockFillCutoff = 20
    Progress = {0, 100}
    Remaining = {2, 4}
    MaxSlot = 3
    MaxTaken = 1
SPECIFICATION AuctionSpec
CONSTRAINTS UsedEarly ThirdSlotAlone
INVARIANTS
    AssertionsHold
    TransactionsAccounted
    RequestsMatchExecuting
PROPERTIES
    BudgetRespected
    UnprocessedReturns
