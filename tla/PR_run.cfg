CONSTANTS
    Capacity = 1
    EventCapacity = 1
    Auction = TRUE
SPECIFICATION ExportFairSpec
INVARIANTS
    TypeOK
    BuilderConfigFirst
    DisconnectMeansPanic
    VerdictTrue
    ExporterOutlasts
PROPERTIES
    ShutdownCompletesOrSpins
    ExporterReconnects
