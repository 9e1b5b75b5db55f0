CONSTANTS
    Capacity = 2
    Auction = FALSE
SPECIFICATION FairSpec
PROPERTIES
    ShutdownCompletes
