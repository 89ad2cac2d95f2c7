CONSTANTS
    DISTRIBUTED <- DistributedWords
    PACKETS = 1
    EXTRACT_WIDTH = 1
    COPIES = 2
    NO_WORD = NO_WORD
SPECIFICATION FairDistributor
PROPERTIES
    DistributesFifo
    DistributorAccepts
