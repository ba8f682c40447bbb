CONSTANTS
    Records <- DistinctKeys
    Ranges <- MCRanges
    LeafOcc = 2
    NodeOcc = 2
    MaxReopen = 4
    MaxLeft = 1
SPECIFICATION Spec
INVARIANTS
    TypeOK
    LevelsRight
    EntriesFound
    LeafChainExact
    ScanExact
    ScanPagePinned
