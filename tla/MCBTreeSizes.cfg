CONSTANTS
    Records <- DistinctKeys
    Ranges <- MCRanges
    LeafOcc = 2
    NodeOcc = 3
    MaxReopen = 0
    MaxLeft = 1
SPECIFICATION Spec
INVARIANT EntriesFound
