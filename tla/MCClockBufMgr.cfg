CONSTANTS
    NumBufs = 2
    Files = {f1}
    Pages = {p1, p2, p3}
    Contents = {fresh, changed}
    Fresh = fresh
    Free = free
    NoFile = nofile
    NoPage = nopage
    MaxPin = 2
SYMMETRY Symmetry
SPECIFICATION PoolSpec
INVARIANTS
    HashMatchesFrames
    CachedPagesExist
    CleanFramesMatchDisk
    AllocBufEnds
    ExceededNeedsHalfPinned
PROPERTY PoolPinnedFramesStay
