CONSTANTS
    NumBufs = 2
    Files = {scanned, other}
    file = scanned
    Other = other
    OtherPages <- MCOtherPages
    Pages <- MCPages
    Contents <- MCContents
    Fresh <- MCFresh
    Free = free
    NoFile = nofile
    NoPage = nopage
    MaxPin = 1
SPECIFICATION ScanSpec
INVARIANTS
    OnePagePinned
    NoFrameOfClosedFile
PROPERTIES
    InOrder
    ScanEnds
