CONSTANTS
    NumBufs = 2
    Files = {f1}
    Pages = {p1, p2, p3}
    Contents = {fresh}
    Fresh = fresh
    Free = free
    NoFile = nofile
    NoPage = nopage
    MaxPin = 2
SPECIFICATION StepSpec
PROPERTIES
    ImplementsBufMgr
    CallsReturn
