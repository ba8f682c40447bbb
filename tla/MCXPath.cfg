CONSTANTS
    ParentOf <- MCParentOf
    Name <- MCName
    Value <- MCValue
    HasAttr <- MCHasAttr
    HasText <- MCHasText
    Start <- MCStart
    Paths <- MCPaths
    Conditions <- MCConditions
    Height <- MCHeight
    MaxHeight = 5
CHECK_DEADLOCK FALSE
SPECIFICATION Spec
INVARIANT IsolatedExact
