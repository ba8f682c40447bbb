CONSTANTS
    Chars = {1, 2}
    Vars <- MCVars
    GroupOf <- MCGroupOf
    WhereLists <- MCWhereLists
    RowSets <- MCRowSets
SPECIFICATION Spec
INVARIANT JoinExact
PROPERTY RewritingEnds
