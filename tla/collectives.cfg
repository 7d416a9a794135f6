SPECIFICATION CollectiveSpec
CONSTANTS
    SortRows = 4
    Digits = 2
    Radix = 2
    Weight <- SmallWeight
    NaN = NaN
    PerRow = 1
    FoldRows = 9
    ValueRows = 6
    Vals <- SmallVals
    Lowest <- SmallLowest
    Highest = 9
    Matches <- SmallMatches
    MaxDomain = 2
    Expr <- SmallExpr
    ExprRows = 3
    MaxRows = 10
    MaxThreads = 4
    PerThread = 2
INVARIANTS
    SortedStable
    RowsStayAligned
    ReduceFoldsLiveRows
    ScanIsPrefixFold
    JoinedBeforeRead
    FoldsEveryRowOnce
PROPERTIES
    Returns
CHECK_DEADLOCK FALSE
