\* At most two nodes on a level of the graph; flows of three hops and five steps, journeys of four flows;
\* legs of three cards, five cards, a window of four lines that may grow to eight, four tutorial rows;
\* a run and its resume; two snapshots of a symbol with two contents, analysed at once, and one death or second analysis.
CONSTANTS
    MaxRuns = 2
    MaxFaults = 2
    MaxNodes = 2
    MaxDepth = 3
    MaxSteps = 5
    Caps <- ThreeCaps
    CheapShare = 4
    MaxMembers = 4
    MaxWriters = 2
    PhaseBudget = 3
    MaxVisible = 5
    MaxFolded = 1
    WindowLines = 4
    WindowMax = 8
    Packages = {1, 2}
    Evidence = {1, 2}
    MaxRows = 4
    main1 = main1
    main2 = main2
    Snaps = {main1, main2}
    Previous <- BeforeIt
    Histories <- SymbolWas
    DepthSets <- OneIsFull
    Contents = {1, 2}
    Concurrency = 2
    MaxAgain = 1
SPECIFICATION PartSpec
INVARIANTS  FlowsCorrect MarksHonest RecordsCorrect RowsKept 
\* A part that is over stops.
CHECK_DEADLOCK FALSE
