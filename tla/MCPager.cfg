\* Results of up to five rows read in pages of two: empty, short, exact and
\* over-long last pages all occur, and offsets beyond the end.
CONSTANTS
    MaxRows = 5
    PageSize = 2
    MaxFrom = 6
SPECIFICATION FairSpec
INVARIANTS
    TypeOK
    NothingHidden
    WalkIsComplete
    TotalIsExact
PROPERTIES
    PagesAreSlices
    WalkEnds
