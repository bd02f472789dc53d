SPECIFICATION FairSpec
CONSTANTS
    m1 = m1
    m2 = m2
    m3 = m3
    m4 = m4
    Zero = Zero
    Manifest <- Four
    Listings <- UpToThree
CHECK_DEADLOCK FALSE
INVARIANTS
    TypeOK
    OrderRespectsDeps
    CyclesFound
    SortStaysInBounds
    EventOrdered
PROPERTIES
    SortAdvances
    SortEnds
