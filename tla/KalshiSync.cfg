SPECIFICATION FairSpec
CONSTANTS
    s1 = s1
    e1 = e1
    e2 = e2
    m1 = m1
    Series = {s1}
    Events = {e1, e2}
    Markets = {m1}
    Sides = {"yes", "no"}
    SeriesOf <- MCSeriesOf
    EventOf <- MCEventOf
    Position <- MCPosition
    Last = 2
    Full = {"full"}
    Delta = {"delta"}
    Dev = {"dev"}
    PageSize = 1
    NullPriced = {2}
    Faults = {"fetch", "row", "die", "restart"}
INVARIANTS
    Referential
    OutcomesAgree
    StaleIsAccounted
PROPERTIES
    GoesBackOnlyWhenShared
    Mirrors
CHECK_DEADLOCK FALSE
