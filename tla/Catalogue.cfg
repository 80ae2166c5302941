SPECIFICATION FairSpec
CONSTANTS
    s1 = s1
    s2 = s2
    e1 = e1
    e2 = e2
    m1 = m1
    p = p
    q = q
    t = t
    Tags = {p, q, t}
    TopLevel = {p, q}
    Children <- MCChildren
    Flagged = {t}
    Permits = 1
    Attempts = 2
    Series = {s1, s2}
    Events = {e1, e2}
    Markets = {m1}
    SeriesOf <- MCSeriesOf
    EventOf <- MCEventOf
    TagsOf <- MCTagsOf
    OwnCategories = {s2}
    Bucket <- MCBucket
    Volume <- MCVolume
    PageSize = 1
    MaxTotal = 2
    MaxPerBucket = 2
    MaxEvents = 1
    FullRuns = {"full"}
    DevRuns = {"d1", "d2"}
    Faults = {"fetch", "row", "die", "relist", "limited"}
    MaxMishaps = 1
INVARIANTS
    TypeOK
    Referential
    BareOnlyWhenCut
    LinksAccounted
PROPERTIES
    DevSyncDiverse
    SkippedOnlyBehind
    TagSyncEnds
CHECK_DEADLOCK FALSE
