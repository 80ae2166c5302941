SPECIFICATION FairSpec
CONSTANTS
    Groups = {g1}
    Markets = {m1}
    Shares <- MCShares
    Quotes = {40, 52}
    Runs = {r1, r2}
    Overlap = {"resolution"}
    MaxFailures = 1
INVARIANTS
    SentKeyed
    AlertsPerKey
PROPERTIES
    MovedAlerted
    ResolvedAlerted
