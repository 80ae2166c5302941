SPECIFICATION Spec
CONSTANTS
    Markets = {m1}
    Outcomes = {yes, no}
    Traded = {m1}
    Streamed = {m1}
    Slots = {s1, s2}
    Crons = {c1, c2}
    Limit = 1
    BatchSize = 1
    Events = {"resolved", "nowinner", "trade", "tick", "sync", "restart", "fail"}
INVARIANTS
    ResultTruthful
    ResolvedHasWinner
    NeverClosedEarly
SYMMETRY Symmetry
