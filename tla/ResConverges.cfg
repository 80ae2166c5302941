SPECIFICATION FairSpec
CONSTANTS
    Markets = {m1, m2}
    Outcomes = {yes}
    Traded = {m1, m2}
    Streamed = {m1}
    Slots = {s1}
    Crons = {c1}
    Limit = 1
    BatchSize = 1
    Events = {"trade", "sync", "restart"}
PROPERTIES
    Converges
CHECK_DEADLOCK FALSE
