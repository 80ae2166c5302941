SPECIFICATION FairSpec
CONSTANTS
    Yes = yes
    No = no
    Tokens = {yes, no}
    Messages <- MCMessages
    QueueMax = 2
    BatchSize = 2
    Faults = {"flush", "restart", "expire"}
INVARIANTS
    RedisFollowsBook
PROPERTIES
    QueueDrains
