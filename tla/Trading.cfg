SPECIFICATION FairSpec
CONSTANTS
    d1 = d1
    d2 = d2
    alice = alice
    bob = bob
    carol = carol
    o1 = o1
    None = None
    Workers = {"w1", "w2"}
    Dids = {d1, d2}
    Wallets = {alice, bob, carol}
    Tokens <- MCTokens
    Names = {"n1", "n2"}
    Offers <- MCOffers
    Faults = {"refused", "torn", "lost", "status", "unreadable"}
    MaxKeys = 2
    Orders = {o1}
    OwnerOf <- MCOwnerOf
    Params = {"tick", "fee"}
    MaxParam <- MCMaxParam
    KnownTicks = {1, 2}
    MaxDecimals = 2
    Prices = {50, 57}
    Sizes = {290, 1005}
    MaxSize = 1005
    Absorbed = 5000
    MaxPolls = 2
INVARIANTS
    TypeOK
    RegisteredOnce
    AnswersTrue
    KeyFollows
    AmountsExact
    OrdersReported
PROPERTIES
    RelayPromised
    CachesHeal
CHECK_DEADLOCK FALSE
