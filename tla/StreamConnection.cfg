SPECIFICATION FairSpec
CONSTANTS
    Tokens = {t1, t2, t3}
    MaxBackoff = 5
PROPERTIES
    SubscriptionConverges
