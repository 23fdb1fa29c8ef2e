SPECIFICATION FairSpec
CONSTANTS
    Key = {k1, k2, k3}
    Ttl = {1, 2}
    Never = Never
    NoEntry = NoEntry
    Timed = {k1, k2}
    MaxSets = 4
    MaxTime = 3
CHECK_DEADLOCK FALSE
INVARIANTS IInv IndexMatches NoLostWakeup
PROPERTIES ExpiredGo ImplementsExpiringMap
