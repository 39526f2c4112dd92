\* Two overlapping allocators, one abort, one destroyed object, IDs scarce; the
\* bounds of the addresses are in MCLedgers.
CONSTANTS
    p1 = p1  p2 = p2
    k1 = k1  k2 = k2
    h1 = h1  h2 = h2
    solo = solo
    n1 = n1  n2 = n2
    Health = Health
    Procs = {p1, p2}
    Keys = {k1, k2}
    Shards = {h1, h2}
    ShardOf <- SplitShards
    Requests <- AllRequests
    MaxID = 3
    ShardCapacity = 1
    MaxAborts = 1
    MaxDamage = 1
SPECIFICATION LedgersSpec
SYMMETRY Symmetry
\* Gateways that are announced are a proper end.
CHECK_DEADLOCK FALSE
INVARIANTS TypeOK NoIDReuse StableAnswers NoFalseAlarm HandedOutOnce
PROPERTY Implements
