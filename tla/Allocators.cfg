\* Two processes race for two bindings, or for two keys; the pools suffice.
CONSTANTS
    p1 = p1  p2 = p2
    n1 = n1  n2 = n2
    k1 = k1  k2 = k2
    h1 = h1  h2 = h2
    Procs = {p1, p2}
    Names = {n1, n2}
    Transits = {0, 1, 2}
    Sources = {1, 2, 3}
    MaxReplaced = 0
    MaxAborts = 0
    MaxDamage = 0
SPECIFICATION AllSpec
INVARIANTS CommittedFirst Exclusive NoFalseFence
PROPERTIES EventuallyAllocated IDsComplete
