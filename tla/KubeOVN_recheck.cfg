\* The bootstrap or the removal is cut once, and a consumer joins.
CONSTANTS
    v1 = v1  v2 = v2
    Vpcs = {v1}
    Free = Free
    Domains <- RecheckDomain
    Gates = {1, 2}
    Attachments <- NoSites
    i1 = i1  i2 = i2
    Stock = Stock
    Images = {i1, i2}
    Releases <- NoReleases
SPECIFICATION Spec
CHECK_DEADLOCK FALSE
INVARIANT Barrier
