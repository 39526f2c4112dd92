CONSTANTS
    v1 = v1  v2 = v2
    Vpcs = {v1, v2}
    Free = Free
    Domains <- AllDomains
    Gates = {1, 2}
    Attachments <- AllSites
    i1 = i1  i2 = i2
    Stock = Stock
    Images = {i1, i2}
    Releases <- AllReleases
SPECIFICATION Spec
\* Everything settled and nothing left to change is a proper end.
CHECK_DEADLOCK FALSE
INVARIANTS Barrier NoFalseConflict GoneClean Monitored GatewayFirst SiteIntact SchemaLast Receipted
PROPERTIES Settles SiteSettles HookCompletes
