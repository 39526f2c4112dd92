\* One site, two Subnets with one prefix, from nothing.
CONSTANTS
    A = A  B = B
    s1 = s1  s2 = s2  s3 = s3  s4 = s4
    c1 = c1  c2 = c2  c3 = c3
    Locations = {A}
    Subnets = {s1, s2}
    LocationOf <- LocAA
    CIDROf <- CidrSame
    Established = {}
    Deletable = {s1, s2}
    VPCDeletable = TRUE
SPECIFICATION FairSpec
CHECK_DEADLOCK FALSE
INVARIANTS NoFalseBlock VPCGoneClean
PROPERTY VPCDeletionCompletes
