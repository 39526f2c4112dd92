CONSTANTS
    A = A  B = B
    s1 = s1  s2 = s2  s3 = s3  s4 = s4
    c1 = c1  c2 = c2  c3 = c3
    Locations = {A, B}
    Subnets = {s1, s2, s3, s4}
    LocationOf <- LocABAB
    CIDROf <- Cidr1231
    Established = {s1, s2, s3}
    Deletable = {s1, s4}
    VPCDeletable = FALSE
SPECIFICATION FairSpec
CHECK_DEADLOCK FALSE
INVARIANTS NativeClaimed NoOverlap RoutesAreRemote
PROPERTIES NoEarlyWithdrawal DeletionCompletes
