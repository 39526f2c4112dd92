CONSTANTS
    A = A  B = B
    s1 = s1  s2 = s2  s3 = s3  s4 = s4
    c1 = c1  c2 = c2  c3 = c3
    Locations = {A, B}
    Subnets = {s1, s2}
    LocationOf <- LocAB
    CIDROf <- Cidr12
    Established = {s1, s2}
    Deletable = {s1}
    VPCDeletable = FALSE
SPECIFICATION Spec
CHECK_DEADLOCK FALSE
INVARIANT GoneIsWithdrawn
