---------------------------- MODULE MCManagedVPC ----------------------------
(* Instances of ManagedVPC: two sites and up to four Subnets.              *)
EXTENDS ManagedVPC, TLC

CONSTANTS A, B, s1, s2, s3, s4, c1, c2, c3

\* One site; the second Subnet reuses the first one's prefix.
LocA == s1 :> A
Cidr1 == s1 :> c1
LocAA == (s1 :> A) @@ (s2 :> A)
CidrSame == (s1 :> c1) @@ (s2 :> c1)

\* One Subnet at each of two sites, and a sibling of the first.
LocAB == (s1 :> A) @@ (s2 :> B)
Cidr12 == (s1 :> c1) @@ (s2 :> c2)
LocABA == LocAB @@ (s3 :> A)
Cidr123 == Cidr12 @@ (s3 :> c3)

\* The prefix of s1 moves to the other site with s4.
LocABAB == LocABA @@ (s4 :> B)
Cidr1231 == Cidr123 @@ (s4 :> c1)
=============================================================================
