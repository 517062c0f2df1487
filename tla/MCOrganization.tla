------------------------- MODULE MCOrganization -------------------------
EXTENDS Organization, TLC

CONSTANTS u1, u2, p1, p2

MCFounder == p1 :> u1 @@ p2 :> u2
CallSymmetry == Permutations(Call)
=========================================================================
