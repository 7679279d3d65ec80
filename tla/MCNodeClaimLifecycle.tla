------------------------ MODULE MCNodeClaimLifecycle ------------------------
(* Small instances of NodeClaimLifecycle for TLC.                          *)
EXTENDS NodeClaimLifecycle, TLC

\* NodeClaims are interchangeable, and so are the instances Karpenter launches.
ClaimSymmetry    == Permutations(Claims)
InstanceSymmetry == Permutations(Instances \ Foreign)
Symmetry         == ClaimSymmetry \union InstanceSymmetry
=============================================================================
