-------------------------- MODULE MCLinkedInTokens --------------------------
(* LinkedInTokens, instantiated for TLC.                                   *)
EXTENDS LinkedInTokens, TLC

TokenSymmetry == Permutations(Member) \cup Permutations(Publisher)

=============================================================================
