----------------------------- MODULE MCIdentity -----------------------------
(* Identity, instantiated for TLC.                                         *)
EXTENDS Identity, TLC

IdSymmetry == Permutations(Request) \cup Permutations(Tenant)
                \cup Permutations(Slug) \cup Permutations(Email)

=============================================================================
