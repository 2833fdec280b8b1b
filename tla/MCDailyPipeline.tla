--------------------------- MODULE MCDailyPipeline --------------------------
(* DailyPipeline, instantiated for TLC.                                    *)
EXTENDS DailyPipeline, TLC

TenantSymmetry == Permutations(Tenant)

JobSymmetry == Permutations(Tenant) \cup Permutations(Job)

=============================================================================
