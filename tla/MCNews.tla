------------------------------- MODULE MCNews -------------------------------
(* News, instantiated for TLC.                                             *)
EXTENDS News, TLC

MCSources == <<"rss", "hackernews", "github">>
MCSample == [rss |-> 1, hackernews |-> 1, github |-> 1]

NewsSymmetry == Permutations(Job) \cup Permutations(Story) \cup Permutations(DraftId)

=============================================================================
