----------------------------- MODULE MCJournal ------------------------------
(* Journal, instantiated for TLC.                                          *)
EXTENDS Journal, TLC

JournalSymmetry == Permutations(Request) \cup Permutations(Entry) \cup Permutations(Tag)

=============================================================================
