----------------------------- MODULE MCApproval -----------------------------
(* Approval, instantiated for TLC.                                         *)
EXTENDS Approval, TLC

DraftSymmetry == Permutations(Draft)

TaskSymmetry == Permutations(Draft) \cup Permutations(BotTask)

========================================
