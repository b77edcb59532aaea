--------------------------- MODULE MCHumanDecision ---------------------------
(* One action the agent may propose in two forms, and two runs of its step *)
(* that may be alive at once, which are alike.                             *)
EXTENDS HumanDecision, TLC

MCRunSymmetry == Permutations(Runs)
=============================================================================
