---------------------------- MODULE MCResearchLoop ----------------------------
(***************************************************************************)
(* ResearchLoop for TLC: three interchangeable intents are enough to tell  *)
(* a proposal, its repair and a second repair apart.                       *)
(***************************************************************************)
EXTENDS ResearchLoop, TLC

Symmetry == Permutations(Payload)
=============================================================================
