------------------------- MODULE MCSystemController -------------------------
(***************************************************************************)
(* SystemController for TLC: two starts on the same or on different ports, *)
(* by one server or by two.                                                *)
(***************************************************************************)
EXTENDS SystemController, TLC

Ports == Permutations(Port)
=============================================================================
