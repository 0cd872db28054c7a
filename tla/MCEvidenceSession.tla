------------------------- MODULE MCEvidenceSession -------------------------
(***************************************************************************)
(* EvidenceSession for TLC: an autoresearch run of two generations has the *)
(* state directory for itself, or a repeated run shares it with a          *)
(* standalone evaluation.  An evaluation yields a rejected candidate and a *)
(* survivor.                                                               *)
(***************************************************************************)
EXTENDS EvidenceSession

MCRequested == [r \in Run |-> IF r \in Automatic THEN 2 ELSE 1]
MCTogether == {Automatic, Repeated \cup Standalone}
MCOutcomes == {<<"REJECT", "SURVIVOR">>}
=============================================================================
