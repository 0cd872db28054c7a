--------------------------- MODULE MCEvidenceStore ---------------------------
(***************************************************************************)
(* A small instance of EvidenceStore: two clients and two runs, and fewer  *)
(* identities than two runs need, so that identities are contended for.    *)
(* One payload is enough: two events of one identity still differ in kind  *)
(* or run, and every event has a good shape (a malformed one is refused    *)
(* like any other).                                                        *)
(***************************************************************************)
EXTENDS EvidenceStore, TLC

MCWellFormed == [id : Id, kind : Kind, run : Run, payload : Payload]

MCSymmetry == Permutations(Id) \cup Permutations(Run) \cup Permutations(Client)
=============================================================================
