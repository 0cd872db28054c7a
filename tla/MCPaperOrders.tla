--------------------------- MODULE MCPaperOrders ---------------------------
(* A run for two shares, or for none, beside an order of the same day. *)
EXTENDS PaperOrders

MCQuantities == {0, 2}
=============================================================================
