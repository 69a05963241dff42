------------------------ MODULE MCTradeEventReducer -------------------------
(* Small instances of TradeEventReducer for TLC. *)
EXTENDS TradeEventReducer, TLC

CONSTANTS d1, d2, d3, p1, p2

\* The deals d1 and d2 close p1 in two parts, d3 closes p2.
MCPositionOf == d1 :> p1 @@ d2 :> p1 @@ d3 :> p2

=============================================================================
