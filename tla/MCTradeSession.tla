--------------------------- MODULE MCTradeSession ---------------------------
(* A small instance of TradeSession for TLC: main's one strategy orders.   *)
EXTENDS TradeSession

OneStrategy == {"ma_stg"}
=============================================================================
