---------------------------- MODULE MCMdManager ----------------------------
(* Small instances of MdManager for TLC: periods of two and three minutes. *)
EXTENDS MdManager

TwoInstruments == <<"rb1610", "IF1606">>
OnePeriod == <<"FIVE">>
TwoPeriods == <<"FIVE", "FIVETEEN">>
Table == [t \in Types |-> CASE t = "ONE" -> 1 [] t = "FIVE" -> 2 [] t = "FIVETEEN" -> 3]
OneAndFive == {"ONE", "FIVE"}
Some == {"rb1610"}
=============================================================================
