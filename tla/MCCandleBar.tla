---------------------------- MODULE MCCandleBar ----------------------------
(* A small instance of CandleBar for TLC.                                  *)
EXTENDS CandleBar

TwoPrices == {1, 3}
=============================================================================
