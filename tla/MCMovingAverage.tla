-------------------------- MODULE MCMovingAverage --------------------------
(* A small instance of MovingAverage for TLC.                              *)
EXTENDS MovingAverage

SomePrices == 1..4
=============================================================================
