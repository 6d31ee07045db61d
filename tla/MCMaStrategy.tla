---------------------------- MODULE MCMaStrategy ----------------------------
(* A small instance of MaStrategy for TLC: the longest average is of one   *)
(* bar.                                                                    *)
EXTENDS MaStrategy

TwoNodes == <<"IF1604", "rb1610">>
=============================================================================
