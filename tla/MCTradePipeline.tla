-------------------------- MODULE MCTradePipeline --------------------------
(* A small instance of TradePipeline for TLC, as main sets it up: one       *)
(* strategy of one minute bars.                                            *)
EXTENDS TradePipeline

OneInstrument == <<"rb1610">>
OnePeriod == <<"FIVE">>
Table == [t \in {"ONE", "FIVE"} |-> IF t = "ONE" THEN 1 ELSE 2]
OnlyOne == {"ONE"}
Some == {"rb1610"}
OneNode == << <<"ONE", "rb1610">> >>

\* A file of four minutes; one of them has two ticks.
ReplayTimes == {<<9, 0, 59>>, <<9, 1, 0>>, <<9, 1, 59>>, <<9, 2, 0>>, <<9, 3, 0>>, <<9, 4, 0>>}
Row(time) == [InstrumentID |-> "rb1610", UpdateTime |-> time, Volume |-> 1]
Files == { << Row(<<9, 0, 59>>), Row(<<9, 1, 0>>), Row(<<9, 1, 59>>), Row(<<9, 2, 0>>),
              Row(<<9, 3, 0>>) >> }
=============================================================================
