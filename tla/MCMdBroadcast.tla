--------------------------- MODULE MCMdBroadcast ---------------------------
(* Small instances of MdBroadcast for TLC. *)
EXTENDS MdBroadcast

OneInstrument == <<"rb1610">>
TwoInstruments == <<"rb1610", "IF1606">>

\* Around the close; and a day's opening, lunch break and close (11:30 is a
\* minute the market closes in).
LastMinutes == {<<14, 58, 59>>, <<14, 59, 30>>, <<15, 0, 0>>, <<15, 0, 1>>, <<15, 1, 0>>}
WholeDay == {<<9, 29, 0>>, <<9, 30, 0>>, <<11, 30, 0>>, <<11, 30, 1>>, <<15, 0, 1>>}
ReplayTimes == {<<9, 0, 0>>, <<9, 0, 1>>, <<9, 0, 2>>, <<9, 0, 59>>,
                <<9, 1, 0>>, <<9, 1, 1>>, <<9, 2, 0>>}

Replay(rows) == [k \in DOMAIN rows |->
    [InstrumentID |-> rows[k][1], UpdateTime |-> rows[k][2], Volume |-> rows[k][3]]]

NoFile == {}
\* A file of one minute; one of two instruments that change the minute at
\* different rows; and one with rows without turnover.
Files == { Replay(<< <<"rb1610", <<9, 0, 1>>, 1>>, <<"rb1610", <<9, 0, 2>>, 0>> >>),
           Replay(<< <<"rb1610", <<9, 0, 59>>, 1>>, <<"IF1606", <<9, 0, 59>>, 1>>,
                     <<"rb1610", <<9, 1, 0>>, 1>>, <<"IF1606", <<9, 1, 1>>, 1>>,
                     <<"rb1610", <<9, 2, 0>>, 1>> >>),
           Replay(<< <<"rb1610", <<9, 0, 0>>, 1>>, <<"IF1606", <<9, 0, 1>>, 1>>,
                     <<"rb1610", <<9, 1, 0>>, 0>>, <<"rb1610", <<9, 1, 1>>, 1>>,
                     <<"IF1606", <<9, 2, 0>>, 1>> >>) }
=============================================================================
