---------------------------- MODULE TradePipeline ----------------------------
(***************************************************************************)
(* From ticks to orders: CMdBroadCast (module MdBroadcast), CMdManager     *)
(* with CStrategy::update (MdManager) and CMAStrategy's indicator thread   *)
(* (MaStrategy), put together as main (ctp_trade.cpp) does.                *)
(*                                                                         *)
(* They meet in two calls.  The calculator hands a minute's bar to the     *)
(* manager, and the strategy is updated before the call returns and the    *)
(* calculator erases the minute's ticks -- all of it under the             *)
(* instrument's tick_mutex_.  And whoever updates the strategy appends the *)
(* bar to the CCandleBar the indicator thread is reading.                  *)
(*                                                                         *)
(* A node of the strategy is a pair of a period and an instrument.  When   *)
(* the calculator or the distributor abort(), every thread is gone.        *)
(***************************************************************************)
EXTENDS Naturals, Sequences

CONSTANTS
    instruments, max_minute_ticks, TradeTime, Times, FakeDays,   \* MdBroadcast
    MaxVolume, MaxTicks, MaxPending, MaxSessions,                \* its bounds
    ONE, periods, checkup_table, k_type, focused,                \* MdManager
    nodes, period_max,                                           \* MaStrategy
    MaxBars                                                      \* bound: bars

VARIABLES
    sub_mutex_, sub_ticks_, tick_base_, mtk_open_, candles, aborted, dist, calc, market,
    session, instrument_tick_one_day, data_index, total_volum, accepted, taken, restarted,
    main, subscribe_inst_, basic_minute_kdata_, phase, focus_instr, at, retrieve_start_pos,
    notified, decision_data_, save_file_, raced,
    candles_, initial_read_pos_flag, candle_bar_read_pos, node_at, pc, action, orders, late

Broadcast == INSTANCE MdBroadcast WITH subscribe_inst_ <- instruments
Manager == INSTANCE MdManager
Strategy == INSTANCE MaStrategy WITH at <- node_at

broadcastvars == <<sub_mutex_, sub_ticks_, tick_base_, mtk_open_, candles, aborted, dist, calc,
                   market, session, instrument_tick_one_day, data_index, total_volum,
                   accepted, taken, restarted>>
managervars == <<main, subscribe_inst_, basic_minute_kdata_, phase, focus_instr, at,
                 retrieve_start_pos, notified, decision_data_, save_file_, raced>>
strategyvars == <<candles_, initial_read_pos_flag, candle_bar_read_pos, node_at, pc, action,
                  orders, late>>
vars == <<broadcastvars, managervars, strategyvars>>

Ins == Manager!Ins

\* What the components assume of their constants; and initial_ma_stg makes a
\* moving average for each series the strategy keeps.
ASSUME PipelineAssumption ==
    /\ Broadcast!ConstantsAssumption /\ Broadcast!FilesAssumption
    /\ Manager!ManagerAssumption /\ Strategy!StrategyAssumption
    /\ Strategy!Nodes = k_type \X focused

Init == Broadcast!Init /\ Manager!Init /\ Strategy!Init

-----------------------------------------------------------------------------
(* CMdBroadCast's threads run from initial_md_broadcast on.                *)

Alone(step) == Manager!Running /\ step /\ UNCHANGED <<managervars, strategyvars>>

Feed == Alone(Broadcast!Feed)
FakeWake == Alone(Broadcast!FakeWake)
Distributor == Alone(Broadcast!Distributor)
CalcAlone(i) ==
    Alone(Broadcast!CalcSkip(i) \/ Broadcast!CalcNoTail(i) \/ Broadcast!CalcAbort(i))

\* calculate_process calls push_min_one_data ...
CalcPublish(i) ==
    /\ Broadcast!CalcPublish(i) /\ Manager!push_min_one_data(i)
    /\ UNCHANGED strategyvars

\* ... and erases the ticks when that returns.
CalcErase_unwaited(i) == \* (slip: the call has not returned)
    /\ Broadcast!CalcErase(i) /\ phase' = [phase EXCEPT ![ONE] = "scan"]
    /\ UNCHANGED <<main, subscribe_inst_, basic_minute_kdata_, focus_instr, at,
                   retrieve_start_pos, notified, decision_data_, save_file_, raced, strategyvars>>
CalcErase(i) ==
    /\ Broadcast!CalcErase(i) /\ Manager!OneBack
    /\ UNCHANGED strategyvars

-----------------------------------------------------------------------------
(* CStrategy::update, in the thread of any period.                         *)

write_save_data(t) ==
    /\ ~aborted /\ Manager!write_save_data(t)
    /\ UNCHANGED <<broadcastvars, strategyvars>>

push_bar(t) ==
    /\ ~aborted /\ Manager!push_bar(t) /\ Strategy!push_bar(<<t, notified[t].ins>>)
    /\ UNCHANGED broadcastvars

Update(t) == write_save_data(t) \/ push_bar(t)

-----------------------------------------------------------------------------
(* The other threads                                                       *)

Main ==
    /\ ~aborted /\ Manager!Main
    /\ UNCHANGED <<broadcastvars, strategyvars>>

PeriodStep(t) ==
    /\ ~aborted
    /\ \/ Manager!get_instruments(t) \/ Manager!Position(t)
       \/ \E i \in Ins : Manager!NoBarYet(t, i) \/ Manager!Compose(t, i)
    /\ UNCHANGED <<broadcastvars, strategyvars>>

IndicatorThread ==
    /\ ~aborted /\ Strategy!IndicatorThread
    /\ UNCHANGED <<broadcastvars, managervars>>

-----------------------------------------------------------------------------
Calculator == Update(ONE) \/ \E i \in Ins : CalcAlone(i) \/ CalcPublish(i) \/ CalcErase(i)
PeriodThread(t) == PeriodStep(t) \/ Update(t)

Next == \/ Feed \/ FakeWake \/ Distributor \/ Calculator \/ Main \/ IndicatorThread
        \/ \E t \in Manager!Periods : PeriodThread(t)

Spec == Init /\ [][Next]_vars

\* Threads keep running; nothing obliges the feed to produce.
Fairness ==
    /\ WF_vars(FakeWake) /\ WF_vars(Distributor) /\ WF_vars(Calculator)
    /\ WF_vars(Main) /\ WF_vars(IndicatorThread)
    /\ \A t \in Manager!Periods : WF_vars(PeriodThread(t))

FairSpec == Spec /\ Fairness

-----------------------------------------------------------------------------
(* Safety *)

\* The calculator does not go on before the strategy has the bar: what the
\* strategy keeps of an instrument is, bar by bar, what CMdBroadCast has
\* published, but for the one whose ticks are still locked.
Delivered == \A i \in Ins :
    /\ Len(basic_minute_kdata_[ONE][i]) = Len(candles[i])
    /\ ONE \in k_type /\ i \in focused =>
         LET got == decision_data_[ONE][i] IN
         /\ \A k \in DOMAIN got : got[k].first = k
         /\ Len(got) # Len(candles[i]) =>
              Broadcast!TickLocked(i) /\ Len(got) = Len(candles[i]) - 1

\* The published bar a strategy's order on one minute bars is about.
Candle(i, order) == candles[i][order.bar + 1]
Archived(i, n) == \E k \in DOMAIN save_file_ :
    /\ save_file_[k].period = ONE /\ save_file_[k].ins = i
    /\ save_file_[k].whole /\ save_file_[k].bar.first = n

\* An order is about a minute that is over: no tick of it was left out of the
\* bar, or comes later; the bar was archived before, unless two threads have
\* raced for the file; and the orders of an instrument follow the market's
\* time.  (Of minutes the market is open in throughout, and until the feed
\* starts over.)
OrdersOnFinishedMinutes == ~restarted /\ ONE \in k_type =>
    \A i \in focused : LET placed == orders[<<ONE, i>>] IN \A k \in DOMAIN placed :
        /\ raced \/ Archived(i, placed[k].bar + 1)
        /\ \A j \in DOMAIN accepted[i] :
             LET bar == Candle(i, placed[k])
                 tick == accepted[i][j]
             IN  /\ 100 * Broadcast!Minute(tick) = bar.trade_time
                 /\ tick.TradingDay = bar.trade_day
                 /\ Broadcast!WholeMinute(Broadcast!Minute(tick))
                 => \E n \in DOMAIN bar.ticks : bar.ticks[n] = tick
        /\ \A j \in 1..k - 1 : Broadcast!Earlier(Candle(i, placed[j]), Candle(i, placed[k]))

\* No two threads write to the archive at once, and it has all the strategy
\* is given, as long as that asks for bars of one period only, as main does
\* (ctp_trade.cpp:9).
ArchiveWhole == Manager!ArchiveWhole

-----------------------------------------------------------------------------
(* Liveness, until the feed ends or the process aborts                     *)

\* Every published minute the averages can be calculated at is passed by the
\* indicator thread.
BarsPassed == \A n \in Strategy!Nodes : \A k \in period_max + 1..MaxBars :
    n[1] = ONE /\ Len(candles[n[2]]) >= k
    ~> candle_bar_read_pos[n] >= k \/ aborted

\* With one instrument, the published minutes are composed without gaps: a
\* period's k-th bar comes, of the k-th run of minutes, when its thread has
\* the instrument in its list.
PeriodsComposed == \A t \in Manager!Periods, i \in Ins :
  \A k \in 1..(MaxBars - 1) \div checkup_table[t] :
    focus_instr[t] = <<i>> /\ Len(candles[i]) > k * checkup_table[t]
    ~> \/ /\ Len(basic_minute_kdata_[t][i]) >= k
          /\ basic_minute_kdata_[t][i][k].first = (k - 1) * checkup_table[t] + 1
       \/ aborted
=============================================================================
