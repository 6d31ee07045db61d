---------------------------- MODULE MdBroadcast ----------------------------
(***************************************************************************)
(* CMdBroadCast (ctp_trade/MdBroadcast.cpp): from market data to one       *)
(* minute bars.  Three threads share two kinds of buffers:                 *)
(*                                                                         *)
(*   feed        -- the exchange's callback OnRtnDepthMarketData, or in    *)
(*                  the build without _TRADE_TIME_ a thread that replays a *)
(*                  file -- appends ticks to sub_ticks_ under sub_mutex_;  *)
(*   distributor    moves them to tick_base_[ins] under sub_mutex_ and,    *)
(*                  tick by tick, tick_mutex_[ins];                        *)
(*   calculator     cuts finished minutes off tick_base_[ins], publishes   *)
(*                  each as a bar, and drops what is left after the close, *)
(*                  all under tick_mutex_[ins].                            *)
(*                                                                         *)
(* What is only touched under one lock is one atomic step, unless the      *)
(* thread also acts on something another thread can see meanwhile: the     *)
(* calculator hands a bar to the manager while it holds tick_mutex_[ins],  *)
(* before it erases the ticks; the distributor pushes tick by tick; the    *)
(* replay thread sleeps with sub_mutex_ locked.                            *)
(*                                                                         *)
(* Definitions marked "slip" are likely mistakes in the definition that    *)
(* follows; nothing uses them but the test that properties notice them.    *)
(***************************************************************************)
EXTENDS Naturals, Sequences

CONSTANTS
    subscribe_inst_,   \* the subscribed instruments, in the config's order
    max_minute_ticks,  \* MdBroadcast.cpp:10
    TradeTime,         \* is _TRADE_TIME_ defined?
    Times,             \* update times of ticks, as <<h, m, s>>
    FakeDays,          \* files the replay thread may have loaded
    MaxVolume,         \* bound: turnover of a day
    MaxTicks,          \* bound: accepted ticks of an instrument
    MaxPending,        \* bound: ticks waiting in sub_ticks_
    MaxSessions        \* bound: trading days

Ins == {subscribe_inst_[k] : k \in DOMAIN subscribe_inst_}

Tick == [InstrumentID : Ins, TradingDay : 1..MaxSessions,
         UpdateTime : Times, Volume : 0..MaxVolume]

Row == [InstrumentID : Ins, UpdateTime : Times, Volume : Nat]

ASSUME ConstantsAssumption ==
    /\ subscribe_inst_ \in Seq(Ins) /\ subscribe_inst_ # <<>>
    /\ max_minute_ticks \in Nat
    /\ TradeTime \in BOOLEAN
    /\ Times \subseteq Nat \X Nat \X Nat
    /\ FakeDays \subseteq Seq(Row) \ {<<>>}
    /\ MaxVolume \in Nat /\ MaxTicks \in Nat /\ MaxPending \in Nat
    /\ MaxSessions \in Nat \ {0}

VARIABLES
    \* the class's own state
    sub_mutex_,   \* who holds it
    sub_ticks_,   \* ticks waiting for the distributor
    tick_base_,   \* ticks of each instrument not yet in a bar
    mtk_open_,    \* was the market open at the instrument's last tick?
    candles,      \* the one minute bars CMdManager has been given
    aborted,      \* abort() has been called: the process is gone
    \* where the threads are
    dist,         \* the distributor's next index of sub_ticks_
    calc,         \* the calculator: instrument index, phase, real_tick_nums
    \* the feed
    market,       \* the last quote of each instrument
    session,      \* the trading day
    instrument_tick_one_day, data_index, total_volum,  \* the replay thread's
    \* history
    accepted,     \* every tick tick_base_ took in
    taken,        \* how many of them it has let go
    restarted     \* has the feed started over on top of undigested ticks?

feedvars  == <<market, session, instrument_tick_one_day, data_index, total_volum, restarted>>
basevars  == <<tick_base_, mtk_open_, accepted, taken>>
subvars   == <<sub_mutex_, sub_ticks_, dist>>
vars      == <<subvars, basevars, candles, calc, feedvars, aborted>>

-----------------------------------------------------------------------------
(* Times and minutes                                                       *)

\* "HH:MM:SS" without its colons, read as a decimal number.
convert_time_str2int(time) == 10000 * time[1] + 100 * time[2] + time[3]

TradingDay(tick) == tick.TradingDay
Minute(tick) == convert_time_str2int(tick.UpdateTime) \div 100

InMarketHours(n) == \/ 93000 <= n /\ n <= 113000
                    \/ 130000 <= n /\ n <= 150000

check_mtk_time(time) == TradeTime => InMarketHours(convert_time_str2int(time))

\* The first n ticks are of one minute, and is_minute_tail holds at the n-th:
\* the loop over adjacent pairs stops there.
OneMinute(ticks, n) == \A j \in 1..n : Minute(ticks[j]) = Minute(ticks[n])
TailAt_loose(ticks, n) == \* (slip: <= for <)
    OneMinute(ticks, n) /\ Minute(ticks[n]) <= Minute(ticks[n + 1])
TailAt(ticks, n) == OneMinute(ticks, n) /\ Minute(ticks[n]) < Minute(ticks[n + 1])

\* ... or is_minute_tail aborts there.
BackwardsAt(ticks, n) == OneMinute(ticks, n) /\ Minute(ticks[n]) > Minute(ticks[n + 1])

\* The exchange's files are recorded in the order of time.
ASSUME FilesAssumption == \A day \in FakeDays : \A j, k \in 1..Len(day) :
    j <= k => convert_time_str2int(day[j].UpdateTime) <= convert_time_str2int(day[k].UpdateTime)

-----------------------------------------------------------------------------
(* Initial state: set_intruments and initial_md_broadcast have run.        *)

Init ==
    /\ sub_mutex_ = "free" /\ sub_ticks_ = <<>> /\ dist = 0
    /\ tick_base_ = [i \in Ins |-> <<>>]
    /\ mtk_open_ = [i \in Ins |-> FALSE]
    /\ accepted = [i \in Ins |-> <<>>]
    /\ taken = [i \in Ins |-> 0]
    /\ candles = [i \in Ins |-> <<>>]
    /\ calc = [k |-> 1, pc |-> "scan", n |-> 0]
    /\ market = [i \in Ins |-> [UpdateTime |-> <<0, 0, 0>>, Volume |-> 0]]
    /\ session = 1
    /\ instrument_tick_one_day \in IF TradeTime THEN {<<>>} ELSE FakeDays
    /\ data_index = 0 /\ total_volum = 0
    /\ restarted = FALSE /\ aborted = FALSE

SubFree_ignored == TRUE                          \* (slip: the lock is not taken)
SubFree == sub_mutex_ = "free"
Inst == subscribe_inst_[calc.k]                  \* the calculator's instrument
TickLocked(i) == calc.pc = "erase" /\ Inst = i   \* it holds tick_mutex_[i]

\* Ticks still to come, were every pending one accepted (for the bound).
Room(i) == /\ Len(sub_ticks_) < MaxPending
           /\ Len(accepted[i]) + Len(sub_ticks_) < MaxTicks

-----------------------------------------------------------------------------
(* The feed *)

\* The exchange's next quote of i: a day's quotes come in order of time and
\* of turnover.
Quote(i, time, volume) ==
    /\ convert_time_str2int(market[i].UpdateTime) <= convert_time_str2int(time)
    /\ market[i].Volume <= volume

OnRtnDepthMarketData(i) == \E time \in Times, volume \in 0..MaxVolume :
    /\ TradeTime /\ ~aborted /\ Room(i)
    /\ Quote(i, time, volume)
    /\ SubFree
    /\ sub_ticks_' = Append(sub_ticks_,
          [InstrumentID |-> i, TradingDay |-> session, UpdateTime |-> time, Volume |-> volume])
    /\ market' = [market EXCEPT ![i] = [UpdateTime |-> time, Volume |-> volume]]
    /\ UNCHANGED <<sub_mutex_, dist, basevars, candles, calc, session,
                   instrument_tick_one_day, data_index, total_volum, restarted, aborted>>

\* The next trading day: time and turnover start over.  It is hours away, so
\* the threads have done all they can with the last one's ticks.
Idle(i) == \/ tick_base_[i] = <<>>
           \/ /\ mtk_open_[i]
              /\ \/ Len(tick_base_[i]) <= max_minute_ticks \div 2
                 \/ OneMinute(tick_base_[i], Len(tick_base_[i]))

NewSession ==
    /\ TradeTime /\ ~aborted /\ session < MaxSessions
    /\ SubFree /\ sub_ticks_ = <<>> /\ calc.pc = "scan"
    /\ \A i \in Ins : Idle(i)
    /\ session' = session + 1
    /\ market' = [i \in Ins |-> [UpdateTime |-> <<0, 0, 0>>, Volume |-> 0]]
    /\ restarted' = (restarted \/ \E i \in Ins : tick_base_[i] # <<>>)
    /\ UNCHANGED <<subvars, basevars, candles, calc, instrument_tick_one_day,
                   data_index, total_volum, aborted>>

\* The replay thread reads its next row into a tick and, holding sub_mutex_,
\* appends it; total_volum goes on growing when the file starts over.
row_index == IF data_index >= Len(instrument_tick_one_day)
             THEN data_index % Len(instrument_tick_one_day) ELSE data_index

distribute_fake_tick_function ==
    LET row == instrument_tick_one_day[row_index + 1] IN
    /\ ~TradeTime /\ ~aborted /\ SubFree
    /\ Room(row.InstrumentID) /\ total_volum + row.Volume <= MaxVolume
    /\ total_volum' = total_volum + row.Volume
    /\ data_index' = row_index + 1
    /\ sub_ticks_' = Append(sub_ticks_,
          [InstrumentID |-> row.InstrumentID, TradingDay |-> 1,
           UpdateTime |-> row.UpdateTime, Volume |-> total_volum'])
    /\ sub_mutex_' = "fake"
    /\ restarted' = (restarted \/ row_index < data_index)
    /\ UNCHANGED <<dist, basevars, candles, calc, market, session,
                   instrument_tick_one_day, aborted>>

\* It sleeps 500 ms with the lock, which the end of the loop body releases.
FakeWake ==
    /\ ~aborted /\ sub_mutex_ = "fake"
    /\ sub_mutex_' = "free"
    /\ UNCHANGED <<sub_ticks_, dist, basevars, candles, calc, feedvars, aborted>>

-----------------------------------------------------------------------------
(* The distributor: distribute_mtk_tick.  Taking the lock and finding      *)
(* nothing to do changes nothing.                                          *)

DistLock ==
    /\ ~aborted /\ SubFree /\ sub_ticks_ # <<>>
    /\ sub_mutex_' = "distribute" /\ dist' = 1
    /\ UNCHANGED <<sub_ticks_, basevars, candles, calc, feedvars, aborted>>

Distributing(i) ==
    /\ ~aborted /\ sub_mutex_ = "distribute" /\ dist <= Len(sub_ticks_)
    /\ sub_ticks_[dist].InstrumentID = i
    /\ ~TickLocked(i)

Last(ticks) == ticks[Len(ticks)]

\* A tick is kept when the turnover has grown; kept or not, it tells whether
\* the market is open.
tick_base_pushback(i, data) ==
    /\ \/ /\ tick_base_[i] # <<>> => Last(tick_base_[i]).Volume < data.Volume
          /\ tick_base_' = [tick_base_ EXCEPT ![i] = Append(@, data)]
          /\ accepted' = [accepted EXCEPT ![i] = Append(@, data)]
       \/ /\ tick_base_[i] # <<>> /\ Last(tick_base_[i]).Volume = data.Volume
          /\ UNCHANGED <<tick_base_, accepted>>
    /\ mtk_open_' = [mtk_open_ EXCEPT ![i] = check_mtk_time(data.UpdateTime)]
    /\ UNCHANGED taken

DistPush(i) ==
    /\ Distributing(i)
    /\ tick_base_pushback(i, sub_ticks_[dist])
    /\ dist' = dist + 1
    /\ UNCHANGED <<sub_mutex_, sub_ticks_, candles, calc, feedvars, aborted>>

\* A turnover that shrank is taken for corrupt data.
DistAbort(i) ==
    /\ Distributing(i)
    /\ tick_base_[i] # <<>> /\ Last(tick_base_[i]).Volume > sub_ticks_[dist].Volume
    /\ aborted' = TRUE
    /\ UNCHANGED <<subvars, basevars, candles, calc, feedvars>>

DistDone_noclear == \* (slip: the ticks are not cleared)
    /\ ~aborted /\ sub_mutex_ = "distribute" /\ dist > Len(sub_ticks_)
    /\ sub_mutex_' = "free" /\ dist' = 0
    /\ UNCHANGED <<sub_ticks_, basevars, candles, calc, feedvars, aborted>>

DistDone ==
    /\ ~aborted /\ sub_mutex_ = "distribute" /\ dist > Len(sub_ticks_)
    /\ sub_ticks_' = <<>> /\ sub_mutex_' = "free" /\ dist' = 0
    /\ UNCHANGED <<basevars, candles, calc, feedvars, aborted>>

-----------------------------------------------------------------------------
(* The calculator: calculate_min_bar on one instrument after the other.    *)

Due_late(i) == Len(tick_base_[i]) > max_minute_ticks   \* (slip: a whole minute's ticks)
Due(i) == IF mtk_open_[i] THEN Len(tick_base_[i]) > max_minute_ticks \div 2
                          ELSE tick_base_[i] # <<>>

Calculating(i) == ~aborted /\ calc.pc = "scan" /\ Inst = i

NextInst_nowrap == [k |-> calc.k + 1, pc |-> "scan", n |-> 0]   \* (slip: no way back to the first)
NextInst == [k |-> (calc.k % Len(subscribe_inst_)) + 1, pc |-> "scan", n |-> 0]

CalcSkip(i) ==
    /\ Calculating(i) /\ ~Due(i)
    /\ calc' = NextInst
    /\ UNCHANGED <<subvars, basevars, candles, feedvars, aborted>>

\* convert_tick2min keeps the prices' extremes; the ticks it looked at and
\* the bar's time stand for them here.
convert_tick2min(ticks) ==
    [trade_day |-> ticks[1].TradingDay, trade_time |-> 100 * Minute(Last(ticks)),
     ticks |-> ticks]

\* The oldest minute has a tail: its bar goes to the manager, under the lock.
CalcPublish(i) == \E n \in 1..Len(tick_base_[i]) - 1 :
    /\ Calculating(i) /\ Due(i)
    /\ TailAt(tick_base_[i], n)
    /\ candles' = [candles EXCEPT ![i] =
                      Append(@, convert_tick2min(SubSeq(tick_base_[i], 1, n)))]
    /\ calc' = [calc EXCEPT !.pc = "erase", !.n = n]
    /\ UNCHANGED <<subvars, basevars, feedvars, aborted>>

erase_short(ticks, n) == SubSeq(ticks, n, Len(ticks))   \* (slip: off by one)
erase(ticks, n) == SubSeq(ticks, n + 1, Len(ticks))

CalcErase(i) ==
    /\ ~aborted /\ TickLocked(i)
    /\ tick_base_' = [tick_base_ EXCEPT ![i] = erase(@, calc.n)]
    /\ taken' = [taken EXCEPT ![i] = @ + calc.n]
    /\ calc' = NextInst
    /\ UNCHANGED <<subvars, mtk_open_, accepted, candles, feedvars, aborted>>

\* No tail: wait for one, or after the close drop what is there.
Dumps_always(i) == TRUE                        \* (slip: open or not)
Dumps(i) == ~mtk_open_[i]

CalcNoTail(i) ==
    /\ Calculating(i) /\ Due(i)
    /\ OneMinute(tick_base_[i], Len(tick_base_[i]))
    /\ IF Dumps(i)
       THEN /\ tick_base_' = [tick_base_ EXCEPT ![i] = <<>>]
            /\ taken' = [taken EXCEPT ![i] = @ + Len(tick_base_[i])]
       ELSE UNCHANGED <<tick_base_, taken>>
    /\ calc' = NextInst
    /\ UNCHANGED <<subvars, mtk_open_, accepted, candles, feedvars, aborted>>

\* Time running backwards is taken for corrupt data.
CalcAbort(i) == \E n \in 1..Len(tick_base_[i]) - 1 :
    /\ Calculating(i) /\ Due(i)
    /\ BackwardsAt(tick_base_[i], n)
    /\ aborted' = TRUE
    /\ UNCHANGED <<subvars, basevars, candles, calc, feedvars>>

-----------------------------------------------------------------------------
Calculate(i) == CalcSkip(i) \/ CalcPublish(i) \/ CalcErase(i) \/ CalcNoTail(i) \/ CalcAbort(i)
Calculator == \E i \in Ins : Calculate(i)
Distributor == DistLock \/ DistDone \/ \E i \in Ins : DistPush(i) \/ DistAbort(i)
Feed == NewSession \/ distribute_fake_tick_function \/ \E i \in Ins : OnRtnDepthMarketData(i)

Next == Feed \/ FakeWake \/ Distributor \/ Calculator

Spec == Init /\ [][Next]_vars

\* Threads keep running; nothing obliges the feed to produce.
Fairness == /\ WF_vars(FakeWake)
            /\ WF_vars(Distributor)
            /\ WF_vars(Calculator)

FairSpec == Spec /\ Fairness

-----------------------------------------------------------------------------
(* Type *)

Candle == [trade_day : 1..MaxSessions, trade_time : Nat, ticks : Seq(Tick)]

\* Every variable keeps its type, and what is used as an index stays one
\* into the vector it is used on.
TypeOK ==
    /\ sub_mutex_ \in {"free", "fake", "distribute"}
    /\ sub_ticks_ \in Seq(Tick)
    /\ tick_base_ \in [Ins -> Seq(Tick)]
    /\ mtk_open_ \in [Ins -> BOOLEAN]
    /\ candles \in [Ins -> Seq(Candle)]
    /\ aborted \in BOOLEAN
    /\ dist \in 0..Len(sub_ticks_) + 1
    /\ dist # 0 <=> sub_mutex_ = "distribute"
    /\ calc \in [k : DOMAIN subscribe_inst_, pc : {"scan", "erase"}, n : Nat]
    /\ market \in [Ins -> [UpdateTime : Nat \X Nat \X Nat, Volume : 0..MaxVolume]]
    /\ session \in 1..MaxSessions
    /\ instrument_tick_one_day \in IF TradeTime THEN {<<>>} ELSE FakeDays
    /\ data_index \in 0..Len(instrument_tick_one_day) /\ total_volum \in 0..MaxVolume
    /\ accepted \in [Ins -> Seq(Tick)]
    /\ taken \in [Ins -> Nat]
    /\ restarted \in BOOLEAN

-----------------------------------------------------------------------------
(* Safety *)

\* Every tick tick_base_ ever took in is accounted for, in order: what has
\* been erased or dumped, then what is still there.  (The calculator erases
\* by a count it took before it published, calculate_process.)
Accounted == \A i \in Ins :
    /\ Len(accepted[i]) = taken[i] + Len(tick_base_[i])
    /\ \A j \in 1..Len(tick_base_[i]) : tick_base_[i][j] = accepted[i][taken[i] + j]
    /\ TickLocked(i) => calc.n \in 1..Len(tick_base_[i]) - 1

\* abort() is reserved for corrupt data: a feed in order never meets it,
\* however its ticks, the distributor and the calculator interleave, until
\* it starts over on top of ticks of the day before.
AbortsOnlyAfterRestart == aborted => restarted

\* a is of an earlier minute than b.
Earlier(a, b) == \/ a.trade_day < b.trade_day
                 \/ a.trade_day = b.trade_day /\ a.trade_time < b.trade_time

\* A minute gives at most one bar, and bars come in the order of time.
OneBarPerMinute == ~restarted =>
    \A i \in Ins : \A j, k \in DOMAIN candles[i] :
        j < k => Earlier(candles[i][j], candles[i][k])

\* Why: along the way from the feed to the bars nothing overtakes.  Where
\* the feed is, and the ticks of sub_ticks_ the distributor has not reached.
position(i) ==
    IF TradeTime THEN market[i]
    ELSE [UpdateTime |-> IF data_index = 0 THEN <<0, 0, 0>>
                         ELSE instrument_tick_one_day[data_index].UpdateTime,
          Volume |-> total_volum]
Undistributed(i) == {p \in 1..Len(sub_ticks_) : dist <= p /\ sub_ticks_[p].InstrumentID = i}
NotYetCut(i) == {j \in 1..Len(tick_base_[i]) : TickLocked(i) => calc.n < j}

NotAfter(a, b) == /\ convert_time_str2int(a.UpdateTime) <= convert_time_str2int(b.UpdateTime)
                  /\ a.Volume <= b.Volume

BaseInOrder(i) == \A j \in 1..Len(tick_base_[i]) :
    LET tick == tick_base_[i][j] IN
    /\ \A k \in j..Len(tick_base_[i]) : NotAfter(tick, tick_base_[i][k])
    /\ \A p \in Undistributed(i) : NotAfter(tick, sub_ticks_[p])
    /\ NotAfter(tick, position(i)) /\ tick.TradingDay = session

PendingInOrder(i) == \A p \in Undistributed(i) :
    /\ \A q \in Undistributed(i) : p <= q => NotAfter(sub_ticks_[p], sub_ticks_[q])
    /\ NotAfter(sub_ticks_[p], position(i)) /\ sub_ticks_[p].TradingDay = session

\* The bar is of an earlier minute than a tick, or position, of the day.
Behind(bar, day, tick) ==
    Earlier(bar, [trade_day |-> day, trade_time |-> 100 * Minute(tick)])

BarsBehind(i) == \A k \in DOMAIN candles[i] :
    /\ \A j \in NotYetCut(i) : Behind(candles[i][k], session, tick_base_[i][j])
    /\ \A p \in Undistributed(i) : Behind(candles[i][k], session, sub_ticks_[p])
    /\ Behind(candles[i][k], session, position(i))

\* Ticks keep the feed's order in every buffer, and every bar is of an
\* earlier minute than whatever is still to be cut.
NothingOvertakes == ~restarted =>
    \A i \in Ins : BaseInOrder(i) /\ PendingInOrder(i) /\ BarsBehind(i)

\* hhmm is a minute the market is open in from its first second to its last.
WholeMinute(hhmm) == TradeTime => /\ InMarketHours(100 * hhmm)
                                  /\ InMarketHours(100 * hhmm + 59)

\* The bar of a whole minute holds every tick accepted in it: none was
\* dumped before, left behind, or comes after the bar.
CompleteBars == ~restarted =>
    \A i \in Ins : \A k \in DOMAIN candles[i], j \in DOMAIN accepted[i] :
        LET bar == candles[i][k]
            tick == accepted[i][j]
        IN  /\ 100 * Minute(tick) = bar.trade_time /\ tick.TradingDay = bar.trade_day
            /\ WholeMinute(Minute(tick))
            => \E n \in DOMAIN bar.ticks : bar.ticks[n] = tick

\* distribute_mtk_tick walks sub_ticks_ with iterators: the feed never
\* appends (and reallocates) under it.
NoAppendWhileIterating == [][dist # 0 /\ dist' # 0 => sub_ticks_' = sub_ticks_]_vars

\* CMdBroadCast implements MinuteBars; a bar counts as cut when it is
\* published, though its ticks are erased a step later.
cutpoint == [i \in Ins |-> taken[i] + (IF TickLocked(i) THEN calc.n ELSE 0)]

Bars == INSTANCE MinuteBars WITH
    stream <- accepted, cut <- cutpoint, bars <- candles, open <- mtk_open_,
    MinuteOf <- Minute, DayOf <- TradingDay

ImplementsMinuteBars == Bars!Spec

-----------------------------------------------------------------------------
(* Liveness *)

\* What the feed appended is distributed, though ticks keep coming and the
\* calculator keeps taking the instruments' locks.
TicksDistributed == sub_ticks_ # <<>> ~> (sub_ticks_ = <<>> \/ aborted)

\* When enough ticks are there and the oldest minute is over, it is published.
MinutePublished == \A i \in Ins, c \in 0..MaxTicks :
    /\ taken[i] = c /\ Len(tick_base_[i]) > max_minute_ticks \div 2
    /\ \E n \in 1..Len(tick_base_[i]) - 1 : TailAt(tick_base_[i], n)
    ~> taken[i] > c \/ aborted
=============================================================================
