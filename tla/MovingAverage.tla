--------------------------- MODULE MovingAverage ---------------------------
(***************************************************************************)
(* CMovingAverage and CTechniqueIndicator (ctp_trade/TechniqueIndicator    *)
(* .cpp) on the closing prices of one period and instrument, and the       *)
(* indicator thread of CMAStrategy (ctp_trade/Strategy.cpp) that asks them *)
(* for a signal and orders on it.  MaStrategy takes a bar for the fork     *)
(* there is at it; here the fork is calculated from the prices.            *)
(*                                                                         *)
(* Bars are numbered from 0.  Every average is an integer here: the sum of *)
(* the prices times Scale over their number.  The parameters are those of  *)
(* set_default_parameters: the strategy starts with them, and calculate    *)
(* restores them whenever it is called, as is_valid_parameters is false of *)
(* all flags that signal a buy (TECH_SIGNAL_MAX is negative).              *)
(***************************************************************************)
EXTENDS Integers, Sequences, FiniteSetsExt

CONSTANTS
    Prices,       \* closing prices
    MaxBars       \* bound: bars

ASSUME AverageAssumption == Prices \subseteq Nat \ {0} /\ MaxBars \in Nat

period_cycle == <<2, 3, 4>>
period_max == Max({period_cycle[i] : i \in DOMAIN period_cycle})
Scale == 2 * 3 * 4

VARIABLES
    candles_,               \* the closing prices
    initial_read_pos_flag, candle_bar_read_pos,
    pc, action,             \* the thread's place in its loop; the signal
    orders,                 \* orders: what fork, of which bar, at what price
    forks, late             \* history: each bar's fork when it came; see MaStrategy

vars == <<candles_, initial_read_pos_flag, candle_bar_read_pos, pc, action, orders, forks, late>>

-----------------------------------------------------------------------------
(* Averages, of bars given by their closing prices                         *)

\* get_price: what is out of range costs nothing.
get_price(prices, k) == IF k \in 0..Len(prices) - 1 THEN prices[k + 1] ELSE 0

\* calculate and get_ma return true.
CanCalculate(prices, k, p) == k \in 0..Len(prices) - 1 /\ p \in 1..k + 1

\* get_ma: the p bars that end at bar k.
get_ma(prices, k, p) ==
    LET ma_data[j \in 0..p] == IF j = 0 THEN 0 ELSE ma_data[j - 1] + get_price(prices, k - j + 1)
    IN  (Scale \div p) * ma_data[p]

-----------------------------------------------------------------------------
(* get_fork_signal                                                         *)

Pairs == 2..Len(period_cycle)
minor(i) == Min({period_cycle[i - 1], period_cycle[i]})
major(i) == Max({period_cycle[i - 1], period_cycle[i]})

\* The averages of p bars at bar k, and at the bar before.
Both(prices, k, p) == CanCalculate(prices, k, p) /\ CanCalculate(prices, k - 1, p)
Rises_next(prices, k, p) == get_ma(prices, k, p) < get_ma(prices, k + 1, p)   \* (slip: to the next bar)
Rises(prices, k, p) == get_ma(prices, k - 1, p) < get_ma(prices, k, p)
Falls(prices, k, p) == get_ma(prices, k - 1, p) > get_ma(prices, k, p)

\* The shorter average rises to or through the longer one, which falls.
CrossesUp(prices, k, i) ==
    /\ Rises(prices, k, minor(i)) /\ Falls(prices, k, major(i))
    /\ get_ma(prices, k - 1, major(i)) > get_ma(prices, k - 1, minor(i))
    /\ get_ma(prices, k, minor(i)) >= get_ma(prices, k, major(i))

CrossesDown_through(prices, k, i) == \* (slip: < for <=)
    /\ Falls(prices, k, minor(i)) /\ Rises(prices, k, major(i))
    /\ get_ma(prices, k - 1, major(i)) < get_ma(prices, k - 1, minor(i))
    /\ get_ma(prices, k, minor(i)) < get_ma(prices, k, major(i))
CrossesDown(prices, k, i) ==
    /\ Falls(prices, k, minor(i)) /\ Rises(prices, k, major(i))
    /\ get_ma(prices, k - 1, major(i)) < get_ma(prices, k - 1, minor(i))
    /\ get_ma(prices, k, minor(i)) <= get_ma(prices, k, major(i))

\* The loop over the longer averages, which ends at the first that goes the
\* same way, or cannot be calculated.
Follows(prices, k, i, Goes(_, _, _), fork) ==
    LET stop == {l \in i + 1..Len(period_cycle) :
                   Both(prices, k, period_cycle[l]) => Goes(prices, k, period_cycle[l])}
    IN  IF i = Len(period_cycle) THEN fork
        ELSE IF stop = {} THEN "next"
        ELSE IF Both(prices, k, period_cycle[Min(stop)]) THEN fork ELSE "nothing"

PairSignal(prices, k, i) ==
    IF ~Both(prices, k, minor(i)) \/ ~Both(prices, k, major(i)) THEN "nothing"
    ELSE CASE CrossesUp(prices, k, i)   -> Follows(prices, k, i, Rises, "gold")
           [] CrossesDown(prices, k, i) -> Follows(prices, k, i, Falls, "dead")
           [] OTHER -> "next"

get_fork_signal(prices, k) ==
    LET decided == {i \in Pairs : PairSignal(prices, k, i) # "next"}
    IN  IF k <= 0 \/ decided = {} THEN "nothing" ELSE PairSignal(prices, k, Min(decided))

-----------------------------------------------------------------------------
(* get_trend_signal                                                        *)

Gap(prices, k, i) == get_ma(prices, k, minor(i)) - get_ma(prices, k, major(i))

Upward(prices, k, i) ==
    /\ Rises(prices, k, minor(i)) /\ Rises(prices, k, major(i))
    /\ Gap(prices, k, i) > 0 /\ Gap(prices, k, i) > Gap(prices, k - 1, i)
Downward(prices, k, i) ==
    /\ Falls(prices, k, minor(i)) /\ Falls(prices, k, major(i))
    /\ Gap(prices, k, i) < 0 /\ Gap(prices, k, i) < Gap(prices, k - 1, i)

\* One pass of the loop, given the last one's direction.
Trend(prices, k, i, direct) ==
    CASE Upward(prices, k, i) /\ (i = 2 \/ direct = "long") -> "long"
      [] Downward(prices, k, i) /\ (i = 2 \/ direct = "short") -> "short"
      [] OTHER -> "nothing"

get_trend_signal(prices, k) ==
    LET trend_direct[i \in 1..Len(period_cycle)] ==
            IF i = 1 THEN "nothing" ELSE Trend(prices, k, i, trend_direct[i - 1])
    IN  IF /\ k > 0
           /\ \A i \in Pairs : Both(prices, k, minor(i)) /\ Both(prices, k, major(i))
        THEN trend_direct[Len(period_cycle)] ELSE "nothing"

-----------------------------------------------------------------------------
(* The bars, and the thread that looks at them.  Each calculate takes the  *)
(* bars' lock anew; the first one decides whether bar k is there, and what *)
(* it and the others read does not change any more: a look is one step.    *)

Init ==
    /\ candles_ = <<>>
    /\ initial_read_pos_flag = FALSE /\ candle_bar_read_pos = 0
    /\ pc = "ready" /\ action = "nothing"
    /\ orders = <<>> /\ forks = <<>> /\ late = {}

push_bar == \E price \in Prices :
    /\ Len(candles_) < MaxBars
    /\ candles_' = Append(candles_, price)
    /\ forks' = Append(forks, get_fork_signal(candles_', Len(candles_)))
    /\ late' = IF pc \in {"trend", "advance"} /\ candle_bar_read_pos = Len(candles_)
               THEN late \union {Len(candles_)} ELSE late
    /\ UNCHANGED <<initial_read_pos_flag, candle_bar_read_pos, pc, action, orders>>

is_basic_data_ready ==
    /\ pc = "ready"
    /\ initial_read_pos_flag \/ Len(candles_) > period_max
    /\ initial_read_pos_flag' = TRUE
    /\ candle_bar_read_pos' = IF initial_read_pos_flag THEN candle_bar_read_pos ELSE period_max
    /\ pc' = "fork"
    /\ UNCHANGED <<candles_, action, orders, forks, late>>

LookForFork ==
    /\ pc = "fork"
    /\ action' = get_fork_signal(candles_, candle_bar_read_pos)
    /\ pc' = IF action' = "nothing" THEN "trend" ELSE "advance"
    /\ UNCHANGED <<candles_, initial_read_pos_flag, candle_bar_read_pos, orders, forks, late>>

LookForTrend ==
    /\ pc = "trend"
    /\ action' = get_trend_signal(candles_, candle_bar_read_pos)
    /\ pc' = "advance"
    /\ UNCHANGED <<candles_, initial_read_pos_flag, candle_bar_read_pos, orders, forks, late>>

\* The end of get_signal.
Advance ==
    /\ pc = "advance"
    /\ candle_bar_read_pos' = IF Len(candles_) > candle_bar_read_pos
                              THEN candle_bar_read_pos + 1 ELSE candle_bar_read_pos
    /\ pc' = "trigger"
    /\ UNCHANGED <<candles_, initial_read_pos_flag, action, orders, forks, late>>

get_limit_price_next == get_price(candles_, candle_bar_read_pos)   \* (slip: of the next bar)
get_limit_price == get_price(candles_, candle_bar_read_pos - 1)

\* Trends make no order.
Orders_trend(signal) == signal # "nothing"        \* (slip: they do)
Orders(signal) == signal \in {"gold", "dead"}
trigger_signal_action ==
    /\ pc = "trigger"
    /\ orders' = IF Orders(action)
                 THEN Append(orders, [fork |-> action, bar |-> candle_bar_read_pos - 1,
                                      price |-> get_limit_price])
                 ELSE orders
    /\ pc' = "ready" /\ action' = "nothing"
    /\ UNCHANGED <<candles_, initial_read_pos_flag, candle_bar_read_pos, forks, late>>

-----------------------------------------------------------------------------
Next == \/ push_bar \/ is_basic_data_ready \/ LookForFork \/ LookForTrend \/ Advance
        \/ trigger_signal_action

Spec == Init /\ [][Next]_vars

-----------------------------------------------------------------------------
Bars == 0..Len(candles_) - 1
Newest == Len(candles_) - 1

\* With prices upside down, about any of them, what was a golden fork is a
\* dead one and what was a rise is a fall: the two halves of either loop are
\* each other's mirror image, to the equality, and nothing out of range is
\* added in.  (Of the newest bar; each one has been it.)
Mirror(prices, axis) == [k \in DOMAIN prices |-> 2 * axis - prices[k]]
Opposite(signal) == CASE signal = "gold" -> "dead" [] signal = "dead" -> "gold"
                      [] signal = "long" -> "short" [] signal = "short" -> "long"
                      [] OTHER -> "nothing"
MirrorImage == \A axis \in Prices :
    LET upside_down == Mirror(candles_, axis) IN
    /\ get_fork_signal(upside_down, Newest) = Opposite(get_fork_signal(candles_, Newest))
    /\ get_trend_signal(upside_down, Newest) = Opposite(get_trend_signal(candles_, Newest))

\* No signal looks ahead: bars that come later change no fork and no trend.
\* Looking at bar k once, in one step, therefore loses nothing.
NoLookAhead == [][candles_' # candles_ => \A k \in Bars :
    /\ get_fork_signal(candles_', k) = forks[k + 1]
    /\ get_trend_signal(candles_', k) = get_trend_signal(candles_, k)]_vars

\* An order is made at the closing price of a bar the averages have such a
\* fork at, never at the 0.0 of a bar out of range.
OrderedAtClose == \A j \in DOMAIN orders :
    /\ orders[j].bar \in Bars /\ orders[j].fork = forks[orders[j].bar + 1]
    /\ orders[j].price = candles_[orders[j].bar + 1]

\* The thread on prices implements the thread on forks.
Node == "node"
Strategy == INSTANCE MaStrategy WITH
    nodes <- <<Node>>, at <- 1,
    candles_ <- [n \in {Node} |-> forks],
    initial_read_pos_flag <- [n \in {Node} |-> initial_read_pos_flag],
    candle_bar_read_pos <- [n \in {Node} |-> candle_bar_read_pos],
    pc <- IF pc = "trend" THEN "advance" ELSE pc,
    action <- IF action \in {"long", "short"} THEN "nothing" ELSE action,
    orders <- [n \in {Node} |-> [j \in DOMAIN orders |->
                                   [fork |-> orders[j].fork, bar |-> orders[j].bar]]],
    late <- {<<Node, k>> : k \in late}

ImplementsMaStrategy == Strategy!Spec
=============================================================================
