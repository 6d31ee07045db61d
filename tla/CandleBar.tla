----------------------------- MODULE CandleBar -----------------------------
(***************************************************************************)
(* Bars and how they are composed: a minute's ticks make a bar             *)
(* (CMdBroadCast::convert_tick2min), several minutes' bars make one of a   *)
(* longer period (CCandleBar, ctp_trade/CandleBar.cpp), either on the side *)
(* (calculate_specified_period, for CMdManager's period threads) or by     *)
(* replacing them (convert_kdata_and_clear).                               *)
(*                                                                         *)
(* Every method of CCandleBar holds its mutex from beginning to end and is *)
(* one step, or the value of one.  Prices and turnover are counted in      *)
(* their smallest unit, far above the 0.000001 the code compares with.     *)
(* change_percent is change_point over open_price and left out.            *)
(***************************************************************************)
EXTENDS Integers, Sequences, SequencesExt, FiniteSetsExt

CONSTANTS
    Prices,            \* prices of ticks
    compose_mutiple,   \* minutes of a longer bar
    MaxTicks,          \* bound: ticks of a minute
    MaxBars            \* bound: minutes of the day

ASSUME CandleAssumption ==
    /\ Prices \subseteq Int /\ compose_mutiple \in Nat
    /\ MaxTicks \in Nat /\ MaxBars \in Nat

VARIABLES
    candles_,          \* the one minute bars
    des_candles,       \* the longer bars convert_kdata_and_clear has made
    minutes            \* history: the ticks of every minute pushed

vars == <<candles_, des_candles, minutes>>

-----------------------------------------------------------------------------
(* convert_tick2min.  A tick has a price and the day's turnover so far.    *)

PricesOf(ticks) == {ticks[k].price : k \in DOMAIN ticks}

volume_of(ticks) == Last(ticks).volume - Head(ticks).volume

convert_tick2min(ticks) ==
    [open_price |-> Head(ticks).price, close_price |-> Last(ticks).price,
     high_price |-> Max(PricesOf(ticks)), low_price |-> Min(PricesOf(ticks)),
     change_point |-> Last(ticks).price - Head(ticks).price,
     volume_size |-> volume_of(ticks)]

-----------------------------------------------------------------------------
(* Composing: the loop over the bars, which both methods have.  The high   *)
(* is assigned only where it already is the same, and so stays the first   *)
(* bar's; the low is assigned wherever it differs, and so becomes the last *)
(* bar's.                                                                  *)

Add_novolume(des_bar, src_bar) == [des_bar EXCEPT     \* (slip: volume not summed)
    !.close_price = src_bar.close_price, !.low_price = src_bar.low_price]
Add(des_bar, src_bar) == [des_bar EXCEPT
    !.volume_size = @ + src_bar.volume_size,
    !.close_price = src_bar.close_price,
    !.low_price = src_bar.low_price]

Closed(des_bar) == [des_bar EXCEPT !.change_point = des_bar.close_price - des_bar.open_price]

Compose(bars) ==
    LET des_bar[k \in 1..Len(bars)] == IF k = 1 THEN bars[1] ELSE Add(des_bar[k - 1], bars[k])
    IN  Closed(des_bar[Len(bars)])

\* The n-th, from 1, run of m bars.
Run(bars, m, n) == SubSeq(bars, (n - 1) * m + 1, n * m)

\* calculate_specified_period(strat_pos, m): there must be a bar after them.
Specified(bars, strat_pos, m) == Len(bars) > strat_pos + m
calculate_specified_period(bars, strat_pos, m) ==
    Compose(SubSeq(bars, strat_pos + 1, strat_pos + m))

-----------------------------------------------------------------------------
Init == candles_ = <<>> /\ des_candles = <<>> /\ minutes = <<>>

\* Each tick accepted had more turnover than the one before.
DayVolume == IF minutes = <<>> THEN 0 ELSE Last(Last(minutes)).volume
MinuteTicks == {[k \in DOMAIN ps |-> [price |-> ps[k], volume |-> DayVolume + k]] :
                   ps \in UNION {[1..n -> Prices] : n \in 1..MaxTicks}}

push_bar == \E ticks \in MinuteTicks :
    /\ Len(minutes) < MaxBars
    /\ candles_' = Append(candles_, convert_tick2min(ticks))
    /\ minutes' = Append(minutes, ticks)
    /\ UNCHANGED des_candles

\* What convert_kdata_and_clear leaves: the bars that make no whole run.
Rest_cleared(m) == <<>>                           \* (slip: all are cleared)
Rest(m) == SubSeq(candles_, Len(candles_) - (Len(candles_) % m) + 1, Len(candles_))

convert_kdata_and_clear(m) ==
    /\ m >= 2 /\ Len(candles_) >= m
    /\ des_candles' = des_candles \o
           [n \in 1..Len(candles_) \div m |-> Compose(Run(candles_, m, n))]
    /\ candles_' = Rest(m)
    /\ UNCHANGED minutes

Next == push_bar \/ convert_kdata_and_clear(compose_mutiple)

Spec == Init /\ [][Next]_vars

-----------------------------------------------------------------------------
(* Against the ticks                                                       *)

AllBars == [k \in DOMAIN minutes |-> convert_tick2min(minutes[k])]

\* The turnover that came with the first tick of the second to m-th minute
\* after p.
LostVolume(p, m) ==
    LET lost[k \in 1..m] == IF k = 1 THEN 0
                            ELSE lost[k - 1] + (Head(minutes[p + k]).volume - Last(minutes[p + k - 1]).volume)
    IN  lost[m]

\* A longer bar opens and closes as all its ticks do and has no price outside
\* theirs, though its high covers only its first minute and its low its last
\* one; and it lacks the turnover the first tick of each later minute
\* brought, as convert_tick2min counts from a minute's first tick on.
ComposedFromTicks == \A p \in 0..Len(minutes), m \in 1..Len(minutes) :
    Specified(AllBars, p, m) =>
        LET bar == calculate_specified_period(AllBars, p, m)
            first == Head(minutes[p + 1])
            last == Last(minutes[p + m])
        IN  /\ bar.open_price = first.price /\ bar.close_price = last.price
            /\ bar.change_point = bar.close_price - bar.open_price
            /\ {bar.high_price, bar.low_price} \subseteq UNION {PricesOf(minutes[p + k]) : k \in 1..m}
            /\ \A price \in PricesOf(minutes[p + 1]) : price <= bar.high_price
            /\ \A price \in PricesOf(minutes[p + m]) : bar.low_price <= price
            /\ bar.volume_size = last.volume - first.volume - LostVolume(p, m)

\* The two ways of composing agree, however often bars are converted between
\* the pushes; no minute is lost, and none is used twice.
WaysAgree ==
    /\ \A k \in DOMAIN des_candles :
          des_candles[k] = calculate_specified_period(AllBars, (k - 1) * compose_mutiple, compose_mutiple)
    /\ candles_ = SubSeq(AllBars, Len(des_candles) * compose_mutiple + 1, Len(minutes))
=============================================================================
