-------------------------- MODULE CandleBarProofs --------------------------
(***************************************************************************)
(* What CCandleBar's composed bars are worth, for any period, however many *)
(* minutes and ticks: what they keep of the ticks and what they lose, and  *)
(* that converting the minutes, however often, makes the bars that are     *)
(* calculated on the side.                                                 *)
(*                                                                         *)
(* The loop over the bars is a recursive function: what it computes is     *)
(* proved by induction, in the form of minimal elements of sets.           *)
(***************************************************************************)
EXTENDS CandleBar, SequenceTheorems, WellFoundedInduction, TLAPS

-----------------------------------------------------------------------------
(* Induction and recursion                                                 *)

LEMMA Least == ASSUME NEW T \in SUBSET Nat, T # {}
               PROVE  \E m \in T : \A k \in T : m <= k
<1> DEFINE Less == OpToRel(<, Nat)
<1>1. IsWellFoundedOn(Less, Nat)
  BY NatLessThanWellFounded
<1>2. PICK m \in T : \A k \in T : <<k, m>> \notin Less
  BY <1>1, WFMin
<1>3. \A k \in T : ~(k < m)
  BY <1>2 DEF OpToRel
<1> QED BY <1>3

\* A set of numbers that has 1 and the next of each up to n has them all.
LEMMA Induct == ASSUME NEW n \in Nat \ {0}, NEW T, 1 \in T,
                       \A k \in 1..n - 1 : k \in T => k + 1 \in T
                PROVE  1..n \subseteq T
<1> DEFINE Missing == {k \in Nat : k \in 1..n /\ k \notin T}
<1> SUFFICES ASSUME Missing # {} PROVE FALSE
  OBVIOUS
<1>1. PICK m \in Missing : \A k \in Missing : m <= k
  BY Least
<1>2. m \in 1..n /\ m \notin T /\ m # 1
  BY <1>1
<1>3. m - 1 \in 1..n - 1 /\ m - 1 \notin Missing
  BY <1>1, <1>2
<1> QED BY <1>2, <1>3

\* A loop over 1..n that starts from base has a value after each pass.
Loops(f, n, base, step) == f = [k \in 1..n |-> IF k = 1 THEN base ELSE step[k][f[k - 1]]]

LEMMA Recursion ==
    ASSUME NEW S, NEW n \in Nat \ {0}, NEW base \in S, NEW step \in [2..n -> [S -> S]]
    PROVE  \E f \in [1..n -> S] : Loops(f, n, base, step)
<1> DEFINE Upto(m, f) == f[1] = base /\ \A k \in 2..m : f[k] = step[k][f[k - 1]]
           T == {m \in 1..n : \E f \in [1..m -> S] : Upto(m, f)}
<1>1. 1 \in T
  <2> DEFINE f == [k \in 1..1 |-> base]
  <2>1. f \in [1..1 -> S] /\ f[1] = base /\ 2..1 = {}
    OBVIOUS
  <2> HIDE DEF f
  <2>2. \E g \in [1..1 -> S] : Upto(1, g)
    BY <2>1
  <2> QED BY <2>2
<1>2. ASSUME NEW m \in 1..n - 1, m \in T PROVE m + 1 \in T
  <2>1. PICK f \in [1..m -> S] : Upto(m, f)
    BY <1>2
  <2> DEFINE g == [k \in 1..m + 1 |-> IF k <= m THEN f[k] ELSE step[m + 1][f[m]]]
  <2>2. g \in [1..m + 1 -> S]
    <3>1. f[m] \in S /\ step[m + 1] \in [S -> S]
      OBVIOUS
    <3> QED BY <3>1
  <2>3. g[1] = base /\ g[m + 1] = step[m + 1][f[m]] /\ \A k \in 1..m : g[k] = f[k]
    BY <2>1
  <2> HIDE DEF g
  <2>4. \A k \in 2..m + 1 : g[k] = step[k][g[k - 1]]
    BY <2>1, <2>3
  <2>5. Upto(m + 1, g)
    BY <2>3, <2>4
  <2> QED BY <2>2, <2>5
<1> HIDE DEF T
<1>3. n \in T
  <2>1. 1..n \subseteq T
    BY <1>1, <1>2, Induct
  <2> QED BY <2>1
<1>4. PICK f \in [1..n -> S] : Upto(n, f)
  BY <1>3 DEF T
<1>5. \A k \in 1..n : f[k] = IF k = 1 THEN base ELSE step[k][f[k - 1]]
  BY <1>4
<1>6. Loops(f, n, base, step)
  BY <1>5 DEF Loops
<1> QED BY <1>6

-----------------------------------------------------------------------------
(* Highest and lowest of finitely many prices                              *)

LEMMA HighestLowest ==
    ASSUME NEW n \in Nat \ {0}, NEW p \in [1..n -> Int]
    PROVE  /\ \E h \in 1..n : \A j \in 1..n : p[j] <= p[h]
           /\ \E l \in 1..n : \A j \in 1..n : p[l] <= p[j]
<1> DEFINE High(m) == \E h \in 1..m : \A j \in 1..m : p[j] <= p[h]
           Low(m) == \E l \in 1..m : \A j \in 1..m : p[l] <= p[j]
           T == {m \in 1..n : High(m) /\ Low(m)}
<1>1. 1 \in T
  <2>1. 1 \in 1..n /\ 1 \in 1..1 /\ \A j \in 1..1 : p[j] <= p[1] /\ p[1] <= p[j]
    OBVIOUS
  <2>2. High(1) /\ Low(1)
    BY <2>1
  <2> HIDE DEF High, Low
  <2> QED BY <2>1, <2>2
<1>2. ASSUME NEW m \in 1..n - 1, m \in T PROVE m + 1 \in T
  <2>1. PICK h \in 1..m : \A j \in 1..m : p[j] <= p[h]
    BY <1>2
  <2>2. PICK l \in 1..m : \A j \in 1..m : p[l] <= p[j]
    BY <1>2
  <2>3. /\ m + 1 \in 1..n /\ \A j \in 1..m + 1 : j \in 1..m \/ j = m + 1
        /\ \A j \in 1..m + 1 : p[j] \in Int
        /\ m + 1 \in 1..m + 1 /\ h \in 1..m + 1 /\ l \in 1..m + 1
    OBVIOUS
  <2>4. \E k \in 1..m + 1 : \A j \in 1..m + 1 : p[j] <= p[k]
    <3>1. CASE p[h] <= p[m + 1]
      <4>1. \A j \in 1..m + 1 : p[j] <= p[m + 1]
        BY <2>1, <2>3, <3>1
      <4> QED BY <2>3, <4>1
    <3>2. CASE p[m + 1] <= p[h]
      <4>1. \A j \in 1..m + 1 : p[j] <= p[h]
        BY <2>1, <2>3, <3>2
      <4> QED BY <2>3, <4>1
    <3> QED BY <2>3, <3>1, <3>2
  <2>5. \E k \in 1..m + 1 : \A j \in 1..m + 1 : p[k] <= p[j]
    <3>1. CASE p[m + 1] <= p[l]
      <4>1. \A j \in 1..m + 1 : p[m + 1] <= p[j]
        BY <2>2, <2>3, <3>1
      <4> QED BY <2>3, <4>1
    <3>2. CASE p[l] <= p[m + 1]
      <4>1. \A j \in 1..m + 1 : p[l] <= p[j]
        BY <2>2, <2>3, <3>2
      <4> QED BY <2>3, <4>1
    <3> QED BY <2>3, <3>1, <3>2
  <2> QED BY <2>3, <2>4, <2>5
<1> HIDE DEF T
<1>3. n \in T
  <2>1. 1..n \subseteq T
    BY <1>1, <1>2, Induct
  <2> QED BY <2>1
<1> QED BY <1>3 DEF T

-----------------------------------------------------------------------------
(* A minute's bar                                                          *)

Tick == [price : Prices, volume : Int]
Minute == {ticks \in Seq(Tick) : ticks # <<>>}
Bar == [open_price : Int, close_price : Int, high_price : Int, low_price : Int,
        change_point : Int, volume_size : Int]

LEMMA TicksOfMinute ==
    ASSUME NEW ticks \in Minute
    PROVE  /\ Len(ticks) \in Nat \ {0} /\ DOMAIN ticks = 1..Len(ticks)
           /\ \A k \in 1..Len(ticks) : ticks[k].price \in Int /\ ticks[k].volume \in Int
           /\ Head(ticks).price \in Int /\ Head(ticks).volume \in Int
           /\ Last(ticks).price \in Int /\ Last(ticks).volume \in Int
           /\ convert_tick2min(ticks).volume_size = Last(ticks).volume - Head(ticks).volume
<1>1. ticks \in Seq(Tick) /\ ticks # <<>>
  BY DEF Minute
<1>2. Len(ticks) \in Nat \ {0} /\ DOMAIN ticks = 1..Len(ticks) /\ Head(ticks) = ticks[1]
  BY <1>1
<1>3. \A k \in 1..Len(ticks) : ticks[k] \in Tick
  BY <1>1
<1>4. \A price \in Prices : price \in Int
  BY CandleAssumption
<1>5. convert_tick2min(ticks).volume_size = Last(ticks).volume - Head(ticks).volume
  BY DEF convert_tick2min, volume_of
<1>6. Last(ticks) = ticks[Len(ticks)] /\ 1 \in 1..Len(ticks) /\ Len(ticks) \in 1..Len(ticks)
  BY <1>2 DEF Last
<1>7. \A k \in 1..Len(ticks) : ticks[k].price \in Int /\ ticks[k].volume \in Int
  BY <1>3, <1>4 DEF Tick
<1> QED BY <1>2, <1>5, <1>6, <1>7

LEMMA BarOfMinute ==
    ASSUME NEW ticks \in Minute
    PROVE  LET bar == convert_tick2min(ticks) IN
           /\ bar \in Bar
           /\ bar.high_price \in PricesOf(ticks) /\ bar.low_price \in PricesOf(ticks)
           /\ \A price \in PricesOf(ticks) : bar.low_price <= price /\ price <= bar.high_price
<1> DEFINE n == Len(ticks)
           p == [k \in 1..n |-> ticks[k].price]
<1>1. n \in Nat \ {0} /\ p \in [1..n -> Int] /\ PricesOf(ticks) = {p[k] : k \in 1..n}
  BY TicksOfMinute DEF PricesOf
<1> HIDE DEF n, p
<1>2. /\ \E high \in PricesOf(ticks) : \A price \in PricesOf(ticks) : high >= price
      /\ \E low \in PricesOf(ticks) : \A price \in PricesOf(ticks) : low <= price
      /\ PricesOf(ticks) \subseteq Int
  <2>1. PICK h \in 1..n : \A j \in 1..n : p[j] <= p[h]
    BY <1>1, HighestLowest
  <2>2. PICK l \in 1..n : \A j \in 1..n : p[l] <= p[j]
    BY <1>1, HighestLowest
  <2>3. \A k \in 1..n : p[k] \in Int
    BY <1>1
  <2> QED BY <1>1, <2>1, <2>2, <2>3
<1>3. /\ Max(PricesOf(ticks)) \in PricesOf(ticks)
      /\ \A price \in PricesOf(ticks) : Max(PricesOf(ticks)) >= price
  BY <1>2 DEF Max
<1>4. /\ Min(PricesOf(ticks)) \in PricesOf(ticks)
      /\ \A price \in PricesOf(ticks) : Min(PricesOf(ticks)) <= price
  BY <1>2 DEF Min
<1>5. Max(PricesOf(ticks)) \in Int /\ Min(PricesOf(ticks)) \in Int
  BY <1>2, <1>3, <1>4
<1>6. /\ Head(ticks).price \in Int /\ Last(ticks).price \in Int
      /\ Head(ticks).volume \in Int /\ Last(ticks).volume \in Int
  BY TicksOfMinute
<1> QED BY <1>2, <1>3, <1>4, <1>5, <1>6 DEF convert_tick2min, volume_of, Bar

-----------------------------------------------------------------------------
(* The loop over the bars                                                  *)

LEMMA AddType ==
    ASSUME NEW a \in Bar, NEW b \in Bar
    PROVE  /\ Add(a, b) \in Bar
           /\ Add(a, b).open_price = a.open_price /\ Add(a, b).high_price = a.high_price
           /\ Add(a, b).close_price = b.close_price /\ Add(a, b).low_price = b.low_price
           /\ Add(a, b).volume_size = a.volume_size + b.volume_size
<1>1. a.volume_size + b.volume_size \in Int /\ b.close_price \in Int /\ b.low_price \in Int
  BY DEF Bar
<1>2. Add(a, b) \in Bar
  BY <1>1 DEF Add, Bar
<1> QED BY <1>2 DEF Add, Bar

LEMMA ClosedType ==
    ASSUME NEW a \in Bar
    PROVE  /\ Closed(a) \in Bar
           /\ Closed(a).open_price = a.open_price /\ Closed(a).high_price = a.high_price
           /\ Closed(a).close_price = a.close_price /\ Closed(a).low_price = a.low_price
           /\ Closed(a).change_point = a.close_price - a.open_price
           /\ Closed(a).volume_size = a.volume_size
<1>1. a.close_price - a.open_price \in Int
  BY DEF Bar
<1>2. Closed(a) \in Bar
  BY <1>1 DEF Closed, Bar
<1> QED BY <1>2 DEF Closed, Bar

\* What the loop has after each of its passes.
LEMMA Passes ==
    ASSUME NEW bars \in Seq(Bar), bars # <<>>
    PROVE  \E des_bar \in [1..Len(bars) -> Bar] :
              /\ Compose(bars) = Closed(des_bar[Len(bars)]) /\ des_bar[1] = bars[1]
              /\ \A k \in 2..Len(bars) : des_bar[k] = Add(des_bar[k - 1], bars[k])
<1> DEFINE n == Len(bars)
           des_bar == CHOOSE f : f = [k \in 1..n |-> IF k = 1 THEN bars[1] ELSE Add(f[k - 1], bars[k])]
<1>1. n \in Nat \ {0} /\ \A k \in 1..n : bars[k] \in Bar
  OBVIOUS
<1>2. Compose(bars) = Closed(des_bar[n])
  BY DEF Compose
<1> HIDE DEF n
<1>3. \A bar \in Bar, k \in 1..n : Add(bar, bars[k]) \in Bar
  BY <1>1, AddType
<1>4. \E f : f = [k \in 1..n |-> IF k = 1 THEN bars[1] ELSE Add(f[k - 1], bars[k])]
  <2> DEFINE step == [k \in 2..n |-> [bar \in Bar |-> Add(bar, bars[k])]]
  <2>1. step \in [2..n -> [Bar -> Bar]] /\ bars[1] \in Bar
    BY <1>1, <1>3
  <2>2. \A k \in 2..n, bar \in Bar : step[k][bar] = Add(bar, bars[k])
    OBVIOUS
  <2> HIDE DEF step
  <2>3. PICK f \in [1..n -> Bar] : Loops(f, n, bars[1], step)
    BY <1>1, <2>1, Recursion
  <2>4. \A k \in 1..n : k # 1 => f[k - 1] \in Bar /\ k \in 2..n
    BY <1>1
  <2>5. f = [k \in 1..n |-> IF k = 1 THEN bars[1] ELSE Add(f[k - 1], bars[k])]
    BY <2>2, <2>3, <2>4 DEF Loops
  <2> QED BY <2>5
<1>5. des_bar = [k \in 1..n |-> IF k = 1 THEN bars[1] ELSE Add(des_bar[k - 1], bars[k])]
  BY <1>4
<1> HIDE DEF des_bar
<1>6. des_bar[1] = bars[1] /\ \A k \in 2..n : des_bar[k] = Add(des_bar[k - 1], bars[k])
  BY <1>1, <1>5
<1> DEFINE T == {k \in 1..n : des_bar[k] \in Bar}
<1>7. 1 \in T
  BY <1>1, <1>6
<1>8. ASSUME NEW k \in 1..n - 1, k \in T PROVE k + 1 \in T
  <2>1. k + 1 \in 2..n /\ k + 1 \in 1..n /\ (k + 1) - 1 = k
    BY <1>1
  <2>2. des_bar[k + 1] = Add(des_bar[k], bars[k + 1])
    BY <1>6, <2>1
  <2> QED BY <1>3, <1>8, <2>1, <2>2
<1> HIDE DEF T
<1>9. 1..n \subseteq T
  BY <1>1, <1>7, <1>8, Induct
<1>10. des_bar \in [1..n -> Bar]
  BY <1>5, <1>9 DEF T
<1> QED BY <1>2, <1>6, <1>10 DEF n

\* The first bar's open and high, the last one's close and low.
LEMMA Composed ==
    ASSUME NEW bars \in Seq(Bar), bars # <<>>
    PROVE  LET bar == Compose(bars)
               n == Len(bars)
           IN  /\ bar \in Bar
               /\ bar.open_price = bars[1].open_price /\ bar.high_price = bars[1].high_price
               /\ bar.close_price = bars[n].close_price /\ bar.low_price = bars[n].low_price
               /\ bar.change_point = bar.close_price - bar.open_price
<1> DEFINE n == Len(bars)
<1>1. n \in Nat \ {0} /\ \A k \in 1..n : bars[k] \in Bar
  OBVIOUS
<1>2. PICK des_bar \in [1..n -> Bar] :
        /\ Compose(bars) = Closed(des_bar[n]) /\ des_bar[1] = bars[1]
        /\ \A k \in 2..n : des_bar[k] = Add(des_bar[k - 1], bars[k])
  BY Passes
<1> HIDE DEF n
<1> DEFINE T == {k \in 1..n : /\ des_bar[k].open_price = bars[1].open_price
                              /\ des_bar[k].high_price = bars[1].high_price
                              /\ des_bar[k].close_price = bars[k].close_price
                              /\ des_bar[k].low_price = bars[k].low_price}
<1>3. 1 \in T
  BY <1>1, <1>2
<1>4. ASSUME NEW k \in 1..n - 1, k \in T PROVE k + 1 \in T
  <2>1. k + 1 \in 2..n /\ k + 1 \in 1..n /\ k \in 1..n /\ (k + 1) - 1 = k
    BY <1>1
  <2>2. des_bar[k + 1] = Add(des_bar[k], bars[k + 1]) /\ des_bar[k] \in Bar
    BY <1>2, <2>1
  <2>3. /\ des_bar[k + 1].open_price = des_bar[k].open_price
        /\ des_bar[k + 1].high_price = des_bar[k].high_price
        /\ des_bar[k + 1].close_price = bars[k + 1].close_price
        /\ des_bar[k + 1].low_price = bars[k + 1].low_price
    BY <1>1, <2>1, <2>2, AddType
  <2> QED BY <1>4, <2>1, <2>3
<1> HIDE DEF T
<1>5. n \in T
  <2>1. 1..n \subseteq T
    BY <1>1, <1>3, <1>4, Induct
  <2> QED BY <1>1, <2>1
<1>6. des_bar[n] \in Bar
  BY <1>1
<1>7. /\ Compose(bars) \in Bar
      /\ Compose(bars).open_price = des_bar[n].open_price
      /\ Compose(bars).high_price = des_bar[n].high_price
      /\ Compose(bars).close_price = des_bar[n].close_price
      /\ Compose(bars).low_price = des_bar[n].low_price
      /\ Compose(bars).change_point = des_bar[n].close_price - des_bar[n].open_price
  BY <1>2, <1>6, ClosedType
<1> QED BY <1>5, <1>7 DEF T, n

\* The volumes' sum, however it is calculated.
LEMMA ComposedVolume ==
    ASSUME NEW bars \in Seq(Bar), bars # <<>>, NEW sum,
           sum[1] = bars[1].volume_size,
           \A k \in 1..Len(bars) - 1 : sum[k + 1] = sum[k] + bars[k + 1].volume_size
    PROVE  Compose(bars).volume_size = sum[Len(bars)]
<1> DEFINE n == Len(bars)
<1>1. n \in Nat \ {0} /\ \A k \in 1..n : bars[k] \in Bar
  OBVIOUS
<1>2. PICK des_bar \in [1..n -> Bar] :
        /\ Compose(bars) = Closed(des_bar[n]) /\ des_bar[1] = bars[1]
        /\ \A k \in 2..n : des_bar[k] = Add(des_bar[k - 1], bars[k])
  BY Passes
<1>3. \A k \in 1..n - 1 : sum[k + 1] = sum[k] + bars[k + 1].volume_size
  OBVIOUS
<1> HIDE DEF n
<1> DEFINE T == {k \in 1..n : des_bar[k].volume_size = sum[k]}
<1>4. 1 \in T
  BY <1>1, <1>2
<1>5. ASSUME NEW k \in 1..n - 1, k \in T PROVE k + 1 \in T
  <2>1. k + 1 \in 2..n /\ k + 1 \in 1..n /\ k \in 1..n /\ (k + 1) - 1 = k
    BY <1>1
  <2>2. des_bar[k + 1] = Add(des_bar[k], bars[k + 1]) /\ des_bar[k] \in Bar
    BY <1>2, <2>1
  <2>3. des_bar[k + 1].volume_size = des_bar[k].volume_size + bars[k + 1].volume_size
    BY <1>1, <2>1, <2>2, AddType
  <2> QED BY <1>3, <1>5, <2>1, <2>3
<1> HIDE DEF T
<1>6. n \in T
  <2>1. 1..n \subseteq T
    BY <1>1, <1>4, <1>5, Induct
  <2> QED BY <1>1, <2>1
<1>7. Compose(bars).volume_size = des_bar[n].volume_size
  <2>1. des_bar[n] \in Bar
    BY <1>1
  <2> QED BY <1>2, <2>1, ClosedType
<1> QED BY <1>6, <1>7 DEF T, n

-----------------------------------------------------------------------------
(* What a longer bar keeps of the ticks, and what it loses                 *)

LEMMA AllBarsType ==
    ASSUME minutes \in Seq(Minute)
    PROVE  /\ AllBars \in Seq(Bar) /\ Len(AllBars) = Len(minutes) /\ Len(minutes) \in Nat
           /\ \A k \in 1..Len(minutes) : /\ minutes[k] \in Minute
                                         /\ AllBars[k] = convert_tick2min(minutes[k])
<1>1. Len(minutes) \in Nat /\ DOMAIN minutes = 1..Len(minutes) /\ \A k \in 1..Len(minutes) : minutes[k] \in Minute
  OBVIOUS
<1>2. \A k \in 1..Len(minutes) : convert_tick2min(minutes[k]) \in Bar
  BY <1>1, BarOfMinute
<1>3. AllBars \in [1..Len(minutes) -> Bar]
  BY <1>1, <1>2 DEF AllBars
<1>4. \A k \in 1..Len(minutes) : AllBars[k] = convert_tick2min(minutes[k])
  BY <1>1 DEF AllBars
<1>5. AllBars \in Seq(Bar) /\ Len(AllBars) = Len(minutes)
  <2> DEFINE n == Len(minutes)
  <2>1. n \in Nat /\ AllBars \in [1..n -> Bar]
    BY <1>1, <1>3
  <2> HIDE DEF n
  <2>2. AllBars \in Seq(Bar) /\ Len(AllBars) = n
    BY <2>1
  <2> QED BY <2>2 DEF n
<1> QED BY <1>1, <1>4, <1>5

\* The bars of m minutes after minute p.
LEMMA MinutesRun ==
    ASSUME minutes \in Seq(Minute), NEW p \in Nat, NEW m \in Nat, p + m <= Len(minutes)
    PROVE  LET bars == SubSeq(AllBars, p + 1, p + m) IN
           /\ bars \in Seq(Bar) /\ Len(bars) = m
           /\ \A k \in 1..m : /\ minutes[p + k] \in Minute
                              /\ bars[k] = convert_tick2min(minutes[p + k])
<1>1. /\ Len(minutes) \in Nat
      /\ \A k \in 1..Len(minutes) : /\ minutes[k] \in Minute
                                    /\ AllBars[k] = convert_tick2min(minutes[k])
  BY AllBarsType
<1>2. \A k \in p + 1..p + m : k \in 1..Len(minutes) /\ AllBars[k] \in Bar
  BY <1>1, BarOfMinute
<1>3. p + 1 \in Int /\ p + m \in Int /\ (p + m) - (p + 1) + 1 = m
  OBVIOUS
<1>7. \A from, to \in Int : (\A k \in from..to : AllBars[k] \in Bar) =>
        /\ SubSeq(AllBars, from, to) \in Seq(Bar)
        /\ Len(SubSeq(AllBars, from, to)) = IF from <= to THEN to - from + 1 ELSE 0
        /\ \A k \in 1..to - from + 1 : SubSeq(AllBars, from, to)[k] = AllBars[from + k - 1]
  BY SubSeqProperties
<1>4. /\ SubSeq(AllBars, p + 1, p + m) \in Seq(Bar)
      /\ Len(SubSeq(AllBars, p + 1, p + m)) = IF p + 1 <= p + m THEN (p + m) - (p + 1) + 1 ELSE 0
      /\ \A k \in 1..(p + m) - (p + 1) + 1 : SubSeq(AllBars, p + 1, p + m)[k] = AllBars[p + 1 + k - 1]
  BY <1>2, <1>3, <1>7
<1>5. \A k \in 1..m : p + k \in 1..Len(minutes) /\ p + 1 + k - 1 = p + k
  BY <1>1
<1>6. (IF p + 1 <= p + m THEN (p + m) - (p + 1) + 1 ELSE 0) = m
  OBVIOUS
<1> QED BY <1>1, <1>3, <1>4, <1>5, <1>6

\* What LostVolume's function is.
LEMMA LostPasses ==
    ASSUME minutes \in Seq(Minute), NEW p \in Nat, NEW m \in Nat \ {0}, p + m <= Len(minutes)
    PROVE  \E lost \in [1..m -> Int] :
              /\ LostVolume(p, m) = lost[m] /\ lost[1] = 0
              /\ \A k \in 1..m - 1 :
                   lost[k + 1] = lost[k] + (Head(minutes[p + k + 1]).volume - Last(minutes[p + k]).volume)
<1> DEFINE Gap(k) == Head(minutes[p + k]).volume - Last(minutes[p + k - 1]).volume
           lost == CHOOSE f : f = [k \in 1..m |-> IF k = 1 THEN 0 ELSE f[k - 1] + Gap(k)]
<1>1. LostVolume(p, m) = lost[m]
  BY DEF LostVolume
<1>2. \A k \in 1..m : minutes[p + k] \in Minute
  BY MinutesRun
<1>3. \A k \in 2..m : Gap(k) \in Int
  <2> SUFFICES ASSUME NEW k \in 2..m PROVE Gap(k) \in Int
    OBVIOUS
  <2>1. k - 1 \in 1..m /\ k \in 1..m /\ p + (k - 1) = p + k - 1
    OBVIOUS
  <2>2. minutes[p + k] \in Minute /\ minutes[p + k - 1] \in Minute
    BY <1>2, <2>1
  <2>3. Head(minutes[p + k]).volume \in Int /\ Last(minutes[p + k - 1]).volume \in Int
    BY <2>2, TicksOfMinute
  <2> QED BY <2>3
<1>4. \A k \in 1..m - 1 : Gap(k + 1) = Head(minutes[p + k + 1]).volume - Last(minutes[p + k]).volume
  <2>1. \A k \in 1..m - 1 : p + (k + 1) = p + k + 1 /\ p + (k + 1) - 1 = p + k
    OBVIOUS
  <2> QED BY <2>1
<1> HIDE DEF Gap
<1>5. \E f : f = [k \in 1..m |-> IF k = 1 THEN 0 ELSE f[k - 1] + Gap(k)]
  <2> DEFINE step == [k \in 2..m |-> [x \in Int |-> x + Gap(k)]]
  <2>1. step \in [2..m -> [Int -> Int]] /\ 0 \in Int
    BY <1>3
  <2>2. \A k \in 2..m, x \in Int : step[k][x] = x + Gap(k)
    OBVIOUS
  <2> HIDE DEF step
  <2>3. PICK f \in [1..m -> Int] : Loops(f, m, 0, step)
    BY <2>1, Recursion
  <2>4. \A k \in 1..m : k # 1 => f[k - 1] \in Int /\ k \in 2..m
    OBVIOUS
  <2>5. f = [k \in 1..m |-> IF k = 1 THEN 0 ELSE f[k - 1] + Gap(k)]
    BY <2>2, <2>3, <2>4 DEF Loops
  <2> QED BY <2>5
<1>6. lost = [k \in 1..m |-> IF k = 1 THEN 0 ELSE lost[k - 1] + Gap(k)]
  BY <1>5
<1> HIDE DEF lost
<1>7. lost[1] = 0 /\ \A k \in 1..m - 1 : lost[k + 1] = lost[k] + Gap(k + 1)
  <2>1. \A k \in 1..m - 1 : k + 1 \in 1..m /\ k + 1 # 1 /\ (k + 1) - 1 = k
    OBVIOUS
  <2> QED BY <1>6, <2>1
<1> DEFINE T == {k \in 1..m : lost[k] \in Int}
<1>8. 1 \in T
  BY <1>7
<1>9. ASSUME NEW k \in 1..m - 1, k \in T PROVE k + 1 \in T
  <2>1. k + 1 \in 2..m /\ k + 1 \in 1..m
    OBVIOUS
  <2> QED BY <1>3, <1>7, <1>9, <2>1
<1> HIDE DEF T
<1>10. 1..m \subseteq T
  BY <1>8, <1>9, Induct
<1>11. lost \in [1..m -> Int]
  BY <1>6, <1>10 DEF T
<1> QED BY <1>1, <1>4, <1>7, <1>11

LEMMA LongerBar == ASSUME minutes \in Seq(Minute) PROVE ComposedFromTicks
<1> SUFFICES ASSUME NEW p \in 0..Len(minutes), NEW m \in 1..Len(minutes), Specified(AllBars, p, m)
             PROVE  LET bar == calculate_specified_period(AllBars, p, m)
                        first == Head(minutes[p + 1])
                        last == Last(minutes[p + m])
                    IN  /\ bar.open_price = first.price /\ bar.close_price = last.price
                        /\ bar.change_point = bar.close_price - bar.open_price
                        /\ {bar.high_price, bar.low_price}
                              \subseteq UNION {PricesOf(minutes[p + k]) : k \in 1..m}
                        /\ \A price \in PricesOf(minutes[p + 1]) : price <= bar.high_price
                        /\ \A price \in PricesOf(minutes[p + m]) : bar.low_price <= price
                        /\ bar.volume_size = last.volume - first.volume - LostVolume(p, m)
  BY DEF ComposedFromTicks
<1> DEFINE bars == SubSeq(AllBars, p + 1, p + m)
           bar == calculate_specified_period(AllBars, p, m)
<1>1. p \in Nat /\ m \in Nat \ {0} /\ p + m <= Len(minutes)
  BY AllBarsType DEF Specified
<1>2. /\ bars \in Seq(Bar) /\ Len(bars) = m /\ bar = Compose(bars)
      /\ \A k \in 1..m : minutes[p + k] \in Minute /\ bars[k] = convert_tick2min(minutes[p + k])
  BY <1>1, MinutesRun DEF calculate_specified_period
<1>3. 1 \in 1..m /\ m \in 1..m
  BY <1>1
<1> HIDE DEF bars, bar
<1>4. bars # <<>>
  BY <1>1, <1>2
<1>5. /\ bar.open_price = bars[1].open_price /\ bar.high_price = bars[1].high_price
      /\ bar.close_price = bars[m].close_price /\ bar.low_price = bars[m].low_price
      /\ bar.change_point = bar.close_price - bar.open_price
  BY <1>2, <1>4, Composed
<1>6. /\ bars[1] = convert_tick2min(minutes[p + 1]) /\ minutes[p + 1] \in Minute
      /\ bars[m] = convert_tick2min(minutes[p + m]) /\ minutes[p + m] \in Minute
  BY <1>2, <1>3
<1>7. bar.open_price = Head(minutes[p + 1]).price /\ bar.close_price = Last(minutes[p + m]).price
  BY <1>5, <1>6 DEF convert_tick2min
<1>8. /\ bar.high_price \in PricesOf(minutes[p + 1]) /\ bar.low_price \in PricesOf(minutes[p + m])
      /\ \A price \in PricesOf(minutes[p + 1]) : price <= bar.high_price
      /\ \A price \in PricesOf(minutes[p + m]) : bar.low_price <= price
  BY <1>5, <1>6, BarOfMinute
<1>9. {bar.high_price, bar.low_price} \subseteq UNION {PricesOf(minutes[p + k]) : k \in 1..m}
  BY <1>3, <1>8
<1>10. bar.volume_size = Last(minutes[p + m]).volume - Head(minutes[p + 1]).volume - LostVolume(p, m)
  <2>1. PICK lost \in [1..m -> Int] :
           /\ LostVolume(p, m) = lost[m] /\ lost[1] = 0
           /\ \A k \in 1..m - 1 :
                lost[k + 1] = lost[k] + (Head(minutes[p + k + 1]).volume - Last(minutes[p + k]).volume)
    BY <1>1, LostPasses
  <2> DEFINE h == [k \in 1..m |-> Head(minutes[p + k]).volume]
             l == [k \in 1..m |-> Last(minutes[p + k]).volume]
             sum == [k \in 1..m |-> l[k] - h[1] - lost[k]]
  <2>2. /\ \A k \in 1..m : /\ Head(minutes[p + k]).volume \in Int /\ Last(minutes[p + k]).volume \in Int
                           /\ bars[k].volume_size = Last(minutes[p + k]).volume - Head(minutes[p + k]).volume
    BY <1>2, TicksOfMinute
  <2>3. /\ h \in [1..m -> Int] /\ l \in [1..m -> Int]
        /\ \A k \in 1..m : bars[k].volume_size = l[k] - h[k]
        /\ h[1] = Head(minutes[p + 1]).volume /\ l[m] = Last(minutes[p + m]).volume
    BY <1>3, <2>2
  <2>4. \A k \in 1..m - 1 : lost[k + 1] = lost[k] + (h[k + 1] - l[k])
    <3>1. \A k \in 1..m - 1 : /\ k \in 1..m /\ k + 1 \in 1..m
                              /\ minutes[p + k + 1] = minutes[p + (k + 1)]
      BY <1>1
    <3> QED BY <2>1, <3>1
  <2> HIDE DEF h, l
  <2>5. sum[1] = bars[1].volume_size /\ sum[m] = l[m] - h[1] - lost[m]
    BY <1>3, <2>1, <2>3
  <2>6. \A k \in 1..m - 1 : sum[k + 1] = sum[k] + bars[k + 1].volume_size
    <3> SUFFICES ASSUME NEW k \in 1..m - 1 PROVE sum[k + 1] = sum[k] + bars[k + 1].volume_size
      OBVIOUS
    <3>1. k \in 1..m /\ k + 1 \in 1..m
      BY <1>1
    <3>2. lost[k] \in Int /\ l[k] \in Int /\ l[k + 1] \in Int /\ h[k + 1] \in Int /\ h[1] \in Int
      BY <1>3, <2>3, <3>1
    <3>3. lost[k + 1] = lost[k] + (h[k + 1] - l[k]) /\ bars[k + 1].volume_size = l[k + 1] - h[k + 1]
      BY <2>3, <2>4, <3>1
    <3>4. sum[k + 1] = l[k + 1] - h[1] - lost[k + 1] /\ sum[k] = l[k] - h[1] - lost[k]
      BY <3>1
    <3>5. l[k + 1] - h[1] - (lost[k] + (h[k + 1] - l[k])) =
             (l[k] - h[1] - lost[k]) + (l[k + 1] - h[k + 1])
      <4> DEFINE last == l[k]
                 next == l[k + 1]
                 h1 == h[1]
                 hn == h[k + 1]
                 gone == lost[k]
      <4>1. last \in Int /\ next \in Int /\ h1 \in Int /\ hn \in Int /\ gone \in Int
        BY <3>2
      <4> HIDE DEF last, next, h1, hn, gone
      <4>2. next - h1 - (gone + (hn - last)) = (last - h1 - gone) + (next - hn)
        BY <4>1
      <4> QED BY <4>2 DEF last, next, h1, hn, gone
    <3> HIDE DEF sum
    <3> QED BY <3>3, <3>4, <3>5, Zenon
  <2> HIDE DEF sum
  <2>7. bar.volume_size = sum[m]
    BY <1>2, <1>4, <2>5, <2>6, ComposedVolume
  <2> QED BY <2>1, <2>3, <2>5, <2>7
<1> QED BY <1>5, <1>7, <1>8, <1>9, <1>10 DEF bar

LEMMA Multiples ==
    ASSUME NEW D \in Nat, NEW m \in Nat
    PROVE  D * m \in Nat /\ \A k \in 1..D : (k - 1) * m \in Nat /\ (k - 1) * m + m <= D * m
<1>1. D * m \in Nat
  OBVIOUS
<1>2. ASSUME NEW k \in 1..D PROVE (k - 1) * m \in Nat /\ (k - 1) * m + m <= D * m
  <2>1. k - 1 \in Nat /\ k \in Nat /\ k <= D
    OBVIOUS
  <2>2. k * m <= D * m
    BY <2>1
  <2>3. (k - 1) * m + m = k * m
    BY <2>1
  <2> QED BY <2>1, <2>2, <2>3
<1> QED BY <1>1, <1>2

-----------------------------------------------------------------------------
(* The two ways of composing                                               *)

\* Runs of the bars so far, when there is one more.
LEMMA RunStays ==
    ASSUME NEW s \in Seq(Bar), NEW b \in Bar, NEW i \in Nat \ {0}, NEW j \in 0..Len(s)
    PROVE  SubSeq(Append(s, b), i, j) = SubSeq(s, i, j)
<1>1. CASE j < i
  BY <1>1, SubSeqEmpty
<1>2. CASE i <= j
  <2>1. i \in 1..Len(s) /\ j \in 1..Len(s) /\ <<b>> \in Seq(Bar) /\ Append(s, b) = s \o <<b>>
    BY <1>2
  <2> QED BY <2>1, SubSeqOfConcat1
<1> QED BY <1>1, <1>2

LEMMA RunGrows ==
    ASSUME NEW s \in Seq(Bar), NEW b \in Bar, NEW i \in 1..Len(s) + 1
    PROVE  SubSeq(Append(s, b), i, Len(s) + 1) = Append(SubSeq(s, i, Len(s)), b)
<1> DEFINE longer == Append(s, b)
           n == Len(s)
<1>1. /\ longer \in Seq(Bar) /\ Len(longer) = n + 1 /\ longer[n + 1] = b
      /\ n \in Nat /\ i \in 1..n + 1
  BY AppendProperties
<1>2. SubSeq(longer, i, n) = SubSeq(s, i, n)
  BY <1>1, RunStays
<1>3. \A k \in Int : k \in i..n => s[k] \in Bar
  BY <1>1
<1>4. SubSeq(s, i, n) \in Seq(Bar)
  BY <1>1, <1>3, SubSeqProperties
<1>5. SubSeq(longer, i, n + 1) = SubSeq(longer, i, n) \o <<b>>
  <2> HIDE DEF longer, n
  <2>1. i \in 1..Len(longer) /\ n + 1 \in i..Len(longer) /\ (n + 1) - 1 = n
    BY <1>1
  <2>2. SubSeq(longer, i, n + 1) = SubSeq(longer, i, (n + 1) - 1) \o <<longer[n + 1]>>
    BY <1>1, <2>1, SubSeqRecursiveSecond
  <2> QED BY <1>1, <2>1, <2>2
<1>6. SubSeq(s, i, n) \o <<b>> = Append(SubSeq(s, i, n), b)
  <2> DEFINE run == SubSeq(s, i, n)
  <2>1. run \in Seq(Bar)
    BY <1>4
  <2> HIDE DEF run
  <2>2. run \o <<b>> = Append(run, b)
    BY <2>1
  <2> QED BY <2>2 DEF run
<1> QED BY <1>2, <1>5, <1>6

\* Runs of the bars after the first d.
LEMMA RunOfRest ==
    ASSUME NEW s \in Seq(Bar), NEW d \in Nat, d <= Len(s),
           NEW i \in Nat \ {0}, NEW j \in 0..Len(s) - d
    PROVE  /\ SubSeq(SubSeq(s, d + 1, Len(s)), i, j) = SubSeq(s, d + i, d + j)
           /\ Len(SubSeq(s, d + 1, Len(s))) = Len(s) - d
<1> DEFINE n == Len(s)
<1>1. n \in Nat /\ \A k \in d + 1..n : s[k] \in Bar
  OBVIOUS
<1>2. Len(SubSeq(s, d + 1, n)) = IF d + 1 <= n THEN n - (d + 1) + 1 ELSE 0
  <2>1. \A from \in Int : (\A k \in from..n : s[k] \in Bar) =>
           Len(SubSeq(s, from, n)) = IF from <= n THEN n - from + 1 ELSE 0
    BY <1>1, SubSeqProperties
  <2> QED BY <1>1, <2>1
<1> HIDE DEF n
<1>3. d <= n /\ j \in 0..n - d
  BY DEF n
<1>4. SubSeq(SubSeq(s, d + 1, n), i, j) = SubSeq(s, d + i, d + j)
  <2>1. CASE j < i
    BY <1>1, <1>3, <2>1, SubSeqEmpty
  <2>2. CASE i <= j
    <3>1. /\ d + 1 \in 1..Len(s) /\ n \in 1..Len(s)
          /\ i \in 1..n - (d + 1) + 1 /\ j \in 1..n - (d + 1) + 1
      BY <1>1, <1>3, <2>2 DEF n
    <3>2. SubSeq(SubSeq(s, d + 1, n), i, j) = SubSeq(s, (d + 1) + i - 1, (d + 1) + j - 1)
      BY <3>1, SubSeqOfSubSeq
    <3>3. (d + 1) + i - 1 = d + i /\ (d + 1) + j - 1 = d + j
      OBVIOUS
    <3> QED BY <3>2, <3>3
  <2>3. j < i \/ i <= j
    BY <1>1, <1>3
  <2> QED BY <2>1, <2>2, <2>3
<1> QED BY <1>1, <1>2, <1>3, <1>4 DEF n

-----------------------------------------------------------------------------
(* The invariant                                                           *)

CandleInv ==
    /\ minutes \in Seq(Minute) /\ des_candles \in Seq(Bar)
    /\ Len(des_candles) * compose_mutiple <= Len(minutes)
    /\ WaysAgree

LEMMA CandleInit == Init => CandleInv
<1> SUFFICES ASSUME Init PROVE CandleInv
  OBVIOUS
<1>1. candles_ = <<>> /\ des_candles = <<>> /\ minutes = <<>>
  BY DEF Init
<1>2. Len(minutes) = 0 /\ Len(des_candles) = 0 /\ 0 * compose_mutiple = 0
  BY <1>1, CandleAssumption
<1>3. SubSeq(AllBars, 0 + 1, 0) = <<>>
  BY SubSeqEmpty
<1> QED BY <1>1, <1>2, <1>3 DEF CandleInv, WaysAgree

\* A minute pushed is one of ticks.
LEMMA MinuteType == ASSUME minutes \in Seq(Minute), NEW ticks \in MinuteTicks PROVE ticks \in Minute
<1>1. DayVolume \in Int
  <2>1. CASE minutes = <<>>
    BY <2>1 DEF DayVolume
  <2>2. CASE minutes # <<>>
    <3>1. Last(minutes) \in Minute
      BY <2>2 DEF Last
    <3>2. Last(Last(minutes)).volume \in Int
      BY <3>1, TicksOfMinute
    <3> QED BY <2>2, <3>2 DEF DayVolume
  <2> QED BY <2>1, <2>2
<1>2. PICK ps \in UNION {[1..n -> Prices] : n \in 1..MaxTicks} :
        ticks = [k \in DOMAIN ps |-> [price |-> ps[k], volume |-> DayVolume + k]]
  BY DEF MinuteTicks
<1>6. PICK n \in 1..MaxTicks : ps \in [1..n -> Prices]
  BY <1>2
<1>3. n \in Nat \ {0}
  BY CandleAssumption
<1>4. \A k \in 1..n : [price |-> ps[k], volume |-> DayVolume + k] \in Tick
  BY <1>1, <1>6 DEF Tick
<1>5. ticks \in [1..n -> Tick]
  BY <1>2, <1>6, <1>4
<1>7. ticks \in Seq(Tick) /\ Len(ticks) = n
  BY <1>3, <1>5
<1> QED BY <1>3, <1>7 DEF Minute

LEMMA CandlePush == ASSUME CandleInv, push_bar PROVE CandleInv'
<1> DEFINE D == Len(des_candles)
           L == Len(minutes)
           m == compose_mutiple
<1>1. PICK ticks \in MinuteTicks :
        /\ candles_' = Append(candles_, convert_tick2min(ticks))
        /\ minutes' = Append(minutes, ticks) /\ des_candles' = des_candles
  BY DEF push_bar
<1>2. /\ minutes \in Seq(Minute) /\ ticks \in Minute /\ des_candles \in Seq(Bar)
      /\ D \in Nat /\ L \in Nat /\ m \in Nat /\ D * m <= L /\ D * m \in Nat
  BY MinuteType, CandleAssumption DEF CandleInv
<1>3. minutes' \in Seq(Minute) /\ Len(minutes') = L + 1
  BY <1>1, <1>2, AppendProperties
<1> DEFINE b == convert_tick2min(ticks)
<1>4. b \in Bar /\ AllBars \in Seq(Bar) /\ Len(AllBars) = L
  BY <1>2, BarOfMinute, AllBarsType
<1>5. AllBars' = Append(AllBars, b)
  <2>1. AllBars' = [k \in 1..L + 1 |-> convert_tick2min(Append(minutes, ticks)[k])]
    <3>1. DOMAIN Append(minutes, ticks) = 1..L + 1
      BY <1>1, <1>2, <1>3, AppendProperties
    <3> QED BY <1>1, <3>1 DEF AllBars
  <2>2. /\ \A k \in 1..L : Append(minutes, ticks)[k] = minutes[k] /\ AllBars[k] = convert_tick2min(minutes[k])
        /\ Append(minutes, ticks)[L + 1] = ticks
    BY <1>2, AppendProperties, AllBarsType
  <2> DEFINE longer == Append(AllBars, b)
  <2>3. /\ longer \in Seq(Bar) /\ Len(longer) = L + 1
        /\ \A k \in 1..L : longer[k] = AllBars[k] /\ longer[L + 1] = b
    BY <1>4, AppendProperties
  <2>4. longer[L + 1] = b
    BY <1>4, AppendProperties
  <2>5. longer = [k \in 1..L + 1 |-> longer[k]]
    <3> HIDE DEF longer, L
    <3> QED BY <2>3
  <2>6. \A k \in 1..L + 1 : longer[k] = convert_tick2min(Append(minutes, ticks)[k])
    <3>1. \A k \in 1..L + 1 : k \in 1..L \/ k = L + 1
      BY <1>2
    <3> HIDE DEF longer, L
    <3> QED BY <2>2, <2>3, <2>4, <3>1
  <2> HIDE DEF longer, L
  <2> QED BY <2>1, <2>5, <2>6 DEF longer
<1> HIDE DEF b, D, L, m
<1>6. \A k \in 1..D : calculate_specified_period(Append(AllBars, b), (k - 1) * m, m) =
                        calculate_specified_period(AllBars, (k - 1) * m, m)
  <2> SUFFICES ASSUME NEW k \in 1..D
               PROVE  SubSeq(Append(AllBars, b), (k - 1) * m + 1, (k - 1) * m + m) =
                        SubSeq(AllBars, (k - 1) * m + 1, (k - 1) * m + m)
    BY DEF calculate_specified_period
  <2>1. (k - 1) * m \in Nat /\ (k - 1) * m + m <= D * m
    BY <1>2, Multiples
  <2>2. (k - 1) * m + 1 \in Nat \ {0} /\ (k - 1) * m + m \in 0..Len(AllBars)
    <3> DEFINE from == (k - 1) * m
               all == D * m
    <3>1. from \in Nat /\ from + m <= all /\ all \in Nat /\ all <= L /\ m \in Nat /\ L \in Nat
      BY <1>2, <2>1
    <3> HIDE DEF from, all
    <3>2. from + 1 \in Nat \ {0} /\ from + m \in 0..L
      BY <3>1
    <3> QED BY <1>4, <3>2 DEF from
  <2> QED BY <1>4, <2>2, RunStays
<1>7. candles_' = SubSeq(Append(AllBars, b), D * m + 1, L + 1)
  <2>1. candles_ = SubSeq(AllBars, D * m + 1, L)
    BY DEF CandleInv, WaysAgree, D, m, L
  <2>2. D * m + 1 \in 1..Len(AllBars) + 1
    BY <1>2, <1>4
  <2> QED BY <1>1, <1>4, <2>1, <2>2, RunGrows DEF b
<1>8. \A k \in DOMAIN des_candles : des_candles[k] = calculate_specified_period(AllBars, (k - 1) * m, m)
  BY DEF CandleInv, WaysAgree, m
<1>9. WaysAgree'
  <2>1. DOMAIN des_candles = 1..D
    BY <1>2 DEF D
  <2>2. \A k \in DOMAIN des_candles' :
          des_candles'[k] = calculate_specified_period(AllBars', (k - 1) * compose_mutiple, compose_mutiple)
    BY <1>1, <1>5, <1>6, <1>8, <2>1 DEF m
  <2>3. candles_' = SubSeq(AllBars', Len(des_candles') * compose_mutiple + 1, Len(minutes'))
    BY <1>1, <1>3, <1>5, <1>7 DEF m, D
  <2> QED BY <2>2, <2>3 DEF WaysAgree
<1>10. Len(des_candles') * compose_mutiple <= Len(minutes')
  BY <1>1, <1>2, <1>3 DEF D, m
<1> QED BY <1>1, <1>2, <1>3, <1>9, <1>10 DEF CandleInv

LEMMA Division ==
    ASSUME NEW c \in Nat, NEW m \in Nat \ {0}, NEW q, q = c \div m, NEW r, r = c % m
    PROVE  c = q * m + r
BY SMTT(30)

LEMMA Quotient ==
    ASSUME NEW c \in Nat, NEW m \in Nat \ {0}
    PROVE  c \div m \in Nat /\ c % m \in 0..m - 1 /\ c = ((c \div m) * m) + (c % m)
<1>1. c \div m \in Nat
  BY SMTT(30)
<1>2. c % m \in 0..m - 1
  BY SMTT(30)
<1>3. c = ((c \div m) * m) + (c % m)
  BY Division, Zenon
<1> QED BY <1>1, <1>2, <1>3

LEMMA CandleConvert ==
    ASSUME CandleInv, convert_kdata_and_clear(compose_mutiple) PROVE CandleInv'
<1> DEFINE D == Len(des_candles)
           L == Len(minutes)
           m == compose_mutiple
           c == Len(candles_)
           q == c \div m
           r == c % m
           made == [n \in 1..q |-> Compose(Run(candles_, m, n))]
<1>1. /\ m >= 2 /\ c >= m /\ des_candles' = des_candles \o made
      /\ candles_' = SubSeq(candles_, c - r + 1, c) /\ minutes' = minutes
  BY DEF convert_kdata_and_clear, Rest
<1>2. /\ minutes \in Seq(Minute) /\ des_candles \in Seq(Bar) /\ D \in Nat /\ L \in Nat
      /\ m \in Nat /\ D * m <= L /\ D * m \in Nat
      /\ AllBars \in Seq(Bar) /\ Len(AllBars) = L /\ AllBars' = AllBars
  BY <1>1, CandleAssumption, AllBarsType DEF CandleInv, AllBars
<1>3. candles_ = SubSeq(AllBars, D * m + 1, L)
  BY DEF CandleInv, WaysAgree
<1> HIDE DEF made, D, L, m
<1>4. c = L - D * m
  <2>1. Len(SubSeq(AllBars, D * m + 1, Len(AllBars))) = Len(AllBars) - D * m
    BY <1>2, RunOfRest, 1 \in Nat \ {0}, 0 \in 0..Len(AllBars) - D * m
  <2> QED BY <1>2, <1>3, <2>1
<1>5. \A i \in Nat \ {0}, j \in 0..c : SubSeq(candles_, i, j) = SubSeq(AllBars, D * m + i, D * m + j)
  BY <1>2, <1>3, <1>4, RunOfRest
<1>6. c \in Nat /\ m \in Nat \ {0}
  BY <1>1, <1>2, <1>4
<1> HIDE DEF c
<1>7. q \in Nat /\ r \in 0..m - 1 /\ c = q * m + r
  BY <1>6, Quotient
<1> HIDE DEF q, r
<1>8. q * m \in Nat /\ q * m <= c /\ (D + q) * m = D * m + q * m /\ D + q \in Nat
  BY <1>2, <1>6, <1>7
<1>9. ASSUME NEW n \in 1..q
      PROVE  /\ Run(candles_, m, n) = SubSeq(AllBars, (D + n - 1) * m + 1, (D + n - 1) * m + m)
             /\ (D + n - 1) * m \in Nat /\ (D + n - 1) * m + m <= L
  <2> DEFINE before == (n - 1) * m
             base == D * m
             all == q * m
  <2>1. before \in Nat /\ before + m <= all
    BY <1>6, <1>7, Multiples
  <2>2. n * m = before + m /\ (D + n - 1) * m = base + before
    <3>1. n \in Int /\ n - 1 \in Int /\ D + n - 1 = D + (n - 1)
      BY <1>2
    <3>2. (D + (n - 1)) * m = D * m + (n - 1) * m
      BY <1>2, <3>1
    <3>3. n * m = (n - 1) * m + m
      BY <1>2, <3>1
    <3> QED BY <3>1, <3>2, <3>3
  <2>3. base \in Nat /\ all <= c /\ c = L - base /\ L \in Nat /\ m \in Nat /\ c \in Nat /\ all \in Nat
    BY <1>2, <1>4, <1>6, <1>8
  <2> HIDE DEF before, base, all
  <2>4. before + 1 \in Nat \ {0} /\ before + m \in 0..c
    BY <2>1, <2>3
  <2>5. SubSeq(candles_, before + 1, before + m) = SubSeq(AllBars, base + (before + 1), base + (before + m))
    BY <1>5, <2>4 DEF base
  <2>6. base + (before + 1) = (base + before) + 1 /\ base + (before + m) = (base + before) + m
    BY <2>1, <2>3
  <2>7. base + before \in Nat /\ base + before + m <= L
    BY <2>1, <2>3
  <2> QED BY <2>2, <2>5, <2>6, <2>7 DEF Run, before
<1>10. \A n \in 1..q : /\ made[n] = calculate_specified_period(AllBars, (D + n - 1) * m, m)
                       /\ made[n] \in Bar
  <2> SUFFICES ASSUME NEW n \in 1..q
               PROVE  /\ made[n] = calculate_specified_period(AllBars, (D + n - 1) * m, m)
                      /\ made[n] \in Bar
    OBVIOUS
  <2>1. made[n] = Compose(Run(candles_, m, n))
    BY DEF made
  <2>2. made[n] = calculate_specified_period(AllBars, (D + n - 1) * m, m)
    BY <1>9, <2>1 DEF calculate_specified_period
  <2>3. Run(candles_, m, n) \in Seq(Bar) /\ Len(Run(candles_, m, n)) = m
    <3> DEFINE p == (D + n - 1) * m
    <3>1. p \in Nat /\ p + m <= Len(minutes) /\ m \in Nat /\ minutes \in Seq(Minute)
      BY <1>2, <1>9 DEF L
    <3> HIDE DEF p
    <3>2. SubSeq(AllBars, p + 1, p + m) \in Seq(Bar) /\ Len(SubSeq(AllBars, p + 1, p + m)) = m
      BY <3>1, MinutesRun
    <3> QED BY <1>9, <3>2 DEF p
  <2>4. Run(candles_, m, n) # <<>>
    BY <1>6, <2>3
  <2> QED BY <2>1, <2>2, <2>3, <2>4, Composed
<1>11. made \in Seq(Bar) /\ Len(made) = q
  <2>1. made \in [1..q -> Bar]
    BY <1>10 DEF made
  <2> QED BY <1>7, <2>1
<1>12. /\ des_candles' \in Seq(Bar) /\ Len(des_candles') = D + q
       /\ \A k \in 1..D + q : des_candles'[k] = IF k <= D THEN des_candles[k] ELSE made[k - D]
  BY <1>1, <1>2, <1>11, ConcatProperties DEF D
<1>13. \A k \in 1..D + q : des_candles'[k] = calculate_specified_period(AllBars, (k - 1) * m, m)
  <2> SUFFICES ASSUME NEW k \in 1..D + q
               PROVE  des_candles'[k] = calculate_specified_period(AllBars, (k - 1) * m, m)
    OBVIOUS
  <2>1. CASE k <= D
    <3>1. k \in DOMAIN des_candles
      BY <1>2, <2>1 DEF D
    <3>2. des_candles[k] = calculate_specified_period(AllBars, (k - 1) * m, m)
      BY <3>1 DEF CandleInv, WaysAgree, m
    <3> QED BY <1>12, <2>1, <3>2
  <2>2. CASE ~(k <= D)
    <3>1. k - D \in 1..q /\ D + (k - D) - 1 = k - 1
      BY <1>2, <1>7, <2>2
    <3>2. made[k - D] = calculate_specified_period(AllBars, (D + (k - D) - 1) * m, m)
      BY <1>10, <3>1
    <3> QED BY <1>12, <2>2, <3>1, <3>2
  <2> QED BY <2>1, <2>2
<1>14. candles_' = SubSeq(AllBars, (D + q) * m + 1, L)
  <2> DEFINE base == D * m
             all == q * m
  <2>1. base \in Nat /\ c = L - base /\ c = all + r /\ all \in Nat /\ r \in Nat /\ L \in Nat
        /\ (D + q) * m = base + all
    BY <1>2, <1>4, <1>7, <1>8
  <2> HIDE DEF base, all
  <2>2. c - r + 1 \in Nat \ {0} /\ c \in 0..c /\ base + (c - r + 1) = (base + all) + 1 /\ base + c = L
    BY <2>1
  <2>3. SubSeq(candles_, c - r + 1, c) = SubSeq(AllBars, base + (c - r + 1), base + c)
    BY <1>5, <2>2 DEF base
  <2> QED BY <1>1, <2>1, <2>2, <2>3 DEF c, r
<1>15. (D + q) * m <= L
  <2> DEFINE base == D * m
             all == q * m
  <2>1. base \in Nat /\ c = L - base /\ all <= c /\ all \in Nat /\ L \in Nat /\ (D + q) * m = base + all
    BY <1>2, <1>4, <1>8
  <2> HIDE DEF base, all
  <2> QED BY <2>1
<1>16. WaysAgree'
  <2>1. DOMAIN des_candles' = 1..D + q
    BY <1>12
  <2> QED BY <1>1, <1>2, <1>12, <1>13, <1>14, <2>1 DEF WaysAgree, m, L
<1> QED BY <1>1, <1>2, <1>12, <1>15, <1>16 DEF CandleInv, m, L

\* Every minute keeps its ticks, every bar its type, and the conversions
\* never run ahead of the minutes.
THEOREM CandlesInvariant == Spec => []CandleInv
<1>1. CandleInv /\ [Next]_vars => CandleInv'
  <2> SUFFICES ASSUME CandleInv, [Next]_vars PROVE CandleInv'
    OBVIOUS
  <2>1. CASE UNCHANGED vars
    BY <2>1 DEF vars, CandleInv, WaysAgree, AllBars
  <2> QED BY <2>1, CandlePush, CandleConvert DEF Next
<1> QED BY <1>1, CandleInit, PTL DEF Spec

\* Converting the minutes' bars and clearing them (convert_kdata_and_clear),
\* however often, makes the bars calculate_specified_period would, of every
\* minute once, for any number of minutes a bar.
THEOREM WaysAlwaysAgree == Spec => []WaysAgree
<1>1. CandleInv => WaysAgree
  BY DEF CandleInv
<1> QED BY <1>1, CandlesInvariant, PTL

\* However long the day and however many ticks its minutes have, a longer bar
\* opens and closes with its ticks and keeps to their prices, and what it
\* lacks of their turnover is what each later minute's first tick brought.
THEOREM LongerBarsOfTicks == Spec => []ComposedFromTicks
<1>1. CandleInv => ComposedFromTicks
  BY LongerBar DEF CandleInv
<1> QED BY <1>1, CandlesInvariant, PTL
=============================================================================
