------------------------ MODULE MovingAverageProofs ------------------------
(***************************************************************************)
(* What holds of CMovingAverage's signals for any prices, and of the       *)
(* indicator thread on them: no signal looks ahead, either half of a loop  *)
(* mirrors the other, and the thread implements MaStrategy, whose theorems *)
(* it thereby gets.                                                        *)
(***************************************************************************)
EXTENDS MovingAverage, SequenceTheorems, TLAPS

-----------------------------------------------------------------------------
(* The parameters                                                          *)

LEMMA Parameters ==
    /\ Len(period_cycle) = 3 /\ Pairs = 2..3 /\ period_max = 4
    /\ period_cycle[1] = 2 /\ period_cycle[2] = 3 /\ period_cycle[3] = 4
    /\ minor(2) = 2 /\ major(2) = 3 /\ minor(3) = 3 /\ major(3) = 4
<1>1. /\ Len(period_cycle) = 3 /\ DOMAIN period_cycle = 1..3
      /\ period_cycle[1] = 2 /\ period_cycle[2] = 3 /\ period_cycle[3] = 4
  BY DEF period_cycle
<1>2. {period_cycle[i] : i \in DOMAIN period_cycle} = {2, 3, 4}
  BY <1>1
<1>3. Max({2, 3, 4}) = 4
  BY DEF Max
<1>4. Max({2, 3}) = 3 /\ Max({3, 4}) = 4 /\ Min({2, 3}) = 2 /\ Min({3, 4}) = 3
  BY DEF Max, Min
<1> QED BY <1>1, <1>2, <1>3, <1>4 DEF Pairs, period_max, minor, major

Periods == {2, 3, 4}

-----------------------------------------------------------------------------
(* Averages without recursion                                              *)

LEMMA PriceType == ASSUME NEW prices \in Seq(Int), NEW k \in Int
                   PROVE  get_price(prices, k) \in Int
BY DEF get_price

\* The equation of get_ma's recursive function has a solution,
LEMMA SumsExist ==
    ASSUME NEW a \in [1..4 -> Int], NEW p \in Periods
    PROVE  \E sum : sum = [j \in 0..p |-> IF j = 0 THEN 0 ELSE sum[j - 1] + a[j]]
<1> DEFINE sum == [j \in 0..p |-> CASE j = 0 -> 0 [] j = 1 -> a[1] [] j = 2 -> a[1] + a[2]
                     [] j = 3 -> a[1] + a[2] + a[3] [] OTHER -> a[1] + a[2] + a[3] + a[4]]
<1>1. a[1] \in Int /\ a[2] \in Int /\ a[3] \in Int /\ a[4] \in Int /\ p \in 2..4
  BY DEF Periods
<1>2. \A j \in 0..p : sum[j] = IF j = 0 THEN 0 ELSE sum[j - 1] + a[j]
  BY <1>1
<1>3. sum = [j \in 0..p |-> IF j = 0 THEN 0 ELSE sum[j - 1] + a[j]]
  BY SMTT(60), <1>2
<1> QED BY <1>3

\* and that is what get_ma takes.
LEMMA Unfolded ==
    ASSUME NEW prices \in Seq(Int), NEW k \in Int, NEW p \in Periods
    PROVE  \E ma_data \in [0..p -> Int] :
              /\ get_ma(prices, k, p) = (Scale \div p) * ma_data[p] /\ ma_data[0] = 0
              /\ \A j \in 1..p : ma_data[j] = ma_data[j - 1] + get_price(prices, k - j + 1)
<1> DEFINE a == [j \in 1..4 |-> get_price(prices, k - j + 1)]
           ma_data == CHOOSE f : f = [j \in 0..p |-> IF j = 0 THEN 0
                                         ELSE f[j - 1] + get_price(prices, k - j + 1)]
<1>1. a \in [1..4 -> Int]
  BY PriceType
<1>2. p \in 2..4
  BY DEF Periods
<1>3. ma_data = [j \in 0..p |-> IF j = 0 THEN 0 ELSE ma_data[j - 1] + get_price(prices, k - j + 1)]
  <2>1. PICK sum : sum = [j \in 0..p |-> IF j = 0 THEN 0 ELSE sum[j - 1] + a[j]]
    BY <1>1, SumsExist
  <2>2. \A j \in 0..p : j # 0 => a[j] = get_price(prices, k - j + 1)
    BY <1>2
  <2> HIDE DEF a
  <2>3. sum = [j \in 0..p |-> IF j = 0 THEN 0 ELSE sum[j - 1] + get_price(prices, k - j + 1)]
    BY <2>1, <2>2
  <2> QED BY <2>3
<1>4. get_ma(prices, k, p) = (Scale \div p) * ma_data[p]
  BY DEF get_ma
<1> HIDE DEF ma_data
<1>5. /\ ma_data[0] = 0
      /\ \A j \in 1..p : ma_data[j] = ma_data[j - 1] + a[j]
  BY <1>2, <1>3
<1>6. \A j \in 0..p : ma_data[j] \in Int
  <2> HIDE DEF a
  <2>1. ma_data[0] \in Int /\ ma_data[1] \in Int /\ ma_data[2] \in Int
    BY <1>1, <1>2, <1>5
  <2>2. (p >= 3 => ma_data[3] \in Int) /\ (p = 4 => ma_data[4] \in Int)
    BY SMTT(60), <1>1, <1>2, <1>5, <2>1
  <2> QED BY <1>2, <2>1, <2>2
<1>7. ma_data \in [0..p -> Int]
  BY <1>3, <1>6
<1>8. \A j \in 1..p : a[j] = get_price(prices, k - j + 1)
  BY <1>2
<1> QED BY <1>4, <1>5, <1>7, <1>8

\* So an average is a sum, times a number.
Last4(prices, k, a) == \A j \in 0..3 : a[j] = get_price(prices, k - j)
Averaged(prices, k, a) ==
    /\ get_ma(prices, k, 2) = 12 * (a[0] + a[1])
    /\ get_ma(prices, k, 3) = 8 * (a[0] + a[1] + a[2])
    /\ get_ma(prices, k, 4) = 6 * (a[0] + a[1] + a[2] + a[3])

LEMMA Averages ==
    ASSUME NEW prices \in Seq(Int), NEW k \in Int
    PROVE  \E a \in [0..3 -> Int] : Last4(prices, k, a) /\ Averaged(prices, k, a)
<1> DEFINE a == [j \in 0..3 |-> get_price(prices, k - j)]
<1>1. /\ a \in [0..3 -> Int] /\ \A j \in 0..3 : a[j] = get_price(prices, k - j)
      /\ \A j \in 0..3 : get_price(prices, k - (j + 1) + 1) = a[j]
  BY SMTT(60), PriceType
<1>2. Scale = 24 /\ Scale \div 2 = 12 /\ Scale \div 3 = 8 /\ Scale \div 4 = 6
  BY DEF Scale
<1> HIDE DEF a
<1>3. get_ma(prices, k, 2) = 12 * (a[0] + a[1])
  <2>1. PICK ma \in [0..2 -> Int] :
           /\ get_ma(prices, k, 2) = (Scale \div 2) * ma[2] /\ ma[0] = 0
           /\ \A j \in 1..2 : ma[j] = ma[j - 1] + get_price(prices, k - j + 1)
    BY Unfolded DEF Periods
  <2>2. ma[1] = a[0] /\ ma[2] = ma[1] + a[1]
    BY <1>1, <2>1
  <2> QED BY <1>2, <2>1, <2>2
<1>4. get_ma(prices, k, 3) = 8 * (a[0] + a[1] + a[2])
  <2>1. PICK ma \in [0..3 -> Int] :
           /\ get_ma(prices, k, 3) = (Scale \div 3) * ma[3] /\ ma[0] = 0
           /\ \A j \in 1..3 : ma[j] = ma[j - 1] + get_price(prices, k - j + 1)
    BY Unfolded DEF Periods
  <2>2. ma[1] = a[0] /\ ma[2] = ma[1] + a[1] /\ ma[3] = ma[2] + a[2]
    BY <1>1, <2>1
  <2> QED BY <1>2, <2>1, <2>2
<1>5. get_ma(prices, k, 4) = 6 * (a[0] + a[1] + a[2] + a[3])
  <2>1. PICK ma \in [0..4 -> Int] :
           /\ get_ma(prices, k, 4) = (Scale \div 4) * ma[4] /\ ma[0] = 0
           /\ \A j \in 1..4 : ma[j] = ma[j - 1] + get_price(prices, k - j + 1)
    BY Unfolded DEF Periods
  <2>2. ma[1] = a[0] /\ ma[2] = ma[1] + a[1] /\ ma[3] = ma[2] + a[2] /\ ma[4] = ma[3] + a[3]
    BY <1>1, <2>1
  <2> QED BY <1>2, <2>1, <2>2
<1>6. Last4(prices, k, a)
  BY <1>1 DEF Last4
<1>7. Averaged(prices, k, a)
  BY <1>3, <1>4, <1>5 DEF Averaged
<1> QED BY <1>1, <1>6, <1>7

-----------------------------------------------------------------------------
(* The signals' loops, pass by pass                                        *)

Fork == {"gold", "dead"}
Signal == Fork \union {"nothing"}

\* An average does not both rise and fall.
LEMMA AverageType ==
    ASSUME NEW prices \in Seq(Int), NEW k \in Int, NEW p \in Periods
    PROVE  /\ get_ma(prices, k, p) \in Int /\ get_ma(prices, k - 1, p) \in Int
           /\ ~(Rises(prices, k, p) /\ Falls(prices, k, p))
<1>1. \A n \in Int : get_ma(prices, n, p) \in Int
  <2> SUFFICES ASSUME NEW n \in Int PROVE get_ma(prices, n, p) \in Int
    OBVIOUS
  <2>1. PICK a \in [0..3 -> Int] : Last4(prices, n, a) /\ Averaged(prices, n, a)
    BY Averages
  <2>2. a[0] \in Int /\ a[1] \in Int /\ a[2] \in Int /\ a[3] \in Int
    OBVIOUS
  <2>3. get_ma(prices, n, 2) \in Int /\ get_ma(prices, n, 3) \in Int /\ get_ma(prices, n, 4) \in Int
    BY SMTT(60), <2>1, <2>2 DEF Averaged
  <2> QED BY <2>3 DEF Periods
<1>2. get_ma(prices, k, p) \in Int /\ get_ma(prices, k - 1, p) \in Int
  BY <1>1
<1> QED BY <1>2 DEF Rises, Falls

LEMMA OneCrossing ==
    ASSUME NEW prices \in Seq(Int), NEW k \in Int, NEW i \in Pairs
    PROVE  ~(CrossesUp(prices, k, i) /\ CrossesDown(prices, k, i))
<1>1. minor(i) \in Periods
  BY Parameters DEF Periods
<1> QED BY <1>1, AverageType DEF CrossesUp, CrossesDown

\* What the pass for pair i decides.
LEMMA PairCases ==
    ASSUME NEW prices \in Seq(Int), NEW k \in Int, NEW i \in Pairs
    PROVE  PairSignal(prices, k, i) =
              IF ~Both(prices, k, minor(i)) \/ ~Both(prices, k, major(i)) THEN "nothing"
              ELSE IF CrossesUp(prices, k, i)
              THEN IF i = 3 THEN "gold" ELSE IF ~Both(prices, k, 4) THEN "nothing"
                   ELSE IF Rises(prices, k, 4) THEN "gold" ELSE "next"
              ELSE IF CrossesDown(prices, k, i)
              THEN IF i = 3 THEN "dead" ELSE IF ~Both(prices, k, 4) THEN "nothing"
                   ELSE IF Falls(prices, k, 4) THEN "dead" ELSE "next"
              ELSE "next"
<1> DEFINE up == {l \in i + 1..Len(period_cycle) :
                    Both(prices, k, period_cycle[l]) => Rises(prices, k, period_cycle[l])}
           down == {l \in i + 1..Len(period_cycle) :
                    Both(prices, k, period_cycle[l]) => Falls(prices, k, period_cycle[l])}
           Stop(stop, fork) == IF i = Len(period_cycle) THEN fork ELSE IF stop = {} THEN "next"
                               ELSE IF Both(prices, k, period_cycle[Min(stop)]) THEN fork ELSE "nothing"
<1>1. PairSignal(prices, k, i) =
         IF ~Both(prices, k, minor(i)) \/ ~Both(prices, k, major(i)) THEN "nothing"
         ELSE CASE CrossesUp(prices, k, i) -> Stop(up, "gold")
                [] CrossesDown(prices, k, i) -> Stop(down, "dead") [] OTHER -> "next"
  BY DEF PairSignal, Follows
<1>2. i \in {2, 3} /\ Min({3}) = 3
  BY Parameters DEF Min
<1>3. i = 2 => /\ up = IF Both(prices, k, 4) => Rises(prices, k, 4) THEN {3} ELSE {}
               /\ down = IF Both(prices, k, 4) => Falls(prices, k, 4) THEN {3} ELSE {}
  BY Parameters
<1> HIDE DEF up, down
<1>4. /\ Stop(up, "gold") = IF i = 3 THEN "gold" ELSE IF ~Both(prices, k, 4) THEN "nothing"
                            ELSE IF Rises(prices, k, 4) THEN "gold" ELSE "next"
      /\ Stop(down, "dead") = IF i = 3 THEN "dead" ELSE IF ~Both(prices, k, 4) THEN "nothing"
                              ELSE IF Falls(prices, k, 4) THEN "dead" ELSE "next"
  BY <1>2, <1>3, Parameters
<1> HIDE DEF Stop
<1> QED BY <1>1, <1>4, OneCrossing

\* The first pass that decides is the one that counts.
LEMMA ForkCases ==
    ASSUME NEW prices, NEW k
    PROVE  get_fork_signal(prices, k) =
              IF k <= 0 THEN "nothing"
              ELSE IF PairSignal(prices, k, 2) # "next" THEN PairSignal(prices, k, 2)
              ELSE IF PairSignal(prices, k, 3) # "next" THEN PairSignal(prices, k, 3)
              ELSE "nothing"
<1> DEFINE decided == {i \in Pairs : PairSignal(prices, k, i) # "next"}
<1>1. Min({2}) = 2 /\ Min({3}) = 3 /\ Min({2, 3}) = 2
  BY DEF Min
<1>2. decided = IF PairSignal(prices, k, 2) # "next"
                THEN IF PairSignal(prices, k, 3) # "next" THEN {2, 3} ELSE {2}
                ELSE IF PairSignal(prices, k, 3) # "next" THEN {3} ELSE {}
  BY Parameters
<1>3. get_fork_signal(prices, k) =
         IF k <= 0 \/ decided = {} THEN "nothing" ELSE PairSignal(prices, k, Min(decided))
  BY DEF get_fork_signal
<1> HIDE DEF decided
<1> QED BY <1>1, <1>2, <1>3

LEMMA SignalType == \A prices \in Seq(Int), k \in Int : get_fork_signal(prices, k) \in Signal
<1>1. \A prices \in Seq(Int), k \in Int : \A i \in Pairs :
         PairSignal(prices, k, i) \in Signal \union {"next"}
  BY PairCases DEF Signal, Fork
<1> QED BY <1>1, ForkCases, Parameters DEF Signal, Fork

LEMMA TrendCases ==
    ASSUME NEW prices, NEW k
    PROVE  get_trend_signal(prices, k) =
              IF k > 0 /\ \A p \in Periods : Both(prices, k, p)
              THEN Trend(prices, k, 3, Trend(prices, k, 2, "nothing")) ELSE "nothing"
<1> DEFINE trend_direct == CHOOSE f : f = [i \in 1..Len(period_cycle) |->
                              IF i = 1 THEN "nothing" ELSE Trend(prices, k, i, f[i - 1])]
<1>1. get_trend_signal(prices, k) =
         IF k > 0 /\ \A i \in Pairs : Both(prices, k, minor(i)) /\ Both(prices, k, major(i))
         THEN trend_direct[Len(period_cycle)] ELSE "nothing"
  BY DEF get_trend_signal
<1>2. (\A i \in Pairs : Both(prices, k, minor(i)) /\ Both(prices, k, major(i)))
         <=> (\A p \in Periods : Both(prices, k, p))
  BY Parameters DEF Periods
<1>3. trend_direct = [i \in 1..3 |-> IF i = 1 THEN "nothing" ELSE Trend(prices, k, i, trend_direct[i - 1])]
  <2> DEFINE f == [i \in 1..3 |-> CASE i = 1 -> "nothing" [] i = 2 -> Trend(prices, k, 2, "nothing")
                                    [] OTHER -> Trend(prices, k, 3, Trend(prices, k, 2, "nothing"))]
  <2>1. \A i \in 1..3 : f[i] = IF i = 1 THEN "nothing" ELSE Trend(prices, k, i, f[i - 1])
    <3>1. f[1] = "nothing" /\ f[2] = Trend(prices, k, 2, f[1]) /\ f[3] = Trend(prices, k, 3, f[2])
      OBVIOUS
    <3> HIDE DEF f
    <3> QED BY <3>1
  <2>2. f = [i \in 1..3 |-> IF i = 1 THEN "nothing" ELSE Trend(prices, k, i, f[i - 1])]
    BY <2>1
  <2> QED BY <2>2, Parameters
<1> HIDE DEF trend_direct
<1>4. trend_direct[3] = Trend(prices, k, 3, Trend(prices, k, 2, "nothing"))
  <2>1. trend_direct[1] = "nothing" /\ trend_direct[2] = Trend(prices, k, 2, trend_direct[1])
        /\ trend_direct[3] = Trend(prices, k, 3, trend_direct[2])
    BY <1>3
  <2> QED BY <2>1
<1> QED BY <1>1, <1>2, <1>4, Parameters

-----------------------------------------------------------------------------
(* No look ahead: signals depend on the averages, and the averages up to   *)
(* bar k on the prices up to bar k.                                        *)

LEMMA SameAverages ==
    ASSUME NEW a \in Seq(Int), NEW b \in Seq(Int), NEW k \in Int,
           \A p \in Periods : /\ Both(a, k, p) <=> Both(b, k, p)
                              /\ get_ma(a, k, p) = get_ma(b, k, p)
                              /\ get_ma(a, k - 1, p) = get_ma(b, k - 1, p)
    PROVE  /\ get_fork_signal(a, k) = get_fork_signal(b, k)
           /\ get_trend_signal(a, k) = get_trend_signal(b, k)
<1>1. \A i \in Pairs : minor(i) \in Periods /\ major(i) \in Periods
  BY Parameters DEF Periods
<1>2. \A p \in Periods : (Rises(a, k, p) <=> Rises(b, k, p)) /\ (Falls(a, k, p) <=> Falls(b, k, p))
  BY DEF Rises, Falls
<1>3. \A i \in Pairs : /\ CrossesUp(a, k, i) <=> CrossesUp(b, k, i)
                       /\ CrossesDown(a, k, i) <=> CrossesDown(b, k, i)
                       /\ Upward(a, k, i) <=> Upward(b, k, i)
                       /\ Downward(a, k, i) <=> Downward(b, k, i)
  BY <1>1, <1>2 DEF CrossesUp, CrossesDown, Upward, Downward, Gap
<1>4. \A i \in Pairs : PairSignal(a, k, i) = PairSignal(b, k, i)
  <2> SUFFICES ASSUME NEW i \in Pairs PROVE PairSignal(a, k, i) = PairSignal(b, k, i)
    OBVIOUS
  <2>1. 4 \in Periods
    BY DEF Periods
  <2> QED BY <1>1, <1>2, <1>3, <2>1, PairCases
<1>5. get_fork_signal(a, k) = get_fork_signal(b, k)
  BY <1>4, ForkCases, Parameters
<1>6. \A direct : \A i \in Pairs : Trend(a, k, i, direct) = Trend(b, k, i, direct)
  BY <1>3 DEF Trend
<1>7. get_trend_signal(a, k) = get_trend_signal(b, k)
  BY <1>6, TrendCases, Parameters
<1> QED BY <1>5, <1>7

LEMMA OneMore ==
    ASSUME NEW prices \in Seq(Int), NEW price \in Int, NEW k \in Int, k < Len(prices)
    PROVE  /\ get_fork_signal(Append(prices, price), k) = get_fork_signal(prices, k)
           /\ get_trend_signal(Append(prices, price), k) = get_trend_signal(prices, k)
<1> DEFINE longer == Append(prices, price)
<1>1. /\ longer \in Seq(Int) /\ Len(longer) = Len(prices) + 1 /\ Len(prices) \in Nat
      /\ \A j \in 1..Len(prices) : longer[j] = prices[j]
  BY AppendProperties
<1> HIDE DEF longer
<1>2. \A j \in Int : j < Len(prices) => get_price(longer, j) = get_price(prices, j)
  BY <1>1 DEF get_price
<1>3. ASSUME NEW n \in Int, n < Len(prices)
      PROVE  \A p \in Periods : get_ma(longer, n, p) = get_ma(prices, n, p)
  <2>1. \A j \in 0..3 : get_price(longer, n - j) = get_price(prices, n - j)
    BY <1>1, <1>2, <1>3
  <2>2. PICK a \in [0..3 -> Int] : Last4(prices, n, a) /\ Averaged(prices, n, a)
    BY Averages
  <2>3. PICK b \in [0..3 -> Int] : Last4(longer, n, b) /\ Averaged(longer, n, b)
    BY <1>1, Averages
  <2>4. a[0] = b[0] /\ a[1] = b[1] /\ a[2] = b[2] /\ a[3] = b[3]
    BY <2>1, <2>2, <2>3 DEF Last4
  <2>5. /\ get_ma(longer, n, 2) = get_ma(prices, n, 2)
        /\ get_ma(longer, n, 3) = get_ma(prices, n, 3)
        /\ get_ma(longer, n, 4) = get_ma(prices, n, 4)
    BY <2>2, <2>3, <2>4 DEF Averaged
  <2> QED BY <2>5 DEF Periods
<1>4. \A p \in Periods : Both(longer, k, p) <=> Both(prices, k, p)
  BY <1>1 DEF Both, CanCalculate
<1>5. \A p \in Periods : /\ get_ma(longer, k, p) = get_ma(prices, k, p)
                         /\ get_ma(longer, k - 1, p) = get_ma(prices, k - 1, p)
  BY SMTT(60), <1>1, <1>3
<1> QED BY <1>1, <1>4, <1>5, SameAverages DEF longer

-----------------------------------------------------------------------------
(* Upside down                                                             *)

LEMMA OppositeAverages ==
    ASSUME NEW a \in Seq(Int), NEW b \in Seq(Int), NEW k \in Int, NEW c \in Int,
           \A p \in Periods : /\ Both(a, k, p) <=> Both(b, k, p)
                              /\ Both(a, k, p) => /\ get_ma(b, k, p) = c - get_ma(a, k, p)
                                                  /\ get_ma(b, k - 1, p) = c - get_ma(a, k - 1, p)
    PROVE  /\ get_fork_signal(b, k) = Opposite(get_fork_signal(a, k))
           /\ get_trend_signal(b, k) = Opposite(get_trend_signal(a, k))
<1>1. \A i \in Pairs : minor(i) \in Periods /\ major(i) \in Periods
  BY Parameters DEF Periods
<1>2. \A p \in Periods : get_ma(a, k, p) \in Int /\ get_ma(a, k - 1, p) \in Int
  BY AverageType
<1>3. \A p \in Periods : Both(a, k, p) => /\ Rises(b, k, p) <=> Falls(a, k, p)
                                          /\ Falls(b, k, p) <=> Rises(a, k, p)
  BY <1>2 DEF Rises, Falls
<1>4. ASSUME NEW i \in Pairs, Both(a, k, minor(i)), Both(a, k, major(i))
      PROVE  /\ CrossesUp(b, k, i) <=> CrossesDown(a, k, i)
             /\ CrossesDown(b, k, i) <=> CrossesUp(a, k, i)
             /\ Upward(b, k, i) <=> Downward(a, k, i)
             /\ Downward(b, k, i) <=> Upward(a, k, i)
  <2>1. /\ get_ma(a, k, minor(i)) \in Int /\ get_ma(a, k - 1, minor(i)) \in Int
        /\ get_ma(a, k, major(i)) \in Int /\ get_ma(a, k - 1, major(i)) \in Int
        /\ get_ma(b, k, minor(i)) = c - get_ma(a, k, minor(i))
        /\ get_ma(b, k - 1, minor(i)) = c - get_ma(a, k - 1, minor(i))
        /\ get_ma(b, k, major(i)) = c - get_ma(a, k, major(i))
        /\ get_ma(b, k - 1, major(i)) = c - get_ma(a, k - 1, major(i))
    BY <1>1, <1>2, <1>4
  <2>2. CrossesUp(b, k, i) <=> CrossesDown(a, k, i)
    BY <1>1, <1>3, <1>4, <2>1 DEF CrossesUp, CrossesDown
  <2>3. CrossesDown(b, k, i) <=> CrossesUp(a, k, i)
    BY <1>1, <1>3, <1>4, <2>1 DEF CrossesUp, CrossesDown
  <2>4. Upward(b, k, i) <=> Downward(a, k, i)
    BY <1>1, <1>3, <1>4, <2>1 DEF Upward, Downward, Gap
  <2>5. Downward(b, k, i) <=> Upward(a, k, i)
    BY <1>1, <1>3, <1>4, <2>1 DEF Upward, Downward, Gap
  <2> QED BY <2>2, <2>3, <2>4, <2>5
<1>5. ASSUME NEW i \in Pairs
      PROVE  /\ PairSignal(a, k, i) \in Signal \union {"next"}
             /\ PairSignal(b, k, i) = IF PairSignal(a, k, i) = "next" THEN "next"
                                      ELSE Opposite(PairSignal(a, k, i))
  <2>1. 4 \in Periods
    BY DEF Periods
  <2>2. CASE Both(a, k, minor(i)) /\ Both(a, k, major(i))
    BY <1>1, <1>3, <1>4, <2>1, <2>2, OneCrossing, PairCases DEF Opposite, Signal, Fork
  <2>3. CASE ~(Both(a, k, minor(i)) /\ Both(a, k, major(i)))
    BY <1>1, <2>3, PairCases DEF Opposite, Signal, Fork
  <2> QED BY <2>2, <2>3
<1>6. get_fork_signal(b, k) = Opposite(get_fork_signal(a, k))
  BY <1>5, ForkCases, Parameters DEF Opposite, Signal, Fork
<1>7. ASSUME \A p \in Periods : Both(a, k, p), NEW i \in Pairs,
             NEW direct \in {"long", "short", "nothing"}
      PROVE  /\ Trend(a, k, i, direct) \in {"long", "short", "nothing"}
             /\ Trend(b, k, i, Opposite(direct)) = Opposite(Trend(a, k, i, direct))
  <2>1. ~(Upward(a, k, i) /\ Downward(a, k, i))
    BY <1>1, AverageType DEF Upward, Downward
  <2>2. (Upward(b, k, i) <=> Downward(a, k, i)) /\ (Downward(b, k, i) <=> Upward(a, k, i))
    BY <1>1, <1>4, <1>7
  <2> QED BY <2>1, <2>2 DEF Trend, Opposite
<1>8. get_trend_signal(b, k) = Opposite(get_trend_signal(a, k))
  <2>1. CASE k > 0 /\ \A p \in Periods : Both(a, k, p)
    <3>1. "nothing" = Opposite("nothing")
      BY DEF Opposite
    <3>2. /\ Trend(a, k, 2, "nothing") \in {"long", "short", "nothing"}
          /\ Trend(b, k, 2, "nothing") = Opposite(Trend(a, k, 2, "nothing"))
      BY <2>1, <3>1, <1>7, Parameters
    <3>3. Trend(b, k, 3, Trend(b, k, 2, "nothing")) = Opposite(Trend(a, k, 3, Trend(a, k, 2, "nothing")))
      BY <2>1, <3>2, <1>7, Parameters
    <3> QED BY <2>1, <3>3, TrendCases
  <2>2. CASE ~(k > 0 /\ \A p \in Periods : Both(a, k, p))
    BY <2>2, TrendCases DEF Opposite
  <2> QED BY <2>1, <2>2
<1> QED BY <1>6, <1>8

\* Averages of mirrored prices.
LEMMA TurnedSums ==
    ASSUME NEW a \in [0..3 -> Int], NEW b \in [0..3 -> Int], NEW axis \in Int,
           b[0] = 2 * axis - a[0], b[1] = 2 * axis - a[1]
    PROVE  /\ 12 * (b[0] + b[1]) = 48 * axis - 12 * (a[0] + a[1])
           /\ b[2] = 2 * axis - a[2] =>
                8 * (b[0] + b[1] + b[2]) = 48 * axis - 8 * (a[0] + a[1] + a[2])
           /\ b[2] = 2 * axis - a[2] /\ b[3] = 2 * axis - a[3] =>
                6 * (b[0] + b[1] + b[2] + b[3]) = 48 * axis - 6 * (a[0] + a[1] + a[2] + a[3])
<1>1. a[0] \in Int /\ a[1] \in Int /\ a[2] \in Int /\ a[3] \in Int
  OBVIOUS
<1> QED BY <1>1

LEMMA UpsideDown ==
    ASSUME NEW prices \in Seq(Int), NEW axis \in Int, NEW k \in Int
    PROVE  /\ get_fork_signal(Mirror(prices, axis), k) = Opposite(get_fork_signal(prices, k))
           /\ get_trend_signal(Mirror(prices, axis), k) = Opposite(get_trend_signal(prices, k))
<1> DEFINE upside_down == Mirror(prices, axis)
<1>1. /\ upside_down \in Seq(Int) /\ Len(upside_down) = Len(prices) /\ Len(prices) \in Nat
      /\ \A j \in 1..Len(prices) : upside_down[j] = 2 * axis - prices[j] /\ prices[j] \in Int
  <2>1. Len(prices) \in Nat /\ prices \in [1..Len(prices) -> Int]
    OBVIOUS
  <2>2. upside_down \in [1..Len(prices) -> Int]
    BY <2>1 DEF Mirror
  <2>3. upside_down \in Seq(Int) /\ Len(upside_down) = Len(prices)
    <3> HIDE DEF upside_down
    <3> QED BY <2>1, <2>2
  <2> QED BY <2>1, <2>3 DEF Mirror
<1> HIDE DEF upside_down
<1>2. \A j \in 0..Len(prices) - 1 : /\ get_price(upside_down, j) = 2 * axis - get_price(prices, j)
                                  /\ get_price(prices, j) \in Int
  BY <1>1 DEF get_price
<1>3. ASSUME NEW n \in Int, NEW p \in Periods, CanCalculate(prices, n, p)
      PROVE  get_ma(upside_down, n, p) = 48 * axis - get_ma(prices, n, p)
  <2>1. n < Len(prices) /\ p <= n + 1 /\ p \in {2, 3, 4}
    BY <1>3 DEF CanCalculate, Periods
  <2>2. PICK a \in [0..3 -> Int] : Last4(prices, n, a) /\ Averaged(prices, n, a)
    BY Averages
  <2>3. PICK b \in [0..3 -> Int] : Last4(upside_down, n, b) /\ Averaged(upside_down, n, b)
    BY <1>1, Averages
  <2>4. a[0] \in Int /\ a[1] \in Int /\ a[2] \in Int /\ a[3] \in Int
    OBVIOUS
  <2>5. ASSUME NEW j \in 0..3, j < p PROVE b[j] = 2 * axis - a[j]
    <3>1. n \in Nat /\ p - 1 <= n /\ Len(prices) \in Nat /\ j \in Int /\ p \in Int
      BY <1>1, <1>3, <2>1 DEF CanCalculate
    <3>2. n - j \in 0..Len(prices) - 1
      BY <2>1, <2>5, <3>1
    <3>3. get_price(upside_down, n - j) = 2 * axis - get_price(prices, n - j)
      BY <1>2, <3>2
    <3> QED BY <2>2, <2>3, <3>3 DEF Last4
  <2>6. b[0] = 2 * axis - a[0] /\ b[1] = 2 * axis - a[1]
    <3>1. 0 \in 0..3 /\ 1 \in 0..3 /\ 0 < p /\ 1 < p
      BY <1>3 DEF Periods
    <3> QED BY <2>5, <3>1, Zenon
  <2>7. /\ 12 * (b[0] + b[1]) = 48 * axis - 12 * (a[0] + a[1])
        /\ b[2] = 2 * axis - a[2] =>
             8 * (b[0] + b[1] + b[2]) = 48 * axis - 8 * (a[0] + a[1] + a[2])
        /\ b[2] = 2 * axis - a[2] /\ b[3] = 2 * axis - a[3] =>
             6 * (b[0] + b[1] + b[2] + b[3]) = 48 * axis - 6 * (a[0] + a[1] + a[2] + a[3])
    BY <2>6, TurnedSums, Zenon
  <2>8. get_ma(upside_down, n, 2) = 48 * axis - get_ma(prices, n, 2)
    BY <2>2, <2>3, <2>7, Zenon DEF Averaged
  <2>9. p >= 3 => get_ma(upside_down, n, 3) = 48 * axis - get_ma(prices, n, 3)
    <3> SUFFICES ASSUME p >= 3 PROVE get_ma(upside_down, n, 3) = 48 * axis - get_ma(prices, n, 3)
      OBVIOUS
    <3>1. 2 \in 0..3 /\ 2 < p
      BY <1>3 DEF Periods
    <3>2. b[2] = 2 * axis - a[2]
      BY <2>5, <3>1, Zenon
    <3> QED BY <2>2, <2>3, <2>7, <3>2, Zenon DEF Averaged
  <2>10. p >= 4 => get_ma(upside_down, n, 4) = 48 * axis - get_ma(prices, n, 4)
    <3> SUFFICES ASSUME p >= 4 PROVE get_ma(upside_down, n, 4) = 48 * axis - get_ma(prices, n, 4)
      OBVIOUS
    <3>1. 2 \in 0..3 /\ 2 < p /\ 3 \in 0..3 /\ 3 < p
      BY <1>3 DEF Periods
    <3>2. b[2] = 2 * axis - a[2] /\ b[3] = 2 * axis - a[3]
      BY <2>5, <3>1, Zenon
    <3> QED BY <2>2, <2>3, <2>7, <3>2, Zenon DEF Averaged
  <2>11. p = 2 \/ p = 3 \/ p = 4
    BY DEF Periods
  <2> QED BY <2>8, <2>9, <2>10, <2>11
<1>4. \A p \in Periods : Both(prices, k, p) <=> Both(upside_down, k, p)
  BY <1>1 DEF Both, CanCalculate
<1>5. \A p \in Periods : Both(prices, k, p) =>
         /\ get_ma(upside_down, k, p) = 48 * axis - get_ma(prices, k, p)
         /\ get_ma(upside_down, k - 1, p) = 48 * axis - get_ma(prices, k - 1, p)
  BY <1>3 DEF Both
<1>6. 48 * axis \in Int
  OBVIOUS
<1> QED BY <1>1, <1>4, <1>5, <1>6, OppositeAverages DEF upside_down

-----------------------------------------------------------------------------
(* The thread                                                              *)

\* No fork is at a bar that is not there.
LEMMA NoBarNoFork == ASSUME NEW prices \in Seq(Int), NEW k \in Int, k >= Len(prices)
                     PROVE  get_fork_signal(prices, k) = "nothing"
<1>1. ~Both(prices, k, minor(2))
  BY DEF Both, CanCalculate
<1>2. PairSignal(prices, k, 2) = "nothing"
  BY <1>1 DEF PairSignal
<1> QED BY <1>2, ForkCases

LEMMA TrendType == \A prices, k : get_trend_signal(prices, k) \in {"long", "short", "nothing"}
BY TrendCases DEF Trend

\* Each bar's fork is the one the prices up to now have at it; only a signal
\* that is no fork sends the thread on to look for a trend.
Order == [fork : Fork, bar : Int, price : Int]
SignalInv ==
    /\ candles_ \in Seq(Prices) /\ forks \in Seq(Signal) /\ Len(forks) = Len(candles_)
    /\ \A k \in Bars : forks[k + 1] = get_fork_signal(candles_, k)
    /\ candle_bar_read_pos \in Nat
    /\ pc \in {"ready", "fork", "trend", "advance", "trigger"}
    /\ action \in Signal \union {"long", "short"} /\ (pc = "trend" => action = "nothing")
    /\ orders \in Seq(Order)

LEMMA PricesAreNumbers ==
    ASSUME NEW prices \in Seq(Prices) PROVE prices \in Seq(Int) /\ Len(prices) \in Nat
<1>1. \A price \in Prices : price \in Int
  BY AverageAssumption
<1>2. Len(prices) \in Nat /\ \A k \in 1..Len(prices) : prices[k] \in Prices
  OBVIOUS
<1>3. prices = [k \in 1..Len(prices) |-> prices[k]]
  OBVIOUS
<1>4. prices \in [1..Len(prices) -> Int]
  BY <1>1, <1>2, <1>3
<1> QED BY <1>2, <1>4

LEMMA SignalPush == ASSUME SignalInv, push_bar PROVE SignalInv'
<1>1. PICK price \in Prices :
        /\ candles_' = Append(candles_, price)
        /\ forks' = Append(forks, get_fork_signal(candles_', Len(candles_)))
        /\ UNCHANGED <<initial_read_pos_flag, candle_bar_read_pos, pc, action, orders>>
  BY DEF push_bar
<1>2. /\ candles_ \in Seq(Prices) /\ candles_ \in Seq(Int) /\ Len(candles_) \in Nat
      /\ price \in Int /\ forks \in Seq(Signal) /\ Len(forks) = Len(candles_)
  BY PricesAreNumbers, AverageAssumption DEF SignalInv
<1>3. candles_' \in Seq(Prices) /\ candles_' \in Seq(Int) /\ Len(candles_') = Len(candles_) + 1
  BY <1>1, <1>2, AppendProperties
<1>4. get_fork_signal(candles_', Len(candles_)) \in Signal
  BY <1>2, <1>3, SignalType
<1>5. /\ forks' \in Seq(Signal) /\ Len(forks') = Len(forks) + 1
      /\ \A k \in 1..Len(forks) : forks'[k] = forks[k]
      /\ forks'[Len(forks) + 1] = get_fork_signal(candles_', Len(candles_))
  BY <1>1, <1>2, <1>4, AppendProperties
<1>6. ASSUME NEW k \in 0..Len(candles_') - 1
      PROVE  forks'[k + 1] = get_fork_signal(candles_', k)
  <2>1. CASE k = Len(candles_)
    BY <1>2, <1>5, <2>1
  <2>2. CASE k < Len(candles_)
    <3>1. k \in Bars /\ k + 1 \in 1..Len(forks)
      BY <1>2, <2>2 DEF Bars
    <3>2. get_fork_signal(candles_', k) = get_fork_signal(candles_, k)
      BY <1>1, <1>2, <2>2, OneMore
    <3> QED BY <1>5, <3>1, <3>2 DEF SignalInv
  <2> QED BY <1>2, <1>3, <2>1, <2>2
<1> QED BY <1>1, <1>2, <1>3, <1>5, <1>6 DEF SignalInv, Bars

LEMMA SignalStep == SignalInv /\ [Next]_vars => SignalInv'
<1> SUFFICES ASSUME SignalInv, [Next]_vars PROVE SignalInv'
  OBVIOUS
<1>0. candles_ \in Seq(Int) /\ candle_bar_read_pos \in Nat
  BY PricesAreNumbers DEF SignalInv
<1>1. CASE push_bar
  BY <1>1, SignalPush
<1>2. CASE is_basic_data_ready
  BY <1>2, Parameters DEF is_basic_data_ready, SignalInv, Bars
<1>3. CASE LookForFork
  BY <1>0, <1>3, SignalType DEF LookForFork, SignalInv, Bars
<1>4. CASE LookForTrend
  BY <1>4, TrendType DEF LookForTrend, SignalInv, Bars, Signal
<1>5. CASE Advance
  BY <1>5 DEF Advance, SignalInv, Bars
<1>6. CASE trigger_signal_action
  <2> DEFINE order == [fork |-> action, bar |-> candle_bar_read_pos - 1, price |-> get_limit_price]
  <2>1. action \in Fork => order \in Order
    BY <1>0, PriceType DEF Order, get_limit_price
  <2>2. orders \in Seq(Order) /\ (orders' = orders \/ (action \in Fork /\ orders' = Append(orders, order)))
    BY <1>6 DEF trigger_signal_action, Orders, Fork, SignalInv
  <2>3. orders' \in Seq(Order)
    <3> HIDE DEF order
    <3> QED BY <2>1, <2>2, AppendProperties
  <2> QED BY <1>6, <2>3 DEF trigger_signal_action, SignalInv, Bars, Signal
<1>7. CASE UNCHANGED vars
  BY <1>7 DEF vars, SignalInv, Bars
<1> QED BY <1>1, <1>2, <1>3, <1>4, <1>5, <1>6, <1>7 DEF Next

LEMMA SignalInit == Init => SignalInv
BY DEF Init, SignalInv, Bars, Signal

\* The fork a bar had when it came (CCandleBar::push_bar) is the one
\* get_fork_signal finds at it ever after; every variable keeps its type.
THEOREM ForksAreThePrices == Spec => []SignalInv
BY SignalInit, SignalStep, PTL DEF Spec

\* Prices upside down turn golden forks into dead ones and rises into falls,
\* and the other way round (the two halves of either loop).
THEOREM EitherHalfMirrors == Spec => []MirrorImage
<1>1. SignalInv => MirrorImage
  <2> SUFFICES ASSUME SignalInv, NEW axis \in Prices
               PROVE  /\ get_fork_signal(Mirror(candles_, axis), Newest) =
                            Opposite(get_fork_signal(candles_, Newest))
                      /\ get_trend_signal(Mirror(candles_, axis), Newest) =
                            Opposite(get_trend_signal(candles_, Newest))
    BY DEF MirrorImage
  <2>1. candles_ \in Seq(Int) /\ axis \in Int /\ Newest \in Int
    BY PricesAreNumbers, AverageAssumption DEF SignalInv, Newest
  <2> QED BY <2>1, UpsideDown
<1> QED BY <1>1, ForksAreThePrices, PTL

\* Bars that come later change no signal, so it makes no difference when the
\* thread looks at a bar that is there.
THEOREM NothingLooksAhead == Spec => NoLookAhead
<1> DEFINE Stays == \A k \in Bars : /\ get_fork_signal(candles_', k) = forks[k + 1]
                                    /\ get_trend_signal(candles_', k) = get_trend_signal(candles_, k)
<1>1. SignalInv /\ [Next]_vars => [candles_' # candles_ => Stays]_vars
  <2> SUFFICES ASSUME SignalInv, Next, candles_' # candles_, NEW k \in Bars
               PROVE  /\ get_fork_signal(candles_', k) = forks[k + 1]
                      /\ get_trend_signal(candles_', k) = get_trend_signal(candles_, k)
    OBVIOUS
  <2>1. push_bar
    BY DEF Next, is_basic_data_ready, LookForFork, LookForTrend, Advance, trigger_signal_action
  <2>2. PICK price \in Prices : candles_' = Append(candles_, price)
    BY <2>1 DEF push_bar
  <2>3. candles_ \in Seq(Int) /\ price \in Int /\ k \in Int /\ k < Len(candles_)
    BY PricesAreNumbers, AverageAssumption DEF SignalInv, Bars
  <2> QED BY <2>2, <2>3, OneMore DEF SignalInv
<1> QED BY <1>1, ForksAreThePrices, PTL DEF Spec, NoLookAhead

-----------------------------------------------------------------------------
(* The thread on prices implements the thread on forks: looking for a      *)
(* trend is a stutter, every other step is MaStrategy's of the same name.  *)

Looks == INSTANCE MaStrategyProofs WITH
    nodes <- <<Node>>, at <- 1,
    candles_ <- [n \in {Node} |-> forks],
    initial_read_pos_flag <- [n \in {Node} |-> initial_read_pos_flag],
    candle_bar_read_pos <- [n \in {Node} |-> candle_bar_read_pos],
    pc <- IF pc = "trend" THEN "advance" ELSE pc,
    action <- IF action \in {"long", "short"} THEN "nothing" ELSE action,
    orders <- [n \in {Node} |-> [j \in DOMAIN orders |->
                                   [fork |-> orders[j].fork, bar |-> orders[j].bar]]],
    late <- {<<Node, k>> : k \in late}

LEMMA OneNode ==
    /\ Looks!StrategyAssumption /\ Looks!Nodes = {Node} /\ Looks!Node = Node /\ Looks!NextAt = 1
<1>1. Looks!Nodes = {Node} /\ Looks!Node = Node /\ Len(<<Node>>) = 1
  BY DEF Looks!Nodes, Looks!Node
<1>2. <<Node>> \in Seq({Node}) /\ <<Node>> # <<>> /\ DOMAIN <<Node>> = {1}
  OBVIOUS
<1>3. period_max \in Nat \ {0} /\ MaxBars \in Nat
  BY Parameters, AverageAssumption
<1>4. (1 % 1) + 1 = 1
  OBVIOUS
<1> QED BY <1>1, <1>2, <1>3, <1>4 DEF Looks!StrategyAssumption, Looks!NextAt

LEMMA LooksInit == Init => Looks!Init
<1>1. [j \in DOMAIN <<>> |-> [fork |-> orders[j].fork, bar |-> orders[j].bar]] = <<>>
  OBVIOUS
<1> QED BY <1>1, OneNode DEF Init, Looks!Init

LEMMA LooksPush == ASSUME SignalInv, push_bar PROVE Looks!push_bar(Node)
<1>1. PICK price \in Prices :
        /\ Len(candles_) < MaxBars
        /\ candles_' = Append(candles_, price)
        /\ forks' = Append(forks, get_fork_signal(candles_', Len(candles_)))
        /\ late' = IF pc \in {"trend", "advance"} /\ candle_bar_read_pos = Len(candles_)
                   THEN late \union {Len(candles_)} ELSE late
        /\ UNCHANGED <<initial_read_pos_flag, candle_bar_read_pos, pc, action, orders>>
  BY DEF push_bar
<1> DEFINE v == get_fork_signal(candles_', Len(candles_))
<1>2. v \in Looks!Verdict
  <2>1. candles_' \in Seq(Int) /\ Len(candles_) \in Int
    BY <1>1, PricesAreNumbers, AverageAssumption, AppendProperties DEF SignalInv
  <2>2. v \in Signal
    BY <2>1, SignalType
  <2> QED BY <2>2 DEF Looks!Verdict, Looks!Forks, Signal, Fork
<1>3. forks' = Append(forks, v) /\ Len(forks) = Len(candles_)
  BY <1>1 DEF SignalInv
<1> HIDE DEF v
<1>4. Len([n \in {Node} |-> forks][Node]) < MaxBars
  BY <1>1, <1>3
<1>5. [n \in {Node} |-> forks'] = [[n \in {Node} |-> forks] EXCEPT ![Node] = Append(@, v)]
  BY <1>3
<1>6. {<<Node, k>> : k \in late'} =
         IF (IF pc = "trend" THEN "advance" ELSE pc) = "advance" /\ Looks!Node = Node
            /\ [n \in {Node} |-> candle_bar_read_pos][Node] = Len([n \in {Node} |-> forks][Node])
         THEN {<<Node, k>> : k \in late} \union {<<Node, Len([n \in {Node} |-> forks][Node])>>}
         ELSE {<<Node, k>> : k \in late}
  BY <1>1, <1>3, OneNode
<1> QED BY <1>1, <1>2, <1>4, <1>5, <1>6 DEF Looks!push_bar, Looks!thread

LEMMA LooksReady == ASSUME SignalInv, is_basic_data_ready PROVE Looks!Ready
BY OneNode DEF is_basic_data_ready, SignalInv, Looks!Ready, Looks!Enough

LEMMA LooksFork == ASSUME SignalInv, LookForFork PROVE Looks!get_fork_signal
<1>1. action' \in Signal
  BY PricesAreNumbers, SignalType DEF LookForFork, SignalInv
<1>2. Looks!ForkAt(Node, candle_bar_read_pos) = action'
  <2>1. candles_ \in Seq(Int) /\ Len(candles_) \in Nat /\ candle_bar_read_pos \in Nat
    BY PricesAreNumbers DEF SignalInv
  <2>2. CASE candle_bar_read_pos < Len(candles_)
    BY <2>1, <2>2 DEF LookForFork, SignalInv, Bars, Looks!ForkAt
  <2>3. CASE candle_bar_read_pos >= Len(candles_)
    BY <2>1, <2>3, NoBarNoFork DEF LookForFork, SignalInv, Looks!ForkAt
  <2> QED BY <2>1, <2>2, <2>3
<1> QED BY <1>1, <1>2, OneNode DEF LookForFork, Looks!get_fork_signal, Signal, Fork

LEMMA LooksTrend == ASSUME SignalInv, LookForTrend PROVE UNCHANGED Looks!vars
<1>1. action' \in {"long", "short", "nothing"} /\ action = "nothing"
  BY TrendType DEF LookForTrend, SignalInv
<1> QED BY <1>1 DEF LookForTrend, Looks!vars, Looks!thread

LEMMA LooksAdvance == ASSUME SignalInv, Advance PROVE Looks!get_signal
BY OneNode DEF Advance, SignalInv, Looks!get_signal, Looks!BarThere

\* Orders without their prices.
Unpriced(placed) == [j \in DOMAIN placed |-> [fork |-> placed[j].fork, bar |-> placed[j].bar]]

LEMMA UnpricedAppend ==
    ASSUME NEW placed \in Seq(Order), NEW order \in Order
    PROVE  /\ Unpriced(Append(placed, order)) =
                Append(Unpriced(placed), [fork |-> order.fork, bar |-> order.bar])
<1> DEFINE n == Len(placed)
           O == [fork : Fork, bar : Int]
           longer == Append(placed, order)
           last == [fork |-> order.fork, bar |-> order.bar]
<1>1. /\ n \in Nat /\ DOMAIN placed = 1..n /\ DOMAIN longer = 1..n + 1
      /\ longer[n + 1] = order /\ \A j \in 1..n : longer[j] = placed[j]
      /\ \A j \in 1..n : placed[j] \in Order
  BY AppendProperties
<1>2. last \in O
  BY DEF Order
<1>3. Unpriced(placed) \in [1..n -> O]
  BY <1>1 DEF Unpriced, Order
<1>4. Unpriced(placed) \in Seq(O) /\ Len(Unpriced(placed)) = n
  <2> HIDE DEF O, n
  <2> QED BY <1>1, <1>3
<1>5. /\ DOMAIN Append(Unpriced(placed), last) = 1..n + 1
      /\ Append(Unpriced(placed), last)[n + 1] = last
      /\ \A j \in 1..n : Append(Unpriced(placed), last)[j] = Unpriced(placed)[j]
      /\ Append(Unpriced(placed), last) \in Seq(O)
  <2> HIDE DEF O, n, last
  <2> QED BY <1>1, <1>2, <1>4, AppendProperties
<1>6. Unpriced(longer) = [j \in 1..n + 1 |-> Append(Unpriced(placed), last)[j]]
  <2> HIDE DEF n, longer
  <2>1. \A j \in 1..n + 1 : j \in 1..n \/ j = n + 1
    BY <1>1
  <2>2. \A j \in 1..n : Unpriced(placed)[j] = [fork |-> placed[j].fork, bar |-> placed[j].bar]
    BY <1>1 DEF Unpriced
  <2>3. \A j \in 1..n + 1 : [fork |-> longer[j].fork, bar |-> longer[j].bar] =
                              Append(Unpriced(placed), last)[j]
    BY <1>1, <1>5, <2>1, <2>2
  <2> QED BY <1>1, <2>3 DEF Unpriced
<1> DEFINE appended == Append(Unpriced(placed), last)
<1>7. appended = [j \in 1..n + 1 |-> appended[j]]
  <2>1. appended \in Seq(O) /\ DOMAIN appended = 1..n + 1
    BY <1>5
  <2> HIDE DEF appended, n, O
  <2> QED BY <2>1
<1> QED BY <1>6, <1>7

LEMMA LooksTrigger == ASSUME SignalInv, trigger_signal_action PROVE Looks!trigger_signal_action
<1> DEFINE order == [fork |-> action, bar |-> candle_bar_read_pos - 1, price |-> get_limit_price]
           mapped == IF action \in {"long", "short"} THEN "nothing" ELSE action
<1>1. mapped \in Looks!Forks <=> action \in Fork
  BY DEF SignalInv, Signal, Fork, Looks!Forks
<1>2. action \in Fork => mapped = action /\ orders' = Append(orders, order)
  BY DEF trigger_signal_action, Orders, Fork
<1>3. action \notin Fork => orders' = orders
  BY DEF trigger_signal_action, Orders, Fork
<1>4. action \in Fork => order \in Order
  BY PricesAreNumbers, PriceType DEF Order, get_limit_price, SignalInv
<1>5. action \in Fork =>
        Unpriced(orders') = Append(Unpriced(orders), [fork |-> action, bar |-> candle_bar_read_pos - 1])
  BY <1>2, <1>4, UnpricedAppend DEF SignalInv
<1> QED BY <1>1, <1>2, <1>3, <1>5, OneNode
        DEF trigger_signal_action, Looks!trigger_signal_action, Looks!limit_bar, Unpriced

LEMMA LooksStep == SignalInv /\ [Next]_vars => [Looks!Next]_(Looks!vars)
<1> SUFFICES ASSUME SignalInv, [Next]_vars PROVE [Looks!Next]_(Looks!vars)
  OBVIOUS
<1>1. UNCHANGED vars => UNCHANGED Looks!vars
  BY DEF vars, Looks!vars, Looks!thread
<1> QED BY <1>1, OneNode, LooksPush, LooksReady, LooksFork, LooksTrend, LooksAdvance, LooksTrigger
        DEF Next, Looks!Next, Looks!IndicatorThread

\* Every step of the thread on prices is one of the thread on forks, or none.
THEOREM LooksRefined == Spec => Looks!Spec
BY LooksInit, LooksStep, ForksAreThePrices, PTL DEF Spec, Looks!Spec

LEMMA SameStrategy == Strategy!Spec <=> Looks!Spec
BY PTL DEF
    Strategy!Nodes, Strategy!Forks, Strategy!Verdict, Strategy!thread, Strategy!vars,
    Strategy!Node, Strategy!NextAt, Strategy!Init, Strategy!push_bar, Strategy!Enough,
    Strategy!NotReady, Strategy!Ready, Strategy!ForkAt, Strategy!get_fork_signal,
    Strategy!BarThere, Strategy!get_signal, Strategy!limit_bar,
    Strategy!trigger_signal_action, Strategy!IndicatorThread, Strategy!Next, Strategy!Spec,
    Looks!Nodes, Looks!Forks, Looks!Verdict, Looks!thread, Looks!vars,
    Looks!Node, Looks!NextAt, Looks!Init, Looks!push_bar, Looks!Enough,
    Looks!NotReady, Looks!Ready, Looks!ForkAt, Looks!get_fork_signal,
    Looks!BarThere, Looks!get_signal, Looks!limit_bar,
    Looks!trigger_signal_action, Looks!IndicatorThread, Looks!Next, Looks!Spec

\* The thread on prices is MaStrategy's, its bars the forks there are at
\* them: a fork does not depend on when the thread looks at its bar.
THEOREM PricesImplementForks == Spec => ImplementsMaStrategy
BY LooksRefined, SameStrategy DEF ImplementsMaStrategy

LEMMA LooksFacts == Spec => []Looks!LookInv
<1>1. Looks!Spec => []Looks!LookInv
  BY Looks!LooksInvariant, OneNode
<1> QED BY <1>1, LooksRefined, PTL

\* So the forks of the prices are traded once each, in the order of time, and
\* all the thread is past, but for those of a bar that came between two looks.
THEOREM PricesForksTraded == Spec => [](Strategy!OneOrderPerFork /\ Strategy!ForksTraded)
<1>1. Looks!LookInv => Looks!OneOrderPerFork /\ Looks!ForksTraded
  BY DEF Looks!LookInv
<1>2. Looks!OneOrderPerFork <=> Strategy!OneOrderPerFork
  BY DEF Looks!OneOrderPerFork, Strategy!OneOrderPerFork, Looks!Nodes, Strategy!Nodes
<1>3. Looks!ForksTraded <=> Strategy!ForksTraded
  BY DEF Looks!ForksTraded, Strategy!ForksTraded, Looks!Nodes, Strategy!Nodes, Looks!Passed,
         Strategy!Passed, Looks!Traded, Strategy!Traded, Looks!Node, Strategy!Node,
         Looks!Forks, Strategy!Forks
<1> QED BY <1>1, <1>2, <1>3, LooksFacts, PTL

-----------------------------------------------------------------------------
(* What the orders are priced at                                           *)

\* What get_limit_price read is what it would read now.
PricesHold == \A j \in DOMAIN orders : orders[j].price = get_price(candles_, orders[j].bar)

LEMMA OrderOfABar ==
    ASSUME Looks!LookInv, NEW j \in DOMAIN orders
    PROVE  orders[j].bar \in Nat /\ orders[j].bar < Len(forks) /\ forks[orders[j].bar + 1] = orders[j].fork
<1> DEFINE mapped == [n \in {Node} |-> Unpriced(orders)]
<1>1. j \in DOMAIN mapped[Node] /\ mapped[Node][j] = [fork |-> orders[j].fork, bar |-> orders[j].bar]
  BY DEF Unpriced
<1>2. mapped \in [{Node} -> Seq([fork : Looks!Forks, bar : Nat])]
  BY OneNode DEF Looks!LookInv, Looks!TypeOK, Unpriced
<1>3. Unpriced(orders) \in Seq([fork : Looks!Forks, bar : Nat]) /\ j \in DOMAIN Unpriced(orders)
      /\ Unpriced(orders)[j] = [fork |-> orders[j].fork, bar |-> orders[j].bar]
  BY <1>1, <1>2
<1>4. orders[j].bar \in Nat
  <2> DEFINE unpriced == Unpriced(orders)
  <2>1. unpriced[j] \in [fork : Looks!Forks, bar : Nat]
    <3> HIDE DEF unpriced
    <3> QED BY <1>3 DEF unpriced
  <2> QED BY <1>3, <2>1
<1>5. orders[j].bar < Len(forks) /\ forks[orders[j].bar + 1] = orders[j].fork
  BY OneNode DEF Looks!LookInv, Looks!PricedAtTheFork
<1> QED BY <1>4, <1>5

LEMMA PricesStep == SignalInv /\ Looks!LookInv /\ PricesHold /\ [Next]_vars => PricesHold'
<1> SUFFICES ASSUME SignalInv, Looks!LookInv, PricesHold, [Next]_vars PROVE PricesHold'
  OBVIOUS
<1>0. candles_ \in Seq(Int) /\ Len(candles_) \in Nat /\ Len(forks) = Len(candles_)
  BY PricesAreNumbers DEF SignalInv
<1>1. CASE push_bar
  <2>1. PICK price \in Prices : candles_' = Append(candles_, price) /\ orders' = orders
    BY <1>1 DEF push_bar
  <2>2. price \in Int
    BY AverageAssumption
  <2>3. /\ Len(candles_') = Len(candles_) + 1
        /\ \A k \in 1..Len(candles_) : candles_'[k] = candles_[k]
    BY <1>0, <2>1, <2>2, AppendProperties
  <2>4. \A k \in Nat : k < Len(candles_) => get_price(candles_', k) = get_price(candles_, k)
    BY <1>0, <2>3 DEF get_price
  <2> QED BY <1>0, <2>1, <2>4, OrderOfABar DEF PricesHold
<1>2. CASE trigger_signal_action
  <2> DEFINE order == [fork |-> action, bar |-> candle_bar_read_pos - 1, price |-> get_limit_price]
  <2>1. candles_' = candles_ /\ (orders' = orders \/ (action \in Fork /\ orders' = Append(orders, order)))
    BY <1>2 DEF trigger_signal_action, Orders, Fork
  <2>2. CASE orders' = orders
    BY <2>1, <2>2 DEF PricesHold
  <2>3. CASE action \in Fork /\ orders' = Append(orders, order)
    <3>1. order \in Order /\ order.price = get_price(candles_, order.bar)
      BY <1>0, <2>3, PriceType DEF Order, get_limit_price, SignalInv
    <3> HIDE DEF order
    <3>2. orders \in Seq(Order)
      BY DEF SignalInv
    <3>3. /\ DOMAIN orders = 1..Len(orders) /\ DOMAIN orders' = 1..Len(orders) + 1
          /\ Len(orders) \in Nat /\ orders'[Len(orders) + 1] = order
          /\ \A j \in 1..Len(orders) : orders'[j] = orders[j]
      BY <2>3, <3>1, <3>2, AppendProperties
    <3> QED BY <2>1, <3>1, <3>3 DEF PricesHold
  <2> QED BY <2>1, <2>2, <2>3
<1>3. CASE ~push_bar /\ ~trigger_signal_action
  BY <1>3 DEF Next, is_basic_data_ready, LookForFork, LookForTrend, Advance, vars, PricesHold
<1> QED BY <1>1, <1>2, <1>3

\* An order's price is the close of the very bar its fork is at.
THEOREM OrdersAtTheClose == Spec => []OrderedAtClose
<1>1. Init => PricesHold
  BY DEF Init, PricesHold
<1>2. Spec => []PricesHold
  BY <1>1, PricesStep, ForksAreThePrices, LooksFacts, PTL DEF Spec
<1>3. SignalInv /\ Looks!LookInv /\ PricesHold => OrderedAtClose
  BY PricesAreNumbers, OrderOfABar DEF SignalInv, PricesHold, OrderedAtClose, Bars, get_price
<1> QED BY <1>2, <1>3, ForksAreThePrices, LooksFacts, PTL
=============================================================================
